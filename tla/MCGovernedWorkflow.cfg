SPECIFICATION Spec
CONSTANTS
    a1 = a1
    s1 = s1
    s2 = s2
    s3 = s3
    v1 = v1
    v2 = v2
    NoVersion = NoVersion
    Approvals = {a1}
    Sessions = {s1, s2, s3}
    Versions = {v1, v2}
    MaxChanges = 2
SYMMETRY Symmetry
INVARIANTS
    TypeOK
    MergedWasVetted
    PinnedHeadOnly
    ApprovalWasVetted
    CompleteIsDone
    ActiveHasRun
PROPERTIES
    CallSpec
\* Requests are finite here: the system stops when all are answered.
CHECK_DEADLOCK FALSE
