SPECIFICATION Spec
CONSTANTS
    m1 = m1
    a1 = a1
    a2 = a2
    r1 = r1
    r2 = r2
    r3 = r3
    r4 = r4
    Missions = {m1}
    Approvals = {a1, a2}
    Requests = {r1, r2, r3}
    MissionOf <- MCMissionOf
    Governed <- MCGoverned
INVARIANTS
    ResolvedOnce
\* Requests are finite here: the system stops when all are answered.
CHECK_DEADLOCK FALSE
