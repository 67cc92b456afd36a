SPECIFICATION FairSpec
CONSTANTS
    m1 = m1
    m2 = m2
    Missions = {m1}
    Poison = Poison
    MaxMessages = 2
    BatchSize = 2
    MaxStages = 2
INVARIANTS
    TypeOK
    AckedIsRecorded
    StagesProven
    LeftOnlyByFault
PROPERTIES
    ContractSpec
    EveryEntrySettled
\* The entries are finite here: the loop ends up blocked in XREADGROUP.
CHECK_DEADLOCK FALSE
