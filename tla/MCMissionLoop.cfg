SPECIFICATION MCSpec
CONSTANTS
    m1 = m1
    m2 = m2
    Poison = Poison
    Missions = {m1}
    Faulty = {m1, Poison}
    BatchSize = 2
    MaxStray = 1
    MaxDecisions = 1
INVARIANTS
    NeverForgotten
    CompleteHasReceipt
PROPERTIES
    GateSpec
    FinishedStays
    EveryCommandSettled
\* Commands are finite here: the loops end up blocked in XREADGROUP.
CHECK_DEADLOCK FALSE
