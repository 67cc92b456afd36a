SPECIFICATION Spec
CONSTANTS
    m1 = m1
    m2 = m2
    Poison = Poison
    Missions = {m1}
    Faulty = {}
    BatchSize = 2
    MaxStray = 0
    MaxDecisions = 1
INVARIANTS
    RoutedReachesExecutor
\* Commands are finite here: the loops end up blocked in XREADGROUP.
CHECK_DEADLOCK FALSE
