SPECIFICATION MCSpec
CONSTANTS
    a1 = a1
    d1 = d1
    w1 = w1
    m1 = m1
    n1 = n1
    p1 = p1
    p2 = p2
    r1 = r1
    r2 = r2
    Approvals = {a1}
    Probes = {d1}
    Workers = {w1}
    Missions = {m1}
    Notes = {n1}
    Patches = {p1, p2}
    Conditions <- MCConditions
    Runs = {r1, r2}
    RemindersEnabled = FALSE
    FIRST = 1
    REPEAT = 1
    ESCALATION = 1
    MAX_ATTEMPTS = 0
    AGING = 0
    STALE = 1
    WINDOW = 1
    DIRECT = 1
    ESTIMATED = 1
    UNKNOWN = 1
    CONCENTRATION = 80
    MIN_EVENTS = 2
    MIN_AGE = 1
    NO_ACTIVITY = 1
    GAP = 1
    MaxTime = 3
    MaxFaults = 1
    MaxChanges = 3
    MaxReceipts = 2
PROPERTIES
    FindingsConverge
    ReportedInTheEnd
    ArchivesTold
