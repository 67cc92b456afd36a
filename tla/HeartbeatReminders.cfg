SPECIFICATION MCSpec
CONSTANTS
    a1 = a1
    d1 = d1
    d2 = d2
    r1 = r1
    r2 = r2
    Approvals = {a1}
    Conditions = {d1, d2}
    Runs = {r1, r2}
    RemindersEnabled = TRUE
    FIRST = 1
    REPEAT = 1
    ESCALATION = 3
    MAX_ATTEMPTS = 2
    AGING = 3
    MaxTime = 3
    MaxFaults = 1
    MaxChanges = 1
INVARIANTS
    RemindersSpaced
    TextsOnRecord
PROPERTIES
    PendingIsEscalated
