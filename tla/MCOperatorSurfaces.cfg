SPECIFICATION MCSpec
CONSTANTS
    Approvals = {1, 2}
    Findings = {1}
    Missions = {1}
    Urgent <- MCUrgent
    Kinds <- MCKinds
    w1 = w1
    w2 = w2
    Webhooks = {w1, w2}
    MaxFaults = 1
    MaxChanges = 3
    MaxUpdates = 2
INVARIANTS TypeOK AnswersAreTrue
PROPERTIES FocusIsWhatWasHeard RequestedAsReadBack EveryTurnAnswered
CHECK_DEADLOCK FALSE
