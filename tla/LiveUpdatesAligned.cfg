SPECIFICATION Spec
CONSTANTS
    QueueSize = 2
    BridgeSize = 1
    MaxCommits = 2
    MaxFetches = 1
    MaxFaults = 0
INVARIANTS
    StaysAligned
