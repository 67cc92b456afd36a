SPECIFICATION FairSpec
CONSTANTS
    QueueSize = 2
    BridgeSize = 1
    MaxCommits = 2
    MaxFetches = 1
    MaxFaults = 1
INVARIANTS
    TimelineComplete
\* Commits are finite here: a live client comes to rest.
CHECK_DEADLOCK FALSE
PROPERTIES
    EventShown
    OfflineConverges
