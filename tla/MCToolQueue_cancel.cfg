SPECIFICATION MCSpec
CONSTANTS
    Job = {"bench", "tune", "card"}
    NoJob = "nobody"
    Other = "somebody"
    Host = {"h"}
    HostOf <- MCHostOf
    Card = {"card"}
    Staged = {"bench"}
    Workers = 2
    MaxQueued = 2
    MaxCrashes = 1
INVARIANT CancelStopsRun
CHECK_DEADLOCK FALSE
