SPECIFICATION LSpec
CONSTANTS
    None = None
    x = x
    y = y
    Req = {1, 2}
    Provider = {"llama", "lms"}
    Fallback = "llama"
    PoolOf <- MCPoolOf
    Limit = 1
    MaxAges = 1
CHECK_DEADLOCK FALSE
INVARIANTS Conserved StartedOnce RunHasKeeper
PROPERTIES  RefreshEnds WaitersRun  EventuallyDelivered
