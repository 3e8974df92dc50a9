SPECIFICATION AllSpec
CONSTANTS
    None = None
    Rule = {"cpu"}
    External = {}
    Need = 1
    Resolve = 1
    Seen = {"nodata", "stale", "ok", "wobble", "breach"}
    MaxAlerts = 2
    MaxTime = 1
    MaxMishaps = 1
    ResumeClosed = FALSE
INVARIANTS
    TypesOK   OneOngoing  Accounted Budgets
    NoRepeatWhenCalm ClaimHoldsStill ClaimBacked  RefsResolve 
    ServersComeBack
CHECK_DEADLOCK FALSE
