SPECIFICATION Spec
CONSTANTS
    Rule = {"cpu"}
    External = {}
    Need = 2
    Resolve = 1
    Seen = {"nodata", "stale", "ok", "wobble", "breach"}
    MaxAlerts = 2
    MaxTime = 2
    MaxMishaps = 1
    ResumeClosed = FALSE
CHECK_DEADLOCK FALSE
PROPERTY DisabledStaysOff
