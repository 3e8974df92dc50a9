SPECIFICATION SSpec
CONSTANTS
    None = None
    Rule = {"cpu", "grafana"}
    External = {"grafana"}
    Need = 2
    Resolve = 1
    Seen = {"stale", "ok", "wobble", "breach"}
    MaxAlerts = 1
    MaxTime = 1
    ResumeClosed = TRUE
    MaxMishaps = 0
PROPERTIES  RecoveryCloses Converges
CHECK_DEADLOCK FALSE
