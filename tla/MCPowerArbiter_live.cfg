SPECIFICATION FairSpec
CONSTANTS
    Run = {bench}
    Panel = {}
    Sample <- MCSample
    Mode = {"full", "observe"}
    Dwell = 1
    Cap = 1
    UnknownMax = 2
    MaxGen = 2
    MaxMishaps = 1

PROPERTIES Settles
CHECK_DEADLOCK FALSE
