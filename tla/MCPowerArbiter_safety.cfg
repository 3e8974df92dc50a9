SPECIFICATION Spec
CONSTANTS
    Run = {bench}
    Panel = {user}
    Sample <- MCSample
    Mode = {"full", "disabled"}
    Dwell = 1
    Cap = 1
    UnknownMax = 2
    MaxGen = 2
    MaxMishaps = 0
INVARIANTS OneWriter HoldsFit
PROPERTIES VerifiedIsTrue
CHECK_DEADLOCK FALSE
VIEW MCView
