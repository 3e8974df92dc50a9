SPECIFICATION Spec
CONSTANTS
    Agent = {a1, a2}
    Capable = {a1, a2}
    None = None
    MaxSaves = 4
    MaxDamage = 1
    MaxRestarts = 1
INVARIANT SurvivesCrash
CHECK_DEADLOCK FALSE
