SPECIFICATION MCSpec
CONSTANTS
    a1 = a1
    a2 = a2
    c1 = c1
    c2 = c2
    None = None
    Alert = {a1, a2}
    Policy = {"p1"}
    Channel = {c1, c2}
    Enabled = {c1}
    Matches <- MCMatches
    ChannelsOf <- MCChannelsOf
    MinCount <- MCMinCount
    Repeats = {"p1"}
    OnClear = {"p1"}
    PerIncident = TRUE
    Slots = 1
    MaxReady = 1
    MaxActs = 1
CHECK_DEADLOCK FALSE
PROPERTIES OneVoice Heard
