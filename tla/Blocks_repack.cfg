SPECIFICATION BSpec
CONSTANTS
    Stale = 77
    Configs <- RepackConfigs
    MaxCall = 6
    Delays = {0, 1, 3}
    MaxChanges = 2
    MaxSource = 12
INVARIANT
    PacketStartsFresh
CHECK_DEADLOCK FALSE
