SPECIFICATION FairSpec
CONSTANTS
    Pings = {p}
    Idles = {}
    Workers = {v}
    None = none
    StreamLen = 0
    QueueCap = 1
    RespCap = 1
    MaxBreaks = 1
    MayRefuse = FALSE
CHECK_DEADLOCK FALSE
PROPERTIES EveryRequestEnds
