SPECIFICATION FairSpec
CONSTANTS
    Pings = {p}
    Idles = {i}
    Workers = {v, w}
    None = none
    StreamLen = 3
    QueueCap = 1
    RespCap = 1
    MaxBreaks = 1
    MayRefuse = TRUE
CHECK_DEADLOCK FALSE
INVARIANTS TypeOK LoopNotWedged 
PROPERTIES  LiveClientServed LoopComesBack
