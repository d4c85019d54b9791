SPECIFICATION FairSpec
CONSTANTS
    FirstLoop = "ReceiveLoopChan"
    SecondLoop = FALSE
    Calls = {a}
    Streams = {s, t}
    StreamLen = 2
    MaxBreaks = 1
CHECK_DEADLOCK FALSE
INVARIANTS TypeOK StrayOnlyAfterGivingUp 
PROPERTIES StreamsEnd
