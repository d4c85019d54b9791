SPECIFICATION Spec
CONSTANTS
    FirstLoop = "ReceiveLoopChan"
    SecondLoop = TRUE
    Calls = {}
    Streams = {s, t}
    StreamLen = 2
    MaxBreaks = 1
CHECK_DEADLOCK FALSE
INVARIANTS NoLeakedEntry
