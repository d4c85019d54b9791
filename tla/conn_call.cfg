SPECIFICATION FairSpec
CONSTANTS
    FirstLoop = "ReceiveLoop"
    SecondLoop = FALSE
    Calls = {a, b, c}
    Streams = {}
    StreamLen = 0
    MaxBreaks = 1
CHECK_DEADLOCK FALSE
INVARIANTS NoLeakedEntry CallNeverBlocksLoop
PROPERTIES CallsReturn
