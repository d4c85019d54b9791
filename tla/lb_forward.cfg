SPECIFICATION Spec
CONSTANTS
    Requests = {r, s}
    Gateways = {g}
    Hello = hello
    StreamLen = 2
    MaxConns = 2
    MaxJobs = 2
    MayLeave = TRUE
    MayCut = TRUE
    MayRestart = TRUE
    Slow = TRUE
SYMMETRY Symmetry
CHECK_DEADLOCK FALSE
INVARIANTS TypeOK ForwardedInOrder WorkedForOnce LoopReadsServed LoopWaitsForReaders NobodyWaitsInVain
