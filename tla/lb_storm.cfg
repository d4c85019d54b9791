SPECIFICATION Spec
CONSTANTS
    Requests = {r}
    Gateways = {g}
    Hello = hello
    StreamLen = 1
    MaxConns = 2
    MaxJobs = 3
    MayLeave = FALSE
    MayCut = FALSE
    MayRestart = TRUE
    Slow = FALSE
CHECK_DEADLOCK FALSE
INVARIANTS AskedForOnce
