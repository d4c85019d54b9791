SPECIFICATION Spec
CONSTANTS
    Nodes = {a}
    NoNode = NoNode
    MaxConns = 3
    MaxCrashes = 2
    EarlyCrash = TRUE
    PromptExit = FALSE
    Slow = TRUE
    Services = TRUE
CHECK_DEADLOCK FALSE
INVARIANTS TypeOK OneSupervisor ClosesOwnConnection NoOrphans WatchedUnlessLost
