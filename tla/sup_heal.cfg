SPECIFICATION FairSpec
CONSTANTS
    Nodes = {a, l}
    NoNode = NoNode
    MaxConns = 4
    MaxCrashes = 2
    EarlyCrash = FALSE
    PromptExit = TRUE
    Slow = FALSE
    Services = FALSE
CHECK_DEADLOCK FALSE
PROPERTIES HealsItself ServedIsRecovered
