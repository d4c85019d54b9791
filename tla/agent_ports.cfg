SPECIFICATION Spec
CONSTANTS
    Ms = {m, n}
    Pings = {m}
    None = None
    Recoverer = Recoverer
    PortSpace = 2
    MaxConns = 3
    MaxFaults = 1
    MaxLives = 2
CHECK_DEADLOCK FALSE
INVARIANTS PortsApart
