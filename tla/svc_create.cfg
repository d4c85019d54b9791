SPECIFICATION FairSpec
CONSTANTS
    Requests = {p, q, i}
    Pings = {p, q}
    MaxFaults = 1
CHECK_DEADLOCK FALSE
INVARIANTS TypeOK  GatewaySurvives 
PROPERTIES OffersConfirmed RequestEnds RecordedIsServed
