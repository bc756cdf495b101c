CONSTANTS
    S = 2
    None = None
    COOL = 2
    CAP = 3
    INTERVAL = 2
    SKEW = 1
    MaxEvents = 2
SPECIFICATION FairSpec
INVARIANTS TypeOK LoginsBounded
PROPERTIES GateReturns Observed
