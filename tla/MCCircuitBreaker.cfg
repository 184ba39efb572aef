CONSTANTS
    c1 = c1
    c2 = c2
    c3 = c3
    Callers <- MCCallers
    MaxRequestsCfg = 2
    Timeout = 1
    TripThreshold = 2

SPECIFICATION Spec

INVARIANT TypeOK

PROPERTY ImplementsSpec
PROPERTY Recovers
