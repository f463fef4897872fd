SPECIFICATION Spec
CONSTANTS
    i1 = i1
    Interfaces = {i1}
    Settings <- AllSettings
    MaxClock = 3
    MaxSessions = 2
INVARIANT TypeOK
INVARIANT TrafficAccounted
PROPERTY RateBounded
