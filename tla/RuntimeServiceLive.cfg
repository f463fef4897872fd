SPECIFICATION FairSpec
CONSTANTS
    r1 = r1
    r2 = r2
    r3 = r3
    c1 = c1
    c2 = c2
    Requests = {r1, r2, r3}
    Configs = {c1, c2}
    None = None
    Overlapping = FALSE
    Malformed = TRUE
INVARIANT Coherent
PROPERTY RequestsTerminate
PROPERTY PollingContinues
PROPERTY StaleStateHeals
PROPERTY ImplementsFairLifecycle
