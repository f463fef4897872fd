SPECIFICATION Spec
CONSTANTS
    None = None
    r1 = r1
    r2 = r2
    Items <- TwoItems
    Readers = {r1, r2}
    Settings <- FailingEndpoint
    MaxVersion = 3
INVARIANT TransitionsDelivered
