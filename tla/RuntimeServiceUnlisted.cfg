SPECIFICATION Spec
CONSTANTS
    r1 = r1
    r2 = r2
    r3 = r3
    c1 = c1
    Requests = {r1, r2, r3}
    Configs = {c1}
    None = None
    Overlapping = TRUE
    Malformed = FALSE
SYMMETRY Interchangeable
INVARIANT PolledIsListed
