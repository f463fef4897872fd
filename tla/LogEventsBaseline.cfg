SPECIFICATION Spec
CONSTANTS
    None = None
    s1 = s1
    s2 = s2
    r1 = r1
    r2 = r2
    Streams = {s1, s2}
    Readers = {r1, r2}
    MaxEntries = 3
    Settings <- FailingEndpoint
SYMMETRY Interchangeable
INVARIANT BaselineIsSilent
