SPECIFICATION CommandSpec
CONSTANTS
    r1 = r1
    r2 = r2
    r3 = r3
    c1 = c1
    c2 = c2
    k1 = k1
    t1 = t1
    Requests = {r1, r2, r3}
    Configs = {c1, c2}
    Commands = {k1}
    Targets = {t1}
    None = None
    Overlapping = TRUE
    Malformed = TRUE
SYMMETRY Interchangeable
INVARIANT TypeOK
INVARIANT ActiveIsLive
INVARIANT NoOrphanPoller
INVARIANT NoLeakedClient
INVARIANT Inv
INVARIANT CommandTypeOK
PROPERTY OutcomeRecorded
PROPERTY StateProvenance
PROPERTY ImplementsLifecycle
PROPERTY ActiveConfigDecides
