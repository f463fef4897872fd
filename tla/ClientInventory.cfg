SPECIFICATION Spec
CONSTANTS
    None = None
    h1 = h1
    h2 = h2
    t1 = t1
    t2 = t2
    Hosts = {h1, h2}
    Texts = {t1, t2}
    Networks <- Pairs
INVARIANT TypeOK
INVARIANT OneEntityPerClient
INVARIANT ClientStatusDelivered
INVARIANT NoFalseOffline
