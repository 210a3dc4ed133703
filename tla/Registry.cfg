CONSTANTS
    d1 = d1
    d2 = d2
    d3 = d3
    t1 = t1
    t2 = t2
    t3 = t3
    h1 = h1
    h2 = h2
    alice = alice
    None = None
    Documents = {d1, d2, d3}
    Threads = {t1, t2, t3}
    Handlers = {h1, h2}
    Subjects = {alice}
    MaxOpen = 2
    MaxCreated = 3
    MaxFaults = 1

SPECIFICATION FairSpec

INVARIANTS
    TypeOK
    OneThreadPerDocument
    HeldIsCurrent
    QuotaIsKept
    KnownIsOwned

PROPERTIES
    RefusalLifts

CHECK_DEADLOCK FALSE
