CONSTANTS
    a = a
    b = b
    s1 = s1
    s2 = s2
    m1 = m1
    m2 = m2
    m3 = m3
    head = head
    j1 = j1
    None = None
    Tabs = {a, b}
    Snapshots = {s1, s2}
    Manifests = {m1, m2, m3}
    SnapshotOf <- MCSnapshotOf
    ParentOf <- MCParentOf
    Head = head
    Sessions = {j1}
    MaxFrame = 1
    MaxSeq = 4

SPECIFICATION FairSpec

INVARIANTS
    TypeOK
    NoDanglingHead
    MemoryIsDurablePlusPending

PROPERTIES
    WholeCopies
    EventuallyDurable
