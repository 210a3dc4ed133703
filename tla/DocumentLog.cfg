CONSTANTS
    Services = {s1, s2}
    Actors = {alice, bob}
    None = None
    MaxCommits = 2
    MaxFaults = 2
    MaxSeq = 2
    Batches <- MCBatches

SYMMETRY MCSymmetry

SPECIFICATION Spec

INVARIANTS
    TypeOK
    HeadIsLoadable
    AcknowledgedSurvives
    ServedIsCommitted
    CommitSeqNamesHistory

PROPERTIES
    ImplementsPromise

CHECK_DEADLOCK FALSE
