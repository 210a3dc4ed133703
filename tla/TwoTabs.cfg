CONSTANTS
    t1 = t1
    t2 = t2
    alice = alice
    Tabs = {t1, t2}
    Actors = {alice}
    ActorOf <- SharedActor
    SubmitLimit = 1
    FramesPerTick = 2
    MaxRefusalRecoveries = 2
    MaxAuthored = 2
    MaxDrops = 1
    MaxStoreFailures = 0
    MaxInFlight = 3

SYMMETRY TabSymmetry

SPECIFICATION Spec

INVARIANTS
    TypedIsNeverLost

CHECK_DEADLOCK FALSE
