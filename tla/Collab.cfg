CONSTANTS
    t1 = t1
    t2 = t2
    Tabs = {t1, t2}
    Actors = {t1, t2}
    ActorOf <- OwnActor
    SubmitLimit = 2
    FramesPerTick = 2
    MaxRefusalRecoveries = 2
    MaxAuthored = 2
    MaxDrops = 1
    MaxStoreFailures = 2
    MaxInFlight = 3

SYMMETRY TabSymmetry

SPECIFICATION Spec

INVARIANTS
    TypeOK
    LogIsSound
    TypedIsNeverLost
    WatermarksAreHonest
    JoinedMissesNothing
    RefusalsAreStoreFailures

CHECK_DEADLOCK FALSE
