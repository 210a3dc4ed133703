CONSTANTS
    t1 = t1
    t2 = t2
    Tabs = {t1, t2}
    Actors = {t1, t2}
    ActorOf <- OwnActor
    SubmitLimit = 1
    FramesPerTick = 2
    MaxRefusalRecoveries = 2
    MaxAuthored = 1
    MaxDrops = 2
    MaxStoreFailures = 1
    MaxInFlight = 2

SPECIFICATION FairSpec

PROPERTIES
    TypedIsEventuallyLogged
    ReplicasConverge

CHECK_DEADLOCK FALSE
