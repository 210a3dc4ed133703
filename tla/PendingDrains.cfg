CONSTANTS
    t1 = t1
    Tabs = {t1}
    Actors = {t1}
    ActorOf <- OwnActor
    SubmitLimit = 1
    FramesPerTick = 2
    MaxRefusalRecoveries = 2
    MaxAuthored = 1
    MaxDrops = 1
    MaxStoreFailures = 0
    MaxInFlight = 2

SPECIFICATION FairSpec

PROPERTIES
    PendingDrains

CHECK_DEADLOCK FALSE
