CONSTANTS
    None = None
    MaxEdits = 3
    MaxSeq = 5
    MaxCommits = 2
    MaxSegments = 3
    MaxProcesses = 2
    MaxFaults = 1

SPECIFICATION BoundedSpec


INVARIANTS
    TypeOK
    ShadowReplays
    CleanMeansSaved
    UnsavedSurvives
    CommittedOnce
    LoneSaveIsAccepted
    UndoAndRedoRestore

CHECK_DEADLOCK FALSE
