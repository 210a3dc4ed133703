CONSTANTS
    None = None
    MaxEdits = 2
    MaxSeq = 3
    MaxCommits = 2
    MaxSegments = 3
    MaxProcesses = 2
    MaxFaults = 0

SPECIFICATION Spec

INVARIANT RecoveredIsUnsaved

CHECK_DEADLOCK FALSE
