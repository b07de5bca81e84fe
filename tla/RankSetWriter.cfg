SPECIFICATION FilesSpec
CONSTANTS
    Ranks = {0, 1}
    Tensors = {1, 2}
    SYNC_BATCH = 2
    MaxChanges = 1
    MaxCrashes = 2
    Faults = {"kill", "power"}
INVARIANT RestartHandlesIncompleteBodies
CHECK_DEADLOCK FALSE
