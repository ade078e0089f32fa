CONSTANTS
    Projects <- BothProjects
    MaxFaults = 2
    MaxCrashes = 2
    MaxForeign = 1
SPECIFICATION Spec
INVARIANTS NothingLost UndoRestores PatchIsGated StoppedCanUndo
CONSTRAINT Explored
CHECK_DEADLOCK FALSE
