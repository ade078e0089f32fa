CONSTANTS
    Files <- MCFiles
    Kind <- MCKind
    Jobs = {j1, j2}
    Requests <- MCRequests
    MaxUpsets = 1
SPECIFICATION Spec
SYMMETRY JobSymmetry
INVARIANTS TypeOK GateAfterPatches AnswerNamesChanges
PROPERTIES PlannedAndKept
CHECK_DEADLOCK FALSE
