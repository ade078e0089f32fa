CONSTANTS
    Processes = {p, q}
    Targets = {s, t}
    Elsewhere = Elsewhere
    MaxCalls = 3
    MaxUpsets = 3
SPECIFICATION LinkSpec
SYMMETRY DeploySymmetry
INVARIANTS AlwaysRecorded
PROPERTIES PersonKept
CHECK_DEADLOCK FALSE
