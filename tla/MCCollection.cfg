CONSTANTS
    Ids = {a, b}
    Threads = {t1, t2}
    Values = {x, y}
    x = x
    y = y
    NoValue = NoValue
    Size <- SameSize
    Foreign <- AnyForeign
    EagerLimit = 1
    MaxCalls = 3
    MaxUpsets = 1
SPECIFICATION Spec
SYMMETRY CollectionSymmetry
INVARIANTS UnreadableKept ListingMatches
PROPERTIES NewerKept MigrationKeepsCurrent OnlyScanMisjudges
CHECK_DEADLOCK FALSE
