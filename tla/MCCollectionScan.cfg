CONSTANTS
    Ids = {a}
    Threads = {t1, t2}
    Values = {x, y}
    x = x
    y = y
    NoValue = NoValue
    Size <- SameSize
    Foreign <- AnyForeign
    EagerLimit = 1
    MaxCalls = 2
    MaxUpsets = 0
SPECIFICATION Spec
SYMMETRY CollectionSymmetry
INVARIANTS QuarantineHoldsUnreadable
CHECK_DEADLOCK FALSE
