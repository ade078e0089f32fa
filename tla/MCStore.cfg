\* Two callers make three calls on either file, with one upset.
\* The calls are bounded, so the system stops.
CONSTANTS
    Callers = {c1, c2}
    Keys = {k1, k2}
    Values = {d, v}
    Default = d
    MaxCalls = 3
    MaxUpsets = 1
SPECIFICATION Spec
SYMMETRY StoreSymmetry
INVARIANTS TypeOK
PROPERTIES UnreadableKept ReplacedIsBackedUp OtherSettingsKept
CHECK_DEADLOCK FALSE
