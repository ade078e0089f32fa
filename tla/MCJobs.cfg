CONSTANTS
    Ids = {i1}
    Runs = {r1, r2}
    Waiters = {}
    Idle = Idle
    Absent = Absent
    PoolSize = 1
    MaxNow = 1
    Retention = 1
    Interval = 1
    MaxReports = 2
SPECIFICATION Spec
SYMMETRY JobsSymmetry
INVARIANTS TypeOK LiveRunOwnsEntry NewestProgressFlushed
PROPERTIES EndedEntryIsFinal KeepsPromise
