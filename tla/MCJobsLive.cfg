\* Two runs on one thread, inside the retention window, with a waiter.
\* The run may stop once everything has ended.
CONSTANTS
    Ids = {i1, i2}
    Runs = {r1, r2}
    Waiters = {w1}
    Idle = Idle
    Absent = Absent
    PoolSize = 1
    MaxNow = 0
    Retention = 1
    Interval = 1
    MaxReports = 0
SPECIFICATION FairSpec
INVARIANTS NoLostWakeup
PROPERTIES EveryRunEnds EveryWaiterReturns
CHECK_DEADLOCK FALSE
