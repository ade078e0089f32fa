\* Two threads make three calls, with one failing step, cancelled scan or
\* change of the disk.  The calls are bounded, so the system stops.
CONSTANTS
    i1 = i1
    i2 = i2
    u1 = u1
    d1 = d1
    Threads = {t1, t2}
    Installs = {i1, i2}
    Found <- MCFound
    Users = {u1}
    Folders = {d1}
    Requests <- MCRequests
    MaxCalls = 3
    MaxUpsets = 1
SPECIFICATION FairSpec
INVARIANTS KeyFresh
PROPERTIES EveryCallReturns
CHECK_DEADLOCK FALSE
