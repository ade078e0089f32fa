\* Two jobs of one command or two, with two progress records each, a queue of
\* one event and two broken streams or failed requests.  The jobs are bounded,
\* so the system stops.
CONSTANTS
    Commands = {c1, c2}
    MaxJobs = 2
    MaxProgress = 2
    QueueSize = 1
    MaxUpsets = 2
SPECIFICATION PageSpec
SYMMETRY CommandSymmetry
INVARIANTS OutcomeShown NothingLeftRunning
CHECK_DEADLOCK FALSE
