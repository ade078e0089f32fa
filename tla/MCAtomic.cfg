CONSTANTS
    MaxWrites = 3
    MaxFaults = 4
    MaxCrashes = 2
SPECIFICATION FileSpec
INVARIANTS ConfirmedKept OnlyCleanupTears CopyLostOnlyToCleanup
CHECK_DEADLOCK FALSE
