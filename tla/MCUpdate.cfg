SPECIFICATION FairSpec
CONSTANTS
    N = 4
    Same <- LastUnchanged
    MaxCrashes = 3
    MaxFaults = 3
INVARIANTS OneVersion Recoverable
PROPERTIES AtomicUpdate Recovers
CHECK_DEADLOCK FALSE
