SPECIFICATION FairSpec
CONSTANTS
    j1 = j1
    j2 = j2
    Joins <- TwoJoins
    MaxJoins = 2
    MaxAttempts = 3
    MaxCuts = 1
    MaxFrames = 1
INVARIANTS SeatsHeld Attributed RelaysBound NoneRefused
PROPERTY EndsSettled
CHECK_DEADLOCK FALSE
