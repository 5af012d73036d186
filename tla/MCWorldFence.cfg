SPECIFICATION FairSpec
CONSTANTS
    j1 = j1
    j2 = j2
    Host = Host
    Joins <- TwoJoins
    MaxAdmits = 2
    MaxLoads = 1
    MaxPushes = 1
    MaxFrames = 1
INVARIANTS WorldFence
PROPERTIES AcceptsCurrentCopy GateOpens
CHECK_DEADLOCK FALSE
