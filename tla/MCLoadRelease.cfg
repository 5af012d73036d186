SPECIFICATION FairSpec
CONSTANTS
    j1 = j1
    j2 = j2
    base = base
    other = other
    None = None
    Joins <- TwoJoins
    Names <- TwoNames
    First = base
    MaxAdmits = 2
    MaxSaves = 1
    MaxLoads = 1
    MaxRestarts = 0
    Allowed <- UserBusy
INVARIANT LoadsAnnounced
PROPERTY HoldReleases
CHECK_DEADLOCK FALSE
