SPECIFICATION Spec
CONSTANTS
    j1 = j1
    j2 = j2
    base = base
    other = other
    None = None
    Joins <- TwoJoins
    Names <- OneName
    First = base
    MaxAdmits = 2
    MaxSaves = 0
    MaxLoads = 0
    MaxRestarts = 0
    Allowed <- Crowded
INVARIANT LoadsWholeSave
CHECK_DEADLOCK FALSE
