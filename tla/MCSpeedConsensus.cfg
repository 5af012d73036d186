SPECIFICATION FairSpec
CONSTANTS
    Joins = {j1, j2}
    Mults = {1, 3}
    None = None
    Start <- Normal
    MaxClicks = 3
    MaxUpsets = 2
    MaxEvents = 4
    MaxLane = 1
INVARIANTS Heard LastWins
PROPERTY Converges
CHECK_DEADLOCK FALSE
