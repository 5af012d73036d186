SPECIFICATION FairSpec
CONSTANTS
    Host = host
    Joins = {j1, j2}
    InitialCats = 2
    Trades <- Trades2
    MaxTrades = 2
    MaxPushes = 1
    MaxLoads = 1
    MaxLane = 1
    MaxRefusals = 1
INVARIANTS FoldedOnceInOrder Conservation
PROPERTY Convergence
