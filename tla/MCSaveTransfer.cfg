SPECIFICATION FairSpec
CONSTANTS
    Names = {base}
    None = None
    Files <- TwoFiles
    Parts <- Chunks
    Room = 2
    MaxBegins = 2
    MaxCrashes = 1
    MaxRefusals = 2
    MaxDrops = 1
INVARIANTS TypeOK FinalWhole
PROPERTIES NeverBack AckMeansInPlace Lands
CHECK_DEADLOCK FALSE
