SPECIFICATION FairDoorSpec
CONSTANTS
    Seats = {j1, j2}
    MaxMoves = 2
    MaxAbsences = 1
INVARIANTS SlotReusable
PROPERTIES NoEcho Converges
CHECK_DEADLOCK FALSE
