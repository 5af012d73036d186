SPECIFICATION Spec
CONSTANTS
    j1 = j1
    b1 = b1
    Joins <- MCJoins
    Beds <- MCBeds
    FirstRegions <- MCFirstRegions
    LastRegion = 2
    MaxLoads = 2
    MaxUpsets = 1
INVARIANTS TypeOK CertifiedSame
PROPERTY Certifies
CHECK_DEADLOCK FALSE
