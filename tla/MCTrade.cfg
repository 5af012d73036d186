SPECIFICATION FairTradeSpec
CONSTANTS
    h = h
    j1 = j1
    j2 = j2
    Traders <- Two
    Unknown = Unknown
    Session <- Three
    HostPlayer = h
    Units = 1
    MaxDrags = 2
    MaxEvents = 1
INVARIANTS TradeTypes Conserved Reversible
PROPERTIES Settles CommitsFollow CopiesAgree
CHECK_DEADLOCK FALSE
