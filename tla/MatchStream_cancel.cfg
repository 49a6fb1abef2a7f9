CONSTANTS
    Tickets <- TwoTickets
    Params = "params"
    Junk <- NoJunk
    None = "none"
    ChunkSize = 1
    ClientMayBreak = TRUE
SPECIFICATION FairSpec
PROPERTIES
    CancelClosesResults
CHECK_DEADLOCK FALSE
