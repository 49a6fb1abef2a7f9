CONSTANTS
    Tickets <- ThreeTickets
    Params = "params"
    Junk <- Stray
    None = "none"
    ChunkSize = 2
    ClientMayBreak = TRUE
SPECIFICATION FairSpec
INVARIANTS
    IInv
    NoTicketTwice
    NoSendOnClosedResults
    EveryTicketWorked
    EveryMatchSent
PROPERTIES
    ImplementsFeed
    CallEnds
    HandlerReturns
CHECK_DEADLOCK FALSE
