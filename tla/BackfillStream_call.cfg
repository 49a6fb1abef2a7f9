CONSTANTS
    Tickets <- TwoTickets
    NewSessionOnly <- OnlyNew
    Sessions <- TwoSessions
    Params = "params"
    Junk <- Stray
    None = "none"
    ChunkSize = 1
    AllianceFlexes = TRUE
    ClientMayBreak = TRUE
SPECIFICATION FairSpec
INVARIANTS
    IInv
    EverySessionWorked
    EveryProposalSent
PROPERTIES
    ImplementsFeed
    CallEndsOrStalls
CHECK_DEADLOCK FALSE
