CONSTANTS
    Tickets <- TwoTickets
    NewSessionOnly <- AnySession
    Sessions <- OneSession
    Params = "params"
    Junk <- NoJunk
    None = "none"
    ChunkSize = 1
    AllianceFlexes = FALSE
    ClientMayBreak = FALSE
SPECIFICATION FairSpec
PROPERTIES
    CallEnds
CHECK_DEADLOCK FALSE
