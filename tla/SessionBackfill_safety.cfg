CONSTANTS
    Ticket <- MixTickets
    Backfill <- MixBackfill
    Offered <- MixRuleSets
    Start = 4
    TimeLimit = 2
SPECIFICATION Spec
INVARIANTS
    TypeOK
    TicketInOneTeam
    UserInSessionOnce
    SessionInRange
    ReportedOnce
    NoBlockedInSession
    SessionOptionsAgree
    JoinedTicketsFit
    TeamsKept
PROPERTIES
    PlayersStay
