CONSTANTS
    Ticket <- FillTickets
    Backfill <- FillBackfill
    Offered <- TeamRuleSets
    Start = 2
    TimeLimit = 1
SPECIFICATION Spec
INVARIANTS
    NoBlockedInTeam
