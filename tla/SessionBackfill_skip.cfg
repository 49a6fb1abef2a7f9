CONSTANTS
    Ticket <- FillTickets
    Backfill <- FillBackfill
    Offered <- FillRuleSets
    Start = 2
    TimeLimit = 1
SPECIFICATION Spec
INVARIANTS
    EverySessionVisited
