CONSTANTS
    Ticket <- TrioTickets
    Offered <- TrioRuleSets
    Start = 3
    TimeLimit = 0
    AllyLoops = 1
SPECIFICATION Spec
INVARIANTS
    PivotInMatch
