CONSTANTS
    Ticket <- MixTickets
    Offered <- MixRuleSets
    Start = 6
    TimeLimit = 2
    AllyLoops = 2
SPECIFICATION FairSpec
INVARIANTS
    IInv
    NoRequestTwice
    TeamsInRange
    RuleKept
    NoBlockedTogether
    OptionsAgree
    RegionKept
    DistanceKept
    MatchesSent
PROPERTIES
    OnlyPivotDropped
    Terminates
