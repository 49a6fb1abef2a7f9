CONSTANTS
    Source <- FourTickets
    Starts <- MixStarts
    Sizes <- AnySize
    Blocks <- SomeBlocks
    OtherTeamOnly = TRUE
    MinPlayer = 3
    MaxPlayer = 6
    Capacity <- Doubled
SPECIFICATION Spec
INVARIANTS
    TypeOK
    LegalTeam
    NoBlockedInTeam
    BestOfTried
