CONSTANTS
    Source <- FourTickets
    Starts <- FiveStarts
    Sizes <- UnevenSizes
    Blocks <- NoBlocks
    OtherTeamOnly = FALSE
    MinPlayer = 5
    MaxPlayer = 13
    Capacity <- Doubled
SPECIFICATION Spec
INVARIANTS
    LegalTeam
