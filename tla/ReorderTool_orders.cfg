CONSTANTS
    Lengths <- SmallLengths
    LoopBounds = {0, 1, 3}
SPECIFICATION Spec
INVARIANTS
    GivesTheOrders
    EndsWithAllOrders
