SPECIFICATION Spec
CONSTANTS
    Products = {1}
    Ingredients = {2}
    Orders = {1, 2}
    Editors = {w1}
    Demand <- Carts
    Levels = {0, 1}
    Deltas <- PlusMinus
    MaxStock = 2
    MaxEvents = 2
    Untracked = Untracked
    Gone = Gone
CHECK_DEADLOCK FALSE
INVARIANTS
    TypeOK
    UnitsAreReal
    OutIsRecorded
    SoundAtRest
