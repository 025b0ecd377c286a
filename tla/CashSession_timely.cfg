SPECIFICATION Spec
CONSTANTS
    Sessions = {1}
    RegisterOf <- OneRegister
    Orders = {1, 2}
    Items = {1, 2}
    Requests = {r1, r2}
    Tokens = {t1, t2}
    NoToken = NoToken
    StornoToken = StornoToken
    NoRequest = NoRequest
    Ops = {"open", "sale", "close", "test", "normal", "storno"}
    Timely = TRUE
    MaxFaults = 1
SYMMETRY Symmetry
CHECK_DEADLOCK FALSE
INVARIANTS
    TypeOK
    ClosedBooksAreComplete
    StockMatchesOrders
    TestBooksAreReverted
