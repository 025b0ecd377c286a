SPECIFICATION Spec
CONSTANTS
    Sessions = {1}
    RegisterOf <- OneRegister
    Orders = {1}
    Items = {1}
    Requests = {r1, r2, r3}
    Tokens = {t1}
    NoToken = NoToken
    StornoToken = StornoToken
    NoRequest = NoRequest
    Ops = {"open", "card", "webhook", "close", "storno", "delete"}
    Timely = FALSE
    MaxFaults = 1
SYMMETRY Symmetry
CHECK_DEADLOCK FALSE
INVARIANTS
    PaidOnce
    RefundsNeedFaults
