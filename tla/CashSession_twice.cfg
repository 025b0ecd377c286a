SPECIFICATION Spec
CONSTANTS
    Sessions = {1}
    RegisterOf <- OneRegister
    Orders = {1}
    Items = {1}
    Requests = {r1, r2}
    Tokens = {t1}
    NoToken = NoToken
    StornoToken = StornoToken
    NoRequest = NoRequest
    Ops = {"open", "card", "webhook", "complete"}
    Timely = TRUE
    MaxFaults = 0
SYMMETRY Symmetry
CHECK_DEADLOCK FALSE
INVARIANT PaidOnce
