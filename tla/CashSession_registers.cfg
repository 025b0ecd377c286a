SPECIFICATION FairSpec
CONSTANTS
    Sessions = {1, 2}
    RegisterOf <- TwoRegisters
    Orders = {1}
    Items = {1}
    Requests = {r1, r2}
    Tokens = {t1, t2}
    NoToken = NoToken
    StornoToken = StornoToken
    NoRequest = NoRequest
    Ops = {"open", "public", "complete", "close", "test"}
    Timely = TRUE
    MaxFaults = 1
CHECK_DEADLOCK FALSE
INVARIANT BooksAreDisjoint
PROPERTY SessionsComeFree
