SPECIFICATION ServiceSpec
CONSTANTS
    p1 = p1
    Printers = {p1}
    Jobs = {1, 2}
    PrinterOf <- OnePrinterRoute
    Clerks = {c1}
    Pollers = {q1}
    Tokens = {t1, t2}
    NoToken = NoToken
    NoPrinter = NoPrinter
    Online = {p1}
    Lease = 2
    Timely = TRUE
    MaxFaults = 1
    MaxSends = 2
    Registers = {c1}
    Shelf = {beer}
    MaxVersion = 2
    MaxStreams = 3
    MaxOutages = 1
    DishOrders = {o1, o2}
    Portions = {1, 2}
    DishRequests = {1, 2}
    Screens = {monitor, console}
    Consoles = {console}
    ReadyLimit = 1
    MaxNumber = 3
    MaxMarks = 2
    MaxLoads = 2
    NoDish = NoDish
    FirstOrder = o1
CHECK_DEADLOCK FALSE
PROPERTIES
    HeldIsDrained
    LiveIsReported
    LeaseComesFree
    ScreensCatchUp
    ScreensFollow
