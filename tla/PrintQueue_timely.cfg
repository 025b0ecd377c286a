SPECIFICATION Spec
CONSTANTS
    p1 = p1
    Printers = {p1}
    Jobs = {1, 2}
    PrinterOf <- OnePrinterRoute
    Clerks = {c1, c2}
    Pollers = {q1}
    Tokens = {t1, t2, t3, t4}
    NoToken = NoToken
    NoPrinter = NoPrinter
    Online = {p1}
    Lease = 2
    Timely = TRUE
    MaxFaults = 2
    MaxSends = 4
SYMMETRY Symmetry
INVARIANTS
    TypeOK
    OneSenderPerPrinter
    NoDuplicateSend
    FailedIsRetryable
    ClaimsAreKept
    SendNeverOvertakesClaimed
PROPERTY SentIsFinal
