SPECIFICATION Spec
CONSTANTS
    p1 = p1
    Printers = {p1}
    Jobs = {1}
    PrinterOf <- OnePrinterRoute
    Clerks = {c1, c2}
    Pollers = {q1}
    Tokens = {t1, t2, t3, t4, t5}
    NoToken = NoToken
    NoPrinter = NoPrinter
    Online = {p1}
    Lease = 2
    Timely = FALSE
    MaxFaults = 0
    MaxSends = 2
SYMMETRY Symmetry
INVARIANTS
    SentWasConfirmed
PROPERTY LeaseIsYielded
