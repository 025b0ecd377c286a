---------------------------- MODULE DishTickets ----------------------------
(***************************************************************************)
(* The numbered dishes: every order carries tickets with numbers of one    *)
(* sequence per event. A public order gets them while it is pending, the   *)
(* register that completes it may change the cart, the kitchen scans,      *)
(* requeues and removes single tickets, screens show what is ready, and *)
(* the operator may reset the event. Every handler reads a document, then  *)
(* writes it.                                                              *)
(***************************************************************************)
EXTENDS Naturals, FiniteSets, Sequences, FiniteSetsExt, SequencesExt

CONSTANTS
    DishOrders,   \* orders
    Portions,     \* how many tickets a cart may ask for
    DishRequests, \* requests to the application
    Screens,      \* pages that show the tickets
    Consoles,     \* those of the kitchen
    ReadyLimit,   \* ready tickets a screen shows (12, 20)
    MaxNumber,    \* bound on the numbers handed out
    MaxMarks,     \* bound on the scans, requeues and removals
    MaxLoads,     \* bound on the fetches a screen has under way
    NoDish

ASSUME DishAssumption ==
    /\ IsFiniteSet(DishOrders) /\ IsFiniteSet(DishRequests) /\ IsFiniteSet(Screens)
    /\ Consoles \subseteq Screens
    /\ Portions \subseteq Nat \ {0} /\ Portions # {}
    /\ {ReadyLimit, MaxNumber, MaxMarks, MaxLoads} \subseteq Nat \ {0}
    /\ NoDish \notin DishOrders

VARIABLES
    seq,      \* OrderCounter of the event, scope PIZZA_ORDER; 0 for no document
    dish,     \* status, version and tickets of an order
    call,     \* requests under way
    reset,    \* deletions the reset of the event has still to do
    astray,   \* history: orders whose numbers were handed out before a reset
              \* that was over, or not, when they were written
    clock,    \* marks made so far: the time of readyAt
    screenOf  \* a page: fetches under way and what it shows

dishVars == <<seq, dish, call, reset, astray, clock, screenOf>>

TicketStates == {"QUEUED", "READY", "REMOVED"}
Ticket == [number : 1..MaxNumber, state : TicketStates, readyAt : 0..MaxMarks]

NoOrder == [status |-> "none", version |-> 0, tickets |-> <<>>]
NoCall == [op |-> "idle", order |-> NoDish, number |-> 0, at |-> 0, version |-> 0,
           tickets |-> <<>>, status |-> "", stale |-> FALSE]
Blank == [loads |-> <<>>, shown |-> [queued |-> {}, ready |-> {}]]

(***************************************************************************)
(* Numbers.                                                                *)
(***************************************************************************)

New(number) == [number |-> number, state |-> "QUEUED", readyAt |-> 0]

\* Mutant: the counter moves by one, whatever the count.
AllocateOne(count) == seq' = seq + IF count > 0 THEN 1 ELSE 0

\* getNextScopedOrderNumbers: one $inc (an upsert) takes count numbers.
Allocate(count) == seq' = seq + count

Numbers(count) == [i \in 1..count |-> seq + i]

\* Mutant: the tickets the order has are not passed on.
RenumberedTickets(existing, count) == [i \in 1..count |-> New(seq + i)]

\* resolveDishTicketsForCart for the tickets of one product: those the order has
\* are kept up to the count, the rest is new.
ResolvedTickets(existing, count) ==
    LET kept == IF Len(existing) > count THEN count ELSE Len(existing)
    IN  [i \in 1..count |-> IF i <= kept THEN existing[i] ELSE New(seq + i - kept)]

Missing(existing, count) == IF count > Len(existing) THEN count - Len(existing) ELSE 0

DishInit ==
    /\ seq = 0
    /\ dish = [o \in DishOrders |-> NoOrder]
    /\ call = [r \in DishRequests |-> NoCall]
    /\ reset = {"asked"}
    /\ astray = {}
    /\ clock = 0
    /\ screenOf = [m \in Screens |-> Blank]

End(r) == call' = [call EXCEPT ![r] = NoCall]
InUse == {call[r].order : r \in {q \in DishRequests : call[q].op \in {"create", "complete"}}}

(***************************************************************************)
(* Orders.                                                                 *)
(***************************************************************************)

\* createOrder and createPublicOrder: the numbers first, then the document.
CreateAllocates(r, o) ==
    /\ call[r].op = "idle" /\ dish[o].status = "none" /\ o \notin InUse
    /\ \E count \in Portions, status \in {"PENDING", "PAID"} :
        /\ seq + count <= MaxNumber
        /\ Allocate(count)
        /\ call' = [call EXCEPT ![r] =
                    [NoCall EXCEPT !.op = "create", !.order = o,
                                   !.status = status, !.tickets = ResolvedTickets(<<>>, count)]]
    /\ UNCHANGED <<dish, reset, astray, clock, screenOf>>

\* The document is written, or the request fails in between and the numbers
\* are lost.
CreateWrites(r) ==
    /\ call[r].op = "create"
    /\ LET c == call[r] IN
        \/ /\ dish' = [dish EXCEPT ![c.order] =
                        [status |-> c.status, version |-> 0, tickets |-> c.tickets]]
           /\ astray' = IF c.stale THEN astray \cup {c.order} ELSE astray
        \/ UNCHANGED <<dish, astray>>
    /\ End(r)
    /\ UNCHANGED <<seq, reset, clock, screenOf>>

\* completePendingOrderPayment: the document is read, numbers are handed out
\* for what the cart has grown by, and the document is saved.
CompleteReads(r, o) ==
    /\ call[r].op = "idle" /\ dish[o].status = "PENDING"
    /\ \E count \in Portions :
        LET missing == Missing(dish[o].tickets, count) IN
        /\ seq + missing <= MaxNumber
        /\ Allocate(missing)
        /\ call' = [call EXCEPT ![r] =
                    [NoCall EXCEPT !.op = "complete", !.order = o,
                                   !.version = dish[o].version,
                                   !.tickets = ResolvedTickets(dish[o].tickets, count)]]
    /\ UNCHANGED <<dish, reset, astray, clock, screenOf>>

\* save(): the arrays of the order are replaced if its version is still the one
\* that was read.
CompleteWrites(r) ==
    /\ call[r].op = "complete"
    /\ LET c == call[r] IN
        IF dish[c.order].status # "none" /\ dish[c.order].version = c.version
        THEN /\ dish' = [dish EXCEPT ![c.order] = [status |-> "PAID",
                            version |-> c.version + 1, tickets |-> c.tickets]]
             /\ astray' = IF c.stale THEN astray \cup {c.order} ELSE astray
        ELSE UNCHANGED <<dish, astray>>
    /\ End(r)
    /\ UNCHANGED <<seq, reset, clock, screenOf>>

\* The webhook pays a pending order and a storno cancels a paid one, in one
\* update that leaves tickets and version alone.
StatusChanges(o) ==
    /\ \E step \in {<<"PENDING", "PAID">>, <<"PAID", "CANCELLED">>} :
        /\ dish[o].status = step[1]
        /\ dish' = [dish EXCEPT ![o].status = step[2]]
    /\ UNCHANGED <<seq, call, reset, astray, clock, screenOf>>

\* resetEventOrdersAction deletes orders and counters side by side. A request
\* that holds numbers from before writes them when it gets there. (An event is
\* reset once here.)
ResetBegins ==
    /\ reset = {"asked"} /\ seq > 0
    /\ reset' = {"orders", "counters"}
    /\ call' = [r \in DishRequests |-> IF call[r].op \in {"create", "complete"}
                                       THEN [call[r] EXCEPT !.stale = TRUE] ELSE call[r]]
    /\ UNCHANGED <<seq, dish, astray, clock, screenOf>>

ResetDeletes ==
    /\ \E part \in reset \ {"asked"} :
        /\ reset' = reset \ {part}
        /\ IF part = "orders"
           THEN /\ dish' = [o \in DishOrders |-> NoOrder]
                /\ astray' = {} /\ seq' = seq
           ELSE /\ seq' = 0
                /\ astray' = astray \cup {o \in DishOrders : dish[o].status # "none"}
                /\ dish' = dish
    /\ call' = [r \in DishRequests |-> IF call[r].op \in {"create", "complete"}
                                       THEN [call[r] EXCEPT !.stale = TRUE] ELSE call[r]]
    /\ UNCHANGED <<clock, screenOf>>

(***************************************************************************)
(* The kitchen: scan finds a ticket by its number, requeue and remove are  *)
(* given the order as well. Each decides on the state it read, and writes  *)
(* to the order if that is still paid, whatever the ticket has become.     *)
(***************************************************************************)

Carries(o, number) == \E i \in DOMAIN dish[o].tickets : dish[o].tickets[i].number = number

StateRead(o, number) ==
    LET i == CHOOSE j \in DOMAIN dish[o].tickets : dish[o].tickets[j].number = number
    IN  dish[o].tickets[i].state

Target == [scan |-> "READY", requeue |-> "QUEUED", remove |-> "REMOVED"]

\* findOne; "already ..." and "not found" answer at once.
KitchenReads(r) ==
    /\ call[r].op = "idle"
    /\ \E o \in DishOrders, number \in 1..MaxNumber, op \in DOMAIN Target :
        /\ dish[o].status = "PAID" /\ Carries(o, number)
        /\ StateRead(o, number) # Target[op]
        /\ clock < MaxMarks /\ clock' = clock + 1
        /\ call' = [call EXCEPT ![r] = [NoCall EXCEPT !.op = op, !.order = o,
                                                      !.number = number, !.at = clock']]
        /\ UNCHANGED <<seq, dish, reset, astray, screenOf>>

\* updateOne with an array filter on the number; readyAt was taken before it.
Mark(ticket, op, at) ==
    [ticket EXCEPT !.state = Target[op], !.readyAt = IF op = "scan" THEN at ELSE 0]

KitchenWrites(r) ==
    /\ call[r].op \in DOMAIN Target
    /\ LET c == call[r] IN
        dish' = IF dish[c.order].status # "PAID" THEN dish
                ELSE [dish EXCEPT ![c.order].tickets = [i \in DOMAIN @ |->
                        IF @[i].number = c.number THEN Mark(@[i], c.op, c.at) ELSE @[i]]]
    /\ End(r)
    /\ UNCHANGED <<seq, reset, astray, clock, screenOf>>

(***************************************************************************)
(* Screens ask every three seconds, whether or not an earlier answer has   *)
(* come, and show whichever answer comes: the public monitor the ready     *)
(* tickets, a console those in the queue as well, from a second query. A   *)
(* console asks after each of its marks too. (The queue is read up to 60   *)
(* orders, more than there are here.)                                      *)
(***************************************************************************)

InState(o, state) == {t \in {dish[o].tickets[i] : i \in DOMAIN dish[o].tickets} : t.state = state}

ReadyOrders == {o \in DishOrders : dish[o].status = "PAID" /\ InState(o, "READY") # {}}

QueuedAnswer ==
    {t.number : t \in UNION {InState(o, "QUEUED") : o \in {p \in DishOrders : dish[p].status = "PAID"}}}

\* The time an order is sorted by: its latest readyAt.
LastReady(o) == Max({dish[o].tickets[i].readyAt : i \in DOMAIN dish[o].tickets})

\* Mutant: the limit is applied before the sort.
LimitedOrdersUnsorted ==
    CHOOSE S \in SUBSET ReadyOrders :
        Cardinality(S) = Min({ReadyLimit, Cardinality(ReadyOrders)})

\* The query: paid orders with a ready ticket, the latest first, limited.
LimitedOrders ==
    {o \in ReadyOrders :
        Cardinality({p \in ReadyOrders : LastReady(p) > LastReady(o)}) < ReadyLimit}

Latest(ready) ==
    {t \in ready : Cardinality({u \in ready : u.readyAt > t.readyAt}) < ReadyLimit}

\* The tickets of these orders, sorted and limited again.
ReadyAnswer ==
    LET ready == UNION {InState(o, "READY") : o \in LimitedOrders}
    IN  {t.number : t \in Latest(ready)}

Load(m) == [state |-> IF m \in Consoles THEN "asked" ELSE "queued", queued |-> {}, ready |-> {}]

ScreenAsks(m) ==
    /\ Len(screenOf[m].loads) < MaxLoads
    /\ screenOf' = [screenOf EXCEPT ![m].loads = Append(@, Load(m))]
    /\ UNCHANGED <<seq, dish, call, reset, astray, clock>>

\* GET: of a console the two queries go side by side.
QueueIsRead(m, i) ==
    /\ i \in DOMAIN screenOf[m].loads /\ screenOf[m].loads[i].state \in {"asked", "ready"}
    /\ screenOf' = [screenOf EXCEPT ![m].loads[i] =
            [@ EXCEPT !.queued = QueuedAnswer,
                      !.state = IF @ = "asked" THEN "queued" ELSE "answered"]]
    /\ UNCHANGED <<seq, dish, call, reset, astray, clock>>

ReadyIsRead(m, i) ==
    /\ i \in DOMAIN screenOf[m].loads /\ screenOf[m].loads[i].state \in {"asked", "queued"}
    /\ screenOf' = [screenOf EXCEPT ![m].loads[i] =
            [@ EXCEPT !.ready = ReadyAnswer,
                      !.state = IF @ = "asked" THEN "ready" ELSE "answered"]]
    /\ UNCHANGED <<seq, dish, call, reset, astray, clock>>

\* Mutant: a ready list stays when an answer has none.
ShownUnlessEmpty(old, load) ==
    [queued |-> load.queued, ready |-> IF load.ready = {} THEN old.ready ELSE load.ready]

Shown(old, load) == [queued |-> load.queued, ready |-> load.ready]

ScreenShows(m, i) ==
    /\ i \in DOMAIN screenOf[m].loads /\ screenOf[m].loads[i].state = "answered"
    /\ screenOf' = [screenOf EXCEPT ![m] =
                        [loads |-> RemoveAt(@.loads, i),
                         shown |-> Shown(@.shown, @.loads[i])]]
    /\ UNCHANGED <<seq, dish, call, reset, astray, clock>>

\* A fetch that fails leaves what is shown behind the error.
ScreenFails(m, i) ==
    /\ i \in DOMAIN screenOf[m].loads /\ screenOf[m].loads[i].state # "answered"
    /\ screenOf' = [screenOf EXCEPT ![m].loads = RemoveAt(@, i)]
    /\ UNCHANGED <<seq, dish, call, reset, astray, clock>>

\* The three sides; together they are what the system does.
NumberingNext ==
    \/ \E r \in DishRequests :
        \/ \E o \in DishOrders : CreateAllocates(r, o) \/ CompleteReads(r, o)
        \/ CreateWrites(r) \/ CompleteWrites(r)
    \/ \E o \in DishOrders : StatusChanges(o)
    \/ ResetBegins \/ ResetDeletes

KitchenNext(r) == KitchenReads(r) \/ KitchenWrites(r)

ScreenNext(m) ==
    \/ ScreenAsks(m)
    \/ \E i \in 1..MaxLoads :
        QueueIsRead(m, i) \/ ReadyIsRead(m, i) \/ ScreenShows(m, i) \/ ScreenFails(m, i)

DishNext ==
    \/ NumberingNext
    \/ \E r \in DishRequests : KitchenNext(r)
    \/ \E m \in Screens : ScreenNext(m)

DishSpec == DishInit /\ [][DishNext]_dishVars

(***************************************************************************)
(* Properties.                                                             *)
(***************************************************************************)

\* A number stands for one ticket of the event: whatever registers and
\* customers order at the same time, a scan finds the dish it was printed on.
\* Only orders written across a reset may share numbers with later ones.
NumbersAreUnique ==
    \A o, p \in DishOrders \ astray :
        \A i \in DOMAIN dish[o].tickets, j \in DOMAIN dish[p].tickets :
            dish[o].tickets[i].number = dish[p].tickets[j].number => o = p /\ i = j

\* The numbers a customer was told while the order was pending are the ones
\* that are printed when it is paid, unless the cart shrank.
NumbersAreKept ==
    [][\A o \in DishOrders :
        (dish[o].status = "PENDING" /\ dish'[o].status = "PAID")
        => \A i \in DOMAIN dish[o].tickets \cap DOMAIN dish'[o].tickets :
            dish'[o].tickets[i].number = dish[o].tickets[i].number]_dishVars

\* What a screen should show: of all paid orders the tickets in the queue, on a
\* console, and the latest ready ones.
ShowsTickets(m) ==
    /\ m \in Consoles => screenOf[m].shown.queued = QueuedAnswer
    /\ screenOf[m].shown.ready =
            {t.number : t \in Latest(UNION {InState(o, "READY") : o \in ReadyOrders})}
=============================================================================
