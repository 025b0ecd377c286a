----------------------------- MODULE MCService -----------------------------
(* Progress of components that share no state: a behaviour is one of one   *)
(* component, which part names.                                            *)
(*   "queue"       PrintQueue, with requests that outpace their leases     *)
(*   "stock"       StockRealtime                                           *)
(*   a screen      DishTickets from two orders on, marked by one request   *)
(*                 after the other, with this screen                       *)
EXTENDS PrintQueue, StockRealtime, DishTickets

CONSTANTS
    p1,           \* the printer
    FirstOrder

VARIABLE part

serviceVars == <<vars, realtimeVars, dishVars, part>>

OnePrinterRoute == [j \in Jobs |-> p1]

(* Two paid orders of two tickets and one, which the oven has finished.    *)
DishServed ==
    /\ seq = 3
    /\ dish = [o \in DishOrders |-> [NoOrder EXCEPT !.status = "PAID",
                !.tickets = IF o = FirstOrder THEN <<New(1), New(2)>>
                            ELSE <<Mark(New(3), "scan", 1)>>]]
    /\ call = [r \in DishRequests |-> NoCall]
    /\ reset = {} /\ astray = {} /\ clock = 1
    /\ screenOf = [m \in Screens |-> Blank]

ServiceInit ==
    /\ part \in {"queue", "stock"} \cup Screens
    /\ Init /\ RealtimeInit
    /\ IF part \in Screens THEN DishServed ELSE DishInit

InQueue(A) == part = "queue" /\ A /\ UNCHANGED <<realtimeVars, dishVars, part>>
InStock(A) == part = "stock" /\ A /\ UNCHANGED <<vars, dishVars, part>>
OnScreen(m, A) == part = m /\ A /\ UNCHANGED <<vars, realtimeVars, part>>

Queue == InQueue(Next)
Stock == InStock(RealtimeNext)
Kitchen == \E m \in Screens : OnScreen(m, KitchenNext(1) \/ StatusChanges(FirstOrder))
Showing == \E m \in Screens : OnScreen(m, ScreenNext(m))

ServiceNext == Queue \/ Stock \/ Kitchen \/ Showing

(* PrintQueue's fairness. Browsers, the server and timers go on by         *)
(* themselves too; a screen's first fetch under way is answered, unless it *)
(* fails.                                                                  *)
ServiceFairness ==
    /\ \A c \in Clerks : WF_serviceVars(InQueue(ClerkStep(c)))
    /\ \A d \in Drains :
        /\ WF_serviceVars(InQueue(DrainStep(d)))
        /\ d[2] \in Online => SF_serviceVars(InQueue(SendOk(d)))
    /\ \A a \in Actors : /\ WF_serviceVars(InQueue(SendOk(a) \/ SendFails(a)))
                         /\ WF_serviceVars(InQueue(Release(a)))
    /\ \A q \in Pollers : WF_serviceVars(InQueue(PollStep(q)))
    /\ SF_serviceVars(InQueue(Tick))
    /\ WF_serviceVars(InStock(RealtimeProgress))
    /\ \A c \in Registers :
        /\ WF_serviceVars(InStock(SnapshotRead(c))) /\ WF_serviceVars(InStock(SyncEnds(c)))
        /\ WF_serviceVars(InStock(Timer(c))) /\ WF_serviceVars(InStock(SourceErrs(c)))
        /\ WF_serviceVars(InStock(StreamRefused(c)))
        /\ WF_serviceVars(InStock(SourceOpens(c)))
        /\ \A s \in Streams : WF_serviceVars(InStock(StreamStart(c, s)))
    /\ \A m \in Screens :
        /\ WF_serviceVars(OnScreen(m, ScreenAsks(m)))
        /\ WF_serviceVars(OnScreen(m, ScreenShows(m, 1)))
        /\ WF_serviceVars(OnScreen(m, QueueIsRead(m, 1)))
        /\ WF_serviceVars(OnScreen(m, ReadyIsRead(m, 1)))

ServiceSpec == ServiceInit /\ [][ServiceNext]_serviceVars /\ ServiceFairness

(* Whatever broke, and also when the writer published nothing, a register  *)
(* that stays open ends with the stock of the active event.                *)
ScreensCatchUp == \A c \in Registers : <>[](part = "stock" => ShowsStock(c))

(* Although orders are limited before their tickets are, the lists of a    *)
(* console are read at two moments, and answers arrive in any order, every *)
(* screen ends with the right tickets once the kitchen stops marking them  *)
(* and fetches stop failing.                                               *)
ScreensFollow ==
    <>[][\A m \in Screens, i \in 1..MaxLoads : ~ScreenFails(m, i)]_dishVars
    => \A m \in Screens : <>[](part = m => ShowsTickets(m))
=============================================================================
