--------------------------- MODULE StockOperations ---------------------------
(***************************************************************************)
(* The stock of products and ingredients: lib/stock-operations.ts with the *)
(* requests that call it, the return of a paid order's units               *)
(* (lib/cash-session-stock.ts) and the edits of the register and of the    *)
(* catalogue.  Each await is a step: sales, rollbacks, returns and edits   *)
(* interleave between the reads and writes of single documents.            *)
(*                                                                         *)
(* Who may return an order's units, and that they are returned once, is    *)
(* CashSession's matter.  Here are the quantities, the sold-out flags and  *)
(* the clamp of an overridden sale.                                        *)
(***************************************************************************)
EXTENDS Integers, Sequences, FiniteSetsExt

CONSTANTS
    Products, Ingredients,   \* numbered in cart order, products first
    Orders,      \* each with its cart, sold by one request at a time
    Editors,     \* requests of updatePosStock with a delta
    Demand,      \* Demand[o][e]: the units order o needs of e
    Levels,      \* the quantities an operator types in
    Deltas,      \* the changes of the +/- controls
    MaxStock,    \* bound: how far +/- controls and overrides move a stock from zero
    MaxEvents,   \* bound: edits and crashes
    Untracked,   \* stockQuantity = null: unlimited
    Gone         \* the document was deleted

Entities == Products \cup Ingredients
Actors   == Orders \cup Editors

ASSUME EntitiesAssumption == /\ Products \subseteq Nat /\ Ingredients \subseteq Nat
                             /\ \A p \in Products, i \in Ingredients : p < i
ASSUME DemandAssumption   == Demand \in [Orders -> [Entities -> Nat]]
ASSUME LevelsAssumption   == Levels \subseteq Nat /\ Deltas \subseteq Int /\ {MaxStock, MaxEvents} \subseteq Nat
ASSUME ActorsAssumption   == Orders \cap Editors = {}
ASSUME MarksAssumption    == {Untracked, Gone} \cap Int = {} /\ Untracked # Gone

VARIABLES
    stock,     \* stockQuantity of each entity
    soldOut,   \* isSoldOut of each product
    doc,       \* Order documents: status, stockAdjustments, keys already moved
    act,       \* each request: how far it is, what it knows
    events,    \* edits and crashes so far
    out,       \* history: units of each entity that orders account for
    supply,    \* history: units the operators put in, less those they took off or lost
    drifted,   \* history: entities that lost units since their stock was last set
    unsynced   \* history: products whose request threw before it set the flag

ledger == <<out, supply, drifted>>
vars   == <<stock, soldOut, doc, act, events, out, supply, drifted, unsynced>>

-----------------------------------------------------------------------------
NoEntity == -1
Nothing == [e \in Entities |-> 0]
Idle    == [pc |-> "idle", strict |-> FALSE, bad |-> FALSE, plan |-> {}, got |-> Nothing,
            item |-> NoEntity, low |-> 0, calls |-> <<>>, sync |-> {}]
Classes == {"products", "ingredients"}
ActStates == [pc : {"idle", "loadProducts", "loadIngredients", "take", "clamp", "undo",
                    "give", "giveCheck", "giveSync", "deltaClamp", "deltaFlag"},
              strict : BOOLEAN, bad : BOOLEAN, plan : SUBSET Entities, got : [Entities -> Nat],
              item : Entities \cup {NoEntity}, low : Int, calls : Seq(Classes), sync : SUBSET Products]
OrderDocs == [status : {"NEW", "PAID", "REVERTED"}, adj : [Entities -> Nat],
              moved : SUBSET Entities]

TypeOK ==
    /\ stock \in [Entities -> Int \cup {Untracked, Gone}]
    /\ soldOut \in [Products -> BOOLEAN]
    /\ doc \in [Orders -> OrderDocs]
    /\ act \in [Actors -> ActStates]
    /\ events \in 0 .. MaxEvents
    /\ out \in [Entities -> Int] /\ supply \in [Entities -> Int]
    /\ drifted \in SUBSET Entities /\ unsynced \in SUBSET Products

(* Tracked(v): isStockTracked.  IsOut(v): the flag a value calls for.      *)
Tracked(v) == v \notin {Untracked, Gone}
IsOut(v)   == v # Untracked /\ v <= 0
Floor0(n)  == IF n > 0 THEN n ELSE 0
Lesser(a, b) == IF a < b THEN a ELSE b
First(S, e) == e \in S /\ \A k \in S : e <= k
Filled(b, n) == Lesser(n, Floor0(-b))

Init ==
    /\ stock \in [Entities -> Levels \cup {Untracked}]
    /\ soldOut = [p \in Products |-> IsOut(stock[p])]
    /\ doc = [o \in Orders |-> [status |-> "NEW", adj |-> Nothing, moved |-> {}]]
    /\ act = [a \in Actors |-> Idle]
    /\ events = 0
    /\ out = Nothing
    /\ supply = [e \in Entities |-> IF Tracked(stock[e]) THEN stock[e] ELSE 0]
    /\ drifted = {} /\ unsynced = {}

Goto(a, pc) == act' = [act EXCEPT ![a].pc = pc]
End(a)      == act' = [act EXCEPT ![a] = Idle]

(* Units leave the ledger of the tracked entities among S.                 *)
Lose(S, n) == /\ supply' = [e \in Entities |-> IF e \in S /\ Tracked(stock[e])
                                               THEN supply[e] - n[e] ELSE supply[e]]
              /\ drifted' = drifted \cup {e \in S : Tracked(stock[e])}

(* The units of e go up by n, on whatever value is stored: those that only *)
(* fill a negative one, which a clamp was about to reset, are lost.        *)
Add(e, n) == /\ stock' = [stock EXCEPT ![e] = @ + n]
             /\ out' = [out EXCEPT ![e] = @ - n]
             /\ supply' = [supply EXCEPT ![e] = @ - Filled(stock[e], n)]
             /\ drifted' = IF stock[e] < 0 THEN drifted \cup {e} ELSE drifted

(* The request throws or dies: what it had taken is not given back, a      *)
(* pending clamp is not made, the flags it was to set stay as they are.    *)
Pending(a) == {e \in Entities : \/ act[a].got[e] > 0
                                \/ act[a].pc \in {"clamp", "deltaClamp"} /\ act[a].item = e}
Flags(a) == act[a].sync \cup ((Pending(a) \cup {act[a].item}) \cap Products)
Throw(a) ==
    /\ out' = [e \in Entities |-> out[e] - act[a].got[e]]
    /\ Lose(Pending(a), act[a].got)
    /\ unsynced' = unsynced \cup Flags(a)
    /\ End(a)
    /\ UNCHANGED <<stock, soldOut, doc>>

Event == events < MaxEvents /\ events' = events + 1
Crash(a) == act[a].pc # "idle" /\ Throw(a) /\ Event

-----------------------------------------------------------------------------
(* A sale: applyStockForPaidOrder reads products, then ingredients; it     *)
(* refuses missing entities, and shortages unless they are overridden.     *)

Wanted(o, C) == {e \in C : Demand[o][e] > 0}
Short(o, e)  == \/ e \in Products /\ soldOut[e]
                \/ Tracked(stock[e]) /\ Floor0(stock[e]) < Demand[o][e]
Refused(o, C, strict) ==
    \E e \in Wanted(o, C) : IF stock[e] = Gone THEN TRUE ELSE strict /\ Short(o, e)
Known(o, C) == {e \in Wanted(o, C) : Tracked(stock[e])}

SaleBegin(o, strict) ==
    /\ act[o].pc = "idle" /\ doc[o].status = "NEW"
    /\ act' = [act EXCEPT ![o] = [Idle EXCEPT !.pc = "loadProducts", !.strict = strict]]
    /\ UNCHANGED <<events, stock, soldOut, doc, unsynced, ledger>>

LoadProducts(o) ==
    /\ act[o].pc = "loadProducts"
    /\ act' = [act EXCEPT ![o].pc = "loadIngredients", ![o].plan = Known(o, Products),
                          ![o].bad = Refused(o, Products, act[o].strict)]
    /\ UNCHANGED <<events, stock, soldOut, doc, unsynced, ledger>>

LoadIngredients(o) ==
    /\ act[o].pc = "loadIngredients"
    /\ IF act[o].bad \/ Refused(o, Ingredients, act[o].strict)
       THEN End(o)
       ELSE act' = [act EXCEPT ![o].pc = "take", ![o].plan = @ \cup Known(o, Ingredients)]
    /\ UNCHANGED <<events, stock, soldOut, doc, unsynced, ledger>>

(* The flags of the products are set before the first ingredient is taken. *)
NextUp(o, e) == /\ First(act[o].plan, e)
                /\ e \in Ingredients => act[o].sync = {}
TouchedNone(o, e) == act[o].sync                                       \* mutant
Touched(o, e) == act[o].sync \cup ({e} \cap Products)
Took(o, e, n, pc) ==
    /\ out' = [out EXCEPT ![e] = @ + n]
    /\ act' = [act EXCEPT ![o].pc = pc, ![o].plan = @ \ {e}, ![o].got[e] = n,
                          ![o].sync = Touched(o, e),
                          ![o].item = IF pc = "clamp" THEN e ELSE @,
                          ![o].low = IF pc = "clamp" THEN stock[e] - Demand[o][e] ELSE @]

(* What a rollback still has to do, by where the sale failed.              *)
CallsAfter(e) == IF e \in Products THEN <<"products">> ELSE <<"ingredients", "products">>
Undo(o, calls) == act' = [act EXCEPT ![o].pc = "undo", ![o].plan = {}, ![o].sync = {},
                                     ![o].calls = calls]

(* decrementTracked...Strict: only from a stock that covers the demand.    *)
TakeStrict(o, e) ==
    /\ act[o].pc = "take" /\ act[o].strict /\ NextUp(o, e)
    /\ IF Tracked(stock[e]) /\ stock[e] >= Demand[o][e]
       THEN /\ stock' = [stock EXCEPT ![e] = @ - Demand[o][e]]
            /\ Took(o, e, Demand[o][e], "take")
       ELSE Undo(o, CallsAfter(e)) /\ UNCHANGED <<stock, out>>
    /\ UNCHANGED <<events, soldOut, doc, supply, drifted, unsynced>>

(* decrementTracked...Override: whatever the stock; only what was there    *)
(* counts as taken, and a negative value is reset by a second write.  An   *)
(* entity that became unlimited makes $inc throw.                          *)
CoveredAll(b, d) == d                                                  \* mutant
CoveredRaw(b, d) == Lesser(b, d)                                       \* mutant
Covered(b, d) == Floor0(Lesser(b, d))
TakeOverride(o, e) ==
    /\ act[o].pc = "take" /\ ~act[o].strict /\ NextUp(o, e)
    /\ \/ /\ Tracked(stock[e]) /\ stock[e] - Demand[o][e] >= -MaxStock
          /\ stock' = [stock EXCEPT ![e] = @ - Demand[o][e]]
          /\ Took(o, e, Covered(stock[e], Demand[o][e]),
                  IF stock[e] < Demand[o][e] THEN "clamp" ELSE "take")
          /\ UNCHANGED <<soldOut, doc, supply, drifted, unsynced>>
       \/ /\ stock[e] = Gone
          /\ Undo(o, CallsAfter(e))
          /\ UNCHANGED <<stock, soldOut, doc, unsynced, ledger>>
       \/ stock[e] = Untracked /\ Throw(o)
    /\ UNCHANGED events

(* The clamp misses when the value has moved on.                           *)
ClampHits(o, e)  == stock[e] = act[o].low
Clamp(o) ==
    LET e == act[o].item IN
    /\ act[o].pc = "clamp"
    /\ stock' = IF ClampHits(o, e) THEN [stock EXCEPT ![e] = 0] ELSE stock
    /\ act' = [act EXCEPT ![o].pc = "take", ![o].item = NoEntity, ![o].low = 0]
    /\ UNCHANGED <<events, soldOut, doc, unsynced, ledger>>

(* syncSoldOutFlags, a product at a time, from the stored value.           *)
Sync(a, p) ==
    /\ First(act[a].sync, p)
    /\ \/ act[a].pc = "take" /\ act[a].plan \cap Products = {}
       \/ act[a].pc = "undo" /\ act[a].plan = {} /\ act[a].calls = <<>>
       \/ act[a].pc = "giveSync"
    /\ soldOut' = IF stock[p] = Gone THEN soldOut ELSE [soldOut EXCEPT ![p] = IsOut(stock[p])]
    /\ unsynced' = unsynced \ {p}
    /\ act' = [act EXCEPT ![a].sync = @ \ {p}]
    /\ UNCHANGED <<events, stock, doc, ledger>>

(* The order is recorded with what it took, or cannot be: the session was  *)
(* closed meanwhile or the write failed, and everything is given back.     *)
Record(o) ==
    /\ act[o].pc = "take" /\ act[o].plan = {} /\ act[o].sync = {}
    /\ \/ /\ doc' = [doc EXCEPT ![o].status = "PAID", ![o].adj = act[o].got]
          /\ End(o)
       \/ /\ Undo(o, <<"products", "ingredients">>)
          /\ UNCHANGED doc
    /\ UNCHANGED <<events, stock, soldOut, unsynced, ledger>>

-----------------------------------------------------------------------------
(* rollbackStockAdjustments: which entities of a class are tracked is read *)
(* first; those that are not are left alone.                               *)
UndoRead(o) ==
    LET class == IF Head(act[o].calls) = "products" THEN Products ELSE Ingredients
        took  == {e \in class : act[o].got[e] > 0}
        kept  == {e \in took : Tracked(stock[e])} IN
    /\ act[o].pc = "undo" /\ act[o].plan = {} /\ act[o].calls # <<>>
    /\ out' = [e \in Entities |-> IF e \in took \ kept THEN out[e] - act[o].got[e] ELSE out[e]]
    /\ act' = [act EXCEPT ![o].plan = kept, ![o].calls = Tail(@),
                  ![o].got = [e \in Entities |-> IF e \in took \ kept THEN 0 ELSE @[e]]]
    /\ UNCHANGED <<events, stock, soldOut, doc, supply, drifted, unsynced>>

UndoItem(o, e) ==
    LET n == act[o].got[e] IN
    /\ act[o].pc = "undo" /\ First(act[o].plan, e)
    /\ \/ /\ stock[e] # Untracked
          /\ \/ stock[e] # Gone /\ Add(e, n)
             \/ /\ stock[e] = Gone
                /\ out' = [out EXCEPT ![e] = @ - n]
                /\ UNCHANGED <<stock, supply, drifted>>
          /\ act' = [act EXCEPT ![o].plan = @ \ {e}, ![o].got[e] = 0,
                                ![o].sync = Touched(o, e)]
          /\ UNCHANGED <<soldOut, doc, unsynced>>
       \/ stock[e] = Untracked /\ Throw(o)
    /\ UNCHANGED events

UndoDone(o) ==
    /\ act[o].pc = "undo" /\ act[o].plan = {} /\ act[o].calls = <<>> /\ act[o].sync = {}
    /\ End(o)
    /\ UNCHANGED <<events, stock, soldOut, doc, unsynced, ledger>>

-----------------------------------------------------------------------------
(* A storno or the close of a TEST session returns the units of an order:  *)
(* transitionClaimedOrderStock.  Each return leaves its key, which a later *)
(* attempt skips.                                                          *)
ReturnBegin(o) ==
    /\ act[o].pc = "idle" /\ doc[o].status = "PAID"
    /\ act' = [act EXCEPT ![o] = [Idle EXCEPT !.pc = "give",
                                   !.plan = {e \in Entities : doc[o].adj[e] > 0}]]
    /\ UNCHANGED <<events, stock, soldOut, doc, unsynced, ledger>>

UnmovedAny(o, e) == TRUE                                               \* mutant
Unmoved(o, e) == e \notin doc[o].moved
GiveItem(o, e) ==
    LET n == doc[o].adj[e] IN
    /\ act[o].pc = "give" /\ First(act[o].plan, e)
    /\ \/ /\ Tracked(stock[e]) /\ Unmoved(o, e)
          /\ Add(e, n)
          /\ doc' = [doc EXCEPT ![o].moved = @ \cup {e}]
          /\ act' = [act EXCEPT ![o].plan = @ \ {e}, ![o].sync = Touched(o, e)]
       \/ /\ ~(Tracked(stock[e]) /\ Unmoved(o, e))
          /\ Goto(o, "giveCheck")
          /\ UNCHANGED <<stock, doc, ledger>>
    /\ UNCHANGED <<events, soldOut, unsynced>>

(* A miss is fine when the key is there or the entity is not tracked; else *)
(* the attempt ends, to be repeated, before it set any flag.               *)
GiveCheck(o, e) ==
    /\ act[o].pc = "giveCheck" /\ First(act[o].plan, e)
    /\ IF Unmoved(o, e) /\ Tracked(stock[e])
       THEN Throw(o)
       ELSE /\ act' = [act EXCEPT ![o].pc = "give", ![o].plan = @ \ {e}]
            /\ UNCHANGED <<stock, soldOut, doc, unsynced, ledger>>
    /\ UNCHANGED events

GiveSync(o) ==
    /\ act[o].pc = "give" /\ act[o].plan = {}
    /\ act' = [act EXCEPT ![o].pc = "giveSync",
                          ![o].sync = {p \in Products : doc[o].adj[p] > 0}]
    /\ UNCHANGED <<events, stock, soldOut, doc, unsynced, ledger>>

(* What was skipped is no longer the order's, and not in stock either.     *)
GiveDone(o) ==
    LET skipped == {e \in Entities : doc[o].adj[e] > 0 /\ e \notin doc[o].moved} IN
    /\ act[o].pc = "giveSync" /\ act[o].sync = {}
    /\ doc' = [doc EXCEPT ![o].status = "REVERTED"]
    /\ out' = [e \in Entities |-> IF e \in skipped THEN out[e] - doc[o].adj[e] ELSE out[e]]
    /\ Lose(skipped, doc[o].adj)
    /\ End(o)
    /\ UNCHANGED <<events, stock, soldOut, unsynced>>

-----------------------------------------------------------------------------
(* Edits.  updatePosStock and the catalogue write quantity and flag at     *)
(* once; ingredients have no flag.                                         *)
Write(e, v) ==
    /\ stock[e] # Gone
    /\ stock' = [stock EXCEPT ![e] = v]
    /\ soldOut' = IF e \in Products THEN [soldOut EXCEPT ![e] = IsOut(v)] ELSE soldOut
    /\ drifted' = drifted \ {e} /\ unsynced' = unsynced \ {e}
    /\ Event
    /\ UNCHANGED <<doc, act, out>>

SetStock(e, n) ==
    /\ Write(e, n)
    /\ supply' = [supply EXCEPT ![e] = n + out[e]]

SetUnlimited(e) == Write(e, Untracked) /\ UNCHANGED supply

Remove(e) ==
    /\ stock[e] # Gone /\ Event
    /\ stock' = [stock EXCEPT ![e] = Gone]
    /\ UNCHANGED <<soldOut, doc, act, unsynced, ledger>>

(* The +/- controls: an increment of a tracked product, a clamp when it    *)
(* went below zero, the flag.                                              *)
DeltaBegin(w, p, k) ==
    /\ act[w].pc = "idle" /\ Tracked(stock[p]) /\ stock[p] + k \in -MaxStock .. MaxStock
    /\ Event
    /\ stock' = [stock EXCEPT ![p] = @ + k]
    /\ supply' = [supply EXCEPT ![p] = @ + Floor0(stock[p] + k) - Floor0(stock[p])]
    /\ drifted' = IF stock[p] < 0 /\ k > 0 THEN drifted \cup {p} ELSE drifted
    /\ act' = [act EXCEPT ![w].pc = IF stock[p] + k < 0 THEN "deltaClamp" ELSE "deltaFlag",
                          ![w].item = p]
    /\ UNCHANGED <<soldOut, doc, out, unsynced>>

DeltaClamp(w) ==
    LET p == act[w].item IN
    /\ act[w].pc = "deltaClamp"
    /\ stock' = IF Tracked(stock[p]) /\ stock[p] < 0 THEN [stock EXCEPT ![p] = 0] ELSE stock
    /\ Goto(w, "deltaFlag")
    /\ UNCHANGED <<events, soldOut, doc, unsynced, ledger>>

(* The flag is never written: this update is a pipeline without the option *)
(* updatePipeline, which Mongoose refuses, and the request throws.         *)
DeltaFlag(w) == act[w].pc = "deltaFlag" /\ Throw(w) /\ UNCHANGED events

-----------------------------------------------------------------------------
SaleStep(o) ==
    \/ \E strict \in BOOLEAN : SaleBegin(o, strict)
    \/ LoadProducts(o) \/ LoadIngredients(o)
    \/ \E e \in Entities : TakeStrict(o, e) \/ TakeOverride(o, e) \/ UndoItem(o, e)
    \/ \E p \in Products : Sync(o, p)
    \/ Clamp(o) \/ Record(o) \/ UndoRead(o) \/ UndoDone(o)

ReturnStep(o) ==
    \/ \E e \in Entities : GiveItem(o, e) \/ GiveCheck(o, e)
    \/ ReturnBegin(o) \/ GiveSync(o) \/ GiveDone(o)

EditStep(w) == DeltaClamp(w) \/ DeltaFlag(w)

Edit == \/ \E e \in Entities : \/ \E n \in Levels : SetStock(e, n)
                               \/ SetUnlimited(e) \/ Remove(e)
        \/ \E w \in Editors, p \in Products, k \in Deltas : DeltaBegin(w, p, k)

Next ==
    \/ \E o \in Orders : SaleStep(o) \/ ReturnStep(o)
    \/ \E w \in Editors : EditStep(w)
    \/ \E a \in Actors : Crash(a)
    \/ Edit

Spec == Init /\ [][Next]_vars

-----------------------------------------------------------------------------
(* Properties.                                                             *)

(* What is on the shelf and what paid or running orders account for is     *)
(* what the operators put in: overrides, clamps, rollbacks and returns in  *)
(* any order make no units up, and lose none but those counted as lost.    *)
UnitsAreReal ==
    \A e \in Entities : Tracked(stock[e]) => Floor0(stock[e]) + out[e] = supply[e]

(* The units accounted for are those in the documents of paid orders and   *)
(* in the hands of running sales: a failed sale keeps none, and a return   *)
(* repeated after a failure returns none twice.                            *)
Recorded(o, e) == IF doc[o].status = "PAID" /\ e \notin doc[o].moved THEN doc[o].adj[e] ELSE 0
OutIsRecorded ==
    \A e \in Entities :
        out[e] = FoldSet(LAMBDA o, n : n + act[o].got[e] + Recorded(o, e), 0, Orders)

(* When nothing runs no stock is negative, unless a known race moved it: a *)
(* return between an overridden decrement and its clamp, or a request that *)
(* died there; and the flag of a product follows its stock whatever ran    *)
(* side by side, if every request that changed it has set the flag, or     *)
(* thrown.                                                                 *)
AtRest == \A a \in Actors : act[a].pc = "idle"
SoundAtRest ==
    AtRest =>
        /\ \A e \in Entities \ drifted : Tracked(stock[e]) => stock[e] >= 0
        /\ \A p \in Products \ unsynced : stock[p] # Gone => soldOut[p] = IsOut(stock[p])

(* isSoldOut is aligned with the stock whenever nothing runs.              *)
FlagsAreAligned ==
    AtRest => \A p \in Products : stock[p] # Gone => soldOut[p] = IsOut(stock[p])
=============================================================================
