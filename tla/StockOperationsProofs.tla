----------------------- MODULE StockOperationsProofs -----------------------
(***************************************************************************)
(* TypeOK and UnitsAreReal hold in every instance of StockOperations, with *)
(* any products, carts, editors and bounds.  UnitsAreReal is not inductive *)
(* as it stands: a clamp sets a stock to zero, which keeps the account     *)
(* only because the value it compares with is negative (Clamps).           *)
(* SoundAtRest speaks of the end of all requests: RestInv says for each    *)
(* stock below zero and each wrong flag which request will put it right.   *)
(***************************************************************************)
EXTENDS StockOperations, TLAPS

Clamps == \A o \in Orders : act[o].pc = "clamp" => act[o].low < 0
IInv == TypeOK /\ Clamps /\ UnitsAreReal

LEMMA Ints == /\ Entities \subseteq Nat /\ Products \subseteq Entities
              /\ \A e \in Entities, o \in Orders : Demand[o][e] \in Nat
              /\ Levels \subseteq Nat
BY EntitiesAssumption, DemandAssumption, LevelsAssumption DEF Entities

LEMMA SetOne ==
    ASSUME NEW S, NEW T, NEW g \in [S -> T], NEW x, NEW v \in T
    PROVE  [g EXCEPT ![x] = v] \in [S -> T]
OBVIOUS

LEMMA TrackedInt ==
    ASSUME TypeOK, NEW e \in Entities, Tracked(stock[e])
    PROVE  stock[e] \in Int
BY DEF TypeOK, Tracked

LEMMA IntTracked == ASSUME NEW n \in Int PROVE Tracked(n) /\ n # Untracked /\ n # Gone
BY MarksAssumption DEF Tracked

LEMMA IdleType == Idle \in ActStates /\ Idle.pc # "clamp" /\ Nothing \in [Entities -> Nat]
<1>1. Nothing \in [Entities -> Nat]
  BY DEF Nothing
<1>2. <<>> \in Seq(Classes)
  OBVIOUS
<1>. QED
  BY <1>1, <1>2 DEF Idle, ActStates, NoEntity

LEMMA IInvInit == Init => IInv
<1> SUFFICES ASSUME Init PROVE IInv
  OBVIOUS
<1>1. stock \in [Entities -> Int \cup {Untracked, Gone}]
  <2>0. Levels \subseteq Int
    <3>1. Nat \subseteq Int
      OBVIOUS
    <3>. QED
      BY <3>1, LevelsAssumption, Zenon
  <2>1. Levels \cup {Untracked} \subseteq Int \cup {Untracked, Gone}
    BY <2>0
  <2>2. stock \in [Entities -> Levels \cup {Untracked}]
    BY DEF Init
  <2>. QED
    BY <2>1, <2>2, Zenon
<1>2. supply \in [Entities -> Int]
  BY <1>1, Ints DEF Init, Tracked
<1>3. TypeOK
  <2>1. soldOut \in [Products -> BOOLEAN]
    BY DEF Init, IsOut
  <2>2. doc \in [Orders -> OrderDocs]
    BY IdleType DEF Init, OrderDocs
  <2>3. act \in [Actors -> ActStates]
    BY IdleType DEF Init
  <2>. QED
    <3>1. events \in 0 .. MaxEvents
      BY LevelsAssumption DEF Init
    <3>2. out \in [Entities -> Int] /\ drifted \in SUBSET Entities /\ unsynced \in SUBSET Products
      BY DEF Init, Nothing
    <3>. QED
      BY <1>1, <1>2, <2>1, <2>2, <2>3, <3>1, <3>2 DEF TypeOK
<1>4. Clamps
  BY IdleType DEF Init, Clamps, Actors
<1>5. UnitsAreReal
  BY <1>1, Ints, LevelsAssumption DEF Init, UnitsAreReal, Floor0, Nothing, Tracked
<1>. QED
  BY <1>3, <1>4, <1>5 DEF IInv

-----------------------------------------------------------------------------
(* The parts the actions are made of.                                      *)

(* act' and the bookkeeping of Lose, Throw and Add keep their types.       *)
ActOK == act' \in [Actors -> ActStates]
LedgerOK == /\ out' \in [Entities -> Int] /\ supply' \in [Entities -> Int]
            /\ drifted' \in SUBSET Entities

LEMMA EndType == ASSUME TypeOK, NEW a \in Actors, End(a) PROVE ActOK
BY IdleType DEF TypeOK, End, ActOK

LEMMA Fields ==
    ASSUME TypeOK, NEW a \in Actors
    PROVE  /\ act[a] \in ActStates
           /\ act[a].plan \in SUBSET Entities /\ act[a].got \in [Entities -> Nat]
           /\ act[a].item \in Entities \cup {NoEntity} /\ act[a].low \in Int
           /\ act[a].calls \in Seq(Classes) /\ act[a].sync \in SUBSET Products
<1>1. act[a] \in ActStates
  BY DEF TypeOK
<1>. QED
  BY <1>1 DEF ActStates

(* A request whose new state is one: act keeps its type.                   *)
LEMMA Becomes ==
    ASSUME TypeOK, NEW a \in Actors, NEW r \in ActStates, act' = [act EXCEPT ![a] = r]
    PROVE  ActOK
BY DEF TypeOK, ActOK

LEMMA CallsType == ASSUME NEW e \in Entities PROVE CallsAfter(e) \in Seq(Classes)
<1>1. "products" \in Classes /\ "ingredients" \in Classes
  BY DEF Classes
<1>2. <<"products">> \in Seq(Classes) /\ <<"ingredients", "products">> \in Seq(Classes)
  BY <1>1
<1>. QED
  BY <1>2, Zenon DEF CallsAfter

LEMMA UndoType ==
    ASSUME TypeOK, NEW o \in Orders, NEW calls \in Seq(Classes), Undo(o, calls)
    PROVE  ActOK
<1> DEFINE r == [act[o] EXCEPT !.pc = "undo", !.plan = {}, !.sync = {}, !.calls = calls]
<1>1. act[o] \in ActStates /\ o \in Actors
  BY Fields DEF Actors
<1>2. r \in ActStates
  BY <1>1 DEF ActStates
<1>3. act' = [act EXCEPT ![o] = r]
  BY DEF Undo
<1>. QED
  BY <1>1, <1>2, <1>3, Becomes

LEMMA AddType ==
    ASSUME TypeOK, NEW e \in Entities, NEW n \in Nat, Tracked(stock[e]), Add(e, n)
    PROVE  LedgerOK /\ stock' \in [Entities -> Int \cup {Untracked, Gone}]
<1>1. stock[e] \in Int
  BY TrackedInt
<1>2. Filled(stock[e], n) \in Int /\ stock[e] + n \in Int
  BY <1>1 DEF Filled, Lesser, Floor0
<1>. QED
  BY <1>1, <1>2 DEF TypeOK, Add, LedgerOK

LEMMA LoseType ==
    ASSUME TypeOK, NEW S \in SUBSET Entities, NEW n \in [Entities -> Nat], Lose(S, n)
    PROVE  supply' \in [Entities -> Int] /\ drifted' \in SUBSET Entities
BY DEF TypeOK, Lose

LEMMA ThrowType ==
    ASSUME TypeOK, NEW a \in Actors, Throw(a)
    PROVE  ActOK /\ LedgerOK /\ unsynced' \in SUBSET Products
<1>1. act[a] \in ActStates
  BY DEF TypeOK
<1>2. act[a].got \in [Entities -> Nat] /\ act[a].sync \in SUBSET Products
  BY <1>1 DEF ActStates
<1>3. Lose(Pending(a), act[a].got)
  BY DEF Throw
<1>4. supply' \in [Entities -> Int] /\ drifted' \in SUBSET Entities
  BY <1>2, <1>3, LoseType DEF Pending
<1>5. ActOK
  BY EndType DEF Throw
<1>6. out' \in [Entities -> Int]
  BY <1>2 DEF TypeOK, Throw
<1>7. unsynced' \in SUBSET Products
  BY <1>2 DEF TypeOK, Throw, Flags
<1>. QED
  BY <1>4, <1>5, <1>6, <1>7 DEF LedgerOK

(* A step that moves one request and no units.                             *)
Aside == /\ soldOut' \in [Products -> BOOLEAN] /\ doc' \in [Orders -> OrderDocs]
         /\ events' \in 0 .. MaxEvents /\ unsynced' \in SUBSET Products

LEMMA AsideSame ==
    ASSUME TypeOK
    PROVE  /\ soldOut \in [Products -> BOOLEAN] /\ doc \in [Orders -> OrderDocs]
           /\ events \in 0 .. MaxEvents /\ unsynced \in SUBSET Products
BY DEF TypeOK

LEMMA ClampsKept ==
    ASSUME TypeOK, Clamps, NEW a \in Actors, NEW r \in ActStates,
           act' = [act EXCEPT ![a] = r], r.pc = "clamp" => r.low < 0
    PROVE  Clamps'
BY DEF TypeOK, Clamps, Actors

LEMMA Moves ==
    ASSUME IInv, NEW a \in Actors, NEW r \in ActStates, act' = [act EXCEPT ![a] = r],
           r.pc = "clamp" => r.low < 0, Aside, UNCHANGED <<stock, ledger>>
    PROVE  IInv'
<1>1. ActOK
  BY Becomes DEF IInv
<1>2. TypeOK'
  BY <1>1 DEF IInv, TypeOK, ActOK, Aside, ledger
<1>3. Clamps'
  BY ClampsKept DEF IInv
<1>4. UnitsAreReal'
  BY DEF IInv, UnitsAreReal, ledger
<1>. QED
  BY <1>2, <1>3, <1>4 DEF IInv

LEMMA Ends ==
    ASSUME IInv, NEW a \in Actors, End(a), Aside, UNCHANGED <<stock, ledger>>
    PROVE  IInv'
BY Moves, IdleType DEF End

LEMMA Throws ==
    ASSUME IInv, NEW a \in Actors, Throw(a), events' \in 0 .. MaxEvents
    PROVE  IInv'
<1>1. TypeOK'
  BY ThrowType DEF IInv, TypeOK, Throw, ActOK, LedgerOK
<1>2. Clamps'
  BY ClampsKept, IdleType DEF IInv, Throw, End
<1>3. UnitsAreReal'
  <2> SUFFICES ASSUME NEW e \in Entities, Tracked(stock[e])
      PROVE  Floor0(stock[e]) + out'[e] = supply'[e]
    BY DEF Throw, UnitsAreReal
  <2>1. out'[e] = out[e] - act[a].got[e] /\ act[a].got[e] \in Nat
    BY Fields DEF IInv, Throw
  <2>2. supply'[e] = IF e \in Pending(a) THEN supply[e] - act[a].got[e] ELSE supply[e]
    BY DEF Throw, Lose
  <2>3. Floor0(stock[e]) + out[e] = supply[e]
    BY DEF IInv, UnitsAreReal
  <2>4. e \notin Pending(a) => act[a].got[e] = 0
    BY <2>1 DEF Pending
  <2>5. out[e] \in Int /\ supply[e] \in Int /\ Floor0(stock[e]) \in Int
    BY TrackedInt DEF IInv, TypeOK, Floor0
  <2>. QED
    BY <2>1, <2>2, <2>3, <2>4, <2>5
<1>. QED
  BY <1>1, <1>2, <1>3 DEF IInv

(* Add puts units back without making any up.                              *)
LEMMA Adds ==
    ASSUME IInv, NEW f \in Entities, NEW n \in Nat, Tracked(stock[f]), Add(f, n)
    PROVE  UnitsAreReal'
<1> SUFFICES ASSUME NEW e \in Entities, Tracked(stock'[e])
    PROVE  Floor0(stock'[e]) + out'[e] = supply'[e]
  BY DEF UnitsAreReal
<1>1. stock \in [Entities -> Int \cup {Untracked, Gone}] /\ out \in [Entities -> Int]
      /\ supply \in [Entities -> Int]
  BY DEF IInv, TypeOK
<1>2. CASE e # f
  BY <1>1, <1>2 DEF Add, IInv, UnitsAreReal
<1>3. CASE e = f
  <2>1. stock[f] \in Int /\ Floor0(stock[f]) + out[f] = supply[f]
    BY TrackedInt DEF IInv, UnitsAreReal
  <2>2. stock'[f] = stock[f] + n /\ out'[f] = out[f] - n
        /\ supply'[f] = supply[f] - Filled(stock[f], n)
    BY <1>1 DEF Add
  <2>. QED
    BY <1>1, <1>3, <2>1, <2>2 DEF Filled, Lesser, Floor0
<1>. QED
  BY <1>2, <1>3

-----------------------------------------------------------------------------
(* The actions of a sale.                                                  *)

LEMMA KnownType ==
    ASSUME NEW o \in Orders, NEW C \in SUBSET Entities
    PROVE  Known(o, C) \in SUBSET Entities /\ Wanted(o, C) \in SUBSET Entities
BY DEF Known, Wanted

LEMMA Begins ==
    ASSUME IInv, NEW o \in Orders, NEW strict \in BOOLEAN,
           SaleBegin(o, strict) \/ LoadProducts(o) \/ LoadIngredients(o)
    PROVE  IInv'
<1>0. o \in Actors /\ act[o] \in ActStates /\ TypeOK
  BY Fields DEF Actors, IInv
<1>1. Aside /\ UNCHANGED <<stock, ledger>>
  BY AsideSame, <1>0 DEF SaleBegin, LoadProducts, LoadIngredients, Aside
<1>2. CASE SaleBegin(o, strict)
  <2> DEFINE r == [Idle EXCEPT !.pc = "loadProducts", !.strict = strict]
  <2>1. r \in ActStates /\ r.pc # "clamp"
    BY IdleType DEF ActStates
  <2>2. act' = [act EXCEPT ![o] = r]
    BY <1>2 DEF SaleBegin
  <2>. QED
    BY <1>0, <1>1, <2>1, <2>2, Moves
<1>3. CASE LoadProducts(o)
  <2> DEFINE r == [act[o] EXCEPT !.pc = "loadIngredients", !.plan = Known(o, Products),
                                 !.bad = Refused(o, Products, act[o].strict)]
  <2>1. Known(o, Products) \in SUBSET Entities
    BY KnownType, Ints
  <2>2. Refused(o, Products, act[o].strict) \in BOOLEAN
    BY DEF Refused
  <2>3. r \in ActStates /\ r.pc # "clamp"
    BY <1>0, <2>1, <2>2 DEF ActStates
  <2>4. act' = [act EXCEPT ![o] = r]
    BY <1>3 DEF LoadProducts
  <2>. QED
    BY <1>0, <1>1, <2>3, <2>4, Moves
<1>4. CASE LoadIngredients(o) /\ End(o)
  BY <1>0, <1>1, <1>4, Ends
<1>5. CASE LoadIngredients(o) /\ ~End(o)
  <2> DEFINE r == [act[o] EXCEPT !.pc = "take", !.plan = @ \cup Known(o, Ingredients)]
  <2>1. Known(o, Ingredients) \in SUBSET Entities
    BY KnownType DEF Entities
  <2>2. r \in ActStates /\ r.pc # "clamp"
    BY <1>0, <2>1 DEF ActStates
  <2>3. act' = [act EXCEPT ![o] = r]
    BY <1>5 DEF LoadIngredients
  <2>. QED
    BY <1>0, <1>1, <2>2, <2>3, Moves
<1>. QED
  BY <1>2, <1>3, <1>4, <1>5

(* Units move from the shelf to the sale: as many as the ledger records.   *)
LEMMA Takes ==
    ASSUME IInv, NEW o \in Orders, NEW e \in Entities, NEW n \in Nat,
           NEW pc \in {"take", "clamp"}, Took(o, e, n, pc), Tracked(stock[e]),
           stock' = [stock EXCEPT ![e] = @ - Demand[o][e]],
           Floor0(stock[e] - Demand[o][e]) + n = Floor0(stock[e]),
           pc = "clamp" => stock[e] < Demand[o][e],
           UNCHANGED <<events, soldOut, doc, supply, drifted, unsynced>>
    PROVE  IInv'
<1>0. o \in Actors /\ act[o] \in ActStates /\ TypeOK /\ Aside
  BY Fields, AsideSame DEF Actors, IInv, Aside
<1>1. stock[e] \in Int /\ Demand[o][e] \in Nat
  BY <1>0, TrackedInt, Ints
<1> DEFINE r == [act[o] EXCEPT !.pc = pc, !.plan = @ \ {e}, !.got[e] = n,
                     !.sync = Touched(o, e), !.item = IF pc = "clamp" THEN e ELSE @,
                     !.low = IF pc = "clamp" THEN stock[e] - Demand[o][e] ELSE @]
<1>2. r \in ActStates
  <2>1. Touched(o, e) \in SUBSET Products /\ [act[o].got EXCEPT ![e] = n] \in [Entities -> Nat]
    BY <1>0, Fields DEF Touched
  <2>2. (IF pc = "clamp" THEN stock[e] - Demand[o][e] ELSE act[o].low) \in Int
    BY <1>0, <1>1, Fields
  <2>. QED
    BY <1>0, <2>1, <2>2 DEF ActStates
<1>3. act' = [act EXCEPT ![o] = r]
  BY ZenonT(90) DEF Took
<1>4. r.pc = "clamp" => r.low < 0
  BY <1>0, <1>1 DEF ActStates
<1>5. TypeOK'
  <2>1. stock' \in [Entities -> Int \cup {Untracked, Gone}]
    BY <1>0, <1>1 DEF TypeOK
  <2>2. out' \in [Entities -> Int]
    BY <1>0 DEF TypeOK, Took
  <2>3. ActOK
    BY <1>0, <1>2, <1>3, Becomes
  <2>. QED
    BY <1>0, <2>1, <2>2, <2>3 DEF TypeOK, Aside, ActOK
<1>6. Clamps'
  BY <1>0, <1>2, <1>3, <1>4, ClampsKept DEF IInv
<1>7. UnitsAreReal'
  <2> SUFFICES ASSUME NEW f \in Entities, Tracked(stock'[f])
      PROVE  Floor0(stock'[f]) + out'[f] = supply[f]
    BY DEF UnitsAreReal
  <2>1. CASE f # e
    BY <1>0, <2>1 DEF TypeOK, Took, IInv, UnitsAreReal
  <2>2. CASE f = e
    <3>1. Floor0(stock[e]) + out[e] = supply[e]
      BY DEF IInv, UnitsAreReal
    <3>2. stock'[e] = stock[e] - Demand[o][e] /\ out'[e] = out[e] + n
      BY <1>0 DEF TypeOK, Took
    <3>3. out[e] \in Int /\ Floor0(stock[e] - Demand[o][e]) \in Int
      BY <1>0, <1>1 DEF TypeOK, Floor0
    <3>. QED
      BY <2>2, <3>1, <3>2, <3>3
  <2>. QED
    BY <2>1, <2>2
<1>. QED
  BY <1>5, <1>6, <1>7 DEF IInv

LEMMA Undoes ==
    ASSUME IInv, NEW o \in Orders, NEW calls \in Seq(Classes), Undo(o, calls), Aside,
           UNCHANGED <<stock, ledger>>
    PROVE  IInv'
<1> DEFINE r == [act[o] EXCEPT !.pc = "undo", !.plan = {}, !.sync = {}, !.calls = calls]
<1>1. act[o] \in ActStates /\ o \in Actors
  BY Fields DEF Actors, IInv
<1>2. r \in ActStates /\ r.pc # "clamp"
  BY <1>1 DEF ActStates
<1>3. act' = [act EXCEPT ![o] = r]
  BY DEF Undo
<1>. QED
  BY <1>1, <1>2, <1>3, Moves

LEMMA TakesStrict ==
    ASSUME IInv, NEW o \in Orders, NEW e \in Entities, TakeStrict(o, e)
    PROVE  IInv'
<1>1. CASE Tracked(stock[e]) /\ stock[e] >= Demand[o][e]
  <2>1. stock[e] \in Int /\ Demand[o][e] \in Nat
    BY <1>1, TrackedInt, Ints DEF IInv
  <2>2. Floor0(stock[e] - Demand[o][e]) + Demand[o][e] = Floor0(stock[e])
    BY <1>1, <2>1 DEF Floor0
  <2>3. /\ Took(o, e, Demand[o][e], "take")
        /\ stock' = [stock EXCEPT ![e] = @ - Demand[o][e]]
        /\ UNCHANGED <<events, soldOut, doc, supply, drifted, unsynced>>
    BY <1>1 DEF TakeStrict
  <2>. QED
    BY <1>1, <2>1, <2>2, <2>3, Takes
<1>2. CASE ~(Tracked(stock[e]) /\ stock[e] >= Demand[o][e])
  <2>1. Undo(o, CallsAfter(e)) /\ UNCHANGED <<stock, ledger>> /\ Aside
    BY <1>2, AsideSame DEF TakeStrict, ledger, Aside, IInv
  <2>. QED
    BY <2>1, CallsType, Undoes
<1>. QED
  BY <1>1, <1>2

LEMMA TakesOverride ==
    ASSUME IInv, NEW o \in Orders, NEW e \in Entities, TakeOverride(o, e)
    PROVE  IInv'
<1>1. CASE Tracked(stock[e])
  <2> DEFINE n  == Covered(stock[e], Demand[o][e])
             pc == IF stock[e] < Demand[o][e] THEN "clamp" ELSE "take"
  <2>1. stock[e] \in Int /\ Demand[o][e] \in Nat
    BY <1>1, TrackedInt, Ints DEF IInv
  <2>2. n \in Nat /\ Floor0(stock[e] - Demand[o][e]) + n = Floor0(stock[e])
    BY <2>1 DEF Covered, Lesser, Floor0
  <2>3. /\ Took(o, e, n, pc)
        /\ stock' = [stock EXCEPT ![e] = @ - Demand[o][e]]
        /\ UNCHANGED <<events, soldOut, doc, supply, drifted, unsynced>>
    BY <1>1, MarksAssumption DEF TakeOverride, Tracked
  <2>4. pc \in {"take", "clamp"} /\ (pc = "clamp" => stock[e] < Demand[o][e])
    OBVIOUS
  <2> HIDE DEF n, pc
  <2>. QED
    BY <1>1, <2>2, <2>3, <2>4, Takes
<1>2. CASE stock[e] = Gone
  <2>1. Undo(o, CallsAfter(e)) /\ UNCHANGED <<stock, ledger>>
    BY <1>2, MarksAssumption DEF TakeOverride, Tracked
  <2>2. Aside
    BY <1>2, AsideSame, MarksAssumption DEF TakeOverride, Tracked, Aside, IInv
  <2>. QED
    BY <2>1, <2>2, CallsType, Undoes
<1>3. CASE stock[e] = Untracked
  <2>1. Throw(o) /\ events' \in 0 .. MaxEvents /\ o \in Actors
    BY <1>3, AsideSame, MarksAssumption DEF TakeOverride, Tracked, IInv, Actors
  <2>. QED
    BY <2>1, Throws
<1>. QED
  BY <1>1, <1>2, <1>3 DEF Tracked

(* The clamp compares with a negative value, so no real unit disappears.   *)
LEMMA Clamped ==
    ASSUME IInv, NEW o \in Orders, Clamp(o)
    PROVE  IInv'
<1> DEFINE f == act[o].item
           r == [act[o] EXCEPT !.pc = "take", !.item = NoEntity, !.low = 0]
<1>0. o \in Actors /\ act[o] \in ActStates /\ TypeOK
  BY Fields DEF Actors, IInv
<1>1. r \in ActStates /\ r.pc # "clamp"
  <2>1. NoEntity \in Entities \cup {NoEntity} /\ 0 \in Int
    OBVIOUS
  <2> HIDE DEF f
  <2>. QED
    BY <1>0, <2>1 DEF ActStates
<1>2. act' = [act EXCEPT ![o] = r] /\ UNCHANGED <<events, soldOut, doc, unsynced, ledger>>
  BY DEF Clamp
<1>3. act[o].low < 0 /\ act[o].low \in Int
  BY <1>0, Fields DEF IInv, Clamps, Clamp
<1>4. stock' = IF stock[f] = act[o].low THEN [stock EXCEPT ![f] = 0] ELSE stock
  BY DEF Clamp, ClampHits
<1>5. stock' \in [Entities -> Int \cup {Untracked, Gone}]
  <2>1. stock \in [Entities -> Int \cup {Untracked, Gone}]
    BY <1>0 DEF TypeOK
  <2> HIDE DEF f
  <2>2. [stock EXCEPT ![f] = 0] \in [Entities -> Int \cup {Untracked, Gone}]
    <3>1. 0 \in Int \cup {Untracked, Gone}
      OBVIOUS
    <3>. QED
      BY <2>1, <3>1, SetOne, Zenon
  <2>3. CASE stock[f] = act[o].low
    BY <1>4, <2>2, <2>3
  <2>4. CASE stock[f] # act[o].low
    BY <1>4, <2>1, <2>4
  <2>. QED
    BY <2>3, <2>4
<1>6. TypeOK'
  <2>1. ActOK
    BY <1>0, <1>1, <1>2, Becomes
  <2>. QED
    BY <1>0, <1>2, <1>5, <2>1 DEF TypeOK, ActOK, ledger
<1>7. Clamps'
  BY <1>0, <1>1, <1>2, ClampsKept DEF IInv
<1>8. UnitsAreReal'
  <2> SUFFICES ASSUME NEW e \in Entities, Tracked(stock'[e])
      PROVE  Floor0(stock'[e]) + out[e] = supply[e]
    BY <1>2 DEF UnitsAreReal, ledger
  <2>1. CASE stock'[e] = stock[e]
    BY <2>1 DEF IInv, UnitsAreReal
  <2>2. CASE stock'[e] # stock[e]
    <3>1. stock[e] = act[o].low /\ stock'[e] = 0
      BY <1>0, <1>4, <2>2 DEF TypeOK
    <3>2. Tracked(stock[e])
      BY <1>3, <3>1, IntTracked
    <3>3. Floor0(stock[e]) = 0 /\ Floor0(0) = 0
      BY <1>3, <3>1 DEF Floor0
    <3>. QED
      BY <3>1, <3>2, <3>3 DEF IInv, UnitsAreReal
  <2>. QED
    BY <2>1, <2>2
<1>. QED
  BY <1>6, <1>7, <1>8 DEF IInv

LEMMA Synced ==
    ASSUME IInv, NEW o \in Orders, NEW p \in Products, Sync(o, p)
    PROVE  IInv'
<1> DEFINE r == [act[o] EXCEPT !.sync = @ \ {p}]
<1>0. o \in Actors /\ act[o] \in ActStates /\ TypeOK
  BY Fields DEF Actors, IInv
<1>1. r \in ActStates /\ r.pc # "clamp"
  BY <1>0 DEF ActStates, Sync
<1>2. act' = [act EXCEPT ![o] = r] /\ UNCHANGED <<events, stock, doc, ledger>>
  BY DEF Sync
<1>3. soldOut' \in [Products -> BOOLEAN]
  BY <1>0 DEF TypeOK, Sync, IsOut
<1>4. Aside
  BY <1>0, <1>2, <1>3 DEF TypeOK, Sync, Aside
<1>. QED
  BY <1>0, <1>1, <1>2, <1>4, Moves

LEMMA Records ==
    ASSUME IInv, NEW o \in Orders, Record(o)
    PROVE  IInv'
<1>0. o \in Actors /\ act[o] \in ActStates /\ TypeOK
  BY Fields DEF Actors, IInv
<1>1. CASE doc' = [doc EXCEPT ![o].status = "PAID", ![o].adj = act[o].got] /\ End(o)
  <2>1. act[o].got \in [Entities -> Nat]
    BY <1>0, Fields
  <2> DEFINE d == [doc[o] EXCEPT !.status = "PAID", !.adj = act[o].got]
  <2>2. doc' \in [Orders -> OrderDocs]
    <3>1. doc \in [Orders -> OrderDocs] /\ doc[o] \in OrderDocs
      BY <1>0 DEF TypeOK
    <3>2. d \in OrderDocs
      BY <2>1, <3>1 DEF OrderDocs
    <3>3. doc' = [doc EXCEPT ![o] = d]
      BY <1>1
    <3>. QED
      BY <3>1, <3>2, <3>3
  <2>3. Aside /\ UNCHANGED <<stock, ledger>>
    BY <1>0, <2>2 DEF TypeOK, Aside, Record
  <2>. QED
    BY <1>0, <1>1, <2>3, Ends
<1>2. CASE Undo(o, <<"products", "ingredients">>) /\ UNCHANGED doc
  <2>1. <<"products", "ingredients">> \in Seq(Classes)
    BY DEF Classes
  <2>2. Aside /\ UNCHANGED <<stock, ledger>>
    BY <1>0, <1>2 DEF TypeOK, Aside, Record
  <2>. QED
    BY <1>2, <2>1, <2>2, Undoes
<1>. QED
  BY <1>1, <1>2 DEF Record

-----------------------------------------------------------------------------
(* The actions of a rollback and of a return.                              *)

(* Units written off in a step that leaves the shelf alone: only those of  *)
(* entities that are not tracked.                                          *)
LEMMA WritesOff ==
    ASSUME IInv, NEW S \in SUBSET Entities, NEW n \in [Entities -> Nat],
           \A e \in S : ~Tracked(stock[e]),
           out' = [e \in Entities |-> IF e \in S THEN out[e] - n[e] ELSE out[e]],
           UNCHANGED <<stock, supply>>
    PROVE  UnitsAreReal' /\ out' \in [Entities -> Int]
<1>1. out' \in [Entities -> Int]
  BY DEF IInv, TypeOK
<1>2. UnitsAreReal'
  BY DEF IInv, TypeOK, UnitsAreReal
<1>. QED
  BY <1>1, <1>2

LEMMA UndoReads ==
    ASSUME IInv, NEW o \in Orders, UndoRead(o)
    PROVE  IInv'
<1> DEFINE class == IF Head(act[o].calls) = "products" THEN Products ELSE Ingredients
           took  == {e \in class : act[o].got[e] > 0}
           kept  == {e \in took : Tracked(stock[e])}
           left  == [e \in Entities |-> IF e \in took \ kept THEN 0 ELSE act[o].got[e]]
           r     == [act[o] EXCEPT !.plan = kept, !.calls = Tail(@), !.got = left]
<1>0. o \in Actors /\ act[o] \in ActStates /\ TypeOK
  BY Fields DEF Actors, IInv
<1>1. act[o].got \in [Entities -> Nat] /\ act[o].calls \in Seq(Classes) /\ act[o].calls # <<>>
  BY <1>0, Fields DEF UndoRead
<1>2. class \in SUBSET Entities
  BY DEF Entities
<1> HIDE DEF class
<1>3. kept \in SUBSET Entities /\ took \ kept \in SUBSET Entities /\ left \in [Entities -> Nat]
  BY <1>1, <1>2
<1>4. Tail(act[o].calls) \in Seq(Classes)
  BY <1>1
<1>5. /\ out' = [e \in Entities |-> IF e \in took \ kept THEN out[e] - act[o].got[e] ELSE out[e]]
      /\ UNCHANGED <<stock, supply, drifted, events, soldOut, doc, unsynced>>
  BY DEF UndoRead, class
<1>6. act' = [act EXCEPT ![o] = r]
  BY DEF UndoRead, class
<1>7. act[o].pc = "undo"
  BY DEF UndoRead
<1>8. \A e \in took \ kept : ~Tracked(stock[e])
  OBVIOUS
<1> HIDE DEF took, kept, left
<1>9. r \in ActStates /\ r.pc # "clamp"
  BY <1>0, <1>3, <1>4, <1>7 DEF ActStates
<1>10. UnitsAreReal' /\ out' \in [Entities -> Int]
  BY <1>1, <1>3, <1>5, <1>8, WritesOff
<1>11. TypeOK'
  <2>1. ActOK
    BY <1>0, <1>6, <1>9, Becomes
  <2>. QED
    BY <1>0, <1>5, <1>10, <2>1 DEF TypeOK, ActOK
<1>12. Clamps'
  BY <1>0, <1>6, <1>9, ClampsKept DEF IInv
<1>. QED
  BY <1>10, <1>11, <1>12 DEF IInv

(* A step of a request whose ledger balances.                              *)
LEMMA Balances ==
    ASSUME IInv, NEW a \in Actors, NEW r \in ActStates, act' = [act EXCEPT ![a] = r],
           r.pc # "clamp", Aside, LedgerOK, UnitsAreReal',
           stock' \in [Entities -> Int \cup {Untracked, Gone}]
    PROVE  IInv'
<1>1. ActOK
  BY Becomes DEF IInv
<1>2. TypeOK'
  BY <1>1 DEF TypeOK, ActOK, Aside, LedgerOK
<1>3. Clamps'
  BY ClampsKept DEF IInv
<1>. QED
  BY <1>2, <1>3 DEF IInv

LEMMA UndoesItem ==
    ASSUME IInv, NEW o \in Orders, NEW e \in Entities, UndoItem(o, e)
    PROVE  IInv'
<1> DEFINE n == act[o].got[e]
           r == [act[o] EXCEPT !.plan = @ \ {e}, !.got[e] = 0, !.sync = Touched(o, e)]
<1>0. o \in Actors /\ act[o] \in ActStates /\ TypeOK /\ act[o].pc = "undo"
  BY Fields DEF Actors, IInv, UndoItem
<1>1. act[o].got \in [Entities -> Nat] /\ n \in Nat /\ Touched(o, e) \in SUBSET Products
  BY <1>0, Fields DEF Touched
<1>2. CASE stock[e] = Untracked
  <2>1. Throw(o) /\ events' \in 0 .. MaxEvents
    BY <1>0, <1>2, AsideSame DEF UndoItem
  <2>. QED
    BY <1>0, <2>1, Throws
<1>3. CASE stock[e] # Untracked
  <2>1. act' = [act EXCEPT ![o] = r] /\ UNCHANGED <<soldOut, doc, unsynced, events>>
    BY <1>3 DEF UndoItem
  <2>2. r \in ActStates /\ r.pc # "clamp"
    <3>1. [act[o].got EXCEPT ![e] = 0] \in [Entities -> Nat]
      BY <1>1
    <3>. QED
      BY <1>0, <1>1, <3>1 DEF ActStates
  <2>3. Aside
    BY <1>0, <2>1, AsideSame DEF Aside
  <2> HIDE DEF n, r
  <2>4. CASE stock[e] # Gone
    <3>1. Tracked(stock[e]) /\ Add(e, n)
      BY <1>3, <2>4 DEF UndoItem, Tracked, n
    <3>. QED
      BY <1>0, <1>1, <2>1, <2>2, <2>3, <3>1, AddType, Adds, Balances
  <2>5. CASE stock[e] = Gone
    <3>1. out' = [out EXCEPT ![e] = @ - n] /\ UNCHANGED <<stock, supply, drifted>>
      BY <1>3, <2>5 DEF UndoItem, n
    <3>2. UnitsAreReal' /\ LedgerOK
      BY <1>0, <1>1, <2>5, <3>1 DEF IInv, TypeOK, UnitsAreReal, Tracked, LedgerOK
    <3>3. stock' \in [Entities -> Int \cup {Untracked, Gone}]
      BY <1>0, <3>1 DEF TypeOK
    <3>. QED
      BY <1>0, <2>1, <2>2, <2>3, <3>2, <3>3, Balances
  <2>. QED
    BY <2>4, <2>5
<1>. QED
  BY <1>2, <1>3

LEMMA DocType ==
    ASSUME TypeOK, NEW o \in Orders
    PROVE  doc[o] \in OrderDocs /\ doc[o].adj \in [Entities -> Nat]
           /\ doc[o].moved \in SUBSET Entities
<1>1. doc[o] \in OrderDocs
  BY DEF TypeOK
<1>. QED
  BY <1>1 DEF OrderDocs

LEMMA GivesItem ==
    ASSUME IInv, NEW o \in Orders, NEW e \in Entities, GiveItem(o, e)
    PROVE  IInv'
<1> DEFINE n == doc[o].adj[e]
           r == [act[o] EXCEPT !.plan = @ \ {e}, !.sync = Touched(o, e)]
           d == [doc[o] EXCEPT !.moved = @ \cup {e}]
           c == [act[o] EXCEPT !.pc = "giveCheck"]
<1>0. o \in Actors /\ act[o] \in ActStates /\ TypeOK /\ act[o].pc = "give"
  BY Fields DEF Actors, IInv, GiveItem
<1>1. n \in Nat /\ doc[o] \in OrderDocs
  BY <1>0, DocType
<1>2. CASE Tracked(stock[e]) /\ Unmoved(o, e)
  <2>1. /\ act' = [act EXCEPT ![o] = r] /\ doc' = [doc EXCEPT ![o] = d]
        /\ UNCHANGED <<soldOut, unsynced, events>> /\ Add(e, n)
    BY <1>2 DEF GiveItem
  <2>2. r \in ActStates /\ r.pc # "clamp"
    <3>1. Touched(o, e) \in SUBSET Products
      BY <1>0, Fields DEF Touched
    <3>. QED
      BY <1>0, <3>1 DEF ActStates
  <2>3. Aside
    <3>1. d \in OrderDocs
      BY <1>1 DEF OrderDocs
    <3>. QED
      BY <1>0, <2>1, <3>1 DEF Aside, TypeOK
  <2> HIDE DEF n, r, d
  <2>. QED
    BY <1>0, <1>1, <1>2, <2>1, <2>2, <2>3, AddType, Adds, Balances
<1>3. CASE ~(Tracked(stock[e]) /\ Unmoved(o, e))
  <2>1. c \in ActStates /\ c.pc # "clamp"
    BY <1>0 DEF ActStates
  <2>2. /\ act' = [act EXCEPT ![o] = c]
        /\ UNCHANGED <<stock, doc, ledger, events, soldOut, unsynced>>
    BY <1>3 DEF GiveItem, Goto
  <2>3. Aside
    BY <1>0, <2>2, AsideSame DEF Aside
  <2>. QED
    BY <1>0, <2>1, <2>2, <2>3, Moves
<1>. QED
  BY <1>2, <1>3

LEMMA GivesOn ==
    ASSUME IInv, NEW o \in Orders, ReturnBegin(o) \/ GiveSync(o) \/ UndoDone(o)
    PROVE  IInv'
<1>0. o \in Actors /\ act[o] \in ActStates /\ TypeOK
  BY Fields DEF Actors, IInv
<1>1. Aside /\ UNCHANGED <<stock, ledger>>
  BY <1>0, AsideSame DEF ReturnBegin, GiveSync, UndoDone, Aside
<1>2. CASE ReturnBegin(o)
  <2> DEFINE r == [Idle EXCEPT !.pc = "give", !.plan = {e \in Entities : doc[o].adj[e] > 0}]
  <2>1. r \in ActStates /\ r.pc # "clamp"
    BY IdleType DEF ActStates
  <2>2. act' = [act EXCEPT ![o] = r]
    BY <1>2 DEF ReturnBegin
  <2>. QED
    BY <1>0, <1>1, <2>1, <2>2, Moves
<1>3. CASE GiveSync(o)
  <2> DEFINE r == [act[o] EXCEPT !.pc = "giveSync",
                                 !.sync = {p \in Products : doc[o].adj[p] > 0}]
  <2>1. r \in ActStates /\ r.pc # "clamp"
    BY <1>0 DEF ActStates
  <2>2. act' = [act EXCEPT ![o] = r]
    BY <1>3 DEF GiveSync
  <2>. QED
    BY <1>0, <1>1, <2>1, <2>2, Moves
<1>4. CASE UndoDone(o)
  BY <1>0, <1>1, <1>4, Ends DEF UndoDone
<1>. QED
  BY <1>2, <1>3, <1>4

LEMMA GivesCheck ==
    ASSUME IInv, NEW o \in Orders, NEW e \in Entities, GiveCheck(o, e)
    PROVE  IInv'
<1> DEFINE r == [act[o] EXCEPT !.pc = "give", !.plan = @ \ {e}]
<1>0. o \in Actors /\ act[o] \in ActStates /\ TypeOK
  BY Fields DEF Actors, IInv
<1>1. CASE Unmoved(o, e) /\ Tracked(stock[e])
  <2>1. Throw(o) /\ events' \in 0 .. MaxEvents
    BY <1>0, <1>1, AsideSame DEF GiveCheck
  <2>. QED
    BY <1>0, <2>1, Throws
<1>2. CASE ~(Unmoved(o, e) /\ Tracked(stock[e]))
  <2>1. act' = [act EXCEPT ![o] = r] /\ UNCHANGED <<stock, soldOut, doc, unsynced, ledger, events>>
    BY <1>2 DEF GiveCheck
  <2>2. r \in ActStates /\ r.pc # "clamp"
    BY <1>0 DEF ActStates
  <2>3. Aside
    BY <1>0, <2>1, AsideSame DEF Aside
  <2>. QED
    BY <1>0, <2>1, <2>2, <2>3, Moves
<1>. QED
  BY <1>1, <1>2

LEMMA GivesUp ==
    ASSUME IInv, NEW o \in Orders, GiveDone(o)
    PROVE  IInv'
<1> DEFINE adj == doc[o].adj
           S   == {e \in Entities : adj[e] > 0 /\ e \notin doc[o].moved}
           d   == [doc[o] EXCEPT !.status = "REVERTED"]
<1>0. o \in Actors /\ TypeOK /\ doc[o] \in OrderDocs /\ adj \in [Entities -> Nat]
  BY DocType DEF Actors, IInv
<1>1. /\ doc' = [doc EXCEPT ![o] = d] /\ End(o) /\ Lose(S, adj)
      /\ out' = [e \in Entities |-> IF e \in S THEN out[e] - adj[e] ELSE out[e]]
      /\ UNCHANGED <<events, stock, soldOut, unsynced>>
  BY DEF GiveDone
<1>2. S \in SUBSET Entities
  OBVIOUS
<1>3. Aside
  <2>1. d \in OrderDocs
    BY <1>0 DEF OrderDocs
  <2>. QED
    BY <1>0, <1>1, <2>1 DEF Aside, TypeOK
<1> HIDE DEF S, adj, d
<1>4. LedgerOK
  <2>1. out' \in [Entities -> Int]
    BY <1>0, <1>1 DEF TypeOK
  <2>. QED
    BY <1>0, <1>1, <1>2, <2>1, LoseType DEF LedgerOK
<1>5. UnitsAreReal'
  <2> SUFFICES ASSUME NEW e \in Entities, Tracked(stock[e])
      PROVE  Floor0(stock[e]) + out'[e] = supply'[e]
    BY <1>1 DEF UnitsAreReal
  <2>1. Floor0(stock[e]) + out[e] = supply[e]
    BY DEF IInv, UnitsAreReal
  <2>2. out[e] \in Int /\ supply[e] \in Int /\ Floor0(stock[e]) \in Int /\ adj[e] \in Nat
    BY <1>0, TrackedInt DEF TypeOK, Floor0
  <2>3. supply'[e] = IF e \in S THEN supply[e] - adj[e] ELSE supply[e]
    BY <1>1 DEF Lose
  <2>. QED
    BY <1>1, <2>1, <2>2, <2>3
<1>6. stock' \in [Entities -> Int \cup {Untracked, Gone}]
  BY <1>0, <1>1 DEF TypeOK
<1>. QED
  BY <1>0, <1>1, <1>3, <1>4, <1>5, <1>6, Balances, IdleType DEF End

-----------------------------------------------------------------------------
(* The edits.                                                              *)

LEMMA Writes ==
    ASSUME IInv, NEW e \in Entities, NEW v \in Int \cup {Untracked}, Write(e, v),
           supply' \in [Entities -> Int], UnitsAreReal'
    PROVE  IInv'
<1>1. soldOut' \in [Products -> BOOLEAN]
  BY DEF Write, IInv, TypeOK, IsOut
<1>2. stock' \in [Entities -> Int \cup {Untracked, Gone}]
  <2>1. v \in Int \cup {Untracked, Gone} /\ stock \in [Entities -> Int \cup {Untracked, Gone}]
    BY DEF IInv, TypeOK
  <2>. QED
    BY <2>1, SetOne, Zenon DEF Write
<1>3. events' \in 0 .. MaxEvents
  BY LevelsAssumption DEF Write, Event, IInv, TypeOK
<1>4. TypeOK'
  BY <1>1, <1>2, <1>3 DEF Write, IInv, TypeOK
<1>. QED
  BY <1>4 DEF IInv, Clamps, Write

LEMMA SetsStock ==
    ASSUME IInv, NEW e \in Entities,
           (\E n \in Levels : SetStock(e, n)) \/ SetUnlimited(e)
    PROVE  IInv'
<1>0. TypeOK
  BY DEF IInv
<1>1. ASSUME NEW n \in Levels, SetStock(e, n) PROVE IInv'
  <2>1. n \in Nat
    BY Ints
  <2>2. supply' \in [Entities -> Int]
    BY <1>0, <1>1, <2>1 DEF SetStock, TypeOK
  <2>3. UnitsAreReal'
    <3> SUFFICES ASSUME NEW f \in Entities, Tracked(stock'[f])
        PROVE  Floor0(stock'[f]) + out[f] = supply'[f]
      BY <1>1 DEF UnitsAreReal, SetStock, Write
    <3>1. CASE f # e
      BY <1>0, <1>1, <3>1 DEF SetStock, Write, TypeOK, IInv, UnitsAreReal
    <3>2. CASE f = e
      BY <1>0, <1>1, <2>1, <3>2 DEF SetStock, Write, TypeOK, Floor0
    <3>. QED
      BY <3>1, <3>2
  <2>. QED
    BY <1>1, <2>1, <2>2, <2>3, Writes DEF SetStock
<1>2. CASE SetUnlimited(e)
  <2>1. supply' \in [Entities -> Int] /\ Write(e, Untracked)
    BY <1>0, <1>2 DEF SetUnlimited, TypeOK
  <2>2. UnitsAreReal'
    BY <1>0, <1>2 DEF SetUnlimited, Write, TypeOK, IInv, UnitsAreReal, Tracked
  <2>. QED
    BY <2>1, <2>2, Writes
<1>. QED
  BY <1>1, <1>2

LEMMA Removes == ASSUME IInv, NEW e \in Entities, Remove(e) PROVE IInv'
<1>1. TypeOK'
  <2>1. events' \in 0 .. MaxEvents
    BY LevelsAssumption DEF Remove, Event, IInv, TypeOK
  <2>2. stock' \in [Entities -> Int \cup {Untracked, Gone}]
    BY DEF Remove, IInv, TypeOK
  <2>. QED
    BY <2>1, <2>2 DEF Remove, ledger, IInv, TypeOK
<1>2. UnitsAreReal'
  BY DEF Remove, ledger, IInv, TypeOK, UnitsAreReal, Tracked
<1>. QED
  BY <1>1, <1>2 DEF IInv, Clamps, Remove

LEMMA BeginsDelta ==
    ASSUME IInv, NEW w \in Editors, NEW p \in Products, NEW k \in Deltas, DeltaBegin(w, p, k)
    PROVE  IInv'
<1> DEFINE pc == IF stock[p] + k < 0 THEN "deltaClamp" ELSE "deltaFlag"
           r  == [act[w] EXCEPT !.pc = pc, !.item = p]
<1>0. w \in Actors /\ act[w] \in ActStates /\ TypeOK /\ p \in Entities
  BY Fields, Ints DEF Actors, IInv
<1>1. Tracked(stock[p]) /\ stock[p] \in Int /\ k \in Int
  BY <1>0, TrackedInt, LevelsAssumption DEF DeltaBegin
<1>2. /\ act' = [act EXCEPT ![w] = r] /\ UNCHANGED <<soldOut, doc, out, unsynced>>
      /\ stock' = [stock EXCEPT ![p] = @ + k]
      /\ supply' = [supply EXCEPT ![p] = @ + Floor0(stock[p] + k) - Floor0(stock[p])]
      /\ drifted' = (IF stock[p] < 0 /\ k > 0 THEN drifted \cup {p} ELSE drifted) /\ Event
  BY DEF DeltaBegin
<1>3. r \in ActStates /\ r.pc # "clamp"
  <2>1. pc \in {"deltaClamp", "deltaFlag"}
    OBVIOUS
  <2> HIDE DEF pc
  <2>. QED
    BY <1>0, <2>1 DEF ActStates
<1> HIDE DEF r
<1>4. Aside
  BY <1>0, <1>2, AsideSame, LevelsAssumption DEF Aside, Event
<1>5. Floor0(stock[p] + k) \in Int /\ Floor0(stock[p]) \in Int
  BY <1>1 DEF Floor0
<1>6. LedgerOK
  BY <1>0, <1>2, <1>5 DEF LedgerOK, TypeOK
<1>7. stock' \in [Entities -> Int \cup {Untracked, Gone}]
  BY <1>0, <1>1, <1>2 DEF TypeOK
<1>8. UnitsAreReal'
  <2> SUFFICES ASSUME NEW f \in Entities, Tracked(stock'[f])
      PROVE  Floor0(stock'[f]) + out[f] = supply'[f]
    BY <1>2 DEF UnitsAreReal
  <2>1. CASE f # p
    BY <1>0, <1>2, <2>1 DEF TypeOK, IInv, UnitsAreReal
  <2>2. CASE f = p
    <3>1. Floor0(stock[p]) + out[p] = supply[p]
      BY <1>0, <1>1 DEF IInv, UnitsAreReal
    <3>2. /\ supply'[p] = supply[p] + Floor0(stock[p] + k) - Floor0(stock[p])
          /\ stock'[p] = stock[p] + k /\ out[p] \in Int /\ supply[p] \in Int
      BY <1>0, <1>2 DEF TypeOK
    <3>. QED
      BY <1>5, <2>2, <3>1, <3>2
  <2>. QED
    BY <2>1, <2>2
<1>. QED
  BY <1>0, <1>2, <1>3, <1>4, <1>6, <1>7, <1>8, Balances

LEMMA ClampsDelta ==
    ASSUME IInv, NEW w \in Editors, DeltaClamp(w)
    PROVE  IInv'
<1> DEFINE p == act[w].item
           r == [act[w] EXCEPT !.pc = "deltaFlag"]
<1>0. w \in Actors /\ act[w] \in ActStates /\ TypeOK
  BY Fields DEF Actors, IInv
<1>1. act' = [act EXCEPT ![w] = r] /\ UNCHANGED <<events, soldOut, doc, unsynced, ledger>>
  BY DEF DeltaClamp, Goto
<1>2. r \in ActStates /\ r.pc # "clamp"
  BY <1>0 DEF ActStates
<1>3. Aside /\ LedgerOK
  BY <1>0, <1>1, AsideSame DEF Aside, LedgerOK, ledger, TypeOK
<1>4. stock' = IF Tracked(stock[p]) /\ stock[p] < 0 THEN [stock EXCEPT ![p] = 0] ELSE stock
  BY DEF DeltaClamp
<1> HIDE DEF p, r
<1>5. stock \in [Entities -> Int \cup {Untracked, Gone}] /\ 0 \in Int \cup {Untracked, Gone}
  BY <1>0 DEF TypeOK
<1>6. stock' \in [Entities -> Int \cup {Untracked, Gone}]
  <2>1. [stock EXCEPT ![p] = 0] \in [Entities -> Int \cup {Untracked, Gone}]
    BY <1>5, SetOne, Zenon
  <2>. QED
    BY <1>4, <1>5, <2>1, Zenon
<1>7. UnitsAreReal'
  <2> SUFFICES ASSUME NEW e \in Entities, Tracked(stock'[e])
      PROVE  Floor0(stock'[e]) + out[e] = supply[e]
    BY <1>1 DEF UnitsAreReal, ledger
  <2>1. CASE stock'[e] = stock[e]
    BY <2>1 DEF IInv, UnitsAreReal
  <2>2. CASE stock'[e] # stock[e]
    <3>1. e = p /\ Tracked(stock[e]) /\ stock[e] < 0 /\ stock'[e] = 0
      BY <1>4, <1>5, <2>2
    <3>2. Floor0(stock[e]) = 0 /\ Floor0(0) = 0
      BY <1>0, <3>1, TrackedInt DEF Floor0
    <3>. QED
      BY <3>1, <3>2 DEF IInv, UnitsAreReal
  <2>. QED
    BY <2>1, <2>2
<1>. QED
  BY <1>0, <1>1, <1>2, <1>3, <1>6, <1>7, Balances

-----------------------------------------------------------------------------
LEMMA SaleSteps == ASSUME IInv, NEW o \in Orders, SaleStep(o) PROVE IInv'
<1>1. ASSUME NEW strict \in BOOLEAN, SaleBegin(o, strict) PROVE IInv'
  BY <1>1, Begins
<1>2. CASE LoadProducts(o) \/ LoadIngredients(o)
  BY <1>2, Begins
<1>3. ASSUME NEW e \in Entities, TakeStrict(o, e) \/ TakeOverride(o, e) \/ UndoItem(o, e)
      PROVE  IInv'
  BY <1>3, TakesStrict, TakesOverride, UndoesItem
<1>4. ASSUME NEW p \in Products, Sync(o, p) PROVE IInv'
  BY <1>4, Synced
<1>5. CASE Clamp(o) \/ Record(o) \/ UndoRead(o) \/ UndoDone(o)
  BY <1>5, Clamped, Records, UndoReads, GivesOn
<1>. QED
  BY <1>1, <1>2, <1>3, <1>4, <1>5 DEF SaleStep

LEMMA IInvStep == IInv /\ [Next]_vars => IInv'
<1> SUFFICES ASSUME IInv, [Next]_vars PROVE IInv'
  OBVIOUS
<1>1. ASSUME NEW o \in Orders, SaleStep(o) PROVE IInv'
  BY <1>1, SaleSteps
<1>2. ASSUME NEW o \in Orders, ReturnStep(o) PROVE IInv'
  BY <1>2, GivesItem, GivesCheck, GivesOn, GivesUp DEF ReturnStep
<1>3. ASSUME NEW w \in Editors, EditStep(w) PROVE IInv'
  <2>1. CASE DeltaClamp(w)
    BY <2>1, ClampsDelta
  <2>2. CASE DeltaFlag(w)
    BY <2>2, Throws, AsideSame DEF DeltaFlag, Actors, IInv
  <2>. QED
    BY <1>3, <2>1, <2>2 DEF EditStep
<1>4. ASSUME NEW a \in Actors, Crash(a) PROVE IInv'
  <2>1. Throw(a) /\ events' \in 0 .. MaxEvents
    BY <1>4, AsideSame, LevelsAssumption DEF Crash, Event, IInv
  <2>. QED
    BY <2>1, Throws
<1>5. CASE Edit
  <2>1. ASSUME NEW e \in Entities, (\E n \in Levels : SetStock(e, n)) \/ SetUnlimited(e)
        PROVE  IInv'
    BY <2>1, SetsStock
  <2>2. ASSUME NEW e \in Entities, Remove(e) PROVE IInv'
    BY <2>2, Removes
  <2>3. ASSUME NEW w \in Editors, NEW p \in Products, NEW k \in Deltas, DeltaBegin(w, p, k)
        PROVE  IInv'
    BY <2>3, BeginsDelta
  <2>. QED
    BY <1>5, <2>1, <2>2, <2>3 DEF Edit
<1>6. CASE UNCHANGED vars
  BY <1>6 DEF vars, ledger, IInv, TypeOK, Clamps, UnitsAreReal
<1>. QED
  BY <1>1, <1>2, <1>3, <1>4, <1>5, <1>6 DEF Next

LEMMA IInvHolds == Spec => []IInv
<1>. QED
  BY IInvInit, IInvStep, PTL DEF Spec

(* Every variable keeps its type, whatever the requests do: no step writes *)
(* a value of another kind into stockQuantity, isSoldOut, the adjustments  *)
(* of an order or its idempotency keys.                                    *)
THEOREM TypeCorrect == Spec => []TypeOK
<1>1. IInv => TypeOK
  BY DEF IInv
<1>. QED
  BY <1>1, IInvHolds, PTL

(* For any number of products, ingredients, orders and editors: the stock  *)
(* on the shelf and the units orders account for are what was put in, in   *)
(* every interleaving of sales, overrides, clamps, rollbacks, returns,     *)
(* edits and crashes (lib/stock-operations.ts, lib/cash-session-stock.ts). *)
THEOREM UnitsConserved == Spec => []UnitsAreReal
<1>1. IInv => UnitsAreReal
  BY DEF IInv
<1>. QED
  BY <1>1, IInvHolds, PTL
-----------------------------------------------------------------------------
(* At rest.  A negative stock waits for its clamp, one that will hit; and  *)
(* a flag that is not what its stock calls for waits for a request that    *)
(* took or returned units of the product, or changed its stock.  A request *)
(* that took none found the product sold out already.                      *)
Clears(r, e, v) == r.item = e /\ (r.pc = "deltaClamp" \/ (r.pc = "clamp" /\ r.low = v))
Flagging(r, p) ==
    \/ r.pc \in {"deltaClamp", "deltaFlag"} /\ p = r.item
    \/ r.pc \in {"take", "clamp"} /\ p \in r.sync /\ r.got[p] > 0
    \/ r.pc = "undo" /\ (p \in r.sync \/ r.got[p] > 0)
    \/ r.pc \in {"give", "giveCheck", "giveSync"} /\ p \in r.sync
Negative(e)   == Tracked(stock[e]) /\ stock[e] < 0
Misflagged(p) == stock[p] # Gone /\ soldOut[p] # IsOut(stock[p])

Covers  == \A e \in Entities \ drifted : Negative(e) => \E a \in Actors : Clears(act[a], e, stock[e])
Flagged == \A p \in Products \ unsynced : Misflagged(p) => \E a \in Actors : Flagging(act[a], p)
Unlimited == \A p \in Products : stock[p] = Untracked => ~soldOut[p]

(* What a request still means to do with the entities of its plan.         *)
Ready(o, r, d) ==
    /\ r.pc \in {"loadProducts", "loadIngredients"} => r.got = Nothing
    /\ r.pc \in {"loadIngredients", "take", "clamp"} => \A e \in r.plan : r.got[e] = 0 /\ Demand[o][e] > 0
    /\ r.pc = "undo" => \/ r.calls \in {<<"products">>, <<"products", "ingredients">>, <<"ingredients", "products">>}
                        \/ \A p \in Products : r.got[p] > 0 => p \in r.plan
    /\ r.pc \in {"give", "giveCheck"} => r.plan \cup r.sync \subseteq {e \in Entities : d.adj[e] > 0}
Plans == \A o \in Orders : Ready(o, act[o], doc[o])

RestInv == Covers /\ Flagged /\ Unlimited /\ Plans

LEMMA RestInit == Init => RestInv
<1> SUFFICES ASSUME Init PROVE RestInv
  OBVIOUS
<1>1. Covers
  <2>1. ASSUME NEW e \in Entities, Tracked(stock[e]) PROVE ~(stock[e] < 0)
    <3>1. stock[e] \in Levels
      BY <2>1 DEF Init, Tracked
    <3>2. stock[e] \in Nat
      BY <3>1, LevelsAssumption
    <3>. QED
      BY <3>2
  <2>. QED
    BY <2>1 DEF Covers, Negative
<1>2. Flagged
  BY DEF Init, Flagged, Misflagged
<1>3. Unlimited
  BY DEF Init, Unlimited, IsOut
<1>4. Plans
  BY DEF Init, Plans, Ready, Idle, Actors
<1>. QED
  BY <1>1, <1>2, <1>3, <1>4 DEF RestInv

(* The request a becomes r: what is not as it should be was so before,     *)
(* and waits for another request, or waits for r.                          *)
LEMMA RestStep ==
    ASSUME TypeOK, RestInv, NEW a \in Actors, NEW r, act' = [act EXCEPT ![a] = r],
           \A e \in Entities \ drifted' : Negative(e)' =>
               \/ Clears(r, e, stock'[e])
               \/ e \notin drifted /\ stock'[e] = stock[e] /\ ~Clears(act[a], e, stock[e]),
           \A p \in Products \ unsynced' : Misflagged(p)' =>
               \/ Flagging(r, p)
               \/ p \notin unsynced /\ Misflagged(p) /\ ~Flagging(act[a], p),
           Unlimited', a \in Orders => Ready(a, r, doc'[a]),
           \A o \in Orders \ {a} : doc'[o] = doc[o]
    PROVE  RestInv'
<1>0. act'[a] = r /\ \A b \in Actors \ {a} : act'[b] = act[b]
  BY DEF TypeOK
<1>1. ASSUME NEW e \in Entities \ drifted', Negative(e)'
      PROVE  \E b \in Actors : Clears(act'[b], e, stock'[e])
  <2>1. CASE Clears(r, e, stock'[e])
    BY <1>0, <2>1
  <2>2. CASE e \notin drifted /\ stock'[e] = stock[e] /\ ~Clears(act[a], e, stock[e])
    <3>1. PICK b \in Actors : Clears(act[b], e, stock[e])
      BY <1>1, <2>2 DEF RestInv, Covers, Negative
    <3>. QED
      BY <1>0, <2>2, <3>1
  <2>. QED
    BY <1>1, <2>1, <2>2
<1>2. Covers'
  BY <1>1 DEF Covers
<1>3. ASSUME NEW p \in Products \ unsynced', Misflagged(p)'
      PROVE  \E b \in Actors : Flagging(act'[b], p)
  <2>1. CASE Flagging(r, p)
    BY <1>0, <2>1
  <2>2. CASE p \notin unsynced /\ Misflagged(p) /\ ~Flagging(act[a], p)
    <3>1. PICK b \in Actors : Flagging(act[b], p)
      BY <2>2 DEF RestInv, Flagged
    <3>. QED
      BY <1>0, <2>2, <3>1
  <2>. QED
    BY <1>3, <2>1, <2>2
<1>4. Flagged'
  BY <1>3 DEF Flagged
<1>5. Plans'
  <2>1. ASSUME NEW o \in Orders PROVE Ready(o, act'[o], doc'[o])
    <3>1. CASE o = a
      BY <1>0, <3>1
    <3>2. CASE o # a
      BY <1>0, <3>2 DEF RestInv, Plans, Actors
    <3>. QED
      BY <3>1, <3>2
  <2>. QED
    BY <2>1 DEF Plans
<1>. QED
  BY <1>2, <1>4, <1>5 DEF RestInv

(* A step that moves no units and sets no flag.                            *)
LEMMA RestMoves ==
    ASSUME TypeOK, RestInv, NEW a \in Actors, NEW r, act' = [act EXCEPT ![a] = r],
           UNCHANGED <<stock, soldOut, drifted, unsynced>>,
           \A e \in Entities : ~Clears(act[a], e, stock[e]),
           \A p \in Products : Misflagged(p) /\ Flagging(act[a], p) => Flagging(r, p),
           a \in Orders => Ready(a, r, doc'[a]),
           \A o \in Orders \ {a} : doc'[o] = doc[o]
    PROVE  RestInv'
<1>1. \A p \in Products : Misflagged(p)' => Misflagged(p)
  BY DEF Misflagged
<1>2. Unlimited'
  BY DEF RestInv, Unlimited
<1>. QED
  BY <1>1, <1>2, RestStep

LEMMA IdleRests == /\ Idle.pc = "idle" /\ Idle.got = Nothing /\ Idle.plan = {} /\ Idle.sync = {}
                   /\ \A o, d : Ready(o, Idle, d)
                   /\ \A p : ~Flagging(Idle, p)
BY DEF Idle, Ready, Flagging

LEMMA RestEnds ==
    ASSUME TypeOK, RestInv, NEW a \in Actors, End(a), UNCHANGED <<stock, soldOut, drifted, unsynced>>,
           act[a].pc \notin {"clamp", "deltaClamp"},
           \A p \in Products : Misflagged(p) => ~Flagging(act[a], p),
           \A o \in Orders \ {a} : doc'[o] = doc[o]
    PROVE  RestInv'
<1>1. \A e \in Entities : ~Clears(act[a], e, stock[e])
  BY DEF Clears
<1>. QED
  BY <1>1, IdleRests, RestMoves DEF End

(* A request that throws leaves neither unrecorded.                        *)
LEMMA RestThrows == ASSUME TypeOK, RestInv, NEW a \in Actors, Throw(a) PROVE RestInv'
<1>1. \A e \in Entities \ drifted' : Negative(e)' => e \notin drifted /\ ~Clears(act[a], e, stock[e])
  BY DEF Throw, Lose, Negative, Clears, Pending
<1>2. \A p \in Products \ unsynced' : p \notin unsynced /\ ~Flagging(act[a], p)
  BY Ints DEF Throw, Flags, Pending, Flagging
<1>3. Unlimited' /\ \A p \in Products : Misflagged(p)' => Misflagged(p)
  BY DEF Throw, RestInv, Unlimited, Misflagged
<1>4. act' = [act EXCEPT ![a] = Idle] /\ stock' = stock /\ doc' = doc
  BY DEF Throw, End
<1>. QED
  BY <1>1, <1>2, <1>3, <1>4, IdleRests, RestStep

-----------------------------------------------------------------------------
LEMMA RestBegins ==
    ASSUME IInv, RestInv, NEW o \in Orders,
           (\E strict \in BOOLEAN : SaleBegin(o, strict)) \/ LoadProducts(o) \/ LoadIngredients(o)
    PROVE  RestInv'
<1>0. /\ o \in Actors /\ act[o] \in ActStates /\ TypeOK /\ Ready(o, act[o], doc[o])
      /\ act[o].plan \in SUBSET Entities /\ act[o].got \in [Entities -> Nat]
  BY Fields DEF Actors, IInv, RestInv, Plans
<1>1. /\ UNCHANGED <<stock, soldOut, drifted, unsynced, doc>>
      /\ act[o].pc \in {"idle", "loadProducts", "loadIngredients"}
  BY DEF SaleBegin, LoadProducts, LoadIngredients, ledger
<1>2. (\A e \in Entities : ~Clears(act[o], e, stock[e])) /\ \A p \in Products : ~Flagging(act[o], p)
  BY <1>1 DEF Clears, Flagging
<1>3. ASSUME NEW strict \in BOOLEAN, SaleBegin(o, strict) PROVE RestInv'
  <2> DEFINE r == [Idle EXCEPT !.pc = "loadProducts", !.strict = strict]
  <2>1. r.pc = "loadProducts" /\ r.got = Nothing
    BY DEF Idle
  <2>2. act' = [act EXCEPT ![o] = r]
    BY <1>3 DEF SaleBegin
  <2> HIDE DEF r
  <2>3. Ready(o, r, doc'[o])
    BY <2>1 DEF Ready
  <2>. QED
    BY <1>0, <1>1, <1>2, <2>2, <2>3, RestMoves
<1>4. CASE LoadProducts(o)
  <2>1. PICK plan, bad : plan = Known(o, Products) /\ bad = Refused(o, Products, act[o].strict)
    OBVIOUS
  <2> DEFINE r == [act[o] EXCEPT !.pc = "loadIngredients", !.plan = plan, !.bad = bad]
  <2>2. r.pc = "loadIngredients" /\ r.got = act[o].got /\ r.plan = plan
    BY <1>0 DEF ActStates
  <2>3. act' = [act EXCEPT ![o] = r]
    BY <1>4, <2>1 DEF LoadProducts
  <2> HIDE DEF r
  <2>4. Ready(o, r, doc'[o])
    BY <1>0, <1>4, <2>1, <2>2, Ints DEF Ready, LoadProducts, Known, Wanted, Nothing
  <2>. QED
    BY <1>0, <1>1, <1>2, <2>3, <2>4, RestMoves
<1>5. CASE LoadIngredients(o) /\ End(o)
  BY <1>0, <1>1, <1>2, <1>5, RestEnds
<1>6. CASE LoadIngredients(o) /\ ~End(o)
  <2>1. PICK plan : plan = act[o].plan \cup Known(o, Ingredients)
    OBVIOUS
  <2> DEFINE r == [act[o] EXCEPT !.pc = "take", !.plan = plan]
  <2>2. r.pc = "take" /\ r.got = act[o].got /\ r.plan = plan
    BY <1>0 DEF ActStates
  <2>3. act' = [act EXCEPT ![o] = r]
    BY <1>6, <2>1 DEF LoadIngredients
  <2> HIDE DEF r
  <2>4. Ready(o, r, doc'[o])
    BY <1>0, <1>6, <2>1, <2>2 DEF Ready, LoadIngredients, Known, Wanted, Nothing, Entities
  <2>. QED
    BY <1>0, <1>1, <1>2, <2>3, <2>4, RestMoves
<1>. QED
  BY <1>3, <1>4, <1>5, <1>6

(* What a sale took: the flag of the product is due, unless none was left  *)
(* and the product was sold out before.                                    *)
LEMMA RestTakes ==
    ASSUME IInv, RestInv, NEW o \in Orders, NEW e \in Entities,
           NEW n \in Nat, NEW pc \in {"take", "clamp"}, Took(o, e, n, pc),
           act[o].pc = "take", e \in act[o].plan, Tracked(stock[e]),
           stock' = [stock EXCEPT ![e] = @ - Demand[o][e]],
           (pc = "clamp") <=> (stock[e] < Demand[o][e]),
           n = 0 => stock[e] <= 0,
           UNCHANGED <<soldOut, doc, drifted, unsynced>>
    PROVE  RestInv'
<1>0. /\ o \in Actors /\ act[o] \in ActStates /\ TypeOK /\ Ready(o, act[o], doc[o])
      /\ act[o].plan \in SUBSET Entities /\ act[o].got \in [Entities -> Nat] /\ act[o].sync \in SUBSET Products
  BY Fields DEF Actors, IInv, RestInv, Plans
<1>1. PICK b \in Int, d \in Nat : b = stock[e] /\ d = Demand[o][e] /\ d > 0
  BY <1>0, TrackedInt, Ints DEF Ready
<1>2. act[o].got[e] = 0 /\ \A x \in act[o].plan : act[o].got[x] = 0 /\ Demand[o][x] > 0
  BY <1>0 DEF Ready
<1> DEFINE got == [act[o].got EXCEPT ![e] = n]
           sync == Touched(o, e)
           r == [act[o] EXCEPT !.pc = pc, !.plan = @ \ {e}, !.got[e] = n,
                     !.sync = Touched(o, e), !.item = IF pc = "clamp" THEN e ELSE @,
                     !.low = IF pc = "clamp" THEN stock[e] - Demand[o][e] ELSE @]
<1>3. act' = [act EXCEPT ![o] = r]
  BY ZenonT(90) DEF Took
<1>4. /\ r.pc = pc /\ r.plan = act[o].plan \ {e} /\ r.got = got /\ r.sync = sync
      /\ pc = "clamp" => r.item = e /\ r.low = stock[e] - Demand[o][e]
  BY <1>0 DEF ActStates
<1> HIDE DEF r
<1>5. stock'[e] = b - d /\ stock'[e] \in Int /\ \A x \in Entities \ {e} : stock'[x] = stock[x]
  BY <1>0, <1>1 DEF TypeOK
<1>6. \A x \in Entities : ~Clears(act[o], x, stock[x])
  BY DEF Clears
<1>7. ASSUME NEW x \in Entities \ drifted', Negative(x)'
      PROVE  Clears(r, x, stock'[x]) \/ (x \notin drifted /\ stock'[x] = stock[x] /\ ~Clears(act[o], x, stock[x]))
  <2>1. CASE x = e
    <3>1. pc = "clamp"
      BY <1>1, <1>5, <1>7, <2>1 DEF Negative
    <3>. QED
      BY <1>1, <1>4, <1>5, <2>1, <3>1 DEF Clears
  <2>2. CASE x # e
    BY <1>5, <1>6, <1>7, <2>2
  <2>. QED
    BY <2>1, <2>2
<1>8. ASSUME NEW p \in Products \ unsynced', Misflagged(p)'
      PROVE  Flagging(r, p) \/ (p \notin unsynced /\ Misflagged(p) /\ ~Flagging(act[o], p))
  <2>0. p \in Entities /\ p \notin unsynced /\ stock'[p] # Gone /\ soldOut[p] # IsOut(stock'[p])
    BY <1>8, Ints DEF Misflagged
  <2>1. CASE p = e /\ n > 0
    <3>1. r.got[p] > 0 /\ p \in r.sync
      BY <1>0, <1>4, <2>1 DEF Touched
    <3>. QED
      BY <1>4, <3>1 DEF Flagging
  <2>2. CASE p = e /\ n = 0
    <3>1. b <= 0 /\ b - d <= 0 /\ b # Untracked /\ b # Gone /\ b - d # Untracked
      BY <1>1, <2>2, IntTracked
    <3>2. IsOut(stock[p]) = IsOut(stock'[p]) /\ stock[p] # Gone
      BY <1>1, <1>5, <2>2, <3>1 DEF IsOut
    <3>3. ~Flagging(act[o], p)
      BY <1>2, <2>2 DEF Flagging
    <3>. QED
      BY <2>0, <3>2, <3>3 DEF Misflagged
  <2>3. CASE p # e
    <3>1. Misflagged(p)
      BY <1>5, <2>0, <2>3 DEF Misflagged
    <3>2. Flagging(act[o], p) => Flagging(r, p)
      BY <1>0, <1>4, <2>0, <2>3 DEF Flagging, Touched
    <3>. QED
      BY <2>0, <3>1, <3>2
  <2>. QED
    BY <2>1, <2>2, <2>3
<1>9. Unlimited'
  BY <1>1, <1>5, IntTracked, Ints DEF RestInv, Unlimited
<1>10. Ready(o, r, doc'[o])
  BY <1>0, <1>2, <1>4 DEF Ready
<1>. QED
  BY <1>0, <1>3, <1>7, <1>8, <1>9, <1>10, RestStep

(* A rollback begins: what was taken is in got, however many are synced.   *)
LEMMA RestUndo ==
    ASSUME IInv, RestInv, NEW o \in Orders, NEW calls, Undo(o, calls), act[o].pc = "take",
           calls \in {<<"products">>, <<"products", "ingredients">>, <<"ingredients", "products">>},
           UNCHANGED <<stock, soldOut, drifted, unsynced, doc>>
    PROVE  RestInv'
<1>0. o \in Actors /\ act[o] \in ActStates /\ TypeOK
  BY Fields DEF Actors, IInv
<1> DEFINE r == [act[o] EXCEPT !.pc = "undo", !.plan = {}, !.sync = {}, !.calls = calls]
<1>1. act' = [act EXCEPT ![o] = r]
  BY DEF Undo
<1>2. r.pc = "undo" /\ r.calls = calls /\ r.got = act[o].got
  BY <1>0 DEF ActStates
<1> HIDE DEF r
<1>3. Ready(o, r, doc'[o]) /\ \A p \in Products : Flagging(act[o], p) => Flagging(r, p)
  BY <1>2 DEF Ready, Flagging
<1>4. \A e \in Entities : ~Clears(act[o], e, stock[e])
  BY DEF Clears
<1>. QED
  BY <1>0, <1>1, <1>3, <1>4, RestMoves

LEMMA CallsOf == ASSUME NEW e PROVE CallsAfter(e) \in {<<"products">>, <<"products", "ingredients">>, <<"ingredients", "products">>}
BY DEF CallsAfter

LEMMA RestTaken ==
    ASSUME IInv, RestInv, NEW o \in Orders, NEW e \in Entities, TakeStrict(o, e) \/ TakeOverride(o, e)
    PROVE  RestInv'
<1>0. /\ o \in Actors /\ TypeOK /\ act[o].pc = "take" /\ e \in act[o].plan
      /\ Demand[o][e] \in Nat /\ Demand[o][e] > 0
  BY Ints DEF Actors, IInv, TakeStrict, TakeOverride, NextUp, First, RestInv, Plans, Ready
<1>1. CASE TakeStrict(o, e) /\ Tracked(stock[e]) /\ stock[e] >= Demand[o][e]
  <2>1. stock[e] \in Int /\ ~(stock[e] < Demand[o][e])
    BY <1>0, <1>1, TrackedInt
  <2>. QED
    BY <1>0, <1>1, <2>1, RestTakes DEF TakeStrict
<1>2. CASE TakeStrict(o, e) /\ ~(Tracked(stock[e]) /\ stock[e] >= Demand[o][e])
  BY <1>0, <1>2, CallsOf, RestUndo DEF TakeStrict
<1>3. CASE /\ Tracked(stock[e]) /\ stock' = [stock EXCEPT ![e] = @ - Demand[o][e]]
           /\ Took(o, e, Covered(stock[e], Demand[o][e]), IF stock[e] < Demand[o][e] THEN "clamp" ELSE "take")
           /\ UNCHANGED <<soldOut, doc, supply, drifted, unsynced>>
  <2>1. stock[e] \in Int
    BY <1>0, <1>3, TrackedInt
  <2>2. PICK n \in Nat : n = Covered(stock[e], Demand[o][e]) /\ (n = 0 => stock[e] <= 0)
    BY <1>0, <2>1 DEF Covered, Lesser, Floor0
  <2>. QED
    BY <1>0, <1>3, <2>2, RestTakes
<1>4. CASE Undo(o, CallsAfter(e)) /\ UNCHANGED <<stock, soldOut, doc, unsynced, ledger>>
  BY <1>0, <1>4, CallsOf, RestUndo DEF ledger
<1>5. CASE Throw(o)
  BY <1>0, <1>5, RestThrows
<1>. QED
  BY <1>1, <1>2, <1>3, <1>4, <1>5 DEF TakeOverride

LEMMA RestClamps == ASSUME IInv, RestInv, NEW o \in Orders, Clamp(o) PROVE RestInv'
<1>0. /\ o \in Actors /\ act[o] \in ActStates /\ TypeOK /\ Ready(o, act[o], doc[o]) /\ act[o].pc = "clamp"
      /\ act[o].low \in Int /\ act[o].low < 0
  BY Fields DEF Actors, IInv, RestInv, Plans, Clamps, Clamp
<1>1. PICK e : e = act[o].item
  OBVIOUS
<1> DEFINE r == [act[o] EXCEPT !.pc = "take", !.item = NoEntity, !.low = 0]
<1>2. act' = [act EXCEPT ![o] = r]
  BY DEF Clamp
<1>3. r.pc = "take" /\ r.plan = act[o].plan /\ r.got = act[o].got /\ r.sync = act[o].sync
  BY <1>0 DEF ActStates
<1> HIDE DEF r
<1>4. /\ stock' = IF stock[e] = act[o].low THEN [stock EXCEPT ![e] = 0] ELSE stock
      /\ UNCHANGED <<soldOut, doc, unsynced, drifted>>
  BY <1>1 DEF Clamp, ClampHits, ledger
<1>5. Ready(o, r, doc'[o]) /\ \A p \in Products : Flagging(act[o], p) => Flagging(r, p)
  BY <1>0, <1>3, <1>4 DEF Ready, Flagging
<1>6. \A x \in Entities : x # e => stock'[x] = stock[x] /\ ~Clears(act[o], x, stock[x])
  BY <1>0, <1>1, <1>4 DEF TypeOK, Clears
<1>7. CASE stock[e] = act[o].low
  <2>1. e \in Entities => stock'[e] = 0
    BY <1>0, <1>4, <1>7 DEF TypeOK
  <2>2. 0 # Gone /\ 0 # Untracked /\ act[o].low # Gone /\ act[o].low # Untracked
    BY <1>0, IntTracked
  <2>3. \A p \in Products : Misflagged(p)' => Misflagged(p)
    BY <1>0, <1>4, <1>6, <1>7, <2>1, <2>2, Ints DEF Misflagged, IsOut
  <2>4. Unlimited'
    BY <1>4, <1>6, <2>1, <2>2, Ints DEF RestInv, Unlimited
  <2>5. \A x \in Entities \ drifted' : Negative(x)' => x # e
    BY <2>1 DEF Negative
  <2>. QED
    BY <1>0, <1>2, <1>4, <1>5, <1>6, <2>3, <2>4, <2>5, RestStep
<1>8. CASE stock[e] # act[o].low
  <2>1. \A x \in Entities : ~Clears(act[o], x, stock[x])
    BY <1>0, <1>1, <1>8 DEF Clears
  <2>. QED
    BY <1>0, <1>2, <1>4, <1>5, <1>8, <2>1, RestMoves
<1>. QED
  BY <1>7, <1>8

LEMMA RestSyncs == ASSUME IInv, RestInv, NEW o \in Orders, NEW p \in Products, Sync(o, p) PROVE RestInv'
<1>0. /\ o \in Actors /\ act[o] \in ActStates /\ TypeOK /\ Ready(o, act[o], doc[o])
      /\ act[o].pc \in {"take", "undo", "giveSync"} /\ soldOut \in [Products -> BOOLEAN]
  BY Fields DEF Actors, IInv, RestInv, Plans, Sync, TypeOK
<1>1. PICK sync : sync = act[o].sync \ {p}
  OBVIOUS
<1> DEFINE r == [act[o] EXCEPT !.sync = sync]
<1>2. act' = [act EXCEPT ![o] = r]
  BY <1>1 DEF Sync
<1>3. r.pc = act[o].pc /\ r.plan = act[o].plan /\ r.got = act[o].got /\ r.sync = sync /\ r.calls = act[o].calls
  BY <1>0 DEF ActStates
<1> HIDE DEF r
<1>4. UNCHANGED <<stock, doc, drifted>> /\ unsynced' = unsynced \ {p}
      /\ soldOut' = IF stock[p] = Gone THEN soldOut ELSE [soldOut EXCEPT ![p] = IsOut(stock[p])]
  BY DEF Sync, ledger
<1>5. Ready(o, r, doc'[o])
  BY <1>0, <1>3, <1>4 DEF Ready
<1>6. \A x \in Entities : ~Clears(act[o], x, stock[x])
  BY <1>0 DEF Clears
<1>7. ASSUME NEW q \in Products \ unsynced', Misflagged(q)'
      PROVE  q \notin unsynced /\ Misflagged(q) /\ (Flagging(act[o], q) => Flagging(r, q))
  <2>1. q # p
    BY <1>0, <1>4, <1>7 DEF Misflagged
  <2>2. soldOut'[q] = soldOut[q] /\ q \notin unsynced
    BY <1>0, <1>4, <1>7, <2>1
  <2>. QED
    BY <1>0, <1>1, <1>3, <1>4, <1>7, <2>1, <2>2 DEF Misflagged, Flagging
<1>8. Unlimited'
  BY <1>0, <1>4 DEF RestInv, Unlimited, IsOut
<1>9. \A x \in Entities \ drifted' : Negative(x)' => x \notin drifted /\ stock'[x] = stock[x]
  BY <1>4 DEF Negative
<1>. QED
  BY <1>0, <1>2, <1>4, <1>5, <1>6, <1>7, <1>8, <1>9, RestStep

LEMMA RestRecords == ASSUME IInv, RestInv, NEW o \in Orders, Record(o) PROVE RestInv'
<1>0. o \in Actors /\ TypeOK /\ act[o].pc = "take" /\ act[o].sync = {}
      /\ UNCHANGED <<stock, soldOut, drifted, unsynced>>
  BY DEF Actors, IInv, Record, ledger
<1>1. CASE Undo(o, <<"products", "ingredients">>) /\ UNCHANGED doc
  BY <1>0, <1>1, RestUndo
<1>2. CASE doc' = [doc EXCEPT ![o].status = "PAID", ![o].adj = act[o].got] /\ End(o)
  <2>1. \A p \in Products : ~Flagging(act[o], p)
    BY <1>0 DEF Flagging
  <2>2. \A k \in Orders \ {o} : doc'[k] = doc[k]
    BY <1>0, <1>2 DEF TypeOK
  <2>. QED
    BY <1>0, <1>2, <2>1, <2>2, RestEnds
<1>. QED
  BY <1>1, <1>2 DEF Record

LEMMA RestUndoReads == ASSUME IInv, RestInv, NEW o \in Orders, UndoRead(o) PROVE RestInv'
<1>0. /\ o \in Actors /\ act[o] \in ActStates /\ TypeOK /\ Ready(o, act[o], doc[o]) /\ act[o].pc = "undo"
      /\ act[o].got \in [Entities -> Nat] /\ act[o].plan = {} /\ act[o].calls # <<>>
      /\ UNCHANGED <<stock, soldOut, drifted, unsynced, doc>>
  BY Fields DEF Actors, IInv, RestInv, Plans, UndoRead
<1> DEFINE class == IF Head(act[o].calls) = "products" THEN Products ELSE Ingredients
           took == {e \in class : act[o].got[e] > 0}
           keep == {e \in took : Tracked(stock[e])}
<1>1. PICK kept, got, calls : /\ kept = keep /\ calls = Tail(act[o].calls)
                              /\ got = [e \in Entities |-> IF e \in took \ keep THEN 0 ELSE act[o].got[e]]
  OBVIOUS
<1> DEFINE r == [act[o] EXCEPT !.plan = kept, !.calls = calls, !.got = got]
<1>2. act' = [act EXCEPT ![o] = r]
  BY <1>1 DEF UndoRead
<1>3. r.pc = "undo" /\ r.plan = kept /\ r.got = got /\ r.sync = act[o].sync /\ r.calls = calls
  BY <1>0 DEF ActStates
<1> HIDE DEF r
<1>4. \A x \in Entities : ~Clears(act[o], x, stock[x])
  BY <1>0 DEF Clears
<1>5. ASSUME NEW p \in Products, Misflagged(p), Flagging(act[o], p) PROVE Flagging(r, p)
  <2>1. Tracked(stock[p]) \/ ~(p \in took)
    <3>1. soldOut[p] \in BOOLEAN
      BY <1>0 DEF TypeOK
    <3>. QED
      BY <1>5, <3>1 DEF Misflagged, Tracked, RestInv, Unlimited, IsOut
  <2>2. got[p] = act[o].got[p]
    BY <1>0, <1>1, <2>1, Ints
  <2>. QED
    BY <1>0, <1>3, <1>5, <2>2 DEF Flagging
<1>6. Ready(o, r, doc'[o])
  <2>1. CASE act[o].calls = <<"ingredients", "products">>
    <3>1. Tail(act[o].calls) = <<"products">>
      BY <2>1
    <3>. QED
      BY <1>1, <1>3, <3>1 DEF Ready
  <2>2. CASE act[o].calls \in {<<"products">>, <<"products", "ingredients">>}
    <3>1. class = Products
      BY <2>2
    <3>2. \A p \in Products : got[p] > 0 => p \in kept
      BY <1>0, <1>1, <3>1, Ints
    <3>. QED
      BY <1>3, <3>2 DEF Ready
  <2>3. CASE \A p \in Products : act[o].got[p] > 0 => p \in act[o].plan
    <3>1. \A p \in Products : ~(got[p] > 0)
      BY <1>0, <1>1, <2>3, Ints
    <3>. QED
      BY <1>3, <3>1 DEF Ready
  <2>. QED
    BY <1>0, <2>1, <2>2, <2>3 DEF Ready
<1>. QED
  BY <1>0, <1>2, <1>4, <1>5, <1>6, RestMoves

(* Units put back: a negative stock they meet is one of drifted.           *)
LEMMA RestAdds ==
    ASSUME IInv, RestInv, NEW o \in Orders, NEW e \in Entities, NEW n \in Nat, Tracked(stock[e]), Add(e, n),
           NEW r, act' = [act EXCEPT ![o] = r], act[o].pc \in {"undo", "give"}, r.pc = act[o].pc,
           e \in Products => e \in r.sync,
           \A p \in Products \ {e} : Flagging(act[o], p) => Flagging(r, p),
           Ready(o, r, doc'[o]), \A k \in Orders \ {o} : doc'[k] = doc[k],
           UNCHANGED <<soldOut, unsynced>>
    PROVE  RestInv'
<1>0. o \in Actors /\ TypeOK /\ stock[e] \in Int
  BY TrackedInt DEF Actors, IInv
<1>1. /\ stock'[e] = stock[e] + n /\ stock'[e] \in Int /\ \A x \in Entities \ {e} : stock'[x] = stock[x]
      /\ drifted' = IF stock[e] < 0 THEN drifted \cup {e} ELSE drifted
  BY <1>0 DEF Add, TypeOK
<1>2. \A x \in Entities : ~Clears(act[o], x, stock[x])
  BY DEF Clears
<1>3. \A x \in Entities \ drifted' : Negative(x)' => x # e /\ x \notin drifted
  BY <1>0, <1>1 DEF Negative
<1>4. \A p \in Products \ unsynced' : p # e /\ Misflagged(p)' => p \notin unsynced /\ Misflagged(p)
  BY <1>1, Ints DEF Misflagged
<1>5. e \in Products => Flagging(r, e)
  BY DEF Flagging
<1>6. Unlimited'
  BY <1>1, IntTracked, Ints DEF RestInv, Unlimited
<1>7. \A x \in Entities \ drifted' : Negative(x)' =>
         x \notin drifted /\ stock'[x] = stock[x] /\ ~Clears(act[o], x, stock[x])
  BY <1>1, <1>2, <1>3
<1>8. \A p \in Products \ unsynced' : Misflagged(p)' =>
         Flagging(r, p) \/ (p \notin unsynced /\ Misflagged(p) /\ ~Flagging(act[o], p))
  BY <1>4, <1>5
<1>. QED
  BY <1>0, <1>6, <1>7, <1>8, RestStep

LEMMA RestUndoes == ASSUME IInv, RestInv, NEW o \in Orders, NEW e \in Entities, UndoItem(o, e) PROVE RestInv'
<1>0. /\ o \in Actors /\ act[o] \in ActStates /\ TypeOK /\ Ready(o, act[o], doc[o]) /\ act[o].pc = "undo"
      /\ act[o].got \in [Entities -> Nat] /\ act[o].sync \in SUBSET Products
  BY Fields DEF Actors, IInv, RestInv, Plans, UndoItem
<1>1. CASE Throw(o)
  BY <1>0, <1>1, RestThrows
<1>2. CASE ~Throw(o)
  <2>1. PICK got, sync : got = [act[o].got EXCEPT ![e] = 0] /\ sync = act[o].sync \cup ({e} \cap Products)
    OBVIOUS
  <2> DEFINE r == [act[o] EXCEPT !.plan = @ \ {e}, !.got[e] = 0, !.sync = Touched(o, e)]
  <2>2. act' = [act EXCEPT ![o] = r]
    BY <1>2, ZenonT(40) DEF UndoItem
  <2>3. r.pc = "undo" /\ r.plan = act[o].plan \ {e} /\ r.got = got /\ r.sync = sync /\ r.calls = act[o].calls
    BY <1>0, <2>1 DEF ActStates, Touched
  <2> HIDE DEF r
  <2>4. /\ UNCHANGED <<soldOut, doc, unsynced>>
        /\ \/ Tracked(stock[e]) /\ Add(e, act[o].got[e])
           \/ stock[e] = Gone /\ UNCHANGED <<stock, drifted>>
    BY <1>2 DEF UndoItem, Tracked
  <2>5. \A p \in Products \ {e} : Flagging(act[o], p) => Flagging(r, p)
    BY <1>0, <2>1, <2>3, Ints DEF Flagging
  <2>6. Ready(o, r, doc'[o])
    BY <1>0, <2>1, <2>3, Ints DEF Ready
  <2>7. e \in Products => e \in r.sync
    BY <2>1, <2>3
  <2>8. CASE Tracked(stock[e]) /\ Add(e, act[o].got[e])
    BY <1>0, <2>2, <2>3, <2>4, <2>5, <2>6, <2>7, <2>8, RestAdds
  <2>9. CASE stock[e] = Gone /\ UNCHANGED <<stock, drifted>>
    <3>1. \A x \in Entities : ~Clears(act[o], x, stock[x])
      BY <1>0 DEF Clears
    <3>2. \A p \in Products : Misflagged(p) => p # e
      BY <2>9 DEF Misflagged
    <3>. QED
      BY <1>0, <2>2, <2>4, <2>5, <2>6, <2>9, <3>1, <3>2, RestMoves
  <2>. QED
    BY <2>4, <2>8, <2>9
<1>. QED
  BY <1>1, <1>2

LEMMA RestUndone == ASSUME IInv, RestInv, NEW o \in Orders, UndoDone(o) PROVE RestInv'
<1>0. /\ o \in Actors /\ TypeOK /\ act[o].pc = "undo" /\ act[o].plan = {} /\ act[o].sync = {} /\ act[o].calls = <<>>
      /\ act[o].got \in [Entities -> Nat] /\ End(o) /\ UNCHANGED <<stock, soldOut, drifted, unsynced, doc>>
  BY Fields DEF Actors, IInv, UndoDone, ledger
<1>1. \A p \in Products : ~(act[o].got[p] > 0)
  <2>1. Ready(o, act[o], doc[o])
    BY DEF RestInv, Plans
  <2>. QED
    BY <1>0, <2>1, SMTT(30) DEF Ready
<1>2. \A p \in Products : ~Flagging(act[o], p)
  BY <1>0, <1>1 DEF Flagging
<1>. QED
  BY <1>0, <1>2, RestEnds

LEMMA RestReturns ==
    ASSUME IInv, RestInv, NEW o \in Orders, ReturnBegin(o) \/ GiveSync(o) \/ GiveDone(o)
    PROVE  RestInv'
<1>0. o \in Actors /\ act[o] \in ActStates /\ TypeOK /\ Ready(o, act[o], doc[o])
  BY Fields DEF Actors, IInv, RestInv, Plans
<1>1. act[o].pc \in {"idle", "give", "giveSync"} /\ \A x \in Entities : ~Clears(act[o], x, stock[x])
  BY DEF ReturnBegin, GiveSync, GiveDone, Clears
<1>2. CASE ReturnBegin(o)
  <2>1. PICK plan : plan = {e \in Entities : doc[o].adj[e] > 0}
    OBVIOUS
  <2> DEFINE r == [Idle EXCEPT !.pc = "give", !.plan = plan]
  <2>2. act' = [act EXCEPT ![o] = r] /\ UNCHANGED <<stock, soldOut, drifted, unsynced, doc>>
    BY <1>2, <2>1 DEF ReturnBegin, ledger
  <2>3. r.pc = "give" /\ r.plan = plan /\ r.sync = {}
    BY DEF Idle
  <2> HIDE DEF r
  <2>4. Ready(o, r, doc'[o]) /\ \A p \in Products : ~Flagging(act[o], p)
    BY <1>2, <2>1, <2>2, <2>3 DEF Ready, Flagging, ReturnBegin
  <2>. QED
    BY <1>0, <1>1, <2>2, <2>4, RestMoves
<1>3. CASE GiveSync(o)
  <2>1. PICK sync : sync = {p \in Products : doc[o].adj[p] > 0}
    OBVIOUS
  <2> DEFINE r == [act[o] EXCEPT !.pc = "giveSync", !.sync = sync]
  <2>2. act' = [act EXCEPT ![o] = r] /\ UNCHANGED <<stock, soldOut, drifted, unsynced, doc>>
    BY <1>3, <2>1 DEF GiveSync, ledger
  <2>3. r.pc = "giveSync" /\ r.sync = sync
    BY <1>0 DEF ActStates
  <2> HIDE DEF r
  <2>4. Ready(o, r, doc'[o])
    BY <2>3 DEF Ready
  <2>5. \A p \in Products : Flagging(act[o], p) => Flagging(r, p)
    BY <1>0, <1>3, <2>1, <2>3 DEF Ready, Flagging, GiveSync
  <2>. QED
    BY <1>0, <1>1, <2>2, <2>4, <2>5, RestMoves
<1>4. CASE GiveDone(o)
  <2>1. End(o) /\ doc' = [doc EXCEPT ![o].status = "REVERTED"] /\ UNCHANGED <<stock, soldOut, unsynced>>
        /\ drifted \subseteq drifted'
    BY <1>4 DEF GiveDone, Lose
  <2>2. \A p \in Products : ~Flagging(act[o], p)
    BY <1>4 DEF GiveDone, Flagging
  <2>3. Unlimited' /\ \A p \in Products \ unsynced' : Misflagged(p)' => p \notin unsynced /\ Misflagged(p)
    BY <2>1 DEF RestInv, Unlimited, Misflagged
  <2>4. \A k \in Orders \ {o} : doc'[k] = doc[k]
    BY <1>0, <2>1 DEF TypeOK
  <2>. QED
    BY <1>0, <1>1, <2>1, <2>2, <2>3, <2>4, IdleRests, RestStep DEF End
<1>. QED
  BY <1>2, <1>3, <1>4

LEMMA RestGives ==
    ASSUME IInv, RestInv, NEW o \in Orders, NEW e \in Entities, GiveItem(o, e) \/ GiveCheck(o, e)
    PROVE  RestInv'
<1>0. /\ o \in Actors /\ act[o] \in ActStates /\ TypeOK /\ Ready(o, act[o], doc[o])
      /\ doc[o] \in OrderDocs /\ doc[o].adj \in [Entities -> Nat] /\ act[o].pc \in {"give", "giveCheck"}
      /\ e \in act[o].plan
  BY Fields DEF Actors, IInv, RestInv, Plans, TypeOK, OrderDocs, GiveItem, GiveCheck, First
<1>1. \A x \in Entities : ~Clears(act[o], x, stock[x])
  BY <1>0 DEF Clears
<1>2. CASE Throw(o)
  BY <1>0, <1>2, RestThrows
<1>3. CASE GiveItem(o, e) /\ Tracked(stock[e]) /\ Unmoved(o, e)
  <2>1. PICK sync, moved : sync = act[o].sync \cup ({e} \cap Products) /\ moved = doc[o].moved \cup {e}
    OBVIOUS
  <2> DEFINE r == [act[o] EXCEPT !.plan = @ \ {e}, !.sync = sync]
             d == [doc[o] EXCEPT !.moved = moved]
  <2>2. act' = [act EXCEPT ![o] = r] /\ Add(e, doc[o].adj[e]) /\ UNCHANGED <<soldOut, unsynced>>
    BY <1>3, <2>1 DEF GiveItem, Touched
  <2>3. doc'[o] = d /\ \A k \in Orders \ {o} : doc'[k] = doc[k]
    BY <1>0, <1>3, <2>1 DEF GiveItem, TypeOK
  <2>4. r.pc = act[o].pc /\ r.plan = act[o].plan \ {e} /\ r.sync = sync /\ d.adj = doc[o].adj /\ r.got = act[o].got
    BY <1>0 DEF ActStates, OrderDocs
  <2> HIDE DEF r, d
  <2>5. act[o].pc = "give"
    BY <1>3 DEF GiveItem
  <2>6. Ready(o, r, doc'[o])
    BY <1>0, <2>1, <2>3, <2>4, <2>5 DEF Ready
  <2>7. \A p \in Products : Flagging(act[o], p) => Flagging(r, p)
    BY <2>1, <2>4, <2>5 DEF Flagging
  <2>. QED
    BY <1>0, <1>3, <2>1, <2>2, <2>3, <2>4, <2>5, <2>6, <2>7, RestAdds
<1>4. ASSUME NEW pc \in {"give", "giveCheck"}, NEW plan, plan \subseteq act[o].plan,
             act' = [act EXCEPT ![o].pc = pc, ![o].plan = plan],
             UNCHANGED <<stock, soldOut, drifted, unsynced, doc>>
      PROVE  RestInv'
  <2> DEFINE r == [act[o] EXCEPT !.pc = pc, !.plan = plan]
  <2>1. act' = [act EXCEPT ![o] = r]
    BY <1>4
  <2>2. r.pc = pc /\ r.plan = plan /\ r.sync = act[o].sync
    BY <1>0 DEF ActStates
  <2> HIDE DEF r
  <2>3. Ready(o, r, doc'[o]) /\ \A p \in Products : Flagging(act[o], p) => Flagging(r, p)
    BY <1>0, <1>4, <2>2 DEF Ready, Flagging
  <2>. QED
    BY <1>0, <1>1, <1>4, <2>1, <2>3, RestMoves
<1>5. CASE GiveItem(o, e) /\ ~(Tracked(stock[e]) /\ Unmoved(o, e))
  <2>1. act' = [act EXCEPT ![o].pc = "giveCheck", ![o].plan = act[o].plan]
    <3>1. act' = [act EXCEPT ![o].pc = "giveCheck"] /\ act \in [Actors -> ActStates]
      BY <1>0, <1>5 DEF GiveItem, Goto, TypeOK
    <3>2. [act[o] EXCEPT !.pc = "giveCheck"] = [act[o] EXCEPT !.pc = "giveCheck", !.plan = act[o].plan]
      BY <1>0 DEF ActStates
    <3>. QED
      BY <3>1, <3>2
  <2>. QED
    BY <1>4, <1>5, <2>1 DEF GiveItem, ledger
<1>6. CASE GiveCheck(o, e) /\ ~Throw(o)
  <2>1. PICK plan : plan = act[o].plan \ {e}
    OBVIOUS
  <2>2. act' = [act EXCEPT ![o].pc = "give", ![o].plan = plan] /\ UNCHANGED <<stock, soldOut, drifted, unsynced, doc>>
    BY <1>6, <2>1 DEF GiveCheck, ledger
  <2>. QED
    BY <1>4, <2>1, <2>2
<1>. QED
  BY <1>2, <1>3, <1>5, <1>6

-----------------------------------------------------------------------------
(* Edits set quantity and flag together; the +/- controls leave the flag.  *)
LEMMA RestWrites ==
    ASSUME IInv, RestInv, NEW e \in Entities, NEW v \in Nat \cup {Untracked}, Write(e, v)
    PROVE  RestInv'
<1>0. TypeOK /\ stock' = [stock EXCEPT ![e] = v] /\ UNCHANGED <<doc, act>>
      /\ drifted' = drifted \ {e} /\ unsynced' = unsynced \ {e}
  BY DEF IInv, Write
<1>1. stock'[e] = v /\ \A x \in Entities \ {e} : stock'[x] = stock[x]
  BY <1>0 DEF TypeOK
<1>2. \A p \in Products : soldOut'[p] = IF p = e THEN IsOut(v) ELSE soldOut[p]
  BY <1>0 DEF Write, TypeOK
<1>3. Covers'
  <2>1. ~Negative(e)'
    BY <1>1 DEF Negative, Tracked
  <2>2. \A x \in Entities \ drifted' : Negative(x)' => x # e /\ x \notin drifted /\ Negative(x)
    BY <1>0, <1>1, <2>1 DEF Negative
  <2>. QED
    BY <1>0, <1>1, <2>2 DEF RestInv, Covers
<1>4. Flagged'
  <2>1. \A p \in Products \ unsynced' : Misflagged(p)' => p \notin unsynced /\ Misflagged(p)
    BY <1>0, <1>1, <1>2, Ints DEF Misflagged
  <2>. QED
    BY <1>0, <2>1 DEF RestInv, Flagged
<1>5. Unlimited'
  BY <1>1, <1>2, Ints DEF RestInv, Unlimited, IsOut
<1>6. Plans'
  BY <1>0 DEF RestInv, Plans
<1>. QED
  BY <1>3, <1>4, <1>5, <1>6 DEF RestInv

LEMMA RestRemoves == ASSUME IInv, RestInv, NEW e \in Entities, Remove(e) PROVE RestInv'
<1>0. TypeOK /\ stock' = [stock EXCEPT ![e] = Gone] /\ UNCHANGED <<soldOut, doc, act, unsynced, drifted>>
  BY DEF IInv, Remove, ledger
<1>1. stock'[e] = Gone /\ \A x \in Entities \ {e} : stock'[x] = stock[x]
  BY <1>0 DEF TypeOK
<1>2. \A x \in Entities : Negative(x)' => x # e /\ Negative(x)
  BY <1>1 DEF Negative, Tracked
<1>3. \A p \in Products : (Misflagged(p)' => Misflagged(p)) /\ (stock'[p] = Untracked => stock[p] = Untracked)
  BY <1>0, <1>1, MarksAssumption, Ints DEF Misflagged
<1>. QED
  BY <1>0, <1>1, <1>2, <1>3 DEF RestInv, Covers, Flagged, Unlimited, Plans

LEMMA RestDeltas ==
    ASSUME IInv, RestInv, NEW w \in Editors, NEW p \in Products, NEW k \in Deltas, DeltaBegin(w, p, k)
    PROVE  RestInv'
<1>0. /\ w \in Actors /\ act[w] \in ActStates /\ TypeOK /\ w \notin Orders /\ p \in Entities
      /\ act[w].pc = "idle" /\ UNCHANGED <<soldOut, doc, unsynced>>
  BY Fields, Ints, ActorsAssumption DEF Actors, IInv, DeltaBegin
<1>1. PICK n : n = stock[p] + k /\ n \in Int /\ stock[p] \in Int
  BY <1>0, TrackedInt, LevelsAssumption DEF DeltaBegin
<1>2. PICK pc : pc = IF n < 0 THEN "deltaClamp" ELSE "deltaFlag"
  OBVIOUS
<1> DEFINE r == [act[w] EXCEPT !.pc = pc, !.item = p]
<1>3. act' = [act EXCEPT ![w] = r]
  BY <1>1, <1>2 DEF DeltaBegin
<1>4. r.pc = pc /\ r.item = p
  BY <1>0 DEF ActStates
<1> HIDE DEF r
<1>5. stock'[p] = n /\ (\A x \in Entities \ {p} : stock'[x] = stock[x]) /\ drifted \subseteq drifted'
  BY <1>0, <1>1 DEF DeltaBegin, TypeOK
<1>6. (\A x : ~Clears(act[w], x, stock[x])) /\ \A q : ~Flagging(act[w], q)
  BY <1>0 DEF Clears, Flagging
<1>7. \A x \in Entities \ drifted' : Negative(x)' =>
         \/ Clears(r, x, stock'[x])
         \/ x \notin drifted /\ stock'[x] = stock[x] /\ ~Clears(act[w], x, stock[x])
  BY <1>2, <1>4, <1>5, <1>6 DEF Negative, Clears
<1>8. Flagging(r, p)
  BY <1>2, <1>4 DEF Flagging
<1>9. \A q \in Products \ {p} : Misflagged(q)' => Misflagged(q)
  BY <1>0, <1>5, Ints DEF Misflagged
<1>10. Unlimited'
  BY <1>0, <1>1, <1>5, IntTracked, Ints DEF RestInv, Unlimited
<1>11. \A q \in Products \ unsynced' : Misflagged(q)' =>
         Flagging(r, q) \/ (q \notin unsynced /\ Misflagged(q) /\ ~Flagging(act[w], q))
  BY <1>0, <1>6, <1>8, <1>9
<1>. QED
  BY <1>0, <1>3, <1>7, <1>10, <1>11, RestStep

LEMMA RestDeltaClamps == ASSUME IInv, RestInv, NEW w \in Editors, DeltaClamp(w) PROVE RestInv'
<1>0. /\ w \in Actors /\ act[w] \in ActStates /\ TypeOK /\ w \notin Orders /\ act[w].pc = "deltaClamp"
      /\ UNCHANGED <<soldOut, doc, unsynced, drifted>>
  BY Fields, ActorsAssumption DEF Actors, IInv, DeltaClamp, ledger
<1>1. PICK p : p = act[w].item
  OBVIOUS
<1> DEFINE r == [act[w] EXCEPT !.pc = "deltaFlag"]
<1>2. act' = [act EXCEPT ![w] = r]
  BY DEF DeltaClamp, Goto
<1>3. r.pc = "deltaFlag" /\ r.item = p
  BY <1>0, <1>1 DEF ActStates
<1> HIDE DEF r
<1>4. stock' = IF Tracked(stock[p]) /\ stock[p] < 0 THEN [stock EXCEPT ![p] = 0] ELSE stock
  BY <1>1 DEF DeltaClamp
<1>5. \A x \in Entities \ {p} : stock'[x] = stock[x]
  BY <1>0, <1>4 DEF TypeOK
<1>6. p \in Entities => (stock'[p] = 0 \/ stock'[p] = stock[p]) /\ ~Negative(p)'
  BY <1>0, <1>4 DEF TypeOK, Negative
<1>7. \A x \in Entities : Negative(x)' => x # p /\ ~Clears(act[w], x, stock[x])
  BY <1>0, <1>1, <1>6 DEF Clears
<1>8. ASSUME NEW q \in Products \ unsynced', Misflagged(q)'
      PROVE  Flagging(r, q) \/ (q \notin unsynced /\ Misflagged(q) /\ ~Flagging(act[w], q))
  <2>1. CASE q = p
    BY <1>3, <2>1 DEF Flagging
  <2>2. CASE q # p
    BY <1>0, <1>1, <1>5, <1>8, <2>2, Ints DEF Misflagged, Flagging
  <2>. QED
    BY <2>1, <2>2
<1>9. Unlimited'
  <2>1. 0 # Untracked
    BY IntTracked
  <2>. QED
    BY <1>0, <1>5, <1>6, <2>1, Ints DEF RestInv, Unlimited
<1>10. \A x \in Entities \ drifted' : Negative(x)' => x \notin drifted /\ stock'[x] = stock[x] /\ ~Clears(act[w], x, stock[x])
  BY <1>0, <1>5, <1>7
<1>. QED
  BY <1>0, <1>2, <1>8, <1>9, <1>10, RestStep

LEMMA RestNext == IInv /\ RestInv /\ [Next]_vars => RestInv'
<1> SUFFICES ASSUME IInv, RestInv, [Next]_vars PROVE RestInv'
  OBVIOUS
<1>1. ASSUME NEW o \in Orders, SaleStep(o) PROVE RestInv'
  BY <1>1, RestBegins, RestTaken, RestUndoes, RestSyncs, RestClamps, RestRecords, RestUndoReads, RestUndone DEF SaleStep
<1>2. ASSUME NEW o \in Orders, ReturnStep(o) PROVE RestInv'
  BY <1>2, RestReturns, RestGives DEF ReturnStep
<1>3. ASSUME NEW a \in Actors, Throw(a) PROVE RestInv'
  BY <1>3, RestThrows DEF IInv
<1>4. ASSUME NEW w \in Editors, EditStep(w) PROVE RestInv'
  BY <1>3, <1>4, RestDeltaClamps DEF EditStep, DeltaFlag, Actors
<1>5. CASE Edit
  <2>1. Levels \subseteq Nat
    BY LevelsAssumption
  <2>. QED
    BY <1>5, <2>1, RestWrites, RestRemoves, RestDeltas DEF Edit, SetStock, SetUnlimited
<1>6. CASE UNCHANGED vars
  BY <1>6 DEF vars, ledger, RestInv, Covers, Negative, Flagged, Misflagged, Unlimited, Plans
<1>. QED
  BY <1>1, <1>2, <1>3, <1>4, <1>5, <1>6 DEF Next, Crash

(* Once all requests have ended or died, no stock is below zero but where  *)
(* a return or a death came between a decrement and its clamp, and every   *)
(* product is shown as sold out exactly when it is, but where a request    *)
(* threw before setting the flag: the rollback that forgets whose flags it *)
(* was to set (stock-operations.ts) loses none, for it restores them all.  *)
THEOREM RestIsSound == Spec => []SoundAtRest
<1>1. IInv /\ RestInv => SoundAtRest
  <2> SUFFICES ASSUME IInv, RestInv, AtRest PROVE SoundAtRest
    BY DEF SoundAtRest
  <2>1. \A a \in Actors : \A e, v : ~Clears(act[a], e, v) /\ ~Flagging(act[a], e)
    BY DEF AtRest, Clears, Flagging
  <2>2. \A e \in Entities \ drifted : ~Negative(e)
    BY <2>1 DEF RestInv, Covers
  <2>3. \A p \in Products \ unsynced : ~Misflagged(p)
    BY <2>1 DEF RestInv, Flagged
  <2>4. ASSUME NEW e \in Entities \ drifted, Tracked(stock[e]) PROVE stock[e] >= 0
    <3>1. ~(stock[e] < 0)
      BY <2>2, <2>4 DEF Negative
    <3>. QED
      BY <2>4, <3>1, TrackedInt DEF IInv
  <2>5. ASSUME NEW p \in Products \ unsynced, stock[p] # Gone PROVE soldOut[p] = IsOut(stock[p])
    BY <2>3, <2>5 DEF Misflagged
  <2>. QED
    BY <2>4, <2>5 DEF SoundAtRest
<1>. QED
  BY <1>1, IInvHolds, RestInit, RestNext, PTL DEF Spec
=============================================================================
