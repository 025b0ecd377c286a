----------------------- MODULE CashSessionStockProofs ------------------------
(***************************************************************************)
(* The stock of the orders, in every instance of CashSession whose claims  *)
(* outlast the requests that hold them (Timely) and in which no register   *)
(* completes an order another may be completing.  taken is the ledger of   *)
(* the units each order and each running payment has.  Ledger says the     *)
(* same of them from the documents: what an order's document says,         *)
(* corrected by the marks a transition or a storno under way has left on   *)
(* the entities.  It is inductive only together with who may charge an     *)
(* order (AllCharging), who holds the stock of one and how far it is with  *)
(* it (AllWorking), what a mark means once its request is gone (AllMarked, *)
(* Apart), and what the transition of a session has claimed of its orders  *)
(* (AllGiven).                                                             *)
(***************************************************************************)
EXTENDS CashSessionClosingProofs

(* The units a payment under way has taken for its order, and those an     *)
(* order has by its document and by the marks of the transition that       *)
(* holds its claim.                                                        *)
Carries(r, o, i) == r.op \in PayOps /\ r.ord = o /\ i \in r.plan[o]
Carried(o, i)    == \E a \in Requests : Carries(act[a], o, i)
Half(o, i)  == /\ order[o].claim # NoToken /\ order[o].effect # order[o].target
               /\ <<order[o].claim, o>> \in keys[i]
Units(o, i) == order[o].status = "PAID" /\ i \in order[o].adj /\ ((order[o].effect = "APPLIED") # Half(o, i))
Ledger == \A o \in Orders, i \in Items : taken[o][i] = IF Carried(o, i) \/ Units(o, i) THEN 1 ELSE 0

(* A payment takes each unit once, for an order that is not paid yet; and  *)
(* no two deliveries work for one order.                                   *)
Due(d) == d.status \in {"NEW", "PENDING"}
Charging(a, r) == LET d == order[r.ord] IN
    /\ r.op \in PayOps => r.op # "complete"
    /\ r.op \in PayOps /\ r.plan[r.ord] # {} => r.op \in {"sale", "webhook"} /\ r.pc \in PreWrite \ {"payClaim"}
    /\ r.pc = "apply" => r.op # "card" /\ r.rest \cap r.plan[r.ord] = {}
    /\ r.op = "card" => ~r.flag
    /\ r.op = "webhook" /\ r.pc \in PreWrite =>
          /\ d.status \in {"PENDING", "CANCELLED", "DELETED"}
          /\ d.status # "DELETED" => d.hook = a /\ d.hookFresh /\ d.ses = r.ses
          /\ \A b \in Requests \ {a} : act[b].op = "webhook" /\ act[b].pc \in PreWrite => act[b].ord # r.ord
AllCharging == \A a \in Requests, r \in RequestStates : act[a] = r => Charging(a, r)

(* A document whose stock the request r holds, and may move.               *)
Owns(r, d) == /\ d.status = "PAID" /\ d.claim = r.tok
              /\ d.target = Aim(r.op) /\ d.effect # Aim(r.op)
Halfway(r, o) == /\ r.rest \subseteq r.plan[o]
                 /\ \A i \in r.plan[o] \ r.rest : <<r.tok, o>> \in keys[i]
Listed(r, o)  == /\ ~Due(order[o])
                 /\ order[o].status = "PAID" => order[o].ses = r.ses /\ order[o].adj = r.plan[o]
Handling(r) ==
    /\ r.op \in SessionOps /\ r.pc \in {"claim", "move"} => r.left \subseteq r.todo
    /\ r.op \in SessionOps /\ r.pc \in {"claim", "move"} => \A o \in r.todo : Listed(r, o)
    /\ r.op \in SessionOps /\ r.pc = "claim" => \A o \in r.todo \ r.left : Owns(r, order[o])
    /\ r.op \in SessionOps /\ r.pc = "move"  => /\ \A o \in r.left : Owns(r, order[o])
                                                /\ Halfway(r, Min(r.left))
Reversing(r) == LET d == order[r.ord] IN
    /\ r.op = "storno" /\ r.pc \in {"refund", "move"} =>
          /\ d.status = "DELETED" \/ (d.status = "PAID" /\ d.claim = StornoToken)
          /\ \/ Owns(r, d) /\ r.plan[r.ord] = d.adj /\ Halfway(r, r.ord)
             \/ r.rest = {} /\ (d.status = "PAID" => d.effect = "REVERTED")
    /\ r.op = "storno" /\ r.pc = "stornoEnd" =>
          d.status = "DELETED" \/ (d.status = "PAID" /\ d.claim = StornoToken /\ d.effect = "REVERTED")
AllWorking == \A a \in Requests, r \in RequestStates : act[a] = r => Handling(r) /\ Reversing(r)

(* The marks on the entities: none for an order never paid; those of a     *)
(* storno under its claim; those of a transition not done with the order   *)
(* under a claim as well.                                                  *)
MarksOf(o, i) == {t \in Tokens \cup {StornoToken} : <<t, o>> \in keys[i]}
Unmarked(o, i) ==
    /\ Due(order[o]) => MarksOf(o, i) = {}
    /\ order[o].claim = StornoToken => order[o].target = "REVERTED"
    /\ order[o].status = "PAID" /\ StornoToken \in MarksOf(o, i) => order[o].claim = StornoToken
Marked(s, o, i) == LET x == session[s].trans IN
    x.tok \in MarksOf(o, i) /\ order[o].status = "PAID" =>
        order[o].ses = s /\ (order[o].claim # NoToken \/ order[o].effect = Aim(x.type))
Apart == \A s, z \in Sessions : session[s].trans.tok \in Tokens /\ session[z].trans.tok = session[s].trans.tok => z = s
AllMarked == /\ \A o \in Orders : Due(order[o]) => order[o].claim = NoToken
             /\ \A o \in Orders, i \in Items : Unmarked(o, i)
             /\ \A s \in Sessions, o \in Orders, i \in Items : Marked(s, o, i)

(* The orders of a session its transition has claimed: of an open one only *)
(* if it is a TEST session without card payments, so that its close cannot *)
(* be called off.                                                          *)
Under(s) == {o \in OrdersOf(s, "PAID") : order[o].claim \in Tokens}
Bound(s) == LET x == session[s] IN
    /\ \A o \in Under(s) : /\ order[o].claim = x.trans.tok /\ order[o].target = Aim(x.trans.type)
                           /\ order[o].effect # Aim(x.trans.type)
    /\ Under(s) # {} /\ x.status # "CLOSED" => x.isTest /\ ~PendingSumUp(s) /\ ~UnrefundedSumUp(s)

(* A session whose stock is recorded as given back.                        *)
Given(s) == LET x == session[s] IN
    /\ x.status = "CLOSED" /\ x.effect = "REVERTED" /\ x.trans = NoTransition => x.isTest
    /\ x.status = "CLOSED" /\ x.effect = "REVERTED" /\ x.trans.type = "delete" => AllDone(s, "REVERTED", {})
Giving(r) == /\ r.pc \in {"deleteOrders", "deleteEnd"} => session[r.ses].effect = "REVERTED"
             /\ r.pc = "unclaim" => Under(r.ses) = {}
AllGiven == /\ \A s \in Sessions : Bound(s) /\ Given(s)
            /\ \A a \in Requests, r \in RequestStates : act[a] = r => Giving(r)

StockInv == Ledger /\ AllCharging /\ AllWorking /\ AllMarked /\ Apart /\ AllGiven

-----------------------------------------------------------------------------
(* What a step does to a session, for those that count on its transition   *)
(* and on what it says of its stock.                                       *)
Alike(x, y) == /\ y.status = "CLOSED" => x.status = "CLOSED" /\ y.isTest = x.isTest
               /\ y.effect = x.effect /\ y.trans.tok = x.trans.tok /\ y.trans.type = x.trans.type
               /\ y.trans = NoTransition => x.trans = NoTransition
               /\ x.status = "CLOSED" => y.status = "CLOSED"
               /\ y.isTest = x.isTest \/ x.trans = NoTransition
Taking(a, x, y) == /\ y.status = x.status /\ y.isTest = x.isTest /\ y.effect = x.effect
                   /\ y.trans # NoTransition
                   /\ \/ x.trans = NoTransition /\ Fresh(y.trans.tok)
                      \/ y.trans.type = x.trans.type /\ y.trans.tok = x.trans.tok
Freeing(a, x, y) == /\ x.trans.by = a /\ y.trans = NoTransition
                    /\ y.status = "CLOSED" /\ y.effect = "REVERTED" => y.isTest
Freed(a, s) == s = act[a].ses /\ (Unclaim(a) \/ CloseEnd(a) \/ TestEnd(a) \/ DeleteEnd(a))
Marking(a, s) == /\ DeleteMark(a) /\ s = act[a].ses /\ order' = order
                 /\ session' = [session EXCEPT ![s].effect = "REVERTED"]
SessionStep(a, s) == \/ Alike(session[s], session'[s])
                     \/ Taking(a, session[s], session'[s]) /\ order' = order /\ keys' = keys
                     \/ Freed(a, s) /\ Freeing(a, session[s], session'[s])
                     \/ Marking(a, s)

LEMMA AlikeSame == ASSUME NEW a, NEW s, session'[s] = session[s] PROVE SessionStep(a, s)
BY DEF SessionStep, Alike

LEMMA AlikeSet ==
    ASSUME Base, NEW a, NEW s \in Sessions, NEW z \in Sessions, NEW x, session' = [session EXCEPT ![z] = x],
           Alike(session[z], x)
    PROVE  SessionStep(a, s)
BY TypeParts DEF Base, SessionStep, Alike

LEMMA StepPay ==
    ASSUME Base, NEW s \in Sessions,
           NEW a, \/ a \in Requests /\ (PayClaim(a) \/ Refresh(a) \/ PayRelease(a))
                  \/ \E z \in Sessions : ExpirePay(z) \/ OpenSession(z)
    PROVE  SessionStep(a, s)
<1>0. session \in [Sessions -> SessionDocs]
  BY TypeParts DEF Base
<1>1. ASSUME NEW z \in Sessions, NEW pay, NEW fresh,
             session' = [session EXCEPT ![z].pay = pay, ![z].payFresh = fresh]
      PROVE  SessionStep(a, s)
  <2> DEFINE x == [session[z] EXCEPT !.pay = pay, !.payFresh = fresh]
  <2>1. Alike(session[z], x)
    BY <1>0 DEF Alike, SessionDocs
  <2>2. session' = [session EXCEPT ![z] = x]
    BY <1>1
  <2> HIDE DEF x
  <2>. QED
    BY <2>1, <2>2, AlikeSet
<1>2. ASSUME NEW z \in Sessions, NEW fresh, session' = [session EXCEPT ![z].payFresh = fresh] PROVE SessionStep(a, s)
  <2> DEFINE x == [session[z] EXCEPT !.payFresh = fresh]
  <2>1. Alike(session[z], x)
    BY <1>0 DEF Alike, SessionDocs
  <2>2. session' = [session EXCEPT ![z] = x]
    BY <1>2
  <2> HIDE DEF x
  <2>. QED
    BY <2>1, <2>2, AlikeSet
<1>3. CASE a \in Requests /\ (PayClaim(a) \/ Refresh(a) \/ PayRelease(a))
  <2>1. PICK z \in Sessions : z = act[a].ses
    BY <1>3, Found DEF PayClaim, Refresh, PayRelease, PayPcs
  <2>2. \/ session' = session
        \/ session' = [session EXCEPT ![z].pay = a, ![z].payFresh = TRUE]
        \/ session' = [session EXCEPT ![z].payFresh = TRUE]
        \/ session' = [session EXCEPT ![z].pay = NoRequest, ![z].payFresh = FALSE]
    BY <1>3, <2>1 DEF PayClaim, Refresh, PayRelease
  <2>. QED
    BY <1>1, <1>2, <2>2, AlikeSame
<1>4. ASSUME NEW z \in Sessions, ExpirePay(z) PROVE SessionStep(a, s)
  BY <1>2, <1>4 DEF ExpirePay
<1>5. ASSUME NEW z \in Sessions, OpenSession(z) PROVE SessionStep(a, s)
  <2> DEFINE x == [session[z] EXCEPT !.status = "OPEN"]
  <2>1. Alike(session[z], x)
    BY <1>0, <1>5 DEF OpenSession, Alike, SessionDocs
  <2>2. session' = [session EXCEPT ![z] = x]
    BY <1>5 DEF OpenSession
  <2> HIDE DEF x
  <2>. QED
    BY <2>1, <2>2, AlikeSet
<1>. QED
  BY <1>3, <1>4, <1>5

LEMMA StepTransition ==
    ASSUME Base, \A z \in Sessions : Typed(z), NEW s \in Sessions, NEW a,
           \/ a \in Requests /\ (StockFail(a) \/ TestSet(a))
           \/ \E z \in Sessions : ExpireTransition(z)
    PROVE  SessionStep(a, s)
<1>0. session \in [Sessions -> SessionDocs]
  BY TypeParts DEF Base
<1>1. ASSUME NEW z \in Sessions, NEW trans, trans.tok = session[z].trans.tok, trans.type = session[z].trans.type,
             trans # NoTransition, session' = [session EXCEPT ![z].trans = trans]
      PROVE  SessionStep(a, s)
  <2> DEFINE x == [session[z] EXCEPT !.trans = trans]
  <2>1. Alike(session[z], x)
    BY <1>0, <1>1 DEF Alike, SessionDocs
  <2>2. session' = [session EXCEPT ![z] = x]
    BY <1>1
  <2> HIDE DEF x
  <2>. QED
    BY <2>1, <2>2, AlikeSet
<1>2. ASSUME NEW z \in Sessions, ExpireTransition(z) PROVE SessionStep(a, s)
  <2>1. PICK trans : trans = [session[z].trans EXCEPT !.fresh = FALSE]
    OBVIOUS
  <2>2. session[z].trans \in Transitions /\ session' = [session EXCEPT ![z].trans = trans]
    BY <1>0, <1>2, <2>1 DEF ExpireTransition, SessionDocs
  <2>3. session[z].trans # NoTransition
    BY <1>2, NoneType DEF ExpireTransition
  <2>4. trans.tok = session[z].trans.tok /\ trans.type = session[z].trans.type
    BY <2>1, <2>2 DEF Transitions
  <2>5. trans # NoTransition
    BY <2>3, <2>4, NoneType DEF Typed
  <2>. QED
    BY <1>1, <2>2, <2>4, <2>5
<1>3. ASSUME a \in Requests, StockFail(a) PROVE SessionStep(a, s)
  <2>1. CASE session' = session
    BY <2>1, AlikeSame
  <2>2. CASE session' # session
    <3>1. PICK z : z = act[a].ses
      OBVIOUS
    <3>2. PICK trans : trans = [session[z].trans EXCEPT !.failed = TRUE]
      OBVIOUS
    <3>3. act[a].op # "storno" /\ session' = [session EXCEPT ![z].trans = trans]
      BY <1>3, <2>2, <3>1, <3>2 DEF StockFail
    <3>4. z \in Sessions
      BY <1>3, <3>1, <3>3, Found DEF StockFail, StockPcs, SessionOps
    <3>5. session[z].trans \in Transitions
      BY <1>0, <3>4 DEF SessionDocs
    <3>6. trans.tok = session[z].trans.tok /\ trans.type = session[z].trans.type /\ trans # NoTransition
      BY <3>2, <3>5, NoneHolds DEF Transitions
    <3>. QED
      BY <1>1, <3>3, <3>4, <3>6
  <2>. QED
    BY <2>1, <2>2
<1>4. ASSUME a \in Requests, TestSet(a) PROVE SessionStep(a, s)
  <2>1. CASE session' = session
    BY <2>1, AlikeSame
  <2>2. CASE session' # session
    <3>1. PICK z \in Sessions : z = act[a].ses
      BY <1>4, Found DEF TestSet, TestPcs, SessionOps
    <3>2. PICK kind : kind = (act[a].op = "test")
      OBVIOUS
    <3> DEFINE x == [session[z] EXCEPT !.pay = NoRequest, !.payFresh = FALSE, !.isTest = kind]
    <3>3. session[z].status = "OPEN" /\ session[z].trans = NoTransition
      BY <1>4, <2>2, <3>1 DEF TestSet, PayClaimable, Payable
    <3>4. Alike(session[z], x)
      BY <1>0, <3>3 DEF Alike, SessionDocs
    <3>5. session' = [session EXCEPT ![z] = x]
      BY <1>0, <1>4, <2>2, <3>1, <3>2 DEF TestSet, Unpaying
    <3> HIDE DEF x
    <3>. QED
      BY <3>4, <3>5, AlikeSet
  <2>. QED
    BY <2>1, <2>2
<1>. QED
  BY <1>2, <1>3, <1>4

(* The claim of a transition, by the request that is at it.                *)
LEMMA StepClaim ==
    ASSUME Base, NEW s \in Sessions, NEW a \in Requests, NEW t \in Tokens,
           TestClaim(a, t) \/ DeleteClaim(a, t) \/ \E z \in Sessions : CloseBegin(a, z, t)
    PROVE  SessionStep(a, s)
<1>0. session \in [Sessions -> SessionDocs] /\ order' = order /\ keys' = keys
  BY Found DEF TestClaim, DeleteClaim, CloseBegin
<1>1. ASSUME NEW type, type # "none", NEW x \in SessionDocs, Claimable(x, type, t), x.trans = NoTransition => Fresh(t),
             NEW y, y.status = x.status, y.isTest = x.isTest, y.effect = x.effect, y.trans = ClaimedBy(a, type, t)
      PROVE  Taking(a, x, y)
  <2>1. y.trans.tok = t /\ y.trans.type = type /\ y.trans # NoTransition
    BY <1>1, NoneType DEF ClaimedBy
  <2>. QED
    BY <1>1, <2>1 DEF Taking, Claimable, Resumable
<1>2. CASE TestClaim(a, t) \/ DeleteClaim(a, t)
  <2>1. act[a].op \in {"test", "normal", "delete"} /\ act[a].ses \in Sessions
    BY <1>2, Found DEF TestClaim, DeleteClaim, TestPcs, DeletePcs, SessionOps
  <2>2. PICK z \in Sessions : z = act[a].ses
    BY <2>1
  <2>3. PICK type \in {"test", "normal", "delete"} : session' = session \/ ClaimTransition(a, z, type, t)
    BY <1>2, <2>1, <2>2 DEF TestClaim, DeleteClaim
  <2>4. CASE session' = session
    BY <2>4, AlikeSame
  <2>5. CASE ClaimTransition(a, z, type, t)
    <3>1. PICK trans : trans = ClaimedBy(a, type, t)
      OBVIOUS
    <3> DEFINE y == [session[z] EXCEPT !.trans = trans]
    <3>2. session' = [session EXCEPT ![z] = y]
      BY <2>5, <3>1 DEF ClaimTransition
    <3>3. Taking(a, session[z], y)
      <4>1. y.status = session[z].status /\ y.isTest = session[z].isTest /\ y.effect = session[z].effect /\ y.trans = trans
        BY <1>0 DEF SessionDocs
      <4> HIDE DEF y
      <4>. QED
        BY <1>0, <1>1, <2>5, <3>1, <4>1 DEF ClaimTransition
    <3> HIDE DEF y
    <3>. QED
      BY <1>0, <3>2, <3>3, AlikeSame DEF SessionStep
  <2>. QED
    BY <2>3, <2>4, <2>5
<1>3. ASSUME NEW z \in Sessions, CloseBegin(a, z, t) PROVE SessionStep(a, s)
  <2>1. PICK trans : trans = ClaimedBy(a, "close", t)
    OBVIOUS
  <2> DEFINE y == [session[z] EXCEPT !.pay = NoRequest, !.payFresh = FALSE, !.trans = trans]
  <2>2. session' = [session EXCEPT ![z] = y]
    BY <1>0, <1>3, <2>1 DEF CloseBegin, Unpaying
  <2>3. Taking(a, session[z], y)
    <3>1. y.status = session[z].status /\ y.isTest = session[z].isTest /\ y.effect = session[z].effect /\ y.trans = trans
      BY <1>0 DEF SessionDocs
    <3> HIDE DEF y
    <3>. QED
      BY <1>0, <1>1, <1>3, <2>1, <3>1 DEF CloseBegin
  <2> HIDE DEF y
  <2>. QED
    BY <1>0, <2>2, <2>3, AlikeSame DEF SessionStep
<1>. QED
  BY <1>2, <1>3

(* The end of a transition, by the request that holds it.                  *)
LEMMA StepEnds ==
    ASSUME Base, Held, NEW s \in Sessions, NEW a \in Requests,
           Unclaim(a) \/ CloseEnd(a) \/ TestEnd(a) \/ DeleteEnd(a) \/ DeleteMark(a)
    PROVE  SessionStep(a, s)
<1>0. /\ session \in [Sessions -> SessionDocs] /\ act[a].ses \in Sessions /\ order' = order
      /\ Unclaim(a) \/ CloseEnd(a) => act[a].op = "close"
      /\ TestEnd(a) => act[a].op \in {"test", "normal"}
  BY Found DEF Unclaim, CloseEnd, TestEnd, DeleteEnd, DeleteMark, ClosePcs, TestPcs, DeletePcs, SessionOps
<1>1. PICK z \in Sessions : z = act[a].ses
  BY <1>0
<1>2. CASE session' = session
  BY <1>2, AlikeSame
<1>3. ASSUME NEW y, session' = [session EXCEPT ![z] = y], Freed(a, z), Freeing(a, session[z], y) PROVE SessionStep(a, s)
  BY <1>0, <1>3, AlikeSame DEF SessionStep
<1>4. CASE session' # session /\ Unclaim(a)
  <2> DEFINE y == [session[z] EXCEPT !.trans = NoTransition]
  <2>1. session[z].trans.by = a /\ session' = [session EXCEPT ![z] = y]
    BY <1>1, <1>4 DEF Unclaim, HoldsTransition
  <2>2. session[z].status = "OPEN"
    BY <1>0, <1>1, <1>4 DEF Held, Holds, PastClaim, TransHeld
  <2>3. y.status = "OPEN" /\ y.trans = NoTransition
    BY <1>0, <2>2 DEF SessionDocs
  <2> HIDE DEF y
  <2>. QED
    BY <1>1, <1>4, <1>3, <2>1, <2>3 DEF Freeing, Freed
<1>5. CASE session' # session /\ CloseEnd(a)
  <2>1. PICK effect : effect = IF session[z].isTest THEN "REVERTED" ELSE "APPLIED"
    OBVIOUS
  <2> DEFINE y == [session[z] EXCEPT !.status = "CLOSED", !.trans = NoTransition, !.effect = effect]
  <2>2. session[z].trans.by = a /\ session' = [session EXCEPT ![z] = y]
    BY <1>1, <1>5, <2>1 DEF CloseEnd, HoldsTransition
  <2>3. y.trans = NoTransition /\ (y.effect = "REVERTED" => y.isTest)
    BY <1>0, <2>1 DEF SessionDocs
  <2> HIDE DEF y
  <2>. QED
    BY <1>1, <1>5, <1>3, <2>2, <2>3 DEF Freeing, Freed
<1>6. CASE session' # session /\ TestEnd(a)
  <2>1. PICK effect, kind : effect = Target(a) /\ kind = (act[a].op = "test")
    OBVIOUS
  <2> DEFINE y == [session[z] EXCEPT !.isTest = kind, !.effect = effect, !.trans = NoTransition]
  <2>2. session[z].trans.by = a /\ session' = [session EXCEPT ![z] = y]
    BY <1>1, <1>6, <2>1 DEF TestEnd, HoldsTransition
  <2>3. y.trans = NoTransition /\ (y.effect = "REVERTED" => y.isTest)
    BY <1>0, <1>6, <2>1 DEF SessionDocs, Target
  <2> HIDE DEF y
  <2>. QED
    BY <1>1, <1>6, <1>3, <2>2, <2>3 DEF Freeing, Freed
<1>7. CASE session' # session /\ DeleteEnd(a)
  <2> DEFINE y == [NewSession EXCEPT !.status = "DELETED"]
  <2>1. session[z].trans.by = a /\ session' = [session EXCEPT ![z] = y]
    BY <1>1, <1>7 DEF DeleteEnd, HoldsTransition
  <2>2. y.trans = NoTransition /\ y.status = "DELETED"
    BY DEF NewSession
  <2> HIDE DEF y
  <2>. QED
    BY <1>1, <1>7, <1>3, <2>1, <2>2 DEF Freeing, Freed
<1>8. CASE session' # session /\ DeleteMark(a)
  <2>1. session' = [session EXCEPT ![z].effect = "REVERTED"]
    BY <1>1, <1>8 DEF DeleteMark
  <2>2. CASE s = z
    BY <1>0, <1>1, <1>8, <2>1, <2>2 DEF SessionStep, Marking
  <2>3. CASE s # z
    BY <1>0, <2>1, <2>3, AlikeSame
  <2>. QED
    BY <2>2, <2>3
<1>. QED
  BY <1>2, <1>4, <1>5, <1>6, <1>7, <1>8

LEMMA StepsActs ==
    ASSUME Base, Held, \A z \in Sessions : Typed(z), NEW a \in Requests, Acts(a), NEW s \in Sessions
    PROVE  SessionStep(a, s)
<1>1. ASSUME BeginPayment(a) \/ BeginManagement(a) PROVE SessionStep(a, s)
  <2>1. CASE \E z \in Sessions, t \in Tokens : CloseBegin(a, z, t)
    BY <2>1, StepClaim
  <2>2. CASE ~\E z \in Sessions, t \in Tokens : CloseBegin(a, z, t)
    BY <1>1, <2>2, AlikeSame DEF BeginPayment, BeginManagement, SaleBegin, CompleteBegin, WebhookBegin, TestBegin,
       DeleteBegin, StornoBegin, docs
  <2>. QED
    BY <2>1, <2>2
<1>2. ASSUME PayStep(a) PROVE SessionStep(a, s)
  BY <1>2, StepPay, AlikeSame DEF PayStep, ApplyItem, Rollback, WriteSale, WriteCard, WriteComplete, WriteWebhook,
     WriteFails, Trigger, Link, Cancel, HookRelease, docs
<1>3. ASSUME StockStep(a) PROVE SessionStep(a, s)
  BY <1>3, StepTransition, AlikeSame DEF StockStep, StockList, StockClaim, StockMove, StockDone, docs
<1>4. ASSUME CloseStep(a) \/ TestStep(a) \/ DeleteStep(a) PROVE SessionStep(a, s)
  BY <1>4, StepClaim, StepEnds, StepTransition, AlikeSame
     DEF CloseStep, ClosePending, ClosePaid, CloseSum, TestStep, TestPaid, TestPending, DeleteStep, DeletePaid, DeleteOrders, docs
<1>5. ASSUME StornoStep(a) \/ Crash(a) PROVE SessionStep(a, s)
  BY <1>5, AlikeSame DEF StornoStep, StornoClaim, Refund, StornoEnd, StornoThrows, Crash, docs
<1>. QED
  BY <1>1, <1>2, <1>3, <1>4, <1>5 DEF Acts, Step

LEMMA StepsPasses ==
    ASSUME Base, \A z \in Sessions : Typed(z), Passes, NEW s \in Sessions
    PROVE  SessionStep(NoRequest, s)
<1>1. ASSUME NEW o \in Orders, PublicOrder(o) \/ ExpireHook(o) PROVE SessionStep(NoRequest, s)
  BY <1>1, AlikeSame DEF PublicOrder, ExpireHook
<1>2. CASE UNCHANGED vars
  BY <1>2, AlikeSame DEF vars
<1>3. ASSUME NEW z \in Sessions, OpenSession(z) \/ ExpirePay(z) PROVE SessionStep(NoRequest, s)
  BY <1>3, StepPay
<1>4. ASSUME NEW z \in Sessions, ExpireTransition(z) PROVE SessionStep(NoRequest, s)
  BY <1>4, StepTransition
<1>. QED
  BY <1>1, <1>2, <1>3, <1>4 DEF Passes

-----------------------------------------------------------------------------
(* What a step does to the orders.  Most leave their stock alone; the      *)
(* others are a sale's or a webhook's write, a claim, what ends one, and   *)
(* the deletion of a session.                                              *)
StockSame(d, e) ==
    /\ e.status = "PAID" <=> d.status = "PAID"
    /\ Due(e) => Due(d)
    /\ e.status = "DELETED" <=> d.status = "DELETED"
    /\ e.claim \in {d.claim, NoToken} /\ e.target = d.target
    /\ d.status = "PAID" => e.adj = d.adj /\ e.effect = d.effect /\ e.claim = d.claim /\ e.ses = d.ses
Still == \A o \in Orders : StockSame(order[o], order'[o])

Sells(a)  == WriteSale(a) \/ (WriteWebhook(a) /\ StillMine(a, act[a].ord))
Takes(a)  == \/ StockClaim(a) /\ act[a].left # {} /\ ClaimOk(a, Min(act[a].left))
             \/ StornoClaim(a) /\ act'[a].pc \in {"refund", "move"}
Mine(a)   == LET o == Min(act[a].left) IN order[o].effect # Target(a) /\ ClaimOwn(o, act[a].tok, Target(a))
Clears(a) == \/ StockDone(a) /\ Mine(a) /\ order[Min(act[a].left)].status = "PAID"
             \/ StornoEnd(a) /\ order[act[a].ord].status = "PAID"

LEMMA StillSame == ASSUME order' = order PROVE Still
BY DEF Still, StockSame

LEMMA StillSet ==
    ASSUME Base, NEW o \in Orders, NEW d, order' = [order EXCEPT ![o] = d], StockSame(order[o], d)
    PROVE  Still
BY TypeParts DEF Base, Still, StockSame

LEMMA StillPasses == ASSUME Base, Passes PROVE Still
<1>1. ASSUME NEW o \in Orders, PublicOrder(o) PROVE Still
  <2> DEFINE d == [order[o] EXCEPT !.status = "PENDING"]
  <2>1. order[o] \in OrderDocs /\ order[o].status = "NEW"
    BY <1>1, TypeParts DEF Base, PublicOrder, Unused
  <2>2. StockSame(order[o], d)
    BY <2>1 DEF StockSame, OrderDocs, Due
  <2>3. order' = [order EXCEPT ![o] = d]
    BY <1>1 DEF PublicOrder
  <2> HIDE DEF d
  <2>. QED
    BY <2>2, <2>3, StillSet
<1>2. ASSUME NEW o \in Orders, ExpireHook(o) PROVE Still
  <2> DEFINE d == [order[o] EXCEPT !.hookFresh = FALSE]
  <2>1. StockSame(order[o], d)
    BY TypeParts DEF Base, StockSame, OrderDocs, Due
  <2>2. order' = [order EXCEPT ![o] = d]
    BY <1>2 DEF ExpireHook
  <2> HIDE DEF d
  <2>. QED
    BY <2>1, <2>2, StillSet
<1>3. ASSUME NEW s \in Sessions, OpenSession(s) \/ ExpirePay(s) \/ ExpireTransition(s) PROVE Still
  BY <1>3, StillSame DEF OpenSession, ExpirePay, ExpireTransition
<1>4. CASE UNCHANGED vars
  BY <1>4, StillSame DEF vars
<1>. QED
  BY <1>1, <1>2, <1>3, <1>4 DEF Passes

LEMMA StillBegin ==
    ASSUME Base, NEW a \in Requests, BeginPayment(a) \/ BeginManagement(a)
    PROVE  Still
<1>1. ASSUME NEW o \in Orders, WebhookBegin(a, o) PROVE Still
  <2> DEFINE d == [order[o] EXCEPT !.hook = a, !.hookFresh = TRUE]
  <2>1. StockSame(order[o], d)
    BY TypeParts DEF Base, StockSame, OrderDocs, Due
  <2>2. order' = [order EXCEPT ![o] = d]
    BY <1>1 DEF WebhookBegin
  <2> HIDE DEF d
  <2>. QED
    BY <2>1, <2>2, StillSet
<1>2. ASSUME NEW o \in Orders, StornoBegin(a, o) PROVE Still
  <2> DEFINE d == [order[o] EXCEPT !.storno = "IN_PROGRESS"]
  <2>1. StockSame(order[o], d)
    BY TypeParts DEF Base, StockSame, OrderDocs, Due
  <2>2. order' = [order EXCEPT ![o] = d]
    BY <1>2 DEF StornoBegin
  <2> HIDE DEF d
  <2>. QED
    BY <2>1, <2>2, StillSet
<1>3. CASE order' = order
  BY <1>3, StillSame
<1>. QED
  BY <1>1, <1>2, <1>3 DEF BeginPayment, BeginManagement, SaleBegin, CompleteBegin, CloseBegin, TestBegin, DeleteBegin, docs

(* A storno that gets the claim has all that the order took before it.     *)
StornoHas(a, o) == LET r == act'[a] IN
    /\ r.pc \in {"refund", "move"} /\ r.op = "storno" /\ r.ord = o /\ r.tok = StornoToken /\ r.left = {o}
    /\ r.plan[o] = Effective(o) /\ r.rest = Effective(o)

LEMMA StornoTakes ==
    ASSUME Base, NEW a \in Requests, StornoClaim(a), NEW o, o = act[a].ord
    PROVE  /\ o \in Orders /\ act[a].op = "storno" /\ act[a].tok = StornoToken
           /\ \/ /\ act'[a] = Idle
                 /\ order' = [order EXCEPT ![o].storno =
                                 IF order[o].storno = "IN_PROGRESS" THEN "FAILED" ELSE order[o].storno]
              \/ /\ order[o].status = "PAID" /\ ClaimFree(o, StornoToken, "REVERTED") /\ StornoHas(a, o)
                 /\ order' = [order EXCEPT ![o].claim = StornoToken, ![o].target = "REVERTED"]
<1>0. /\ act \in [Requests -> RequestStates] /\ act[a] \in RequestStates /\ act[a].op = "storno"
      /\ act[a].tok = StornoToken /\ o \in Orders /\ act[a].plan \in [Orders -> SUBSET Items]
  BY Found DEF StornoClaim, StornoPcs, RequestStates
<1>1. ASSUME act' = [act EXCEPT ![a].pc = IF order[o].card /\ ~order[o].refunded THEN "refund" ELSE "move",
                        ![a].flag = order[o].refunded, ![a].left = {o},
                        ![a].plan[o] = Effective(o), ![a].rest = Effective(o)]
      PROVE  StornoHas(a, o)
  <2>1. PICK pc \in {"refund", "move"} : pc = IF order[o].card /\ ~order[o].refunded THEN "refund" ELSE "move"
    OBVIOUS
  <2>2. PICK S, flag : S = Effective(o) /\ flag = order[o].refunded
    OBVIOUS
  <2> DEFINE plan == [act[a].plan EXCEPT ![o] = S]
             r == [act[a] EXCEPT !.pc = pc, !.flag = flag, !.left = {o}, !.plan = plan, !.rest = S]
  <2>3. act' = [act EXCEPT ![a].pc = pc, ![a].flag = flag, ![a].left = {o}, ![a].plan[o] = S, ![a].rest = S]
    BY <1>1, <2>1, <2>2
  <2>4. act' = [act EXCEPT ![a] = r]
    BY <2>3, ZenonT(40)
  <2>5. plan[o] = S
    BY <1>0
  <2> HIDE DEF plan
  <2>6. /\ r.pc = pc /\ r.op = "storno" /\ r.ord = o /\ r.tok = StornoToken /\ r.left = {o}
        /\ r.plan = plan /\ r.rest = S
    BY <1>0 DEF RequestStates
  <2> HIDE DEF r
  <2>. QED
    BY <1>0, <2>1, <2>2, <2>4, <2>5, <2>6 DEF StornoHas
<1>2. \/ /\ order[o].status = "PAID" /\ ClaimFree(o, StornoToken, "REVERTED") /\ StornoHas(a, o)
         /\ order' = [order EXCEPT ![o].claim = StornoToken, ![o].target = "REVERTED"]
      \/ /\ order' = [order EXCEPT ![o].storno =
                         IF order[o].storno = "IN_PROGRESS" THEN "FAILED" ELSE order[o].storno]
         /\ End(a)
  BY <1>1 DEF StornoClaim
<1>. QED
  BY <1>0, <1>2 DEF End

LEMMA StillStorno ==
    ASSUME Base, NEW a \in Requests, StornoStep(a) \/ (StockFail(a) /\ act[a].op = "storno")
    PROVE  Still \/ Takes(a) \/ Clears(a)
<1>0. PICK o \in Orders : o = act[a].ord
  BY Found DEF StornoStep, StornoClaim, Refund, StornoEnd, StornoThrows, StornoPcs
<1>1. order[o] \in OrderDocs /\ act \in [Requests -> RequestStates]
  BY Found
<1>2. ASSUME NEW st, order' = [order EXCEPT ![o].storno = st] PROVE Still
  <2> DEFINE d == [order[o] EXCEPT !.storno = st]
  <2>1. StockSame(order[o], d)
    BY <1>1 DEF StockSame, OrderDocs, Due
  <2>2. order' = [order EXCEPT ![o] = d]
    BY <1>2
  <2> HIDE DEF d
  <2>. QED
    BY <2>1, <2>2, StillSet
<1>3. CASE StornoClaim(a)
  <2>1. \/ Takes(a)
        \/ order' = [order EXCEPT ![o].storno = IF order[o].storno = "IN_PROGRESS" THEN "FAILED" ELSE order[o].storno]
    BY <1>0, <1>3, StornoTakes DEF StornoHas, Takes
  <2>. QED
    BY <1>2, <2>1
<1>4. CASE Refund(a)
  <2>1. \/ order' = order
        \/ order' = [order EXCEPT ![o].storno = IF order[o].status = "DELETED" THEN order[o].storno ELSE "FAILED"]
    BY <1>0, <1>4 DEF Refund
  <2>. QED
    BY <1>2, <2>1, StillSame
<1>5. CASE StornoEnd(a)
  <2> DEFINE e == [order[o] EXCEPT !.status = "CANCELLED", !.storno = "COMPLETED", !.refunded = act[a].flag,
                                   !.effect = "REVERTED", !.claim = NoToken]
             d == IF order[o].status = "DELETED" THEN order[o] ELSE e
  <2>1. order[o].status # "PAID" => StockSame(order[o], d)
    BY <1>1 DEF StockSame, OrderDocs, Due
  <2>2. order' = [order EXCEPT ![o] = d]
    BY <1>0, <1>5 DEF StornoEnd
  <2> HIDE DEF d
  <2>. QED
    BY <1>0, <1>5, <2>1, <2>2, StillSet DEF Clears
<1>6. CASE StornoThrows(a)
  <2>1. order' = [order EXCEPT ![o].storno = IF order[o].storno = "IN_PROGRESS" THEN "FAILED" ELSE order[o].storno]
    BY <1>0, <1>6 DEF StornoThrows
  <2>. QED
    BY <1>2, <2>1
<1>7. CASE StockFail(a) /\ act[a].op = "storno"
  <2> DEFINE d == [order[o] EXCEPT !.storno = "FAILED", !.refunded = act[a].flag]
  <2>1. StockSame(order[o], d)
    BY <1>1 DEF StockSame, OrderDocs, Due
  <2>2. order' = [order EXCEPT ![o] = d]
    BY <1>0, <1>7 DEF StockFail
  <2> HIDE DEF d
  <2>. QED
    BY <2>1, <2>2, StillSet
<1>. QED
  BY <1>3, <1>4, <1>5, <1>6, <1>7 DEF StornoStep

LEMMA StillPay ==
    ASSUME Base, NEW a \in Requests, PayStep(a), act[a].op # "complete"
    PROVE  Still \/ Sells(a)
<1>0. order \in [Orders -> OrderDocs]
  BY Found
<1>1. CASE Cancel(a) \/ HookRelease(a) \/ Link(a) \/ WriteCard(a)
  <2>1. PICK o \in Orders : o = act[a].ord
    BY <1>1, Found DEF Cancel, HookRelease, Link, WriteCard, PayPcs
  <2>2. order[o] \in OrderDocs /\ Fits(act[a], order[o])
    BY <2>1, Found
  <2>3. CASE Cancel(a)
    <3> DEFINE d == [order[o] EXCEPT !.status = IF order[o].status = "PENDING" THEN "CANCELLED"
                                                ELSE order[o].status]
    <3>1. StockSame(order[o], d)
      BY <2>2 DEF StockSame, OrderDocs, Due
    <3>2. order' = [order EXCEPT ![o] = d]
      BY <2>1, <2>3 DEF Cancel
    <3> HIDE DEF d
    <3>. QED
      BY <3>1, <3>2, StillSet
  <2>4. CASE HookRelease(a)
    <3> DEFINE d == IF order[o].hook = a THEN [order[o] EXCEPT !.hook = NoRequest, !.hookFresh = FALSE] ELSE order[o]
    <3>1. StockSame(order[o], d)
      BY <2>2 DEF StockSame, OrderDocs, Due
    <3>2. order' = [order EXCEPT ![o] = d]
      BY <2>1, <2>4 DEF HookRelease
    <3> HIDE DEF d
    <3>. QED
      BY <3>1, <3>2, StillSet
  <2>5. CASE Link(a) /\ order' # order
    <3> DEFINE d == [order[o] EXCEPT !.checkout = TRUE]
    <3>1. StockSame(order[o], d)
      BY <2>2 DEF StockSame, OrderDocs, Due
    <3>2. order' = [order EXCEPT ![o] = d]
      BY <2>1, <2>5 DEF Link
    <3> HIDE DEF d
    <3>. QED
      BY <3>1, <3>2, StillSet
  <2>6. CASE WriteCard(a)
    <3> DEFINE d == [order[o] EXCEPT !.status = "PENDING", !.ses = act[a].ses, !.card = TRUE]
    <3>1. order[o].status = "NEW"
      BY <2>2, <2>6 DEF WriteCard, Fits, PreWrite
    <3>2. StockSame(order[o], d)
      BY <2>2, <3>1 DEF StockSame, OrderDocs, Due
    <3>3. order' = [order EXCEPT ![o] = d]
      BY <2>1, <2>6 DEF WriteCard
    <3> HIDE DEF d
    <3>. QED
      BY <3>2, <3>3, StillSet
  <2>. QED
    BY <1>1, <2>3, <2>4, <2>5, <2>6, StillSame
<1>2. CASE order' = order
  BY <1>2, StillSame
<1>. QED
  BY <1>1, <1>2 DEF PayStep, PayClaim, ApplyItem, Rollback, Refresh, WriteComplete, WriteWebhook, WriteFails,
     Trigger, PayRelease, Sells, docs

LEMMA StillMoved == ASSUME Base, NEW a \in Requests, StockDone(a), ~Clears(a) PROVE Still
<1>1. PICK o : o = Min(act[a].left)
  OBVIOUS
<1>2. o \in Orders /\ order[o] \in OrderDocs
  <2>1. order \in [Orders -> OrderDocs] /\ act[a].left \subseteq Orders /\ act[a].left # {}
    BY Found DEF StockDone, Fits, RequestStates
  <2>. QED
    BY <1>1, <2>1, FirstOf
<1>3. CASE order' = order
  BY <1>3, StillSame
<1>4. CASE order' # order
  <2>1. PICK effect, claim : effect = Target(a) /\ claim = IF act[a].op = "storno" THEN order[o].claim ELSE NoToken
    OBVIOUS
  <2> DEFINE d == [order[o] EXCEPT !.effect = effect, !.claim = claim]
  <2>2. order' = [order EXCEPT ![o] = d] /\ order[o].status # "PAID"
    BY <1>1, <1>4, <2>1 DEF StockDone, Clears, Mine
  <2>3. StockSame(order[o], d)
    BY <1>2, <2>1, <2>2 DEF StockSame, OrderDocs, Due
  <2> HIDE DEF d
  <2>. QED
    BY <1>2, <2>2, <2>3, StillSet
<1>. QED
  BY <1>3, <1>4

LEMMA StillActs ==
    ASSUME Base, NEW a \in Requests, Acts(a), act[a].op # "complete"
    PROVE  Still \/ Sells(a) \/ Takes(a) \/ Clears(a) \/ DeleteOrders(a)
<1>1. CASE StockStep(a)
  BY <1>1, StillStorno, StillMoved, StillSame DEF StockStep, StockList, StockClaim, StockMove, StockFail, Takes, docs
<1>2. CASE CloseStep(a) \/ TestStep(a) \/ DeleteStep(a)
  BY <1>2, StillSame DEF CloseStep, ClosePending, ClosePaid, Unclaim, CloseSum, CloseEnd,
     TestStep, TestPaid, TestPending, TestSet, TestEnd, TestClaim,
     DeleteStep, DeletePaid, DeleteMark, DeleteEnd, DeleteClaim, docs
<1>3. CASE BeginPayment(a) \/ BeginManagement(a) \/ StornoStep(a) \/ PayStep(a) \/ Crash(a)
  BY <1>3, StillBegin, StillStorno, StillPay, StillSame DEF Crash, docs
<1>. QED
  BY <1>1, <1>2, <1>3 DEF Acts, Step

-----------------------------------------------------------------------------
(* The order a request works on, and what it makes of it.                  *)
Subject(a) == IF act[a].op = "storno" THEN act[a].ord ELSE Min(act[a].left)

Sold(r, d, e) == /\ Due(d) /\ e.status = "PAID" /\ e.adj = r.plan[r.ord] /\ e.effect = "APPLIED"
                 /\ e.claim = d.claim /\ e.target = d.target
Took(r, d, e) == /\ d.status = "PAID" /\ d.claim \in {NoToken, r.tok}
                 /\ d.claim = r.tok => d.target = Aim(r.op)
                 /\ r.op # "storno" => d.effect # Aim(r.op)
                 /\ e.status = "PAID" /\ e.ses = d.ses /\ e.adj = d.adj /\ e.effect = d.effect
                 /\ e.claim = r.tok /\ e.target = Aim(r.op)
Did(r, d, e)  == /\ d.status = "PAID" /\ d.claim = r.tok /\ d.target = Aim(r.op) /\ d.effect # Aim(r.op)
                 /\ e.status = "PAID" /\ e.ses = d.ses /\ e.adj = d.adj /\ e.effect = Aim(r.op)
                 /\ e.claim = (IF r.op = "storno" THEN d.claim ELSE NoToken) /\ e.target = d.target
Ended(d, e)   == d.status = "PAID" /\ e.status = "CANCELLED" /\ e.claim = NoToken /\ e.target = d.target
Gone(e)       == e.status = "DELETED" /\ e.claim = NoToken

LEMMA TargetAim == \A a : Target(a) = Aim(act[a].op)
BY DEF Target, Aim

LEMMA MinOne == ASSUME NEW o \in Orders PROVE Min({o}) = o
BY FirstOf

LEMMA SellEffect ==
    ASSUME Base, NEW a \in Requests, Sells(a), NEW o, o = act[a].ord
    PROVE  /\ o \in Orders /\ Only(o) /\ Sold(act[a], order[o], order'[o]) /\ Writes(a)
           /\ act[a].op \in {"sale", "webhook"} /\ act[a].pc = "write"
           /\ \A b \in Requests \ {a} : act'[b] = act[b]
           /\ act'[a].pc = "payRelease" /\ act'[a].op = act[a].op /\ act'[a].ord = o /\ act'[a].plan = NoPlan
           /\ act'[a].ses = act[a].ses /\ act'[a].flag = act[a].flag
           /\ UNCHANGED <<session, keys, taken>>
<1>0. /\ act[a].pc = "write" /\ act[a].op \in {"sale", "webhook"} /\ Writes(a) /\ Recorded(a)
      /\ UNCHANGED <<session, keys, taken>>
  BY DEF Sells, WriteSale, WriteWebhook, Recorded, Writes
<1>1. /\ o \in Orders /\ order[o] \in OrderDocs /\ Only(o) /\ act[a].plan[o] \in SUBSET Items
      /\ order[o].status \in {"NEW", "PENDING"} /\ order \in [Orders -> OrderDocs]
  <2>1. act[a] \in RequestStates /\ o \in Orders /\ order[o] \in OrderDocs /\ order \in [Orders -> OrderDocs]
    BY <1>0, Found DEF PayPcs
  <2>2. act[a].plan[o] \in SUBSET Items
    BY <2>1 DEF RequestStates
  <2>. QED
    BY <1>0, <2>1, <2>2, WriteEffect
<1>2. PICK p : p = Paid(order[o], act[a].plan[o])
  OBVIOUS
<1>3. /\ p \in OrderDocs /\ p.status = "PAID" /\ p.adj = act[a].plan[o] /\ p.effect = "APPLIED"
      /\ p.claim = order[o].claim
  BY <1>1, <1>2, PaidDoc
<1>4. p.target = order[o].target
  BY <1>1, <1>2 DEF Paid, OrderDocs
<1>5. ASSUME WriteSale(a) PROVE Sold(act[a], order[o], order'[o])
  <2> DEFINE d == [p EXCEPT !.ses = act[a].ses]
  <2>1. order' = [order EXCEPT ![o] = d]
    BY <1>2, <1>5 DEF WriteSale
  <2>2. d.status = "PAID" /\ d.adj = p.adj /\ d.effect = "APPLIED" /\ d.claim = p.claim /\ d.target = p.target
    BY <1>3 DEF OrderDocs
  <2> HIDE DEF d
  <2>3. order'[o] = d
    BY <1>1, <2>1
  <2>. QED
    BY <1>1, <1>3, <1>4, <2>2, <2>3 DEF Sold, Due
<1>6. ASSUME WriteWebhook(a), StillMine(a, o) PROVE Sold(act[a], order[o], order'[o])
  <2> DEFINE d == [p EXCEPT !.hook = NoRequest, !.hookFresh = FALSE]
  <2>1. order' = [order EXCEPT ![o] = d]
    BY <1>2, <1>6 DEF WriteWebhook
  <2>2. d.status = "PAID" /\ d.adj = p.adj /\ d.effect = "APPLIED" /\ d.claim = p.claim /\ d.target = p.target
    BY <1>3 DEF OrderDocs
  <2> HIDE DEF d
  <2>3. order'[o] = d
    BY <1>1, <2>1
  <2>. QED
    BY <1>1, <1>3, <1>4, <2>2, <2>3 DEF Sold, Due
<1>7. Sold(act[a], order[o], order'[o])
  BY <1>5, <1>6 DEF Sells
<1>8. /\ \A b \in Requests \ {a} : act'[b] = act[b]
      /\ act'[a].pc = "payRelease" /\ act'[a].op = act[a].op /\ act'[a].ord = o /\ act'[a].plan = NoPlan
      /\ act'[a].ses = act[a].ses /\ act'[a].flag = act[a].flag
  BY <1>0, Found DEF Recorded, RequestStates
<1>. QED
  BY <1>0, <1>1, <1>7, <1>8

LEMMA TakeEffect ==
    ASSUME Base, NEW a \in Requests, Takes(a), NEW o, o = Subject(a)
    PROVE  /\ o \in Orders /\ Only(o) /\ Took(act[a], order[o], order'[o])
           /\ act[a].op \in SessionOps \cup {"storno"}
           /\ act[a].pc = IF act[a].op = "storno" THEN "stornoClaim" ELSE "claim"
           /\ act[a].op = "storno" => ClaimFree(o, StornoToken, "REVERTED") /\ StornoHas(a, o)
           /\ UNCHANGED <<session, keys, taken>>
<1>1. CASE StockClaim(a) /\ act[a].left # {} /\ ClaimOk(a, Min(act[a].left))
  <2>1. PICK p : p = Min(act[a].left)
    OBVIOUS
  <2>2. /\ act[a].pc = "claim" /\ act[a].op \in SessionOps /\ act[a].tok \in Tokens /\ o = p
        /\ order \in [Orders -> OrderDocs] /\ act[a].left \subseteq Orders
        /\ UNCHANGED <<session, keys, taken>>
    BY <1>1, <2>1, Found DEF StockClaim, StockPcs, Fits, RequestStates, Subject, SessionOps, history
  <2>3. o \in Orders /\ order[o] \in OrderDocs /\ ClaimOk(a, o)
    BY <1>1, <2>1, <2>2, FirstOf
  <2> DEFINE d == [order[o] EXCEPT !.claim = act[a].tok, !.target = Target(a)]
  <2>4. order' = [order EXCEPT ![o] = d]
    BY <1>1, <2>1, <2>2 DEF StockClaim
  <2>5. /\ d.status = order[o].status /\ d.ses = order[o].ses /\ d.adj = order[o].adj
        /\ d.effect = order[o].effect /\ d.claim = act[a].tok /\ d.target = Target(a)
    BY <2>3 DEF OrderDocs
  <2> HIDE DEF d
  <2>6. Took(act[a], order[o], d)
    BY <2>2, <2>3, <2>5, TargetAim, Consts DEF Took, ClaimOk, ClaimFree, ClaimOwn
  <2>7. act[a].op # "storno"
    BY <2>2 DEF SessionOps
  <2>. QED
    BY <2>2, <2>3, <2>4, <2>6, <2>7 DEF Only
<1>2. CASE StornoClaim(a) /\ act'[a].pc \in {"refund", "move"}
  <2>1. o = act[a].ord /\ act[a].pc = "stornoClaim" /\ UNCHANGED <<session, keys, taken>>
    BY <1>2, StornoTakes DEF StornoClaim, Subject, history
  <2>2. /\ o \in Orders /\ act[a].op = "storno" /\ act[a].tok = StornoToken
        /\ order[o].status = "PAID" /\ ClaimFree(o, StornoToken, "REVERTED") /\ StornoHas(a, o)
        /\ order' = [order EXCEPT ![o].claim = StornoToken, ![o].target = "REVERTED"]
    BY <1>2, <2>1, StornoTakes, IdleOK
  <2>3. order \in [Orders -> OrderDocs] /\ order[o] \in OrderDocs
    BY <2>2, Found
  <2> DEFINE d == [order[o] EXCEPT !.claim = StornoToken, !.target = "REVERTED"]
  <2>4. order' = [order EXCEPT ![o] = d]
    BY <2>2
  <2>5. /\ d.status = order[o].status /\ d.ses = order[o].ses /\ d.adj = order[o].adj
        /\ d.effect = order[o].effect /\ d.claim = StornoToken /\ d.target = "REVERTED"
    BY <2>3 DEF OrderDocs
  <2> HIDE DEF d
  <2>6. Took(act[a], order[o], d)
    BY <2>2, <2>5, Consts DEF Took, ClaimFree, ClaimOwn, Aim
  <2>. QED
    BY <2>1, <2>2, <2>3, <2>4, <2>6 DEF Only
<1>. QED
  BY <1>1, <1>2 DEF Takes

LEMMA ClearEffect ==
    ASSUME Base, NEW a \in Requests, Clears(a), NEW o, o = Subject(a)
    PROVE  /\ o \in Orders /\ Only(o) /\ UNCHANGED <<session, keys, taken>>
           /\ \/ /\ StockDone(a) /\ act[a].pc = "move" /\ act[a].rest = {} /\ Did(act[a], order[o], order'[o])
                 /\ act[a].op \in SessionOps \cup {"storno"}
              \/ /\ act[a].op = "storno" /\ act[a].pc = "stornoEnd" /\ Ended(order[o], order'[o])
                 /\ act'[a] = Idle
<1>1. CASE StockDone(a) /\ Mine(a) /\ order[Min(act[a].left)].status = "PAID"
  <2>1. PICK p : p = Min(act[a].left)
    OBVIOUS
  <2>2. /\ act[a].pc = "move" /\ act[a].rest = {} /\ act[a].op \in SessionOps \cup {"storno"}
        /\ order \in [Orders -> OrderDocs] /\ act[a].left \subseteq Orders /\ act[a].left # {}
        /\ act[a].op = "storno" => act[a].left = {act[a].ord}
        /\ UNCHANGED <<session, keys, taken>>
    BY <1>1, Found DEF StockDone, StockPcs, Fits, RequestStates, history
  <2>3. p \in Orders /\ order[p] \in OrderDocs /\ o = p
    BY <2>1, <2>2, FirstOf DEF Subject
  <2>4. PICK claim : claim = (IF act[a].op = "storno" THEN order[o].claim ELSE NoToken)
    OBVIOUS
  <2> DEFINE d == [order[o] EXCEPT !.effect = Target(a), !.claim = claim]
  <2>5. order' = [order EXCEPT ![o] = d]
    BY <1>1, <2>1, <2>3, <2>4 DEF StockDone, Mine
  <2>6. /\ d.status = order[o].status /\ d.ses = order[o].ses /\ d.adj = order[o].adj
        /\ d.effect = Target(a) /\ d.claim = claim /\ d.target = order[o].target
    BY <2>3 DEF OrderDocs
  <2> HIDE DEF d
  <2>7. Did(act[a], order[o], d)
    BY <1>1, <2>1, <2>3, <2>4, <2>6, TargetAim DEF Did, Mine, ClaimOwn
  <2>. QED
    BY <1>1, <2>2, <2>3, <2>5, <2>7 DEF Only
<1>2. CASE StornoEnd(a) /\ order[act[a].ord].status = "PAID"
  <2>1. /\ act[a].op = "storno" /\ act[a].pc = "stornoEnd" /\ o = act[a].ord /\ o \in Orders
        /\ order \in [Orders -> OrderDocs] /\ order[o] \in OrderDocs /\ act \in [Requests -> RequestStates]
        /\ UNCHANGED <<session, keys, taken>>
    BY <1>2, Found DEF StornoEnd, StornoPcs, Subject, history
  <2> DEFINE d == [order[o] EXCEPT !.status = "CANCELLED", !.storno = "COMPLETED", !.refunded = act[a].flag,
                                   !.effect = "REVERTED", !.claim = NoToken]
  <2>2. order' = [order EXCEPT ![o] = IF order[o].status = "DELETED" THEN order[o] ELSE d]
    BY <1>2, <2>1 DEF StornoEnd
  <2>3. Ended(order[o], d)
    BY <1>2, <2>1 DEF Ended, OrderDocs
  <2> HIDE DEF d
  <2>4. order'[o] = d /\ Only(o)
    BY <1>2, <2>1, <2>2 DEF Only
  <2>. QED
    BY <1>2, <2>1, <2>3, <2>4 DEF StornoEnd, End
<1>. QED
  BY <1>1, <1>2 DEF Clears

LEMMA GoneEffect ==
    ASSUME Base, NEW a \in Requests, DeleteOrders(a), NEW o \in Orders
    PROVE  /\ IF order[o].ses = act[a].ses THEN Gone(order'[o]) ELSE order'[o] = order[o]
           /\ UNCHANGED <<session, keys, taken>>
<1> DEFINE d == [NewOrder EXCEPT !.status = "DELETED"]
<1>1. Gone(d)
  BY DEF NewOrder, Gone
<1>2. order' = [p \in Orders |-> IF order[p].ses = act[a].ses THEN d ELSE order[p]]
  BY DEF DeleteOrders
<1> HIDE DEF d
<1>. QED
  BY <1>1, <1>2 DEF DeleteOrders, history

-----------------------------------------------------------------------------
(* A delivery that has not written keeps its claim on the order, and no    *)
(* other request pays the order meanwhile.                                 *)
Unwritten(d)   == d.status \in {"PENDING", "CANCELLED", "DELETED"}
Hooked(b, d)   == Unwritten(d) /\ (d.status # "DELETED" => d.hook = b /\ d.hookFresh)
HookSame(d, e) == \/ e.status = "DELETED"
                  \/ /\ d.status # "DELETED" /\ e.status \in {d.status, "CANCELLED"}
                     /\ e.hook = d.hook /\ e.hookFresh = d.hookFresh /\ e.ses = d.ses

LEMMA HookRest == ASSUME NEW d, NEW e, e = d PROVE HookSame(d, e)
BY DEF HookSame

LEMMA HookSet ==
    ASSUME Base, NEW p \in Orders, NEW d, order' = [order EXCEPT ![p] = d], NEW o \in Orders,
           p = o => HookSame(order[o], d)
    PROVE  HookSame(order[o], order'[o])
BY TypeParts, HookRest DEF Base

LEMMA HookBegin ==
    ASSUME Base, NEW a \in Requests, BeginPayment(a) \/ BeginManagement(a), NEW o \in Orders, NEW b \in Requests,
           Hooked(b, order[o])
    PROVE  HookSame(order[o], order'[o])
<1>1. ASSUME NEW p \in Orders, WebhookBegin(a, p) PROVE HookSame(order[o], order'[o])
  <2> DEFINE d == [order[p] EXCEPT !.hook = a, !.hookFresh = TRUE]
  <2>1. p # o
    BY <1>1, RequestsAssumption DEF WebhookBegin, Hooked
  <2>2. order' = [order EXCEPT ![p] = d]
    BY <1>1 DEF WebhookBegin
  <2> HIDE DEF d
  <2>. QED
    BY <2>1, <2>2, HookSet
<1>2. ASSUME NEW p \in Orders, StornoBegin(a, p) PROVE HookSame(order[o], order'[o])
  <2> DEFINE d == [order[p] EXCEPT !.storno = "IN_PROGRESS"]
  <2>1. p # o
    BY <1>2 DEF StornoBegin, Lockable, Hooked, Unwritten
  <2>2. order' = [order EXCEPT ![p] = d]
    BY <1>2 DEF StornoBegin
  <2> HIDE DEF d
  <2>. QED
    BY <2>1, <2>2, HookSet
<1>3. CASE order' = order
  BY <1>3, HookRest
<1>. QED
  BY <1>1, <1>2, <1>3 DEF BeginPayment, BeginManagement, SaleBegin, CompleteBegin, CloseBegin, TestBegin, DeleteBegin, docs

LEMMA HookStorno ==
    ASSUME Base, NEW a \in Requests, StornoStep(a) \/ (StockFail(a) /\ act[a].op = "storno"), NEW o \in Orders
    PROVE  HookSame(order[o], order'[o])
<1>0. PICK p \in Orders : p = act[a].ord
  BY Found DEF StornoStep, StornoClaim, Refund, StornoEnd, StornoThrows, StornoPcs
<1>1. order[p] \in OrderDocs
  BY Found
<1>2. ASSUME NEW st, order' = [order EXCEPT ![p].storno = st] PROVE HookSame(order[o], order'[o])
  <2> DEFINE d == [order[p] EXCEPT !.storno = st]
  <2>1. HookSame(order[p], d)
    BY <1>1 DEF HookSame, OrderDocs
  <2>2. order' = [order EXCEPT ![p] = d]
    BY <1>2
  <2> HIDE DEF d
  <2>. QED
    BY <2>1, <2>2, HookSet
<1>3. CASE StornoClaim(a)
  <2>0. \/ order' = [order EXCEPT ![p].claim = StornoToken, ![p].target = "REVERTED"]
        \/ order' = [order EXCEPT ![p].storno = IF order[p].storno = "IN_PROGRESS" THEN "FAILED" ELSE order[p].storno]
    BY <1>0, <1>3, StornoTakes
  <2> DEFINE d == [order[p] EXCEPT !.claim = StornoToken, !.target = "REVERTED"]
  <2>1. HookSame(order[p], d)
    BY <1>1 DEF HookSame, OrderDocs
  <2>2. \/ order' = [order EXCEPT ![p] = d]
        \/ order' = [order EXCEPT ![p].storno = IF order[p].storno = "IN_PROGRESS" THEN "FAILED" ELSE order[p].storno]
    BY <2>0
  <2> HIDE DEF d
  <2>. QED
    BY <1>2, <2>1, <2>2, HookSet
<1>4. CASE Refund(a)
  <2>1. \/ order' = order
        \/ order' = [order EXCEPT ![p].storno = IF order[p].status = "DELETED" THEN order[p].storno ELSE "FAILED"]
    BY <1>0, <1>4 DEF Refund
  <2>. QED
    BY <1>2, <2>1, HookRest
<1>5. CASE StornoEnd(a)
  <2> DEFINE e == [order[p] EXCEPT !.status = "CANCELLED", !.storno = "COMPLETED", !.refunded = act[a].flag,
                                   !.effect = "REVERTED", !.claim = NoToken]
             d == IF order[p].status = "DELETED" THEN order[p] ELSE e
  <2>1. HookSame(order[p], d)
    BY <1>1 DEF HookSame, OrderDocs
  <2>2. order' = [order EXCEPT ![p] = d]
    BY <1>0, <1>5 DEF StornoEnd
  <2> HIDE DEF d
  <2>. QED
    BY <2>1, <2>2, HookSet
<1>6. CASE StornoThrows(a)
  <2>1. order' = [order EXCEPT ![p].storno = IF order[p].storno = "IN_PROGRESS" THEN "FAILED" ELSE order[p].storno]
    BY <1>0, <1>6 DEF StornoThrows
  <2>. QED
    BY <1>2, <2>1
<1>7. CASE StockFail(a) /\ act[a].op = "storno"
  <2> DEFINE d == [order[p] EXCEPT !.storno = "FAILED", !.refunded = act[a].flag]
  <2>1. HookSame(order[p], d)
    BY <1>1 DEF HookSame, OrderDocs
  <2>2. order' = [order EXCEPT ![p] = d]
    BY <1>0, <1>7 DEF StockFail
  <2> HIDE DEF d
  <2>. QED
    BY <2>1, <2>2, HookSet
<1>. QED
  BY <1>3, <1>4, <1>5, <1>6, <1>7 DEF StornoStep

LEMMA HookStock ==
    ASSUME Base, NEW a \in Requests, StockClaim(a) \/ StockDone(a), NEW o \in Orders
    PROVE  HookSame(order[o], order'[o])
<1>1. PICK p : p = Min(act[a].left)
  OBVIOUS
<1>2. act[a].left # {} => p \in Orders /\ order[p] \in OrderDocs
  <2>1. order \in [Orders -> OrderDocs] /\ act[a].left \subseteq Orders
    BY Found DEF RequestStates
  <2>. QED
    BY <1>1, <2>1, FirstOf
<1>3. CASE order' = order
  BY <1>3, HookRest
<1>4. CASE StockClaim(a) /\ order' # order
  <2> DEFINE d == [order[p] EXCEPT !.claim = act[a].tok, !.target = Target(a)]
  <2>1. act[a].left # {} /\ order' = [order EXCEPT ![p] = d]
    BY <1>1, <1>4 DEF StockClaim
  <2>2. HookSame(order[p], d)
    BY <1>2, <2>1 DEF HookSame, OrderDocs
  <2> HIDE DEF d
  <2>. QED
    BY <1>2, <2>1, <2>2, HookSet
<1>5. CASE StockDone(a) /\ order' # order
  <2>1. PICK claim : claim = IF act[a].op = "storno" THEN order[p].claim ELSE NoToken
    OBVIOUS
  <2> DEFINE d == [order[p] EXCEPT !.effect = Target(a), !.claim = claim]
  <2>2. act[a].left # {} /\ order' = [order EXCEPT ![p] = d]
    BY <1>1, <1>5, <2>1, Found DEF StockDone, Fits
  <2>3. HookSame(order[p], d)
    BY <1>2, <2>2 DEF HookSame, OrderDocs
  <2> HIDE DEF d
  <2>. QED
    BY <1>2, <2>2, <2>3, HookSet
<1>. QED
  BY <1>3, <1>4, <1>5

LEMMA HookPay ==
    ASSUME Base, NEW a \in Requests, PayStep(a), NEW o \in Orders, NEW b \in Requests \ {a}, Hooked(b, order[o]),
           act[a].op # "complete"
    PROVE  HookSame(order[o], order'[o])
<1>1. PICK p : p = act[a].ord
  OBVIOUS
<1>2. ASSUME act[a].pc \in PayPcs PROVE p \in Orders /\ order[p] \in OrderDocs /\ Fits(act[a], order[p])
  BY <1>1, <1>2, Found
<1>3. CASE Sells(a) \/ WriteCard(a)
  <2>1. Only(p) /\ p \in Orders /\ act[a].op \in {"sale", "card", "webhook"}
    BY <1>1, <1>3, WriteEffect, SellEffect DEF Writes, WriteCard
  <2>2. p # o
    <3>1. act[a].op \in {"sale", "card"} => order[p].status = "NEW"
      BY <1>1, <1>3, WriteEffect DEF Sells, Writes
    <3>2. act[a].op = "webhook" => order[p].status = "PENDING" /\ order[p].hook = a
      BY <1>1, <1>3 DEF Sells, WriteSale, WriteCard, StillMine
    <3>. QED
      BY <2>1, <3>1, <3>2 DEF Hooked, Unwritten
  <2>. QED
    BY <2>1, <2>2, HookRest DEF Only
<1>4. CASE Cancel(a)
  <2> DEFINE d == [order[p] EXCEPT !.status = IF order[p].status = "PENDING" THEN "CANCELLED" ELSE order[p].status]
  <2>1. p \in Orders /\ order[p] \in OrderDocs
    BY <1>2, <1>4 DEF Cancel, PayPcs
  <2>2. HookSame(order[p], d)
    BY <2>1 DEF HookSame, OrderDocs
  <2>3. order' = [order EXCEPT ![p] = d]
    BY <1>1, <1>4 DEF Cancel
  <2> HIDE DEF d
  <2>. QED
    BY <2>1, <2>2, <2>3, HookSet
<1>5. CASE HookRelease(a)
  <2> DEFINE d == IF order[p].hook = a THEN [order[p] EXCEPT !.hook = NoRequest, !.hookFresh = FALSE] ELSE order[p]
  <2>1. p \in Orders /\ order[p] \in OrderDocs
    BY <1>2, <1>5 DEF HookRelease, PayPcs
  <2>2. p = o => HookSame(order[p], d)
    BY <2>1 DEF HookSame, OrderDocs, Hooked
  <2>3. order' = [order EXCEPT ![p] = d]
    BY <1>1, <1>5 DEF HookRelease
  <2> HIDE DEF d
  <2>. QED
    BY <2>1, <2>2, <2>3, HookSet
<1>6. CASE Link(a) /\ order' # order
  <2> DEFINE d == [order[p] EXCEPT !.checkout = TRUE]
  <2>1. p \in Orders /\ order[p] \in OrderDocs
    BY <1>2, <1>6 DEF Link, PayPcs
  <2>2. HookSame(order[p], d)
    BY <2>1 DEF HookSame, OrderDocs
  <2>3. order' = [order EXCEPT ![p] = d]
    BY <1>1, <1>6 DEF Link
  <2> HIDE DEF d
  <2>. QED
    BY <2>1, <2>2, <2>3, HookSet
<1>7. CASE order' = order
  BY <1>7, HookRest
<1>. QED
  BY <1>3, <1>4, <1>5, <1>6, <1>7 DEF PayStep, PayClaim, ApplyItem, Rollback, Refresh, WriteComplete, WriteWebhook,
     WriteFails, Trigger, PayRelease, Sells, docs

LEMMA HookActs ==
    ASSUME Base, NEW a \in Requests, Acts(a), act[a].op # "complete", NEW o \in Orders,
           NEW b \in Requests \ {a}, Hooked(b, order[o])
    PROVE  HookSame(order[o], order'[o])
<1>1. CASE StockStep(a)
  BY <1>1, HookStock, HookStorno, HookRest DEF StockStep, StockList, StockMove, StockFail, docs
<1>2. CASE CloseStep(a) \/ TestStep(a) \/ DeleteStep(a)
  <2>1. CASE DeleteOrders(a)
    BY <2>1, GoneEffect, HookRest DEF Gone, HookSame
  <2>. QED
    BY <1>2, <2>1, HookRest DEF CloseStep, ClosePending, ClosePaid, Unclaim, CloseSum, CloseEnd,
       TestStep, TestPaid, TestPending, TestSet, TestEnd, TestClaim,
       DeleteStep, DeletePaid, DeleteMark, DeleteEnd, DeleteClaim, docs
<1>3. CASE BeginPayment(a) \/ BeginManagement(a) \/ StornoStep(a) \/ PayStep(a) \/ Crash(a)
  BY <1>3, HookBegin, HookStorno, HookPay, HookRest DEF Crash, docs
<1>. QED
  BY <1>1, <1>2, <1>3 DEF Acts, Step

LEMMA HookPasses ==
    ASSUME Timely, Base, Passes, NEW b \in Requests, act[b].op = "webhook", NEW o \in Orders, o = act[b].ord,
           Hooked(b, order[o])
    PROVE  HookSame(order[o], order'[o])
<1>1. ASSUME NEW p \in Orders, PublicOrder(p) PROVE HookSame(order[o], order'[o])
  <2>1. p # o
    BY <1>1 DEF PublicOrder, Unused, Hooked, Unwritten
  <2>. QED
    BY <1>1, <2>1, HookRest, TypeParts DEF Base, PublicOrder
<1>2. ASSUME NEW p \in Orders, ExpireHook(p) PROVE HookSame(order[o], order'[o])
  <2>1. CASE p = o
    <3>1. HookHolder(o) \/ order[o].status = "DELETED"
      BY DEF HookHolder, Hooked
    <3>2. order[o].status = "DELETED"
      BY <1>2, <2>1, <3>1 DEF ExpireHook
    <3> DEFINE d == [order[o] EXCEPT !.hookFresh = FALSE]
    <3>3. d.status = "DELETED"
      BY <3>2, TypeParts DEF Base, OrderDocs
    <3>4. order'[o] = d
      BY <1>2, <2>1, TypeParts DEF Base, ExpireHook
    <3>. QED
      BY <3>3, <3>4 DEF HookSame
  <2>2. CASE p # o
    BY <1>2, <2>2, HookRest, TypeParts DEF Base, ExpireHook
  <2>. QED
    BY <2>1, <2>2
<1>3. ASSUME NEW s \in Sessions, OpenSession(s) \/ ExpirePay(s) \/ ExpireTransition(s)
      PROVE  HookSame(order[o], order'[o])
  BY <1>3, HookRest DEF OpenSession, ExpirePay, ExpireTransition
<1>4. CASE UNCHANGED vars
  BY <1>4, HookRest DEF vars
<1>. QED
  BY <1>1, <1>2, <1>3, <1>4 DEF Passes

-----------------------------------------------------------------------------
(* What a step does to the request that takes it.                          *)
StaysOn(q, r) == /\ r.op = q.op /\ r.ord = q.ord
                 /\ r.op # "storno" => r.ses = q.ses /\ (r.pc \in PreWrite => q.pc \in PreWrite)

LEMMA MovesOn ==
    ASSUME Base, NEW a \in Requests, Moves(a), act[a].op # "none"
    PROVE  act'[a] = Idle \/ StaysOn(act[a], act'[a])
BY DEF Moves, Goes, Starts, StaysOn

LEMMA EndsIdle == ASSUME Base, NEW a \in Requests, End(a) PROVE act'[a] = Idle
BY Found DEF End

LEMMA StornoOn ==
    ASSUME Base, NEW a \in Requests, StornoStep(a)
    PROVE  act'[a] = Idle \/ (act[a].op = "storno" /\ StaysOn(act[a], act'[a]))
<1>0. act[a].op = "storno" /\ act[a] \in RequestStates /\ act \in [Requests -> RequestStates]
  BY Found DEF StornoStep, StornoClaim, Refund, StornoEnd, StornoThrows, StornoPcs
<1>1. CASE StornoClaim(a)
  BY <1>0, <1>1, StornoTakes DEF StornoHas, StaysOn
<1>2. CASE Refund(a)
  <2>1. act'[a] = Idle \/ act'[a] = [act[a] EXCEPT !.pc = "move", !.flag = TRUE]
    BY <1>0, <1>2, EndsIdle DEF Refund
  <2>2. ASSUME NEW r, r = [act[a] EXCEPT !.pc = "move", !.flag = TRUE] PROVE r.op = act[a].op /\ r.ord = act[a].ord
    BY <1>0, <2>2 DEF RequestStates
  <2>. QED
    BY <1>0, <2>1, <2>2 DEF StaysOn
<1>3. CASE StornoEnd(a) \/ StornoThrows(a)
  BY <1>3, EndsIdle DEF StornoEnd, StornoThrows
<1>. QED
  BY <1>1, <1>2, <1>3 DEF StornoStep

LEMMA StepOn ==
    ASSUME Base, NEW a \in Requests, Step(a) \/ Crash(a)
    PROVE  act'[a] = Idle \/ StaysOn(act[a], act'[a])
<1>1. CASE PayStep(a)
  <2>1. act[a].op # "none"
    BY <1>1, Found DEF PayStep, PayClaim, ApplyItem, Rollback, Refresh, WriteSale, WriteCard, WriteComplete, WriteWebhook,
       WriteFails, Trigger, Link, Cancel, PayRelease, HookRelease
  <2>2. Moves(a)
    BY <1>1, PayQuiet, TerminalQuiet, UndoQuiet, WriteEffect, CancelEffect DEF PayStep, QuietMove, Writes,
       WriteComplete, WriteWebhook
  <2>. QED
    BY <2>1, <2>2, MovesOn
<1>2. CASE StockStep(a)
  <2>1. act[a].op # "none"
    BY <1>2, Found DEF StockStep, StockList, StockClaim, StockMove, StockDone, StockFail
  <2>2. Moves(a) \/ End(a)
    BY <1>2, StockQuiet DEF StockStep, QuietMove, StockFail
  <2>. QED
    BY <2>1, <2>2, MovesOn, EndsIdle
<1>3. CASE CloseStep(a)
  <2>1. act[a].op # "none"
    BY <1>3, Found DEF CloseStep, ClosePending, ClosePaid, Unclaim, CloseSum, CloseEnd
  <2>2. CASE CloseSum(a)
    BY <2>2, SumEffect DEF StaysOn, PreWrite
  <2>3. ~CloseSum(a) => Moves(a) \/ End(a)
    BY <1>3, ManageQuiet DEF CloseStep, QuietMove, CloseEnd
  <2>. QED
    BY <2>1, <2>2, <2>3, MovesOn, EndsIdle
<1>4. CASE TestStep(a) \/ DeleteStep(a)
  <2>1. act[a].op # "none"
    BY <1>4, Found DEF TestStep, TestPaid, TestPending, TestSet, TestEnd, TestClaim,
       DeleteStep, DeletePaid, DeleteMark, DeleteOrders, DeleteEnd, DeleteClaim
  <2>2. Moves(a)
    BY <1>4, ManageQuiet, DeleteEffect DEF TestStep, DeleteStep, QuietMove
  <2>. QED
    BY <2>1, <2>2, MovesOn
<1>5. CASE StornoStep(a)
  BY <1>5, StornoOn
<1>6. CASE Crash(a)
  BY <1>6, EndsIdle DEF Crash
<1>. QED
  BY <1>1, <1>2, <1>3, <1>4, <1>5, <1>6 DEF Step

(* One session at most changes.                                            *)
Alone(s) == \A z \in Sessions \ {s} : session'[z] = session[z]

LEMMA SessionActs == ASSUME Base, NEW a \in Requests, Step(a) \/ Crash(a) PROVE Alone(act[a].ses)
<1>1. CASE PayStep(a)
  <2>1. CASE PayClaim(a) \/ Refresh(a) \/ PayRelease(a)
    BY <2>1, Found DEF Alone, PayClaim, Refresh, PayRelease
  <2>2. CASE session' = session
    BY <2>2 DEF Alone
  <2>. QED
    BY <1>1, <2>1, <2>2 DEF PayStep, ApplyItem, Rollback, WriteSale, WriteCard, WriteComplete, WriteWebhook,
       WriteFails, Trigger, Link, Cancel, HookRelease, docs
<1>2. CASE StockStep(a) \/ StornoStep(a) \/ Crash(a)
  BY <1>2, Found DEF Alone, StockStep, StockList, StockClaim, StockMove, StockDone, StockFail,
     StornoStep, StornoClaim, Refund, StornoEnd, StornoThrows, Crash, docs
<1>3. CASE CloseStep(a)
  BY <1>3, Found DEF Alone, CloseStep, ClosePending, ClosePaid, Unclaim, CloseSum, CloseEnd, docs
<1>4. CASE TestStep(a)
  BY <1>4, Found DEF Alone, TestStep, TestPaid, TestPending, TestSet, TestEnd, TestClaim, ClaimTransition, Unpaying, docs
<1>5. CASE DeleteStep(a)
  BY <1>5, Found DEF Alone, DeleteStep, DeletePaid, DeleteMark, DeleteOrders, DeleteEnd, DeleteClaim, ClaimTransition, docs
<1>. QED
  BY <1>1, <1>2, <1>3, <1>4, <1>5 DEF Step

LEMMA SessionBegins ==
    ASSUME Base, NEW a \in Requests, BeginPayment(a) \/ BeginManagement(a)
    PROVE  \E s : Alone(s)
<1>1. ASSUME NEW s \in Sessions, NEW t \in Tokens, CloseBegin(a, s, t) PROVE Alone(s)
  BY <1>1, Found DEF Alone, CloseBegin, Unpaying
<1>. QED
  BY <1>1 DEF Alone, BeginPayment, BeginManagement, SaleBegin, CompleteBegin, WebhookBegin, TestBegin,
     DeleteBegin, StornoBegin, docs

LEMMA SessionPasses == ASSUME Base, Passes PROVE \E s : Alone(s)
<1>1. ASSUME NEW s \in Sessions, OpenSession(s) \/ ExpirePay(s) \/ ExpireTransition(s) PROVE Alone(s)
  BY <1>1, TypeParts DEF Base, Alone, OpenSession, ExpirePay, ExpireTransition
<1>. QED
  BY <1>1 DEF Alone, Passes, PublicOrder, ExpireHook, vars

-----------------------------------------------------------------------------
(* The units a payment takes and gives back, one at a time.                *)
LEMMA FoundNext ==
    ASSUME Base', NEW a \in Requests
    PROVE  /\ act'[a] \in RequestStates
           /\ act'[a].op \in PayOps \cup SessionOps \cup {"storno", "none"}
           /\ act'[a].pc \in PayPcs <=> act'[a].op \in PayOps
           /\ act'[a].pc \in StockPcs => act'[a].op \in SessionOps \cup {"storno"}
           /\ act'[a].pc \in StornoPcs => act'[a].op = "storno"
<1>1. /\ act'[a].pc \in PcsOf(act'[a].op) /\ act'[a] \in RequestStates
      /\ act'[a].op \in PayOps \cup SessionOps \cup {"storno", "none"}
  BY DEF Base, TypeOK, RequestsFit, Fits
<1>. QED
  BY <1>1, PcOps

LEMMA ApplyEffect ==
    ASSUME Base, NEW a \in Requests, ApplyItem(a), NEW o, o = act[a].ord
    PROVE  /\ act[a].pc = "apply" /\ act[a].op \in PayOps /\ o \in Orders
           /\ order' = order /\ session' = session /\ keys' = keys
           /\ act'[a].flag = act[a].flag
           /\ \/ /\ taken' = taken /\ act'[a].plan = act[a].plan
                 /\ \/ act'[a].pc = "apply" /\ act'[a].rest \subseteq act[a].rest
                    \/ act'[a].pc \in {"rollback", "refresh"}
              \/ \E i \in Items :
                    /\ i \in act[a].rest /\ taken' = [taken EXCEPT ![o][i] = taken[o][i] + 1]
                    /\ act'[a].pc = "apply" /\ act'[a].rest = act[a].rest \ {i}
                    /\ act'[a].plan[o] = act[a].plan[o] \cup {i}
<1>0. /\ act[a].pc = "apply" /\ act[a].op \in PayOps /\ o \in Orders /\ act[a] \in RequestStates
      /\ order' = order /\ session' = session /\ keys' = keys /\ RestOK
      /\ act[a].plan \in [Orders -> SUBSET Items] /\ act[a].rest \subseteq Items /\ act \in [Requests -> RequestStates]
  BY Found DEF ApplyItem, PayPcs, docs, RequestStates
<1>1. ASSUME NEW i \in act[a].rest, taken' = [taken EXCEPT ![o][i] = @ + 1],
             act' = [act EXCEPT ![a].rest = @ \ {i}, ![a].plan[o] = @ \cup {i}]
      PROVE  /\ taken' = [taken EXCEPT ![o][i] = taken[o][i] + 1]
             /\ act'[a].pc = "apply" /\ act'[a].rest = act[a].rest \ {i} /\ act'[a].flag = act[a].flag
             /\ act'[a].plan[o] = act[a].plan[o] \cup {i}
  <2> DEFINE plan == [act[a].plan EXCEPT ![o] = act[a].plan[o] \cup {i}]
             r == [act[a] EXCEPT !.rest = act[a].rest \ {i}, !.plan = plan]
  <2>1. act' = [act EXCEPT ![a] = r]
    BY <1>0, <1>1
  <2>2. plan[o] = act[a].plan[o] \cup {i}
    BY <1>0
  <2> HIDE DEF plan
  <2>3. r.pc = "apply" /\ r.rest = act[a].rest \ {i} /\ r.flag = act[a].flag /\ r.plan = plan
    BY <1>0 DEF RequestStates
  <2> HIDE DEF r
  <2>4. act'[a] = r
    BY <1>0, <2>1
  <2>5. taken' = [taken EXCEPT ![o][i] = taken[o][i] + 1]
    BY <1>0, <1>1 DEF RestOK
  <2>. QED
    BY <2>2, <2>3, <2>4, <2>5
<1>2. ASSUME NEW i \in act[a].rest, taken' = taken, act' = [act EXCEPT ![a].rest = @ \ {i}]
      PROVE  act'[a].plan = act[a].plan /\ act'[a].pc = "apply" /\ act'[a].rest \subseteq act[a].rest /\ act'[a].flag = act[a].flag
  BY <1>0, <1>2 DEF RequestStates
<1>3. ASSUME NEW pc, Goto(a, pc) PROVE act'[a].plan = act[a].plan /\ act'[a].pc = pc /\ act'[a].flag = act[a].flag
  BY <1>3, GotoFields
<1>4. \/ \E i \in act[a].rest :
            \/ taken' = [taken EXCEPT ![o][i] = @ + 1] /\ act' = [act EXCEPT ![a].rest = @ \ {i}, ![a].plan[o] = @ \cup {i}]
            \/ taken' = taken /\ act' = [act EXCEPT ![a].rest = @ \ {i}]
      \/ taken' = taken /\ \E pc \in {"rollback", "refresh"} : Goto(a, pc)
  BY DEF ApplyItem
<1>. QED
  BY <1>0, <1>1, <1>2, <1>3, <1>4

GivesBack(a, o, i) == /\ i \in act[a].plan[o] /\ taken' = [taken EXCEPT ![o][i] = taken[o][i] - 1]
                      /\ act'[a].pc = "rollback" /\ act'[a].plan[o] = act[a].plan[o] \ {i}

LEMMA RollbackEffect ==
    ASSUME Base, NEW a \in Requests, Rollback(a), NEW o, o = act[a].ord
    PROVE  /\ act[a].pc = "rollback" /\ act[a].op \in PayOps /\ o \in Orders
           /\ order' = order /\ session' = session /\ keys' = keys
           /\ act'[a].flag => act[a].flag
           /\ \/ /\ taken' = taken /\ act'[a].plan = act[a].plan /\ act[a].plan[o] = {}
                 /\ (act'[a].pc = "apply" /\ act[a].flag) \/ act'[a].pc = "payRelease"
              \/ \E i \in Items : GivesBack(a, o, i)
<1>0. /\ act[a].pc = "rollback" /\ act[a].op \in PayOps /\ o \in Orders /\ act[a] \in RequestStates
      /\ order' = order /\ session' = session /\ keys' = keys /\ RestOK
      /\ act[a].plan \in [Orders -> SUBSET Items] /\ act \in [Requests -> RequestStates] /\ act[a].plan[o] \subseteq Items
  BY Found DEF Rollback, PayPcs, docs, RequestStates
<1>1. ASSUME NEW i \in act[a].plan[o], taken' = [taken EXCEPT ![o][i] = @ - 1],
             act' = [act EXCEPT ![a].plan[o] = @ \ {i}]
      PROVE  /\ taken' = [taken EXCEPT ![o][i] = taken[o][i] - 1]
             /\ act'[a].pc = "rollback" /\ act'[a].flag = act[a].flag
             /\ act'[a].plan[o] = act[a].plan[o] \ {i}
  <2> DEFINE plan == [act[a].plan EXCEPT ![o] = act[a].plan[o] \ {i}]
             r == [act[a] EXCEPT !.plan = plan]
  <2>1. act' = [act EXCEPT ![a] = r]
    BY <1>0, <1>1
  <2>2. plan[o] = act[a].plan[o] \ {i}
    BY <1>0
  <2> HIDE DEF plan
  <2>3. r.pc = "rollback" /\ r.flag = act[a].flag /\ r.plan = plan
    BY <1>0 DEF RequestStates
  <2> HIDE DEF r
  <2>4. act'[a] = r
    BY <1>0, <2>1
  <2>5. taken' = [taken EXCEPT ![o][i] = taken[o][i] - 1]
    BY <1>0, <1>1 DEF RestOK
  <2>. QED
    BY <2>2, <2>3, <2>4, <2>5
<1>2. ASSUME act' = [act EXCEPT ![a].pc = "apply", ![a].rest = Items, ![a].flag = FALSE]
      PROVE  act'[a].plan = act[a].plan /\ act'[a].pc = "apply" /\ act'[a].flag = FALSE
  BY <1>0, <1>2 DEF RequestStates
<1>3. ASSUME Goto(a, "payRelease") PROVE act'[a].plan = act[a].plan /\ act'[a].pc = "payRelease" /\ act'[a].flag = act[a].flag
  BY <1>3, GotoFields
<1>4. \/ \E i \in act[a].plan[o] : taken' = [taken EXCEPT ![o][i] = @ - 1] /\ act' = [act EXCEPT ![a].plan[o] = @ \ {i}]
      \/ /\ taken' = taken /\ act[a].plan[o] = {} /\ act[a].flag
         /\ act' = [act EXCEPT ![a].pc = "apply", ![a].rest = Items, ![a].flag = FALSE]
      \/ taken' = taken /\ act[a].plan[o] = {} /\ Goto(a, "payRelease")
  BY DEF Rollback
<1>. QED
  BY <1>0, <1>1, <1>2, <1>3, <1>4 DEF GivesBack

(* Any other step of a payment leaves stock and plan alone, but for the    *)
(* write, which hands the plan to the order.                               *)
LEMMA UndoFields ==
    ASSUME Base, NEW a \in Requests, UndoAll(a)
    PROVE  act'[a].plan = act[a].plan /\ act'[a].pc = "rollback" /\ act'[a].flag = FALSE
BY Found DEF UndoAll, RequestStates

LEMMA PayEffect ==
    ASSUME Base, NEW a \in Requests, PayStep(a), ~ApplyItem(a), ~Rollback(a), act[a].op # "complete"
    PROVE  /\ taken' = taken /\ keys' = keys
           /\ act'[a].pc \in PreWrite => order' = order
           /\ \/ act'[a] = Idle /\ act[a].pc \notin PreWrite \ {"payClaim"}
              \/ Sells(a) /\ act'[a].plan = NoPlan /\ act'[a].pc = "payRelease" /\ act'[a].flag = act[a].flag
              \/ /\ act'[a].plan = act[a].plan
                 /\ act'[a].flag => act[a].flag
                 /\ act'[a].pc = "apply" => act[a].pc = "payClaim" /\ act[a].op # "card"
                 /\ act'[a].pc \in PreWrite \ {"payClaim"} \/ act[a].pc \notin PreWrite \/ act[a].pc = "payClaim"
                       \/ act[a].op = "card"
<1>0. act[a] \in RequestStates /\ act \in [Requests -> RequestStates]
  BY Found
<1>1. ASSUME NEW pc, Goto(a, pc) PROVE act'[a].plan = act[a].plan /\ act'[a].pc = pc /\ act'[a].flag = act[a].flag
  BY <1>1, GotoFields
<1>2. CASE PayClaim(a)
  <2>1. ASSUME act' = [act EXCEPT ![a].pc = "apply", ![a].rest = Items]
        PROVE  act'[a].plan = act[a].plan /\ act'[a].pc = "apply" /\ act'[a].flag = act[a].flag
    BY <1>0, <2>1 DEF RequestStates
  <2>2. /\ taken' = taken /\ keys' = keys /\ order' = order /\ act[a].pc = "payClaim"
        /\ \/ End(a)
           \/ \E pc \in {"refresh", "payRelease", "hookRelease"} : Goto(a, pc)
           \/ act[a].op # "card" /\ act' = [act EXCEPT ![a].pc = "apply", ![a].rest = Items]
    BY <1>2 DEF PayClaim, history
  <2>. QED
    BY <1>1, <2>1, <2>2, EndsIdle
<1>3. CASE Refresh(a) \/ WriteFails(a)
  <2>1. /\ taken' = taken /\ keys' = keys /\ order' = order
        /\ Goto(a, "write") \/ UndoAll(a)
    BY <1>3 DEF Refresh, WriteFails, history, docs
  <2>2. act'[a].plan = act[a].plan /\ act'[a].pc \in {"write", "rollback"} /\ (act'[a].flag => act[a].flag)
    BY <1>1, <2>1, UndoFields
  <2>. QED
    BY <2>1, <2>2 DEF PreWrite
<1>4. CASE Sells(a)
  BY <1>4, SellEffect DEF PreWrite
<1>5. CASE WriteWebhook(a) /\ ~Sells(a)
  <2>1. taken' = taken /\ keys' = keys /\ order' = order /\ UndoAll(a)
    BY <1>5 DEF Sells, WriteWebhook
  <2>. QED
    BY <2>1, UndoFields DEF PreWrite
<1>6. CASE WriteCard(a)
  <2>1. taken' = taken /\ keys' = keys /\ act[a].op = "card" /\ Goto(a, "trigger")
    BY <1>6 DEF WriteCard, history
  <2>. QED
    BY <1>1, <2>1 DEF PreWrite
<1>7. CASE Trigger(a) \/ Link(a) \/ Cancel(a) \/ PayRelease(a) \/ HookRelease(a)
  <2>1. /\ taken' = taken /\ keys' = keys /\ act[a].pc \notin PreWrite
        /\ End(a) \/ \E pc \in {"link", "cancel", "payRelease", "hookRelease"} : Goto(a, pc)
    BY <1>7 DEF Trigger, Link, Cancel, PayRelease, HookRelease, history, docs, PreWrite
  <2>. QED
    BY <1>1, <2>1, EndsIdle, IdleOK DEF PreWrite
<1>. QED
  BY <1>2, <1>3, <1>4, <1>5, <1>6, <1>7 DEF PayStep, WriteComplete, Sells

-----------------------------------------------------------------------------
(* Payments take each unit once, whatever step is taken.                   *)
LEMMA ChargeOff ==
    ASSUME Base', NEW a \in Requests, NEW r, act'[a] = r, r.op \notin PayOps
    PROVE  Charging(a, r)'
<1>1. r.pc \notin PayPcs
  BY FoundNext
<1>. QED
  BY <1>1 DEF Charging, PayOps, PayPcs

LEMMA ChargeIdle ==
    ASSUME Base', NEW a \in Requests, act'[a] = Idle
    PROVE  Charging(a, Idle)'
BY ChargeOff, IdleOK DEF PayOps

LEMMA ChargeOn ==
    ASSUME Base, AllCharging, NEW a \in Requests, \A b \in Requests \ {a} : act'[b] = act[b],
           NEW r, act'[a] = r, StaysOn(act[a], r), r.op \in PayOps, r.op # "complete",
           r.pc \in PreWrite => order' = order,
           r.plan[r.ord] # {} => r.op \in {"sale", "webhook"} /\ r.pc \in PreWrite \ {"payClaim"},
           r.pc = "apply" => r.op # "card" /\ r.rest \cap r.plan[r.ord] = {},
           r.op = "card" => ~r.flag
    PROVE  Charging(a, r)'
<1>1. CASE r.op = "webhook" /\ r.pc \in PreWrite
  <2>1. act[a].op = "webhook" /\ act[a].pc \in PreWrite /\ act[a].ord = r.ord /\ act[a].ses = r.ses /\ order' = order
    BY <1>1 DEF StaysOn
  <2>2. Charging(a, act[a])
    BY Found DEF AllCharging
  <2>3. ASSUME NEW b \in Requests \ {a}, act'[b].op = "webhook", act'[b].pc \in PreWrite PROVE act'[b].ord # r.ord
    BY <2>1, <2>2, <2>3 DEF Charging
  <2>4. /\ order'[r.ord].status \in {"PENDING", "CANCELLED", "DELETED"}
        /\ order'[r.ord].status # "DELETED" => order'[r.ord].hook = a /\ order'[r.ord].hookFresh /\ order'[r.ord].ses = r.ses
    BY <2>1, <2>2 DEF Charging
  <2>. QED
    BY <2>3, <2>4 DEF Charging
<1>2. CASE ~(r.op = "webhook" /\ r.pc \in PreWrite)
  BY <1>2 DEF Charging
<1>. QED
  BY <1>1, <1>2

LEMMA ChargePay ==
    ASSUME Base, Base', AllCharging, OpsOK', "complete" \notin Ops, NEW a \in Requests, PayStep(a),
           NEW r, act'[a] = r
    PROVE  Charging(a, r)'
<1>1. CASE r = Idle
  BY <1>1, ChargeIdle
<1>2. CASE r # Idle
  <2>1. StaysOn(act[a], r) /\ \A b \in Requests \ {a} : act'[b] = act[b]
    BY <1>2, StepOn, ActsAlone DEF Step, Acts
  <2>2. act[a].op \in PayOps /\ r.op \in PayOps /\ r.op # "complete" /\ act[a].op # "complete" /\ r.ord = act[a].ord
        /\ r.op = act[a].op
    <3>1. act[a].pc \in PayPcs
      BY DEF PayStep, PayClaim, ApplyItem, Rollback, Refresh, WriteSale, WriteCard, WriteComplete, WriteWebhook,
         WriteFails, Trigger, Link, Cancel, PayRelease, HookRelease, PayPcs
    <3>2. act[a].op \in PayOps
      BY <3>1, Found
    <3>. QED
      BY <2>1, <3>2 DEF StaysOn, OpsOK, PayOps
  <2>3. PICK o : o = act[a].ord
    OBVIOUS
  <2>4. /\ act[a].plan[o] # {} => act[a].op \in {"sale", "webhook"} /\ act[a].pc \in PreWrite \ {"payClaim"}
        /\ act[a].pc = "apply" => act[a].op # "card" /\ act[a].rest \cap act[a].plan[o] = {}
        /\ act[a].op = "card" => ~act[a].flag
    BY <2>2, <2>3, Found DEF AllCharging, Charging
  <2>5. CASE ApplyItem(a)
    <3>1. /\ act[a].pc = "apply" /\ order' = order /\ r.flag = act[a].flag
          /\ \/ /\ r.plan = act[a].plan
                /\ \/ r.pc = "apply" /\ r.rest \subseteq act[a].rest
                   \/ r.pc \in {"rollback", "refresh"}
             \/ \E i \in Items : /\ i \in act[a].rest
                                 /\ r.pc = "apply" /\ r.rest = act[a].rest \ {i}
                                 /\ r.plan[o] = act[a].plan[o] \cup {i}
      BY <2>3, <2>5, ApplyEffect
    <3>2. act[a].op \in {"sale", "webhook"}
      BY <2>2, <2>4, <3>1 DEF PayOps
    <3>3. r.pc \in PreWrite \ {"payClaim"}
      BY <3>1 DEF PreWrite
    <3>4. r.pc = "apply" => r.rest \cap r.plan[o] = {}
      BY <2>4, <3>1
    <3>. QED
      BY <2>1, <2>2, <2>3, <3>1, <3>2, <3>3, <3>4, ChargeOn
  <2>6. CASE Rollback(a)
    <3>1. /\ act[a].pc = "rollback" /\ order' = order
          /\ r.flag => act[a].flag
          /\ \/ /\ r.plan = act[a].plan /\ act[a].plan[o] = {}
                /\ (r.pc = "apply" /\ act[a].flag) \/ r.pc = "payRelease"
             \/ \E i \in Items : i \in act[a].plan[o] /\ r.pc = "rollback" /\ r.plan[o] = act[a].plan[o] \ {i}
      BY <2>3, <2>6, RollbackEffect DEF GivesBack
    <3>2. r.plan[o] # {} => r.op \in {"sale", "webhook"} /\ r.pc \in PreWrite \ {"payClaim"}
      BY <2>2, <2>4, <3>1 DEF PreWrite
    <3>3. r.pc = "apply" => r.op # "card" /\ r.rest \cap r.plan[o] = {}
      BY <2>2, <2>4, <3>1
    <3>. QED
      BY <2>1, <2>2, <2>3, <2>4, <3>1, <3>2, <3>3, ChargeOn
  <2>7. CASE ~ApplyItem(a) /\ ~Rollback(a)
    <3>1. /\ r.pc \in PreWrite => order' = order
          /\ \/ Sells(a) /\ r.plan = NoPlan /\ r.pc = "payRelease" /\ r.flag = act[a].flag
             \/ /\ r.plan = act[a].plan
                /\ r.flag => act[a].flag
                /\ r.pc = "apply" => act[a].pc = "payClaim" /\ act[a].op # "card"
                /\ r.pc \in PreWrite \ {"payClaim"} \/ act[a].pc \notin PreWrite \/ act[a].pc = "payClaim"
                      \/ act[a].op = "card"
      BY <1>2, <2>2, <2>7, PayEffect
    <3>2. o \in Orders
      BY <2>2, <2>3, Found DEF Fits
    <3>3. r.plan[o] # {} => r.op \in {"sale", "webhook"} /\ r.pc \in PreWrite \ {"payClaim"}
      BY <2>2, <2>4, <3>1, <3>2 DEF NoPlan
    <3>4. r.pc = "apply" => r.op # "card" /\ r.rest \cap r.plan[o] = {}
      BY <2>2, <2>4, <3>1
    <3>5. r.op = "card" => ~r.flag
      BY <2>2, <2>4, <3>1
    <3>. QED
      BY <2>1, <2>2, <2>3, <3>1, <3>3, <3>4, <3>5, ChargeOn
  <2>. QED
    BY <2>5, <2>6, <2>7
<1>. QED
  BY <1>1, <1>2

(* A delivery that begins finds the order free of any other.               *)
LEMMA HookAlone ==
    ASSUME Base, AllCharging, NEW a \in Requests, NEW o \in Orders, WebhookBegin(a, o),
           NEW b \in Requests, act[b].op = "webhook", act[b].pc \in PreWrite
    PROVE  act[b].ord # o
<1>1. Charging(b, act[b])
  BY Found DEF AllCharging
<1>2. order[o].status = "PENDING" /\ (order[o].hook = NoRequest \/ ~order[o].hookFresh)
  BY DEF WebhookBegin
<1>. QED
  BY <1>1, <1>2, Consts DEF Charging

LEMMA HookBegun ==
    ASSUME Base, NEW a \in Requests, NEW o \in Orders, WebhookBegin(a, o)
    PROVE  /\ act'[a].op = "webhook" /\ act'[a].pc = "payClaim" /\ act'[a].ord = o
           /\ act'[a].ses = order[o].ses /\ act'[a].plan = NoPlan
           /\ order'[o].status = "PENDING" /\ order'[o].hook = a /\ order'[o].hookFresh /\ order'[o].ses = order[o].ses
<1>1. act \in [Requests -> RequestStates] /\ order[o] \in OrderDocs /\ order \in [Orders -> OrderDocs]
  BY Found
<1>2. PICK strict \in BOOLEAN :
        act' = [act EXCEPT ![a] = [Request("webhook", "payClaim", order[o].ses, o) EXCEPT !.flag = strict]]
  BY DEF WebhookBegin, Begin
<1>3. order' = [order EXCEPT ![o].hook = a, ![o].hookFresh = TRUE] /\ order[o].status = "PENDING"
  BY DEF WebhookBegin
<1>. QED
  BY <1>1, <1>2, <1>3 DEF Request, Idle, OrderDocs

LEMMA ChargeBegin ==
    ASSUME Base, Base', AllCharging, OpsOK', "complete" \notin Ops, NEW a \in Requests,
           BeginPayment(a) \/ BeginManagement(a), NEW r, act'[a] = r
    PROVE  Charging(a, r)'
<1>1. act \in [Requests -> RequestStates] /\ \A b \in Requests \ {a} : act'[b] = act[b]
  BY Found, ActsAlone DEF Acts
<1>2. ASSUME NEW s \in Sessions, NEW o \in Orders, NEW op \in {"sale", "card"}, SaleBegin(a, s, o, op)
      PROVE  Charging(a, r)'
  <2>1. r = Request(op, "payClaim", s, o)
    BY <1>1, <1>2 DEF SaleBegin, Begin
  <2>2. r.op = op /\ r.pc = "payClaim" /\ r.ord = o /\ r.plan = NoPlan /\ r.flag = FALSE
    BY <2>1 DEF Request, Idle
  <2>. QED
    BY <2>2 DEF Charging, NoPlan
<1>3. ASSUME NEW o \in Orders, WebhookBegin(a, o) PROVE Charging(a, r)'
  <2>1. /\ r.op = "webhook" /\ r.pc = "payClaim" /\ r.ord = o /\ r.ses = order[o].ses /\ r.plan = NoPlan
        /\ order'[o].status = "PENDING" /\ order'[o].hook = a /\ order'[o].hookFresh /\ order'[o].ses = order[o].ses
    BY <1>3, HookBegun
  <2>2. \A b \in Requests \ {a} : act'[b].op = "webhook" /\ act'[b].pc \in PreWrite => act'[b].ord # o
    BY <1>1, <1>3, HookAlone
  <2>. QED
    BY <2>1, <2>2 DEF Charging, NoPlan
<1>4. CASE BeginManagement(a) \/ \E s \in Sessions, o \in Orders : CompleteBegin(a, s, o)
  <2>1. r.op \in {"complete", "close", "test", "normal", "delete", "storno"}
    <3>1. ASSUME NEW s \in Sessions, NEW o \in Orders, CompleteBegin(a, s, o) PROVE r.op = "complete"
      BY <1>1, <3>1 DEF CompleteBegin, Begin, Request, Idle
    <3>2. ASSUME NEW s \in Sessions, NEW t \in Tokens, CloseBegin(a, s, t) PROVE r.op = "close"
      BY <1>1, <3>2 DEF CloseBegin, Begin, Request, Idle
    <3>3. ASSUME NEW s \in Sessions, NEW isTest \in BOOLEAN, TestBegin(a, s, isTest) PROVE r.op \in {"test", "normal"}
      BY <1>1, <3>3 DEF TestBegin, TestOp, Begin, Request, Idle
    <3>4. ASSUME NEW s \in Sessions, DeleteBegin(a, s) PROVE r.op = "delete"
      BY <1>1, <3>4 DEF DeleteBegin, Begin, Request, Idle
    <3>5. ASSUME NEW o \in Orders, StornoBegin(a, o) PROVE r.op = "storno"
      BY <1>1, <3>5 DEF StornoBegin, Begin, Request, Idle
    <3>. QED
      BY <1>4, <3>1, <3>2, <3>3, <3>4, <3>5 DEF BeginManagement
  <2>2. r.op \notin PayOps
    BY <2>1 DEF OpsOK, PayOps
  <2>. QED
    BY <2>2, ChargeOff
<1>. QED
  BY <1>2, <1>3, <1>4 DEF BeginPayment

LEMMA ChargeOwn ==
    ASSUME Base, Base', AllCharging, OpsOK', "complete" \notin Ops, NEW a \in Requests, Acts(a), NEW r, act'[a] = r
    PROVE  Charging(a, r)'
<1>1. CASE PayStep(a) \/ BeginPayment(a) \/ BeginManagement(a)
  BY <1>1, ChargePay, ChargeBegin
<1>2. CASE (Step(a) \/ Crash(a)) /\ ~PayStep(a)
  <2>1. CASE r = Idle
    BY <2>1, ChargeIdle
  <2>2. CASE r # Idle
    <3>1. r.op = act[a].op /\ ~Crash(a)
      BY <1>2, <2>2, StepOn, EndsIdle DEF StaysOn, Crash
    <3>2. act[a].pc \notin PayPcs
      BY <1>2, <3>1 DEF Step, StockStep, StockList, StockClaim, StockMove, StockDone, StockFail,
         CloseStep, ClosePending, ClosePaid, Unclaim, CloseSum, CloseEnd,
         TestStep, TestPaid, TestPending, TestSet, TestEnd, TestClaim,
         DeleteStep, DeletePaid, DeleteMark, DeleteOrders, DeleteEnd, DeleteClaim,
         StornoStep, StornoClaim, Refund, StornoEnd, StornoThrows, PayPcs
    <3>3. act[a].op \notin PayOps
      BY <3>2, Found, PcOps
    <3>. QED
      BY <3>1, <3>3, ChargeOff
  <2>. QED
    BY <2>1, <2>2
<1>. QED
  BY <1>1, <1>2 DEF Acts

LEMMA HookNew ==
    ASSUME Base, NEW a \in Requests, Acts(a), act'[a].op = "webhook", act'[a].pc \in PreWrite
    PROVE  \/ act[a].op = "webhook" /\ act[a].pc \in PreWrite /\ act'[a].ord = act[a].ord
           \/ \E o \in Orders : WebhookBegin(a, o) /\ act'[a].ord = o
<1>0. act \in [Requests -> RequestStates]
  BY Found
<1>1. CASE Step(a) \/ Crash(a)
  BY <1>1, StepOn, IdleOK DEF StaysOn
<1>2. ASSUME NEW s \in Sessions, NEW o \in Orders, CompleteBegin(a, s, o) PROVE FALSE
  BY <1>0, <1>2 DEF CompleteBegin, Begin, Request, Idle
<1>3. ASSUME NEW s \in Sessions, NEW o \in Orders, NEW op \in {"sale", "card"}, SaleBegin(a, s, o, op) PROVE FALSE
  BY <1>0, <1>3 DEF SaleBegin, Begin, Request, Idle
<1>4. ASSUME NEW o \in Orders, WebhookBegin(a, o) PROVE act'[a].ord = o
  BY <1>4, HookBegun
<1>5. CASE BeginManagement(a)
  <2>1. ASSUME NEW s \in Sessions, NEW t \in Tokens, CloseBegin(a, s, t) PROVE FALSE
    BY <1>0, <2>1 DEF CloseBegin, Begin, Request, Idle
  <2>2. ASSUME NEW s \in Sessions, NEW isTest \in BOOLEAN, TestBegin(a, s, isTest) PROVE FALSE
    BY <1>0, <2>2 DEF TestBegin, TestOp, Begin, Request, Idle
  <2>3. ASSUME NEW s \in Sessions, DeleteBegin(a, s) PROVE FALSE
    BY <1>0, <2>3 DEF DeleteBegin, Begin, Request, Idle
  <2>4. ASSUME NEW o \in Orders, StornoBegin(a, o) PROVE FALSE
    BY <1>0, <2>4 DEF StornoBegin, Begin, Request, Idle
  <2>. QED
    BY <1>5, <2>1, <2>2, <2>3, <2>4 DEF BeginManagement
<1>. QED
  BY <1>1, <1>2, <1>3, <1>4, <1>5 DEF Acts, BeginPayment

(* What another's step leaves of a delivery's claim on its order.          *)
LEMMA ChargeOther ==
    ASSUME Base, NEW b \in Requests, NEW r, act[b] = r, Charging(b, r),
           r.op = "webhook" /\ r.pc \in PreWrite /\ Hooked(b, order[r.ord]) => HookSame(order[r.ord], order'[r.ord]),
           \A c \in Requests \ {b} : act'[c].op = "webhook" /\ act'[c].pc \in PreWrite => act'[c].ord # r.ord \/ act'[c] = act[c]
    PROVE  Charging(b, r)'
<1>1. CASE r.op = "webhook" /\ r.pc \in PreWrite
  <2>1. Hooked(b, order[r.ord]) /\ (order[r.ord].status # "DELETED" => order[r.ord].ses = r.ses)
    BY <1>1 DEF Charging, Hooked, Unwritten
  <2>2. HookSame(order[r.ord], order'[r.ord])
    BY <1>1, <2>1
  <2>3. /\ order'[r.ord].status \in {"PENDING", "CANCELLED", "DELETED"}
        /\ order'[r.ord].status # "DELETED" => order'[r.ord].hook = b /\ order'[r.ord].hookFresh /\ order'[r.ord].ses = r.ses
    BY <2>1, <2>2 DEF HookSame, Hooked, Unwritten
  <2>4. \A c \in Requests \ {b} : act'[c].op = "webhook" /\ act'[c].pc \in PreWrite => act'[c].ord # r.ord
    BY <1>1 DEF Charging
  <2>. QED
    BY <2>3, <2>4 DEF Charging
<1>2. CASE ~(r.op = "webhook" /\ r.pc \in PreWrite)
  BY <1>2 DEF Charging
<1>. QED
  BY <1>1, <1>2

LEMMA ChargesActs ==
    ASSUME Base, Base', AllCharging, OpsOK, OpsOK', "complete" \notin Ops, NEW a \in Requests, Acts(a)
    PROVE  AllCharging'
<1>0. act[a].op # "complete" /\ \A b \in Requests \ {a} : act'[b] = act[b]
  BY ActsAlone DEF OpsOK
<1>1. ASSUME NEW b \in Requests, NEW r \in RequestStates, act'[b] = r PROVE Charging(b, r)'
  <2>1. CASE b = a
    BY <1>1, <2>1, ChargeOwn
  <2>2. CASE b # a
    <3>1. act[b] = r /\ Charging(b, r)
      BY <1>0, <1>1, <2>2 DEF AllCharging
    <3>2. ASSUME r.op = "webhook", r.pc \in PreWrite, Hooked(b, order[r.ord])
          PROVE  HookSame(order[r.ord], order'[r.ord])
      <4>1. r.ord \in Orders
        BY <3>1, <3>2, Found DEF Fits, PayOps
      <4>. QED
        BY <1>0, <2>2, <3>2, <4>1, HookActs
    <3>3. ASSUME NEW c \in Requests \ {b}, act'[c].op = "webhook", act'[c].pc \in PreWrite, r.op = "webhook", r.pc \in PreWrite
          PROVE  act'[c].ord # r.ord \/ act'[c] = act[c]
      <4>1. CASE c = a
        <5>1. CASE act[a].op = "webhook" /\ act[a].pc \in PreWrite /\ act'[a].ord = act[a].ord
          BY <2>2, <3>1, <3>3, <4>1, <5>1 DEF Charging
        <5>2. ASSUME NEW o \in Orders, WebhookBegin(a, o), act'[a].ord = o PROVE act'[a].ord # r.ord
          BY <3>1, <3>3, <5>2, HookAlone
        <5>. QED
          BY <3>3, <4>1, <5>1, <5>2, HookNew
      <4>2. CASE c # a
        BY <1>0, <4>2
      <4>. QED
        BY <4>1, <4>2
    <3>4. CASE r.op = "webhook" /\ r.pc \in PreWrite
      BY <3>1, <3>2, <3>3, <3>4, ChargeOther
    <3>5. CASE ~(r.op = "webhook" /\ r.pc \in PreWrite)
      BY <3>1, <3>5 DEF Charging
    <3>. QED
      BY <3>4, <3>5
  <2>. QED
    BY <2>1, <2>2
<1>. QED
  BY <1>1 DEF AllCharging

LEMMA ChargesPasses ==
    ASSUME Timely, Base, AllCharging, Passes
    PROVE  AllCharging'
<1>0. act' = act
  BY CalmPasses
<1>1. ASSUME NEW b \in Requests, NEW r \in RequestStates, act'[b] = r PROVE Charging(b, r)'
  <2>1. act[b] = r /\ Charging(b, r)
    BY <1>0, <1>1 DEF AllCharging
  <2>2. ASSUME r.op = "webhook", r.pc \in PreWrite, Hooked(b, order[r.ord])
        PROVE  HookSame(order[r.ord], order'[r.ord])
    <3>1. r.ord \in Orders
      BY <2>1, <2>2, Found DEF Fits, PayOps
    <3>. QED
      BY <2>1, <2>2, <3>1, HookPasses
  <2>. QED
    BY <1>0, <2>1, <2>2, ChargeOther
<1>. QED
  BY <1>1 DEF AllCharging

(* Whoever is paying an order is alone to, and it is not paid yet.         *)
LEMMA PayerAlone ==
    ASSUME Base, AllCharging, NEW a \in Requests, act[a].op \in {"sale", "webhook"}, act[a].pc \in PreWrite,
           NEW o, o = act[a].ord
    PROVE  /\ o \in Orders /\ order[o].status # "PAID"
           /\ \A b \in Requests \ {a}, i \in Items : ~Carries(act[b], o, i)
<1>1. o \in Orders /\ Fits(act[a], order[o]) /\ Charging(a, act[a])
  BY Found DEF AllCharging, Fits, PayOps
<1>2. order[o].status # "PAID"
  BY <1>1 DEF Fits, Charging
<1>3. ASSUME NEW b \in Requests \ {a}, NEW i \in Items, Carries(act[b], o, i) PROVE FALSE
  <2>1. act[b].ord = o /\ Charging(b, act[b])
    BY <1>3, Found DEF Carries, AllCharging
  <2>2. act[b].op \in {"sale", "webhook"} /\ act[b].pc \in PreWrite
    BY <1>3, <2>1 DEF Carries, Charging
  <2>3. CASE act[a].op = "sale" \/ act[b].op = "sale"
    BY <2>1, <2>2, <2>3 DEF Base, Reserved
  <2>4. CASE act[a].op = "webhook" /\ act[b].op = "webhook"
    BY <1>1, <2>1, <2>2, <2>4 DEF Charging
  <2>. QED
    BY <2>2, <2>3, <2>4
<1>. QED
  BY <1>1, <1>2, <1>3

LEMMA CarrierPays ==
    ASSUME Base, AllCharging, NEW a \in Requests, NEW o \in Orders, NEW i \in Items, Carries(act[a], o, i)
    PROVE  act[a].op \in {"sale", "webhook"} /\ act[a].pc \in PreWrite \ {"payClaim"} /\ act[a].ord = o
BY Found DEF Carries, AllCharging, Charging

-----------------------------------------------------------------------------
(* The ledger of the units taken, step by step.                            *)
Loads(a) == \A o \in Orders, i \in Items : Carries(act'[a], o, i) <=> Carries(act[a], o, i)

LEMMA BegunEmpty ==
    ASSUME Base, NEW a \in Requests, BeginPayment(a) \/ BeginManagement(a)
    PROVE  act[a].op = "none" /\ (act'[a].op \notin PayOps \/ act'[a].plan = NoPlan)
<1>0. act \in [Requests -> RequestStates]
  BY Found
<1>1. ASSUME NEW s \in Sessions, NEW o \in Orders, NEW op \in {"sale", "card"}, SaleBegin(a, s, o, op)
      PROVE  act'[a].plan = NoPlan
  BY <1>0, <1>1 DEF SaleBegin, Begin, Request, Idle
<1>2. ASSUME NEW s \in Sessions, NEW o \in Orders, CompleteBegin(a, s, o) PROVE act'[a].plan = NoPlan
  BY <1>0, <1>2 DEF CompleteBegin, Begin, Request, Idle
<1>3. ASSUME NEW o \in Orders, WebhookBegin(a, o) PROVE act'[a].plan = NoPlan
  BY <1>3, HookBegun
<1>4. ASSUME NEW s \in Sessions, NEW t \in Tokens, CloseBegin(a, s, t) PROVE act'[a].op = "close"
  BY <1>0, <1>4 DEF CloseBegin, Begin, Request, Idle
<1>5. ASSUME NEW s \in Sessions, NEW isTest \in BOOLEAN, TestBegin(a, s, isTest) PROVE act'[a].op \in {"test", "normal"}
  BY <1>0, <1>5 DEF TestBegin, TestOp, Begin, Request, Idle
<1>6. ASSUME NEW s \in Sessions, DeleteBegin(a, s) PROVE act'[a].op = "delete"
  BY <1>0, <1>6 DEF DeleteBegin, Begin, Request, Idle
<1>7. ASSUME NEW o \in Orders, StornoBegin(a, o) PROVE act'[a].op = "storno"
  BY <1>0, <1>7 DEF StornoBegin, Begin, Request, Idle
<1>8. act[a].op = "none"
  BY Found DEF BeginPayment, BeginManagement, SaleBegin, CompleteBegin, WebhookBegin, CloseBegin, TestBegin,
     DeleteBegin, StornoBegin, Begin
<1>. QED
  BY <1>1, <1>2, <1>3, <1>4, <1>5, <1>6, <1>7, <1>8 DEF BeginPayment, BeginManagement, PayOps

LEMMA LoadsActs ==
    ASSUME Base, AllCharging, NEW a \in Requests, Acts(a), act[a].op # "complete",
           ~ApplyItem(a), ~Rollback(a), ~Sells(a), ~Crash(a)
    PROVE  Loads(a) /\ (StockMove(a) \/ (taken' = taken /\ keys' = keys))
<1>1. CASE BeginPayment(a) \/ BeginManagement(a)
  <2>1. Loads(a)
    BY <1>1, BegunEmpty DEF Loads, Carries, PayOps, NoPlan
  <2>2. taken' = taken /\ keys' = keys
    BY <1>1 DEF BeginPayment, BeginManagement, SaleBegin, CompleteBegin, WebhookBegin, CloseBegin, TestBegin,
     DeleteBegin, StornoBegin, docs, history
  <2>. QED
    BY <2>1, <2>2
<1>2. CASE PayStep(a)
  <2>1. /\ taken' = taken /\ keys' = keys
        /\ \/ act'[a] = Idle /\ act[a].pc \notin PreWrite \ {"payClaim"}
           \/ act'[a].plan = act[a].plan
    BY <1>2, PayEffect
  <2>2. CASE act'[a] = Idle /\ act[a].pc \notin PreWrite \ {"payClaim"}
    BY <2>1, <2>2, CarrierPays, IdleOK DEF Loads, Carries, PayOps
  <2>3. CASE act'[a] # Idle /\ act'[a].plan = act[a].plan
    BY <1>2, <2>1, <2>3, StepOn DEF Loads, Carries, StaysOn, Step
  <2>4. CASE act'[a] = Idle /\ act'[a].plan = act[a].plan
    BY <2>1, <2>4 DEF Loads, Carries, PayOps, Idle, NoPlan
  <2>. QED
    BY <2>1, <2>2, <2>3, <2>4
<1>3. CASE Step(a) /\ ~PayStep(a)
  <2>1. act[a].pc \notin PayPcs
    BY <1>3 DEF Step, StockStep, StockList, StockClaim, StockMove, StockDone, StockFail,
       CloseStep, ClosePending, ClosePaid, Unclaim, CloseSum, CloseEnd,
       TestStep, TestPaid, TestPending, TestSet, TestEnd, TestClaim,
       DeleteStep, DeletePaid, DeleteMark, DeleteOrders, DeleteEnd, DeleteClaim,
       StornoStep, StornoClaim, Refund, StornoEnd, StornoThrows, PayPcs
  <2>2. act[a].op \notin PayOps
    BY <2>1, Found, PcOps
  <2>3. act'[a].op \notin PayOps
    BY <1>3, <2>2, StepOn, IdleOK DEF StaysOn, PayOps
  <2>4. CASE StockStep(a)
    BY <2>2, <2>3, <2>4 DEF Loads, Carries, StockStep, StockList, StockClaim, StockDone, StockFail, docs, history
  <2>5. CASE CloseStep(a) \/ TestStep(a) \/ DeleteStep(a) \/ StornoStep(a)
    <3>1. taken' = taken /\ keys' = keys
      BY <2>5 DEF CloseStep, ClosePending, ClosePaid, Unclaim, CloseSum, CloseEnd,
         TestStep, TestPaid, TestPending, TestSet, TestEnd, TestClaim,
         DeleteStep, DeletePaid, DeleteMark, DeleteOrders, DeleteEnd, DeleteClaim,
         StornoStep, StornoClaim, Refund, StornoEnd, StornoThrows, docs, history
    <3>. QED
      BY <2>2, <2>3, <3>1 DEF Loads, Carries
  <2>. QED
    BY <1>3, <2>4, <2>5 DEF Step
<1>. QED
  BY <1>1, <1>2, <1>3 DEF Acts

LEMMA CarriedSame ==
    ASSUME NEW a \in Requests, \A b \in Requests \ {a} : act'[b] = act[b], Loads(a)
    PROVE  \A o \in Orders, i \in Items : Carried(o, i)' <=> Carried(o, i)
<1> SUFFICES ASSUME NEW o \in Orders, NEW i \in Items PROVE Carried(o, i)' <=> Carried(o, i)
  OBVIOUS
<1>1. \A b \in Requests : Carries(act'[b], o, i) <=> Carries(act[b], o, i)
  BY DEF Loads
<1>2. Carried(o, i)' <=> \E b \in Requests : Carries(act'[b], o, i)
  BY DEF Carried, Carries
<1>. QED
  BY <1>1, <1>2 DEF Carried

LEMMA CarriedBy ==
    ASSUME NEW a \in Requests, \A b \in Requests \ {a} : act'[b] = act[b], NEW o \in Orders, NEW i \in Items,
           \A b \in Requests \ {a} : ~Carries(act[b], o, i)
    PROVE  /\ Carried(o, i) <=> Carries(act[a], o, i)
           /\ Carried(o, i)' <=> Carries(act'[a], o, i)
<1>1. Carried(o, i)' <=> \E b \in Requests : Carries(act'[b], o, i)
  BY DEF Carried, Carries
<1>. QED
  BY <1>1 DEF Carried

LEMMA UnitsSame ==
    ASSUME NEW o, NEW i, StockSame(order[o], order'[o]), keys'[i] = keys[i]
    PROVE  Units(o, i)' <=> Units(o, i)
BY DEF Units, Half, StockSame

LEMMA TakenAt ==
    ASSUME Base, NEW o \in Orders, NEW i \in Items, NEW n, taken' = [taken EXCEPT ![o][i] = n],
           NEW p \in Orders, NEW k \in Items
    PROVE  taken'[p][k] = IF p = o /\ k = i THEN n ELSE taken[p][k]
BY TypeParts DEF Base, RestOK

LEMMA LedgerStill ==
    ASSUME Base, Ledger, NEW a \in Requests, \A b \in Requests \ {a} : act'[b] = act[b], Loads(a),
           Still, taken' = taken, keys' = keys
    PROVE  Ledger'
<1>1. ASSUME NEW o \in Orders, NEW i \in Items PROVE taken'[o][i] = IF Carried(o, i)' \/ Units(o, i)' THEN 1 ELSE 0
  BY CarriedSame, UnitsSame DEF Still, Ledger
<1>. QED
  BY <1>1 DEF Ledger

(* A payment's own decrements and increments.                              *)
LEMMA LedgerApply ==
    ASSUME Base, AllCharging, Ledger, NEW a \in Requests, \A b \in Requests \ {a} : act'[b] = act[b],
           ApplyItem(a), act[a].op # "complete", act'[a].op = act[a].op, act'[a].ord = act[a].ord
    PROVE  Ledger'
<1>1. PICK o : o = act[a].ord
  OBVIOUS
<1>2. /\ act[a].pc = "apply" /\ act[a].op \in PayOps /\ o \in Orders /\ order' = order /\ keys' = keys
      /\ \/ taken' = taken /\ act'[a].plan = act[a].plan
         \/ \E i \in Items :
               /\ i \in act[a].rest /\ taken' = [taken EXCEPT ![o][i] = taken[o][i] + 1]
               /\ act'[a].plan[o] = act[a].plan[o] \cup {i}
  BY <1>1, ApplyEffect
<1>3. CASE taken' = taken /\ act'[a].plan = act[a].plan
  BY <1>2, <1>3, LedgerStill, StillSame DEF Loads, Carries
<1>4. ASSUME NEW i \in Items, i \in act[a].rest, taken' = [taken EXCEPT ![o][i] = taken[o][i] + 1],
             act'[a].plan[o] = act[a].plan[o] \cup {i}
      PROVE  Ledger'
  <2>1. act[a].op \in {"sale", "webhook"} /\ act[a].pc \in PreWrite /\ i \notin act[a].plan[o]
    BY <1>1, <1>2, <1>4, Found DEF AllCharging, Charging, PayOps, PreWrite
  <2>2. order[o].status # "PAID" /\ \A b \in Requests \ {a}, k \in Items : ~Carries(act[b], o, k)
    BY <1>1, <2>1, PayerAlone
  <2>3. ~Units(o, i) /\ ~Carried(o, i) /\ Carried(o, i)'
    BY <1>1, <1>2, <1>4, <2>1, <2>2, CarriedBy DEF Units, Carries
  <2>4. taken[o][i] = 0
    BY <1>2, <2>3 DEF Ledger
  <2>5. ASSUME NEW p \in Orders, NEW k \in Items PROVE taken'[p][k] = IF Carried(p, k)' \/ Units(p, k)' THEN 1 ELSE 0
    <3>1. CASE p = o /\ k = i
      <4>1. PICK n : n = taken[o][i] + 1
        OBVIOUS
      <4>2. taken' = [taken EXCEPT ![o][i] = n] /\ o \in Orders /\ taken \in [Orders -> [Items -> Int]]
        BY <1>2, <1>4, <4>1, TypeParts DEF Base, RestOK
      <4>3. taken'[o][i] = n
        BY <4>2
      <4>. QED
        BY <2>3, <2>4, <3>1, <4>1, <4>3
    <3>2. CASE ~(p = o /\ k = i)
      <4>1. taken'[p][k] = taken[p][k]
        BY <1>2, <1>4, <3>2, TakenAt
      <4>2. Units(p, k)' <=> Units(p, k)
        BY <1>2, UnitsSame, StillSame DEF Still
      <4>3. \A b \in Requests : Carries(act'[b], p, k) <=> Carries(act[b], p, k)
        BY <1>1, <1>4, <3>2 DEF Carries
      <4>4. Carried(p, k)' <=> Carried(p, k)
        BY <4>3 DEF Carried, Carries
      <4>. QED
        BY <4>1, <4>2, <4>4 DEF Ledger
    <3>. QED
      BY <3>1, <3>2
  <2>. QED
    BY <2>5 DEF Ledger
<1>. QED
  BY <1>2, <1>3, <1>4

LEMMA LedgerRollback ==
    ASSUME Base, AllCharging, Ledger, NEW a \in Requests, \A b \in Requests \ {a} : act'[b] = act[b],
           Rollback(a), act[a].op # "complete", act'[a].op = act[a].op, act'[a].ord = act[a].ord
    PROVE  Ledger'
<1>1. PICK o : o = act[a].ord
  OBVIOUS
<1>2. act[a].pc = "rollback" /\ act[a].op \in PayOps /\ o \in Orders /\ order' = order /\ keys' = keys
  BY <1>1, RollbackEffect
<1>5. \/ taken' = taken /\ act'[a].plan = act[a].plan
      \/ \E i \in Items : GivesBack(a, o, i)
  BY <1>1, RollbackEffect
<1>3. CASE taken' = taken /\ act'[a].plan = act[a].plan
  BY <1>2, <1>3, LedgerStill, StillSame DEF Loads, Carries
<1>4. ASSUME NEW i \in Items, GivesBack(a, o, i)
      PROVE  Ledger'
  <2>0. /\ i \in act[a].plan[o] /\ taken' = [taken EXCEPT ![o][i] = taken[o][i] - 1]
        /\ act'[a].plan[o] = act[a].plan[o] \ {i}
    BY <1>4 DEF GivesBack
  <2>1. act[a].op \in {"sale", "webhook"} /\ act[a].pc \in PreWrite
    BY <1>1, <1>2, <2>0, Found DEF AllCharging, Charging, PayOps, PreWrite
  <2>2. order[o].status # "PAID" /\ \A b \in Requests \ {a}, k \in Items : ~Carries(act[b], o, k)
    BY <1>1, <2>1, PayerAlone
  <2>3. ~Units(o, i)' /\ Carried(o, i) /\ ~Carried(o, i)'
    BY <1>1, <1>2, <2>0, <2>1, <2>2, CarriedBy DEF Units, Carries
  <2>4. taken[o][i] = 1
    BY <1>2, <2>3 DEF Ledger
  <2>5. ASSUME NEW p \in Orders, NEW k \in Items PROVE taken'[p][k] = IF Carried(p, k)' \/ Units(p, k)' THEN 1 ELSE 0
    <3>1. CASE p = o /\ k = i
      <4>1. PICK n : n = taken[o][i] - 1
        OBVIOUS
      <4>2. taken' = [taken EXCEPT ![o][i] = n] /\ o \in Orders /\ taken \in [Orders -> [Items -> Int]]
        BY <1>2, <2>0, <4>1, TypeParts DEF Base, RestOK
      <4>3. taken'[o][i] = n
        BY <4>2
      <4>. QED
        BY <2>3, <2>4, <3>1, <4>1, <4>3
    <3>2. CASE ~(p = o /\ k = i)
      <4>1. taken'[p][k] = taken[p][k]
        BY <1>2, <2>0, <3>2, TakenAt
      <4>2. Units(p, k)' <=> Units(p, k)
        BY <1>2, UnitsSame, StillSame DEF Still
      <4>3. \A b \in Requests : Carries(act'[b], p, k) <=> Carries(act[b], p, k)
        BY <1>1, <2>0, <3>2 DEF Carries
      <4>4. Carried(p, k)' <=> Carried(p, k)
        BY <4>3 DEF Carried, Carries
      <4>. QED
        BY <4>1, <4>2, <4>4 DEF Ledger
    <3>. QED
      BY <3>1, <3>2
  <2>. QED
    BY <2>5 DEF Ledger
<1>. QED
  BY <1>3, <1>4, <1>5

(* What a crashed payment had taken leaves the ledger with it.             *)
LEMMA LedgerCrash ==
    ASSUME Base, AllCharging, Ledger, NEW a \in Requests, \A b \in Requests \ {a} : act'[b] = act[b], Crash(a)
    PROVE  Ledger'
<1>1. PICK o : o = act[a].ord
  OBVIOUS
<1>2. order' = order /\ keys' = keys /\ act'[a] = Idle
  BY EndsIdle DEF Crash, docs
<1>3. \A p \in Orders, k \in Items : ~Carries(act'[a], p, k)
  BY <1>2, IdleOK DEF Carries, PayOps
<1>4. CASE \A p \in Orders, k \in Items : ~Carries(act[a], p, k)
  <2>1. CASE act[a].pc \notin PayPcs
    <3>1. taken' = taken
      BY <2>1 DEF Crash
    <3>. QED
      BY <1>2, <1>3, <1>4, <3>1, LedgerStill, StillSame DEF Loads
  <2>2. CASE act[a].pc \in PayPcs
    <3>1. act[a].op \in PayOps /\ o \in Orders /\ \A i \in Items : i \notin act[a].plan[o]
      BY <1>1, <1>4, <2>2, Found DEF Carries
    <3>2. taken \in [Orders -> [Items -> Int]]
      BY TypeParts DEF Base, RestOK
    <3>3. taken' = [taken EXCEPT ![o] = [i \in Items |-> IF i \in act[a].plan[o] THEN taken[o][i] - 1 ELSE taken[o][i]]]
      BY <1>1, <2>2, <3>1, <3>2 DEF Crash
    <3>4. ASSUME NEW p \in Orders, NEW k \in Items PROVE taken'[p][k] = taken[p][k]
      BY <3>1, <3>2, <3>3
    <3>5. ASSUME NEW p \in Orders, NEW k \in Items PROVE taken'[p][k] = IF Carried(p, k)' \/ Units(p, k)' THEN 1 ELSE 0
      <4>1. Units(p, k)' <=> Units(p, k)
        BY <1>2, UnitsSame, StillSame DEF Still
      <4>2. Carried(p, k)' <=> Carried(p, k)
        BY <1>3, <1>4, CarriedSame DEF Loads
      <4>. QED
        BY <3>4, <4>1, <4>2 DEF Ledger
    <3>. QED
      BY <3>5 DEF Ledger
  <2>. QED
    BY <2>1, <2>2
<1>5. CASE \E p \in Orders, k \in Items : Carries(act[a], p, k)
  <2>1. act[a].op \in {"sale", "webhook"} /\ act[a].pc \in PreWrite
    BY <1>5, CarrierPays
  <2>2. o \in Orders /\ order[o].status # "PAID" /\ \A b \in Requests \ {a}, k \in Items : ~Carries(act[b], o, k)
    BY <1>1, <2>1, PayerAlone
  <2>3. act[a].pc \in PayPcs /\ taken \in [Orders -> [Items -> Int]]
    BY <2>1, TypeParts DEF PreWrite, PayPcs, Base, RestOK
  <2>4. taken' = [taken EXCEPT ![o] = [i \in Items |-> IF i \in act[a].plan[o] THEN taken[o][i] - 1 ELSE taken[o][i]]]
    BY <1>1, <2>2, <2>3 DEF Crash
  <2>5. ASSUME NEW p \in Orders, NEW k \in Items PROVE taken'[p][k] = IF Carried(p, k)' \/ Units(p, k)' THEN 1 ELSE 0
    <3>1. CASE p = o
      <4>1. taken'[o][k] = IF k \in act[a].plan[o] THEN taken[o][k] - 1 ELSE taken[o][k]
        BY <2>2, <2>3, <2>4
      <4>2. ~Units(o, k) /\ ~Units(o, k)' /\ ~Carried(o, k)' /\ (Carried(o, k) <=> k \in act[a].plan[o])
        BY <1>1, <1>2, <1>3, <2>1, <2>2, CarriedBy DEF Units, Carries, PayOps
      <4>3. taken[o][k] = IF k \in act[a].plan[o] THEN 1 ELSE 0
        BY <2>2, <4>2 DEF Ledger
      <4>. QED
        BY <3>1, <4>1, <4>2, <4>3
    <3>2. CASE p # o
      <4>1. taken'[p][k] = taken[p][k]
        BY <2>2, <2>3, <2>4, <3>2
      <4>2. Units(p, k)' <=> Units(p, k)
        BY <1>2, UnitsSame, StillSame DEF Still
      <4>3. \A b \in Requests : Carries(act'[b], p, k) <=> Carries(act[b], p, k)
        BY <1>1, <1>3, <3>2 DEF Carries
      <4>4. Carried(p, k)' <=> Carried(p, k)
        BY <4>3 DEF Carried, Carries
      <4>. QED
        BY <4>1, <4>2, <4>4 DEF Ledger
    <3>. QED
      BY <3>1, <3>2
  <2>. QED
    BY <2>5 DEF Ledger
<1>. QED
  BY <1>4, <1>5

(* A write hands what the payment took over to the order.                  *)
LEMMA LedgerSell ==
    ASSUME Base, AllCharging, AllMarked, Ledger, NEW a \in Requests, Sells(a)
    PROVE  Ledger'
<1>1. PICK o : o = act[a].ord
  OBVIOUS
<1>2. /\ o \in Orders /\ Only(o) /\ Sold(act[a], order[o], order'[o])
      /\ act[a].op \in {"sale", "webhook"} /\ act[a].pc = "write"
      /\ \A b \in Requests \ {a} : act'[b] = act[b]
      /\ act'[a].op = act[a].op /\ act'[a].ord = o /\ act'[a].plan = NoPlan /\ keys' = keys /\ taken' = taken
  BY <1>1, SellEffect
<1>3. /\ order[o].status # "PAID" /\ \A b \in Requests \ {a}, k \in Items : ~Carries(act[b], o, k)
  BY <1>1, <1>2, PayerAlone DEF PreWrite
<1>4. ASSUME NEW p \in Orders, NEW k \in Items PROVE taken'[p][k] = IF Carried(p, k)' \/ Units(p, k)' THEN 1 ELSE 0
  <2>1. CASE p = o
    <3>1. ~Carried(o, k)' /\ (Carried(o, k) <=> k \in act[a].plan[o]) /\ ~Units(o, k)
      BY <1>1, <1>2, <1>3, CarriedBy DEF Carries, Units, PayOps, NoPlan
    <3>2. order'[o].claim = NoToken
      BY <1>2 DEF Sold, AllMarked, Unmarked
    <3>3. Units(o, k)' <=> k \in act[a].plan[o]
      BY <1>1, <1>2, <3>2 DEF Sold, Units, Half
    <3>. QED
      BY <1>2, <2>1, <3>1, <3>3 DEF Ledger
  <2>2. CASE p # o
    <3>1. Units(p, k)' <=> Units(p, k)
      BY <1>2, <2>2, UnitsSame DEF Only, StockSame
    <3>2. \A b \in Requests : Carries(act'[b], p, k) <=> Carries(act[b], p, k)
      BY <1>1, <1>2, <2>2 DEF Carries
    <3>3. Carried(p, k)' <=> Carried(p, k)
      BY <3>2 DEF Carried, Carries
    <3>. QED
      BY <1>2, <3>1, <3>3 DEF Ledger
  <2>. QED
    BY <2>1, <2>2
<1>. QED
  BY <1>4 DEF Ledger

LEMMA LedgerSame ==
    ASSUME Ledger, NEW a \in Requests, \A b \in Requests \ {a} : act'[b] = act[b], Loads(a), taken' = taken,
           \A o \in Orders, i \in Items : Units(o, i)' <=> Units(o, i)
    PROVE  Ledger'
<1>1. ASSUME NEW o \in Orders, NEW i \in Items PROVE taken'[o][i] = IF Carried(o, i)' \/ Units(o, i)' THEN 1 ELSE 0
  BY CarriedSame DEF Ledger
<1>. QED
  BY <1>1 DEF Ledger

LEMMA UnitsElse ==
    ASSUME NEW o, NEW p \in Orders \ {o}, Only(o), keys' = keys, NEW i
    PROVE  Units(p, i)' <=> Units(p, i)
BY DEF Only, Units, Half

(* A claim that is taken leaves the marks of its token behind it only when *)
(* they already counted.                                                   *)
LEMMA LedgerTake ==
    ASSUME Base, Held, Ledger, AllMarked, NEW a \in Requests, \A b \in Requests \ {a} : act'[b] = act[b],
           Takes(a), Loads(a)
    PROVE  Ledger'
<1>1. PICK o : o = Subject(a)
  OBVIOUS
<1>2. /\ o \in Orders /\ Only(o) /\ Took(act[a], order[o], order'[o]) /\ UNCHANGED <<keys, taken>>
      /\ act[a].op \in SessionOps \cup {"storno"} /\ act[a].pc = IF act[a].op = "storno" THEN "stornoClaim" ELSE "claim"
  BY <1>1, TakeEffect
<1>3. ASSUME NEW i \in Items PROVE Units(o, i)' <=> Units(o, i)
  <2>1. CASE order[o].claim = act[a].tok
    BY <1>2, <2>1 DEF Took, Units, Half
  <2>2. CASE order[o].claim = NoToken
    <3>1. <<act[a].tok, o>> \notin keys[i]
      <4>1. CASE act[a].op = "storno"
        <5>1. act[a].tok = StornoToken /\ order[o].status = "PAID" /\ Unmarked(o, i)
          BY <1>2, <4>1, Found DEF Took, AllMarked
        <5>. QED
          BY <2>2, <5>1, Consts DEF Unmarked, MarksOf
      <4>2. CASE act[a].op \in SessionOps
        <5>1. PICK s \in Sessions : s = act[a].ses
          BY <4>2, Found
        <5>2. act[a].pc = "claim" /\ act[a].tok \in Tokens
          BY <1>2, <4>2, Found DEF Fits, SessionOps, StockPcs
        <5>3. session[s].trans.tok = act[a].tok /\ session[s].trans.type = act[a].op
          BY <4>2, <5>1, <5>2 DEF Held, Holds, PastClaim, TransHeld, StockPcs
        <5>4. order[o].status = "PAID" /\ order[o].effect # Aim(act[a].op)
          BY <1>2, <4>2 DEF Took, SessionOps
        <5>5. Marked(s, o, i)
          BY <1>2, <5>1 DEF AllMarked
        <5>. QED
          BY <1>2, <2>2, <5>2, <5>3, <5>4, <5>5 DEF Marked, MarksOf
      <4>. QED
        BY <1>2, <4>1, <4>2
    <3>. QED
      BY <1>2, <2>2, <3>1 DEF Took, Units, Half
  <2>. QED
    BY <1>2, <2>1, <2>2 DEF Took
<1>. QED
  BY <1>2, <1>3, UnitsElse, LedgerSame

(* Whoever moves units holds the order and its list of units.              *)
LEMMA MoverOwns ==
    ASSUME Base, AllWorking, NEW a \in Requests, act[a].pc = "move", NEW o, o = Subject(a),
           act[a].rest # {} \/ (order[o].status = "PAID" /\ order[o].effect # Aim(act[a].op))
    PROVE  /\ o \in Orders /\ act[a].op \in SessionOps \cup {"storno"} /\ act[a].tok \in Tokens \cup {StornoToken}
           /\ o = Min(act[a].left)
           /\ Owns(act[a], order[o]) /\ Halfway(act[a], o) /\ act[a].plan[o] = order[o].adj
<1>1. act[a].op \in SessionOps \cup {"storno"} /\ act[a] \in RequestStates /\ Handling(act[a]) /\ Reversing(act[a])
  BY Found DEF StockPcs, AllWorking
<1>2. CASE act[a].op = "storno"
  <2>1. o = act[a].ord /\ o \in Orders /\ act[a].left = {o} /\ act[a].tok = StornoToken
    BY <1>2, Found DEF Subject, Fits
  <2>2. o = Min(act[a].left)
    BY <2>1, MinOne
  <2>. QED
    BY <1>1, <1>2, <2>1, <2>2 DEF Reversing, Aim
<1>3. CASE act[a].op \in SessionOps
  <2>1. act[a].op # "storno"
    BY <1>3 DEF SessionOps
  <2>2. o = Min(act[a].left) /\ o \in act[a].left /\ o \in Orders /\ act[a].tok \in Tokens
    BY <1>1, <1>3, <2>1, Found, FirstOf DEF Subject, Fits, StockPcs, RequestStates
  <2>. QED
    BY <1>1, <1>3, <2>2 DEF Handling, Listed, Owns
<1>. QED
  BY <1>1, <1>2, <1>3

LEMMA LedgerClear ==
    ASSUME Base, Ledger, AllMarked, AllWorking, NEW a \in Requests, \A b \in Requests \ {a} : act'[b] = act[b],
           Clears(a), Loads(a)
    PROVE  Ledger'
<1>1. PICK o : o = Subject(a)
  OBVIOUS
<1>2. o \in Orders /\ Only(o) /\ UNCHANGED <<keys, taken>>
  BY <1>1, ClearEffect
<1>0. order \in [Orders -> OrderDocs] /\ act[a] \in RequestStates
  BY Found
<1>3. CASE act[a].pc = "move" /\ act[a].rest = {} /\ Did(act[a], order[o], order'[o])
  <2>1. Owns(act[a], order[o]) /\ Halfway(act[a], o) /\ act[a].plan[o] = order[o].adj
        /\ act[a].tok \in Tokens \cup {StornoToken}
    BY <1>1, <1>3, MoverOwns DEF Did
  <2>2. ASSUME NEW i \in Items, i \in order[o].adj PROVE Half(o, i) /\ ~Half(o, i)'
    BY <1>3, <2>1, <2>2, Consts DEF Half, Halfway, Owns, Did
  <2>3. order[o].effect \in Effects /\ Aim(act[a].op) \in Effects
    BY <1>0, <1>2, EffectsOf DEF OrderDocs
  <2>4. ASSUME NEW i \in Items PROVE Units(o, i)' <=> Units(o, i)
    <3>1. order[o].status = "PAID" /\ order'[o].status = "PAID" /\ order'[o].adj = order[o].adj
          /\ order[o].effect # Aim(act[a].op) /\ order'[o].effect = Aim(act[a].op)
      BY <1>3 DEF Did
    <3>2. CASE i \notin order[o].adj
      BY <3>1, <3>2 DEF Units
    <3>3. CASE i \in order[o].adj
      <4>1. Half(o, i) /\ ~Half(o, i)'
        BY <2>2, <3>3
      <4>2. Units(o, i) <=> order[o].effect # "APPLIED"
        BY <3>1, <3>3, <4>1 DEF Units
      <4>3. Units(o, i)' <=> order'[o].effect = "APPLIED"
        BY <3>1, <3>3, <4>1 DEF Units, Half
      <4>. QED
        BY <2>3, <3>1, <4>2, <4>3 DEF Effects
    <3>. QED
      BY <3>2, <3>3
  <2>. QED
    BY <1>2, <2>4, UnitsElse, LedgerSame
<1>4. CASE act[a].op = "storno" /\ act[a].pc = "stornoEnd" /\ Ended(order[o], order'[o])
  <2>1. o = act[a].ord /\ Reversing(act[a])
    BY <1>0, <1>1, <1>4 DEF Subject, AllWorking
  <2>2. order[o].claim = StornoToken /\ order[o].effect = "REVERTED"
    BY <1>4, <2>1 DEF Reversing, Ended
  <2>3. ASSUME NEW i \in Items PROVE Units(o, i)' <=> Units(o, i)
    <3>1. order[o].target = "REVERTED"
      BY <1>2, <2>2 DEF AllMarked, Unmarked
    <3>. QED
      BY <1>4, <2>2, <3>1 DEF Units, Half, Ended
  <2>. QED
    BY <1>2, <2>3, UnitsElse, LedgerSame
<1>. QED
  BY <1>1, <1>3, <1>4, ClearEffect

(* A session that is deleted has given all its units back.                 *)
LEMMA GivenBack ==
    ASSUME Base, Held, AllMarked, AllGiven, NEW a \in Requests, act[a].op = "delete",
           act[a].pc \in {"deleteOrders", "deleteEnd"}, NEW s, s = act[a].ses
    PROVE  /\ s \in Sessions /\ AllDone(s, "REVERTED", {}) /\ Under(s) = {}
           /\ session[s].trans.type = "delete" /\ session[s].trans.by = a
<1>1. s \in Sessions /\ Bound(s) /\ Given(s) /\ Giving(act[a])
  BY Found DEF AllGiven, SessionOps
<1>2. session[s].trans.type = "delete" /\ session[s].trans.by = a /\ session[s].status = "CLOSED"
  BY DEF Held, Holds, PastClaim, TransHeld, SessionOps
<1>3. AllDone(s, "REVERTED", {})
  BY <1>1, <1>2 DEF Giving, Given
<1>4. ASSUME NEW o \in Under(s) PROVE FALSE
  <2>1. order[o].effect # "REVERTED" /\ o \in OrdersOf(s, "PAID")
    BY <1>1, <1>2 DEF Bound, Aim, Under
  <2>. QED
    BY <1>3, <2>1 DEF AllDone, Done
<1>. QED
  BY <1>1, <1>2, <1>3, <1>4

LEMMA LedgerDelete ==
    ASSUME Base, Held, Ledger, AllMarked, AllGiven, NEW a \in Requests, \A b \in Requests \ {a} : act'[b] = act[b],
           DeleteOrders(a), Loads(a)
    PROVE  Ledger'
<1>1. PICK s : s = act[a].ses
  OBVIOUS
<1>2. act[a].pc = "deleteOrders" /\ act[a].op = "delete"
  BY Found DEF DeleteOrders, DeletePcs
<1>3. AllDone(s, "REVERTED", {}) /\ Under(s) = {}
  BY <1>1, <1>2, GivenBack
<1>4. UNCHANGED <<keys, taken>>
  BY DEF DeleteOrders, history
<1>5. ASSUME NEW o \in Orders, NEW i \in Items PROVE Units(o, i)' <=> Units(o, i)
  <2>1. CASE order[o].ses # s
    BY <1>1, <1>4, <2>1, GoneEffect DEF Units, Half
  <2>2. CASE order[o].ses = s
    <3>1. order'[o].status = "DELETED"
      BY <1>1, <2>2, GoneEffect DEF Gone
    <3>2. ASSUME order[o].status = "PAID" PROVE ~Units(o, i)
      <4>1. order[o].effect = "REVERTED"
        BY <1>3, <2>2, <3>2 DEF AllDone, Done, OrdersOf
      <4>2. order[o].claim \notin Tokens /\ order[o].claim \in Claims
        BY <1>3, <2>2, <3>2, Found DEF Under, OrdersOf, OrderDocs
      <4>3. order[o].claim = StornoToken => order[o].target = "REVERTED"
        BY DEF AllMarked, Unmarked
      <4>. QED
        BY <4>1, <4>2, <4>3 DEF Units, Half, Claims
    <3>. QED
      BY <3>1, <3>2 DEF Units
  <2>. QED
    BY <2>1, <2>2
<1>. QED
  BY <1>4, <1>5, LedgerSame

(* A unit that is moved is marked with it.                                 *)
Turned(a, o, i) == /\ i \in act[a].rest /\ <<act[a].tok, o>> \notin keys[i]
                   /\ keys' = [keys EXCEPT ![i] = keys[i] \cup {<<act[a].tok, o>>}]
                   /\ taken' = [taken EXCEPT ![o][i] = IF Aim(act[a].op) = "APPLIED" THEN taken[o][i] + 1 ELSE taken[o][i] - 1]
                   /\ act'[a] = [act[a] EXCEPT !.rest = act[a].rest \ {i}]

LEMMA MoveEffect ==
    ASSUME Base, NEW a \in Requests, StockMove(a), NEW o, o = Subject(a)
    PROVE  /\ act[a].pc = "move" /\ act[a].rest # {} /\ o \in Orders
           /\ order' = order /\ session' = session
           /\ \/ \E i \in Items : Turned(a, o, i)
              \/ /\ keys' = keys /\ taken' = taken
                 /\ \/ act'[a] = [act[a] EXCEPT !.pc = "fail"]
                    \/ \E i \in Items : /\ i \in act[a].rest /\ <<act[a].tok, o>> \in keys[i]
                                        /\ act'[a] = [act[a] EXCEPT !.rest = act[a].rest \ {i}]
<1>0. /\ act[a] \in RequestStates /\ act \in [Requests -> RequestStates] /\ act[a].pc = "move" /\ act[a].rest # {}
      /\ order' = order /\ session' = session
      /\ keys \in [Items -> SUBSET ((Tokens \cup {StornoToken}) \X Orders)] /\ taken \in [Orders -> [Items -> Int]]
  BY Found DEF StockMove, RestOK
<1>1. act[a].op \in SessionOps \cup {"storno"} /\ act[a].left # {} /\ act[a].left \subseteq Orders
  BY <1>0, Found DEF StockPcs, Fits, RequestStates
<1>2. o = Min(act[a].left) /\ o \in Orders
  <2>1. CASE act[a].op = "storno"
    BY <1>0, <2>1, Found, MinOne DEF Subject, Fits
  <2>2. CASE act[a].op # "storno"
    BY <1>1, <2>2, FirstOf DEF Subject
  <2>. QED
    BY <2>1, <2>2
<1>3. PICK i : i = Min(act[a].rest)
  OBVIOUS
<1>4. i \in act[a].rest /\ i \in Items
  BY <1>0, <1>3, ItemFirst DEF RequestStates
<1>5. Aim(act[a].op) = Target(a)
  BY TargetAim
<1>6. \/ /\ <<act[a].tok, o>> \notin keys[i]
         /\ keys' = [keys EXCEPT ![i] = @ \cup {<<act[a].tok, o>>}]
         /\ taken' = [taken EXCEPT ![o][i] = IF Target(a) = "APPLIED" THEN @ + 1 ELSE @ - 1]
         /\ act' = [act EXCEPT ![a].rest = @ \ {i}]
      \/ /\ <<act[a].tok, o>> \in keys[i] /\ act' = [act EXCEPT ![a].rest = @ \ {i}]
         /\ keys' = keys /\ taken' = taken
      \/ act' = [act EXCEPT ![a].pc = "fail"] /\ keys' = keys /\ taken' = taken
  BY <1>2, <1>3 DEF StockMove, Seen, Goto
<1>7. CASE act' = [act EXCEPT ![a].pc = "fail"] /\ keys' = keys /\ taken' = taken
  BY <1>0, <1>2, <1>7
<1>8. CASE /\ <<act[a].tok, o>> \in keys[i] /\ act' = [act EXCEPT ![a].rest = @ \ {i}]
           /\ keys' = keys /\ taken' = taken
  <2>1. act'[a] = [act[a] EXCEPT !.rest = act[a].rest \ {i}]
    BY <1>0, <1>8 DEF RequestStates
  <2>. QED
    BY <1>0, <1>2, <1>4, <1>8, <2>1
<1>9. CASE /\ <<act[a].tok, o>> \notin keys[i]
           /\ keys' = [keys EXCEPT ![i] = @ \cup {<<act[a].tok, o>>}]
           /\ taken' = [taken EXCEPT ![o][i] = IF Target(a) = "APPLIED" THEN @ + 1 ELSE @ - 1]
           /\ act' = [act EXCEPT ![a].rest = @ \ {i}]
  <2>1. act'[a] = [act[a] EXCEPT !.rest = act[a].rest \ {i}]
    BY <1>0, <1>9 DEF RequestStates
  <2>2. keys' = [keys EXCEPT ![i] = keys[i] \cup {<<act[a].tok, o>>}]
    BY <1>0, <1>4, <1>9
  <2>3. taken' = [taken EXCEPT ![o][i] = IF Aim(act[a].op) = "APPLIED" THEN taken[o][i] + 1 ELSE taken[o][i] - 1]
    BY <1>0, <1>2, <1>4, <1>5, <1>9
  <2>4. Turned(a, o, i)
    BY <1>4, <1>9, <2>1, <2>2, <2>3 DEF Turned
  <2>. QED
    BY <1>0, <1>2, <1>4, <2>4
<1>. QED
  BY <1>6, <1>7, <1>8, <1>9

LEMMA KeysAt ==
    ASSUME Base, NEW a, NEW o, NEW i \in Items, Turned(a, o, i)
    PROVE  keys'[i] = keys[i] \cup {<<act[a].tok, o>>} /\ \A k \in Items \ {i} : keys'[k] = keys[k]
BY TypeParts DEF Turned, Base, RestOK

LEMMA LedgerTurned ==
    ASSUME Base, Ledger, AllCharging, AllWorking, NEW a \in Requests, \A b \in Requests \ {a} : act'[b] = act[b],
           StockMove(a), Loads(a), NEW o, o = Subject(a), NEW i \in Items, Turned(a, o, i)
    PROVE  Ledger'
<1>0. act[a].pc = "move" /\ act[a].rest # {} /\ order' = order
  BY MoveEffect
<1>1. /\ o \in Orders /\ Owns(act[a], order[o]) /\ Halfway(act[a], o) /\ act[a].plan[o] = order[o].adj
      /\ act[a].tok \in Tokens \cup {StornoToken}
  BY <1>0, MoverOwns
<1>2. order \in [Orders -> OrderDocs] /\ taken \in [Orders -> [Items -> Int]]
  BY Found DEF RestOK
<1>3. i \in order[o].adj /\ order[o].status = "PAID" /\ order[o].claim = act[a].tok /\ order[o].claim # NoToken
      /\ order[o].target = Aim(act[a].op) /\ order[o].effect # order[o].target
  BY <1>1, Consts DEF Turned, Owns, Halfway
<1>4. ~Half(o, i) /\ Half(o, i)'
  <2>1. keys'[i] = keys[i] \cup {<<act[a].tok, o>>}
    BY KeysAt
  <2>. QED
    BY <1>0, <1>3, <2>1 DEF Half, Turned
<1>5. ~Carried(o, i)
  <2>1. ASSUME NEW b \in Requests, Carries(act[b], o, i) PROVE FALSE
    BY <1>1, <1>3, <2>1, CarrierPays, PayerAlone
  <2>. QED
    BY <2>1 DEF Carried
<1>6. order[o].effect \in Effects /\ Aim(act[a].op) \in Effects
  BY <1>1, <1>2, EffectsOf DEF OrderDocs
<1>7. (Units(o, i) <=> order[o].effect = "APPLIED") /\ (Units(o, i)' <=> order[o].effect # "APPLIED")
  BY <1>0, <1>3, <1>4 DEF Units, Half
<1>8. taken[o][i] = IF order[o].effect = "APPLIED" THEN 1 ELSE 0
  BY <1>1, <1>5, <1>7 DEF Ledger
<1>9. PICK n : n = IF Aim(act[a].op) = "APPLIED" THEN taken[o][i] + 1 ELSE taken[o][i] - 1
  OBVIOUS
<1>10. taken' = [taken EXCEPT ![o][i] = n]
  BY <1>9 DEF Turned
<1>11. taken'[o][i] = n
  BY <1>1, <1>2, <1>10
<1>12. n = IF order[o].effect = "APPLIED" THEN 0 ELSE 1
  BY <1>3, <1>6, <1>8, <1>9 DEF Effects
<1>13. ASSUME NEW p \in Orders, NEW k \in Items PROVE taken'[p][k] = IF Carried(p, k)' \/ Units(p, k)' THEN 1 ELSE 0
  <2>1. Carried(p, k)' <=> Carried(p, k)
    BY CarriedSame
  <2>2. CASE p = o /\ k = i
    BY <1>5, <1>7, <1>11, <1>12, <2>1, <2>2
  <2>3. CASE ~(p = o /\ k = i)
    <3>1. taken'[p][k] = taken[p][k]
      BY <1>1, <1>10, <2>3, TakenAt
    <3>2. <<order[p].claim, p>> \in keys'[k] <=> <<order[p].claim, p>> \in keys[k]
      <4>1. CASE k = i
        BY <2>3, <4>1, KeysAt
      <4>2. CASE k # i
        BY <4>2, KeysAt
      <4>. QED
        BY <4>1, <4>2
    <3>3. Units(p, k)' <=> Units(p, k)
      BY <1>0, <3>2 DEF Units, Half
    <3>. QED
      BY <2>1, <3>1, <3>3 DEF Ledger
  <2>. QED
    BY <2>2, <2>3
<1>. QED
  BY <1>13 DEF Ledger

LEMMA LedgerActs ==
    ASSUME Base, Base', OpsOK, OpsOK', Held, StockInv, "complete" \notin Ops, NEW a \in Requests, Acts(a)
    PROVE  Ledger'
<1>0. /\ Ledger /\ AllCharging /\ AllMarked /\ AllWorking /\ AllGiven
      /\ \A b \in Requests \ {a} : act'[b] = act[b]
      /\ act[a].op # "complete"
  BY ActsAlone DEF StockInv, OpsOK
<1>1. CASE ApplyItem(a) \/ Rollback(a)
  <2>1. act'[a].op = act[a].op /\ act'[a].ord = act[a].ord
    <3>1. PICK o : o = act[a].ord
      OBVIOUS
    <3>2. act'[a].pc \in {"apply", "rollback", "refresh", "payRelease"}
      BY <1>1, <3>1, ApplyEffect, RollbackEffect DEF GivesBack
    <3>3. act'[a] # Idle
      BY <3>2 DEF Idle
    <3>4. Step(a)
      BY <1>1 DEF Step, PayStep
    <3>. QED
      BY <3>3, <3>4, StepOn DEF StaysOn
  <2>. QED
    BY <1>0, <1>1, <2>1, LedgerApply, LedgerRollback
<1>2. CASE Crash(a)
  BY <1>0, <1>2, LedgerCrash
<1>3. CASE Sells(a)
  BY <1>0, <1>3, LedgerSell
<1>4. CASE ~ApplyItem(a) /\ ~Rollback(a) /\ ~Sells(a) /\ ~Crash(a)
  <2>1. Loads(a) /\ (StockMove(a) \/ (taken' = taken /\ keys' = keys))
    BY <1>0, <1>4, LoadsActs
  <2>2. CASE StockMove(a)
    <3>1. PICK o : o = Subject(a)
      OBVIOUS
    <3>2. CASE \E i \in Items : Turned(a, o, i)
      BY <1>0, <2>1, <2>2, <3>1, <3>2, LedgerTurned
    <3>3. CASE ~\E i \in Items : Turned(a, o, i)
      <4>1. order' = order /\ keys' = keys /\ taken' = taken
        BY <2>2, <3>1, <3>3, MoveEffect
      <4>. QED
        BY <1>0, <2>1, <4>1, LedgerStill, StillSame
    <3>. QED
      BY <3>2, <3>3
  <2>3. CASE taken' = taken /\ keys' = keys
    <3>1. Still \/ Takes(a) \/ Clears(a) \/ DeleteOrders(a)
      BY <1>0, <1>4, StillActs
    <3>. QED
      BY <1>0, <2>1, <2>3, <3>1, LedgerStill, LedgerTake, LedgerClear, LedgerDelete
  <2>. QED
    BY <2>1, <2>2, <2>3
<1>. QED
  BY <1>1, <1>2, <1>3, <1>4

LEMMA LedgerPasses == ASSUME Base, Ledger, Passes PROVE Ledger'
<1>1. act' = act /\ keys' = keys /\ taken' = taken
  BY DEF Passes, OpenSession, PublicOrder, ExpirePay, ExpireTransition, ExpireHook, history, vars
<1>2. ASSUME NEW o \in Orders, NEW i \in Items PROVE taken'[o][i] = IF Carried(o, i)' \/ Units(o, i)' THEN 1 ELSE 0
  BY <1>1, StillPasses, UnitsSame DEF Still, Ledger, Carried, Carries
<1>. QED
  BY <1>2 DEF Ledger

-----------------------------------------------------------------------------
(* What a request that moves stock relies on, whoever else takes a step.   *)
LEMMA Transits ==
    ASSUME Base, Held, NEW a \in Requests, act[a].op \in SessionOps,
           act[a].pc \in {"list", "claim", "move", "testEnd", "deleteMark", "deleteOrders", "deleteEnd"}, NEW s, s = act[a].ses
    PROVE  /\ s \in Sessions /\ session[s].trans.by = a /\ session[s].trans.type = act[a].op
           /\ session[s].trans.tok = act[a].tok
           /\ session[s].status = (IF act[a].op = "close" THEN "OPEN" ELSE "CLOSED")
           /\ act[a].pc \in {"list", "claim", "move"} => act[a].tok \in Tokens
<1>1. s \in Sessions /\ (act[a].pc \in {"list", "claim", "move"} => act[a].tok \in Tokens)
  BY Found DEF Fits, StockPcs
<1>2. PastClaim(act[a])
  BY DEF PastClaim, StockPcs
<1>3. TransHeld(a, act[a], session[s])
  BY <1>2 DEF Held, Holds
<1>. QED
  BY <1>1, <1>3 DEF TransHeld

LEMMA OrderActs ==
    ASSUME Base, NEW a \in Requests, Acts(a), act[a].op # "complete", NEW o \in Orders
    PROVE  \/ StockSame(order[o], order'[o])
           \/ Sells(a) /\ o = act[a].ord /\ Sold(act[a], order[o], order'[o])
           \/ Takes(a) /\ o = Subject(a) /\ Took(act[a], order[o], order'[o])
           \/ Clears(a) /\ o = Subject(a) /\ StockDone(a) /\ act[a].pc = "move" /\ Did(act[a], order[o], order'[o])
           \/ Clears(a) /\ o = Subject(a) /\ act[a].op = "storno" /\ act[a].pc = "stornoEnd" /\ Ended(order[o], order'[o])
           \/ DeleteOrders(a) /\ order[o].ses = act[a].ses /\ Gone(order'[o])
<1>0. ASSUME order'[o] = order[o] PROVE StockSame(order[o], order'[o])
  BY <1>0 DEF StockSame
<1>1. CASE Still
  BY <1>1 DEF Still
<1>2. CASE Sells(a)
  BY <1>0, <1>2, SellEffect DEF Only
<1>3. CASE Takes(a)
  <2>1. PICK p : p = Subject(a)
    OBVIOUS
  <2>. QED
    BY <1>0, <1>3, <2>1, TakeEffect DEF Only
<1>4. CASE Clears(a)
  <2>1. PICK p : p = Subject(a)
    OBVIOUS
  <2>2. Only(p) /\ \/ StockDone(a) /\ act[a].pc = "move" /\ Did(act[a], order[p], order'[p])
                   \/ act[a].op = "storno" /\ act[a].pc = "stornoEnd" /\ Ended(order[p], order'[p])
    BY <1>4, <2>1, ClearEffect
  <2>. QED
    BY <1>0, <1>4, <2>1, <2>2 DEF Only
<1>5. CASE DeleteOrders(a)
  BY <1>0, <1>5, GoneEffect
<1>. QED
  BY <1>1, <1>2, <1>3, <1>4, <1>5, StillActs

LEMMA KeysGrow ==
    ASSUME Base, AllCharging, NEW a \in Requests, Acts(a), act[a].op # "complete", NEW i \in Items
    PROVE  keys[i] \subseteq keys'[i]
<1>1. CASE keys' = keys
  BY <1>1
<1>2. CASE StockMove(a)
  <2>1. PICK o : o = Subject(a)
    OBVIOUS
  <2>2. keys' = keys \/ \E k \in Items : Turned(a, o, k)
    BY <1>2, <2>1, MoveEffect
  <2>3. ASSUME NEW k \in Items, Turned(a, o, k) PROVE keys[i] \subseteq keys'[i]
    BY <2>3, KeysAt
  <2>. QED
    BY <2>2, <2>3
<1>3. CASE ApplyItem(a) \/ Rollback(a) \/ Sells(a) \/ Crash(a)
  BY <1>3 DEF ApplyItem, Rollback, Sells, WriteSale, WriteWebhook, Crash, docs
<1>. QED
  BY <1>1, <1>2, <1>3, LoadsActs

LEMMA ListedKept ==
    ASSUME Base, NEW a \in Requests, Acts(a), act[a].op # "complete", NEW o \in Orders, NEW r, Listed(r, o)
    PROVE  Listed(r, o)'
BY OrderActs DEF Listed, StockSame, Sold, Took, Did, Ended, Gone, Due

LEMMA OwnsKept ==
    ASSUME Base, Held, Apart, AllWorking, NEW a \in Requests, Acts(a), act[a].op # "complete",
           NEW b \in Requests \ {a}, act[b].op \in SessionOps, act[b].pc \in {"claim", "move"},
           NEW o \in Orders, Listed(act[b], o), Owns(act[b], order[o])
    PROVE  Owns(act[b], order'[o])
<1>1. PICK s : s = act[b].ses
  OBVIOUS
<1>2. s \in Sessions /\ session[s].trans.by = b /\ session[s].trans.tok = act[b].tok /\ act[b].tok \in Tokens
  BY <1>1, Transits
<1>3. ASSUME act[a].op \in SessionOps, act[a].pc \in {"claim", "move"}, act[a].tok = act[b].tok PROVE FALSE
  <2>1. PICK z : z = act[a].ses
    OBVIOUS
  <2>2. z \in Sessions /\ session[z].trans.by = a /\ session[z].trans.tok = act[a].tok
    BY <1>3, <2>1, Transits
  <2>. QED
    BY <1>2, <1>3, <2>2 DEF Apart
<1>4. act[a].op = "storno" => act[a].tok = StornoToken /\ StornoToken # act[b].tok
  BY <1>2, Found, Consts
<1>5. act[b].tok # NoToken
  BY <1>2, Consts
<1>6. CASE StockSame(order[o], order'[o])
  BY <1>6 DEF StockSame, Owns
<1>7. CASE Sold(act[a], order[o], order'[o])
  BY <1>7 DEF Sold, Owns, Due
<1>8. CASE Takes(a) /\ o = Subject(a) /\ Took(act[a], order[o], order'[o])
  <2>1. act[a].op \in SessionOps \cup {"storno"} /\ (act[a].op # "storno" => act[a].pc = "claim")
    BY <1>8, TakeEffect
  <2>. QED
    BY <1>3, <1>4, <1>5, <1>8, <2>1 DEF Took, Owns
<1>9. CASE StockDone(a) /\ act[a].pc = "move" /\ Did(act[a], order[o], order'[o])
  <2>1. act[a].op \in SessionOps \cup {"storno"}
    BY <1>9, Found DEF StockPcs
  <2>. QED
    BY <1>3, <1>4, <1>9, <2>1 DEF Did, Owns
<1>10. CASE Clears(a) /\ o = Subject(a) /\ act[a].op = "storno" /\ act[a].pc = "stornoEnd" /\ Ended(order[o], order'[o])
  <2>1. act[a] \in RequestStates /\ o = act[a].ord
    BY <1>10, Found DEF Subject
  <2>2. order[o].claim = StornoToken
    BY <1>10, <2>1 DEF AllWorking, Reversing, Ended
  <2>. QED
    BY <1>2, <2>2, Consts DEF Owns
<1>11. CASE DeleteOrders(a) /\ order[o].ses = act[a].ses
  <2>1. act[a].op = "delete" /\ act[a].pc = "deleteOrders"
    BY <1>11, Found DEF DeleteOrders, DeletePcs
  <2>2. act[a].ses = s
    BY <1>1, <1>11 DEF Listed, Owns
  <2>3. session[s].trans.by = a
    BY <2>1, <2>2, Transits DEF SessionOps
  <2>. QED
    BY <1>2, <2>3
<1>. QED
  BY <1>6, <1>7, <1>8, <1>9, <1>10, <1>11, OrderActs

LEMMA HandlingOther ==
    ASSUME Base, Held, Apart, AllCharging, AllWorking, NEW a \in Requests, Acts(a), act[a].op # "complete",
           NEW b \in Requests \ {a}, NEW r, act[b] = r
    PROVE  Handling(r)'
<1>1. r \in RequestStates /\ Handling(r)
  BY Found DEF AllWorking
<1>2. SUFFICES ASSUME r.op \in SessionOps, r.pc \in {"claim", "move"} PROVE Handling(r)'
  BY DEF Handling
<1>3. r.todo \subseteq Orders /\ r.left \subseteq r.todo
  BY <1>1, <1>2 DEF Handling, RequestStates
<1>4. \A o \in r.todo : Listed(r, o) /\ Listed(r, o)'
  BY <1>1, <1>2, <1>3, ListedKept DEF Handling
<1>5. ASSUME NEW o \in r.todo, Owns(r, order[o]) PROVE Owns(r, order'[o])
  BY <1>2, <1>3, <1>4, <1>5, OwnsKept
<1>6. ASSUME NEW o, o = Min(r.left), Halfway(r, o), r.left # {} PROVE Halfway(r, o)'
  <2>1. o \in Orders /\ r.plan[o] \subseteq Items
    BY <1>1, <1>3, <1>6, FirstOf DEF RequestStates
  <2>. QED
    BY <1>6, <2>1, KeysGrow DEF Halfway
<1>7. r.pc = "move" => r.left # {}
  BY Found DEF Fits
<1>. QED
  BY <1>1, <1>2, <1>3, <1>4, <1>5, <1>6, <1>7 DEF Handling

LEMMA StornoHeld ==
    ASSUME Base, Held, OneStorno, AllMarked, AllGiven, AllWorking, NEW a \in Requests, Acts(a), act[a].op # "complete",
           NEW b \in Requests \ {a}, act[b].op = "storno", NEW o, o = act[b].ord,
           order[o].status = "DELETED" \/ (order[o].status = "PAID" /\ order[o].claim = StornoToken)
    PROVE  \/ StockSame(order[o], order'[o])
           \/ order'[o].status = "DELETED" /\ (order[o].status = "PAID" => order[o].effect = "REVERTED")
<1>0. o \in Orders /\ StornoToken # NoToken
  BY Found, Consts
<1>1. act[a].op = "storno" => act[a].ord # o
  BY DEF OneStorno
<1>2. act[a].op \in SessionOps /\ act[a].pc \in {"claim", "move"} => act[a].tok \in Tokens /\ StornoToken \notin Tokens
  BY Transits, Consts
<1>3. act[a].op = "storno" => Subject(a) = act[a].ord
  BY DEF Subject
<1>4. CASE Sold(act[a], order[o], order'[o])
  BY <1>4 DEF Sold, Due
<1>5. CASE Takes(a) /\ o = Subject(a) /\ Took(act[a], order[o], order'[o])
  <2>1. act[a].op \in SessionOps \cup {"storno"} /\ (act[a].op # "storno" => act[a].pc = "claim")
    BY <1>5, TakeEffect
  <2>. QED
    BY <1>0, <1>1, <1>2, <1>3, <1>5, <2>1 DEF Took
<1>6. CASE StockDone(a) /\ o = Subject(a) /\ act[a].pc = "move" /\ Did(act[a], order[o], order'[o])
  <2>1. act[a].op \in SessionOps \cup {"storno"}
    BY <1>6, Found DEF StockPcs
  <2>. QED
    BY <1>0, <1>1, <1>2, <1>3, <1>6, <2>1 DEF Did
<1>7. CASE o = Subject(a) /\ act[a].op = "storno" /\ Ended(order[o], order'[o])
  BY <1>1, <1>3, <1>7
<1>8. CASE DeleteOrders(a) /\ order[o].ses = act[a].ses /\ Gone(order'[o])
  <2>1. act[a].op = "delete" /\ act[a].pc = "deleteOrders"
    BY <1>8, Found DEF DeleteOrders, DeletePcs
  <2>2. PICK s : s = act[a].ses
    OBVIOUS
  <2>3. AllDone(s, "REVERTED", {})
    BY <2>1, <2>2, GivenBack
  <2>. QED
    BY <1>0, <1>8, <2>2, <2>3 DEF AllDone, Done, OrdersOf, Gone
<1>. QED
  BY <1>0, <1>4, <1>5, <1>6, <1>7, <1>8, OrderActs

LEMMA ReversingOther ==
    ASSUME Base, Held, OneStorno, AllCharging, AllMarked, AllGiven, AllWorking, NEW a \in Requests, Acts(a),
           act[a].op # "complete", NEW b \in Requests \ {a}, NEW r, act[b] = r
    PROVE  Reversing(r)'
<1>1. r \in RequestStates /\ Reversing(r)
  BY Found DEF AllWorking
<1>2. SUFFICES ASSUME r.op = "storno", r.pc \in {"refund", "move", "stornoEnd"} PROVE Reversing(r)'
  BY DEF Reversing
<1>3. PICK o : o = r.ord
  OBVIOUS
<1>4. o \in Orders /\ (order[o].status = "DELETED" \/ (order[o].status = "PAID" /\ order[o].claim = StornoToken))
  BY <1>1, <1>2, <1>3, Found DEF Reversing
<1>5. \/ StockSame(order[o], order'[o])
      \/ order'[o].status = "DELETED" /\ (order[o].status = "PAID" => order[o].effect = "REVERTED")
  BY <1>2, <1>3, <1>4, StornoHeld
<1>6. Halfway(r, o) => Halfway(r, o)'
  <2>1. r.plan[o] \subseteq Items
    BY <1>1, <1>4 DEF RequestStates
  <2>. QED
    BY <2>1, KeysGrow DEF Halfway
<1>7. CASE r.pc = "stornoEnd"
  BY <1>1, <1>2, <1>3, <1>5, <1>7 DEF Reversing, StockSame
<1>8. CASE r.pc \in {"refund", "move"}
  <2>1. CASE order'[o].status = "DELETED" /\ (order[o].status = "PAID" => order[o].effect = "REVERTED")
    <3>1. r.rest = {}
      BY <1>1, <1>2, <1>3, <1>8, <2>1 DEF Reversing, Owns, Aim
    <3>. QED
      BY <1>2, <1>3, <1>8, <2>1, <3>1 DEF Reversing
  <2>2. CASE StockSame(order[o], order'[o])
    <3>1. order'[o].status = "DELETED" \/ (order'[o].status = "PAID" /\ order'[o].claim = StornoToken)
      BY <1>4, <2>2 DEF StockSame
    <3>2. CASE Owns(r, order[o]) /\ r.plan[o] = order[o].adj /\ Halfway(r, o)
      <4>1. Owns(r, order'[o]) /\ r.plan[o] = order'[o].adj /\ Halfway(r, o)'
        BY <1>6, <2>2, <3>2 DEF StockSame, Owns
      <4>. QED
        BY <1>2, <1>3, <1>8, <3>1, <4>1 DEF Reversing
    <3>3. CASE r.rest = {} /\ (order[o].status = "PAID" => order[o].effect = "REVERTED")
      <4>1. order'[o].status = "PAID" => order'[o].effect = "REVERTED"
        BY <2>2, <3>3 DEF StockSame
      <4>. QED
        BY <1>2, <1>3, <1>8, <3>1, <3>3, <4>1 DEF Reversing
    <3>. QED
      BY <1>1, <1>2, <1>3, <1>8, <3>2, <3>3 DEF Reversing
  <2>. QED
    BY <1>5, <2>1, <2>2
<1>. QED
  BY <1>2, <1>7, <1>8

(* Most steps leave whoever takes them without stock to move.              *)
Away(r) == /\ r.op \in SessionOps => r.pc \notin {"claim", "move"}
           /\ r.op = "storno" => r.pc \notin {"refund", "move", "stornoEnd"}

LEMMA AwayWorks ==
    ASSUME NEW r, Away(r)
    PROVE  Handling(r)' /\ Reversing(r)'
BY DEF Away, Handling, Reversing

LEMMA AwayIdle == Away(Idle)
BY IdleOK DEF Away, SessionOps

LEMMA AwayGoto ==
    ASSUME Base, NEW a \in Requests, NEW pc, Goto(a, pc), pc \notin {"claim", "move", "refund", "stornoEnd"}
    PROVE  Away(act'[a])
BY GotoFields DEF Away

LEMMA AwayActs ==
    ASSUME Base, Base', NEW a \in Requests, Acts(a),
           ~StockList(a), ~StockClaim(a), ~StockMove(a), ~StockDone(a), ~StornoClaim(a), ~Refund(a)
    PROVE  Away(act'[a])
<1>0. SessionOps \cap (PayOps \cup {"storno"}) = {} /\ "storno" \notin PayOps
  BY DEF SessionOps, PayOps
<1>1. CASE PayStep(a)
  <2>1. act[a].op \in PayOps
    BY <1>1, Found DEF PayStep, PayClaim, ApplyItem, Rollback, Refresh, WriteSale, WriteCard, WriteComplete, WriteWebhook,
       WriteFails, Trigger, Link, Cancel, PayRelease, HookRelease, PayPcs
  <2>2. act'[a] = Idle \/ act'[a].op \in PayOps
    BY <1>1, <2>1, StepOn DEF Step, StaysOn
  <2>. QED
    BY <1>0, <2>2, AwayIdle DEF Away
<1>2. CASE Crash(a) \/ StornoEnd(a) \/ StornoThrows(a) \/ StockFail(a)
  BY <1>2, EndsIdle, AwayIdle DEF Crash, StornoEnd, StornoThrows, StockFail
<1>3. CASE BeginPayment(a) \/ BeginManagement(a)
  <2>1. CASE \E o \in Orders : StornoBegin(a, o)
    <3>1. act'[a].pc = "stornoClaim"
      BY <2>1, Found DEF StornoBegin, Begin, Request, Idle
    <3>. QED
      BY <3>1 DEF Away
  <2>2. CASE ~\E o \in Orders : StornoBegin(a, o)
    BY <1>3, <2>2, BeginQuiet DEF FirstPcs, Away
  <2>. QED
    BY <2>1, <2>2
<1>4. CASE CloseStep(a)
  <2>1. CASE CloseSum(a)
    BY <2>1, SumEffect DEF Away
  <2>2. CASE Unclaim(a) \/ CloseEnd(a)
    BY <2>2, EndsIdle, AwayIdle DEF Unclaim, CloseEnd
  <2>3. CASE ClosePending(a) \/ ClosePaid(a)
    BY <2>3, AwayGoto DEF ClosePending, ClosePaid
  <2>. QED
    BY <1>4, <2>1, <2>2, <2>3 DEF CloseStep
<1>5. CASE TestStep(a)
  <2>1. CASE TestSet(a) \/ TestEnd(a)
    BY <2>1, EndsIdle, AwayIdle DEF TestSet, TestEnd
  <2>2. CASE TestPaid(a) \/ TestPending(a)
    BY <2>2, EndsIdle, AwayIdle, AwayGoto DEF TestPaid, TestPending
  <2>3. ASSUME NEW t \in Tokens, TestClaim(a, t) PROVE Away(act'[a])
    <3>1. End(a) \/ act' = [act EXCEPT ![a].pc = "list", ![a].tok = t]
      BY <2>3 DEF TestClaim
    <3>2. End(a) \/ act'[a].pc = "list"
      BY <3>1, Found DEF RequestStates
    <3>. QED
      BY <3>2, EndsIdle, AwayIdle DEF Away
  <2>. QED
    BY <1>5, <2>1, <2>2, <2>3 DEF TestStep
<1>6. CASE DeleteStep(a)
  <2>1. CASE DeleteEnd(a)
    BY <2>1, EndsIdle, AwayIdle DEF DeleteEnd
  <2>2. CASE DeletePaid(a) \/ DeleteMark(a) \/ DeleteOrders(a)
    BY <2>2, EndsIdle, AwayIdle, AwayGoto DEF DeletePaid, DeleteMark, DeleteOrders
  <2>3. ASSUME NEW t \in Tokens, DeleteClaim(a, t) PROVE Away(act'[a])
    <3>1. PICK pc \in {"deleteOrders", "list"} : End(a) \/ act' = [act EXCEPT ![a].tok = t, ![a].pc = pc]
      BY <2>3 DEF DeleteClaim
    <3>2. End(a) \/ act'[a].pc = pc
      BY <3>1, Found DEF RequestStates
    <3>. QED
      BY <3>2, EndsIdle, AwayIdle DEF Away
  <2>. QED
    BY <1>6, <2>1, <2>2, <2>3 DEF DeleteStep
<1>. QED
  BY <1>1, <1>2, <1>3, <1>4, <1>5, <1>6 DEF Acts, Step, StockStep, StornoStep

(* The steps that list, claim and move stock.                              *)
LEMMA WorksList ==
    ASSUME Base, NEW a \in Requests, StockList(a), NEW r, act'[a] = r
    PROVE  Handling(r)' /\ Reversing(r)'
<1>0. /\ act[a] \in RequestStates /\ act \in [Requests -> RequestStates] /\ act[a].pc = "list" /\ order' = order
      /\ order \in [Orders -> OrderDocs]
  BY Found DEF StockList, docs
<1>1. act[a].op \in SessionOps /\ act[a].op # "storno"
  BY <1>0, Found DEF StockPcs, Fits, SessionOps
<1>2. CASE Goto(a, "fail")
  BY <1>2, AwayGoto, AwayWorks
<1>3. CASE ~Goto(a, "fail")
  <2>1. PICK found \in SUBSET Orders : found = {o \in OrdersOf(act[a].ses, "PAID") : order[o].effect # Target(a)}
    BY DEF OrdersOf
  <2>2. PICK plan : plan = [o \in Orders |-> IF o \in found THEN order[o].adj ELSE {}]
    OBVIOUS
  <2>3. act' = [act EXCEPT ![a].pc = "claim", ![a].todo = found, ![a].left = found, ![a].plan = plan]
    BY <1>3, <2>1, <2>2 DEF StockList
  <2>4. r.op = act[a].op /\ r.ses = act[a].ses /\ r.pc = "claim" /\ r.todo = found /\ r.left = found /\ r.plan = plan
    BY <1>0, <2>3 DEF RequestStates
  <2>5. ASSUME NEW o \in found PROVE Listed(r, o)'
    <3>1. order[o].status = "PAID" /\ order[o].ses = act[a].ses /\ plan[o] = order[o].adj
      BY <2>1, <2>2, <2>5 DEF OrdersOf
    <3>. QED
      BY <1>0, <2>4, <3>1 DEF Listed, Due
  <2>. QED
    BY <1>1, <2>4, <2>5 DEF Handling, Reversing
<1>. QED
  BY <1>2, <1>3

LEMMA AfterAway ==
    ASSUME Base, NEW a \in Requests, act[a].op \in SessionOps, NEW r, r.op = act[a].op, r.pc = AfterStock(act[a].op)
    PROVE  Away(r)
BY AfterOps DEF Away, AfterPcsOf, SessionOps

LEMMA WorksClaim ==
    ASSUME Base, AllWorking, NEW a \in Requests, Acts(a), StockClaim(a), NEW r, act'[a] = r
    PROVE  Handling(r)' /\ Reversing(r)'
<1>0. act[a] \in RequestStates /\ act \in [Requests -> RequestStates] /\ act[a].pc = "claim"
  BY Found DEF StockClaim
<1>1. act[a].op \in SessionOps /\ act[a].op \notin {"storno", "complete"}
  BY <1>0, Found DEF StockPcs, Fits, SessionOps
<1>2. /\ act[a].left \subseteq act[a].todo /\ act[a].todo \subseteq Orders
      /\ \A o \in act[a].todo : Listed(act[a], o)
      /\ \A o \in act[a].todo \ act[a].left : Owns(act[a], order[o])
  BY <1>0, <1>1 DEF AllWorking, Handling, RequestStates
<1>7. PICK q : q = act[a]
  OBVIOUS
<1>3. \A o \in q.todo : Listed(q, o)'
  <2>1. ASSUME NEW o \in q.todo PROVE Listed(q, o)'
    <3>1. o \in Orders /\ Listed(q, o)
      BY <1>2, <1>7, <2>1
    <3>. QED
      BY <1>1, <3>1, ListedKept
  <2>. QED
    BY <2>1
<1>4. CASE Goto(a, "fail")
  BY <1>4, AwayGoto, AwayWorks
<1>5. CASE Takes(a)
  <2>1. PICK o : o = Subject(a)
    OBVIOUS
  <2>2. o \in Orders /\ Only(o) /\ Took(act[a], order[o], order'[o])
    BY <1>5, <2>1, TakeEffect
  <2>3. o = Min(act[a].left)
    BY <1>1, <2>1 DEF Subject
  <2>4. act[a].left # {} /\ act' = [act EXCEPT ![a].left = act[a].left \ {o}]
    <3>1. act[a].left # {} /\ ClaimOk(a, o)
      BY <1>0, <1>5, <2>3 DEF Takes, StornoClaim
    <3>. QED
      BY <2>3, <3>1 DEF StockClaim
  <2>5. r = [act[a] EXCEPT !.left = act[a].left \ {o}]
    BY <1>0, <2>4
  <2>6. /\ r.op = act[a].op /\ r.ses = act[a].ses /\ r.pc = "claim" /\ r.todo = act[a].todo
        /\ r.left = act[a].left \ {o} /\ r.plan = act[a].plan /\ r.tok = act[a].tok
    BY <1>0, <2>5 DEF RequestStates
  <2>7. ASSUME NEW p \in act[a].todo PROVE Listed(r, p)'
    BY <1>3, <1>7, <2>6, <2>7 DEF Listed
  <2>8. ASSUME NEW p \in r.todo \ r.left PROVE Owns(r, order'[p])
    <3>1. CASE p = o
      BY <1>1, <2>2, <2>6, <3>1 DEF Took, Owns
    <3>2. CASE p # o
      <4>1. order'[p] = order[p] /\ Owns(act[a], order[p])
        BY <1>2, <2>2, <2>6, <2>8, <3>2 DEF Only
      <4>. QED
        BY <2>6, <4>1 DEF Owns
    <3>. QED
      BY <3>1, <3>2
  <2>. QED
    BY <1>1, <1>2, <2>6, <2>7, <2>8 DEF Handling, Reversing
<1>6. CASE act[a].left = {}
  <2>1. PICK todo : todo = act[a].todo
    OBVIOUS
  <2>2. PICK pc : pc = IF todo = {} THEN AfterStock(act[a].op) ELSE "move"
    OBVIOUS
  <2>3. act' = [act EXCEPT ![a].pc = pc, ![a].left = todo, ![a].rest = FirstPlan(a, todo)] /\ order' = order
    BY <1>6, <2>1, <2>2 DEF StockClaim
  <2>4. r = [act[a] EXCEPT !.pc = pc, !.left = todo, !.rest = FirstPlan(a, todo)]
    BY <1>0, <2>3
  <2>5. /\ r.op = act[a].op /\ r.ses = act[a].ses /\ r.pc = pc /\ r.todo = todo
        /\ r.left = todo /\ r.plan = act[a].plan /\ r.tok = act[a].tok /\ r.rest = FirstPlan(a, todo)
    BY <1>0, <2>1, <2>4 DEF RequestStates
  <2>6. CASE todo = {}
    BY <1>1, <2>2, <2>5, <2>6, AfterAway, AwayWorks
  <2>7. CASE todo # {}
    <3>1. r.rest = r.plan[Min(r.left)] /\ r.pc = "move"
      BY <2>2, <2>5, <2>7 DEF FirstPlan
    <3>2. Halfway(r, Min(r.left))'
      BY <3>1 DEF Halfway
    <3>3. ASSUME NEW p \in r.todo PROVE Listed(r, p)' /\ Owns(r, order'[p])
      <4>1. Listed(q, p)' /\ Owns(q, order[p])
        BY <1>2, <1>3, <1>6, <1>7, <2>1, <2>5, <3>3
      <4>. QED
        BY <1>7, <2>3, <2>5, <4>1 DEF Listed, Owns
    <3>. QED
      BY <1>1, <2>5, <3>1, <3>2, <3>3 DEF Handling, Reversing
  <2>. QED
    BY <2>6, <2>7
<1>. QED
  BY <1>0, <1>4, <1>5, <1>6 DEF StockClaim, Takes

LEMMA WorksMove ==
    ASSUME Base, AllWorking, NEW a \in Requests, StockMove(a), NEW r, act'[a] = r
    PROVE  Handling(r)' /\ Reversing(r)'
<1>1. PICK o : o = Subject(a)
  OBVIOUS
<1>2. act[a].pc = "move" /\ act[a].rest # {} /\ order' = order /\ act[a] \in RequestStates
  BY Found, MoveEffect
<1>3. /\ o \in Orders /\ Owns(act[a], order[o]) /\ Halfway(act[a], o) /\ act[a].plan[o] = order[o].adj
      /\ o = Min(act[a].left) /\ act[a].op \in SessionOps \cup {"storno"}
  BY <1>1, <1>2, MoverOwns
<1>4. CASE r = [act[a] EXCEPT !.pc = "fail"]
  <2>1. r.op = act[a].op /\ r.pc = "fail"
    BY <1>2, <1>4 DEF RequestStates
  <2>. QED
    BY <2>1, AwayWorks DEF Away
<1>5. ASSUME NEW i \in Items, r = [act[a] EXCEPT !.rest = act[a].rest \ {i}], <<act[a].tok, o>> \in keys'[i],
             \A k \in Items : keys[k] \subseteq keys'[k]
      PROVE  Handling(r)' /\ Reversing(r)'
  <2>1. /\ r.op = act[a].op /\ r.ses = act[a].ses /\ r.pc = "move" /\ r.todo = act[a].todo /\ r.ord = act[a].ord
        /\ r.left = act[a].left /\ r.plan = act[a].plan /\ r.tok = act[a].tok /\ r.rest = act[a].rest \ {i}
        /\ act[a].plan[o] \subseteq Items
    BY <1>2, <1>3, <1>5 DEF RequestStates
  <2>2. Halfway(r, o)'
    BY <1>3, <1>5, <2>1 DEF Halfway
  <2>3. CASE act[a].op = "storno"
    <3>1. o = r.ord /\ Reversing(act[a]) /\ r.op \notin SessionOps
      BY <1>1, <1>2, <2>1, <2>3 DEF Subject, AllWorking, SessionOps
    <3>2. order[o].status = "DELETED" \/ (order[o].status = "PAID" /\ order[o].claim = StornoToken)
      BY <1>2, <2>1, <2>3, <3>1 DEF Reversing
    <3>3. Owns(r, order'[o])
      BY <1>2, <1>3, <2>1 DEF Owns
    <3>. QED
      BY <1>2, <1>3, <2>1, <2>2, <3>1, <3>2, <3>3 DEF Handling, Reversing
  <2>4. CASE act[a].op \in SessionOps
    <3>1. r.op # "storno" /\ Handling(act[a])
      BY <1>2, <2>1, <2>4 DEF AllWorking, SessionOps
    <3>2. r.left \subseteq r.todo
      BY <1>2, <2>1, <2>4, <3>1 DEF Handling
    <3>3. ASSUME NEW p \in r.todo PROVE Listed(r, p)'
      <4>1. Listed(act[a], p)
        BY <1>2, <2>1, <2>4, <3>1, <3>3 DEF Handling
      <4>. QED
        BY <1>2, <2>1, <4>1 DEF Listed
    <3>4. ASSUME NEW p \in r.left PROVE Owns(r, order'[p])
      <4>1. Owns(act[a], order[p])
        BY <1>2, <2>1, <2>4, <3>1, <3>4 DEF Handling
      <4>. QED
        BY <1>2, <2>1, <4>1 DEF Owns
    <3>. QED
      BY <1>3, <2>1, <2>2, <3>1, <3>2, <3>3, <3>4 DEF Handling, Reversing
  <2>. QED
    BY <1>3, <2>3, <2>4
<1>6. \A i \in Items : Turned(a, o, i) => <<act[a].tok, o>> \in keys'[i] /\ \A k \in Items : keys[k] \subseteq keys'[k]
  BY KeysAt
<1>7. \/ \E i \in Items : Turned(a, o, i)
      \/ r = [act[a] EXCEPT !.pc = "fail"]
      \/ keys' = keys /\ \E i \in Items : <<act[a].tok, o>> \in keys[i] /\ r = [act[a] EXCEPT !.rest = act[a].rest \ {i}]
  BY <1>1, MoveEffect
<1>8. ASSUME NEW i \in Items, Turned(a, o, i) PROVE Handling(r)' /\ Reversing(r)'
  BY <1>5, <1>6, <1>8 DEF Turned
<1>9. ASSUME NEW i \in Items, keys' = keys, <<act[a].tok, o>> \in keys[i], r = [act[a] EXCEPT !.rest = act[a].rest \ {i}]
      PROVE  Handling(r)' /\ Reversing(r)'
  BY <1>5, <1>9
<1>. QED
  BY <1>4, <1>7, <1>8, <1>9

LEMMA WorksDone ==
    ASSUME Base, AllWorking, NEW a \in Requests, Acts(a), StockDone(a), NEW r, act'[a] = r
    PROVE  Handling(r)' /\ Reversing(r)'
<1>0. act[a] \in RequestStates /\ act \in [Requests -> RequestStates] /\ act[a].pc = "move" /\ act[a].rest = {}
  BY Found DEF StockDone
<1>1. act[a].op \in SessionOps \cup {"storno"} /\ act[a].op # "complete" /\ act[a].left # {} /\ act[a].left \subseteq Orders
  BY <1>0, Found DEF StockPcs, Fits, SessionOps, RequestStates
<1>2. PICK o : o = Min(act[a].left)
  OBVIOUS
<1>3. o \in act[a].left /\ o \in Orders
  BY <1>1, <1>2, FirstOf
<1>4. Target(a) = Aim(act[a].op)
  BY TargetAim
<1>5. PICK left : left = act[a].left \ {o}
  OBVIOUS
<1>6. PICK pc : pc = IF left = {} THEN AfterStock(act[a].op) ELSE "move"
  OBVIOUS
<1>7. /\ \/ Mine(a) /\ order' = [order EXCEPT ![o].effect = Target(a),
                                     ![o].claim = IF act[a].op = "storno" THEN order[o].claim ELSE NoToken]
         \/ ~Mine(a) /\ order' = order
      /\ \/ /\ Mine(a) \/ (order[o].status # "DELETED" /\ order[o].effect = Target(a))
            /\ r = [act[a] EXCEPT !.pc = pc, !.left = left, !.rest = FirstPlan(a, left)]
         \/ r = [act[a] EXCEPT !.pc = "fail"]
  BY <1>0, <1>2, <1>3, <1>5, <1>6 DEF StockDone, Mine
<1>8. CASE r = [act[a] EXCEPT !.pc = "fail"]
  <2>1. r.op = act[a].op /\ r.pc = "fail"
    BY <1>0, <1>8 DEF RequestStates
  <2>. QED
    BY <2>1, AwayWorks DEF Away
<1>9. CASE /\ Mine(a) \/ (order[o].status # "DELETED" /\ order[o].effect = Target(a))
           /\ r = [act[a] EXCEPT !.pc = pc, !.left = left, !.rest = FirstPlan(a, left)]
  <2>1. /\ r.op = act[a].op /\ r.ses = act[a].ses /\ r.pc = pc /\ r.todo = act[a].todo /\ r.ord = act[a].ord
        /\ r.left = left /\ r.plan = act[a].plan /\ r.tok = act[a].tok /\ r.rest = FirstPlan(a, left)
    BY <1>0, <1>9 DEF RequestStates
  <2>2. CASE act[a].op = "storno"
    <3>1. o = act[a].ord /\ left = {} /\ r.pc = "stornoEnd" /\ Reversing(act[a]) /\ r.op = "storno"
      <4>1. act[a].left = {act[a].ord} /\ act[a].ord \in Orders
        BY <1>0, <2>2, Found DEF Fits
      <4>. QED
        BY <1>0, <1>2, <1>5, <1>6, <2>1, <2>2, <4>1, MinOne DEF AfterStock, AllWorking
    <3>2. order[o].status = "DELETED" \/ (order[o].status = "PAID" /\ order[o].claim = StornoToken)
      BY <1>0, <2>2, <3>1 DEF Reversing
    <3>3. order \in [Orders -> OrderDocs] /\ Target(a) = "REVERTED"
      BY <1>4, <2>2, Found DEF Aim
    <3>4. order'[o].status = "DELETED" \/ (order'[o].status = "PAID" /\ order'[o].claim = StornoToken /\ order'[o].effect = "REVERTED")
      <4>1. CASE Mine(a) /\ order' = [order EXCEPT ![o].effect = Target(a), ![o].claim = order[o].claim]
        BY <1>3, <3>2, <3>3, <4>1 DEF OrderDocs
      <4>2. CASE ~Mine(a) /\ order' = order
        BY <1>9, <3>2, <3>3, <4>2
      <4>. QED
        BY <1>7, <2>2, <4>1, <4>2
    <3>. QED
      BY <2>1, <3>1, <3>4 DEF Handling, Reversing, SessionOps
  <2>3. CASE act[a].op \in SessionOps /\ left = {}
    BY <1>6, <2>1, <2>3, AfterAway, AwayWorks
  <2>4. CASE act[a].op \in SessionOps /\ left # {}
    <3>0. Handling(act[a]) /\ r.op # "storno" /\ r.pc = "move"
      BY <1>0, <1>6, <2>1, <2>4 DEF AllWorking, SessionOps
    <3>1. act[a].left \subseteq act[a].todo /\ act[a].todo \subseteq Orders
      BY <1>0, <2>4, <3>0 DEF Handling, RequestStates
    <3>2. PICK q : q = act[a]
      OBVIOUS
    <3>3. ASSUME NEW p \in q.todo PROVE Listed(q, p)'
      <4>1. p \in Orders /\ Listed(q, p)
        BY <1>0, <2>4, <3>0, <3>1, <3>2, <3>3 DEF Handling
      <4>. QED
        BY <1>1, <4>1, ListedKept
    <3>4. ASSUME NEW p \in r.todo PROVE Listed(r, p)'
      BY <2>1, <3>2, <3>3, <3>4 DEF Listed
    <3>5. ASSUME NEW p \in r.left PROVE Owns(r, order'[p])
      <4>1. p \in Orders /\ p # o /\ p \in act[a].left
        BY <1>1, <1>5, <2>1, <3>5
      <4>2. order'[p] = order[p]
        BY <1>3, <1>7, <4>1, Found
      <4>3. Owns(act[a], order[p])
        BY <1>0, <2>4, <3>0, <4>1 DEF Handling
      <4>. QED
        BY <2>1, <4>2, <4>3 DEF Owns
    <3>6. r.rest = r.plan[Min(r.left)]
      BY <2>1, <2>4 DEF FirstPlan
    <3>7. Halfway(r, Min(r.left))'
      BY <3>6 DEF Halfway
    <3>8. r.left \subseteq r.todo
      BY <1>5, <2>1, <3>1
    <3>. QED
      BY <2>1, <3>0, <3>4, <3>5, <3>7, <3>8 DEF Handling, Reversing
  <2>. QED
    BY <1>1, <2>2, <2>3, <2>4
<1>. QED
  BY <1>7, <1>8, <1>9

LEMMA WorksStorno ==
    ASSUME Base, AllWorking, NEW a \in Requests, StornoClaim(a) \/ Refund(a), NEW r, act'[a] = r
    PROVE  Handling(r)' /\ Reversing(r)'
<1>0. act[a] \in RequestStates /\ act \in [Requests -> RequestStates] /\ order \in [Orders -> OrderDocs] /\ act[a].op = "storno"
  BY Found DEF StornoClaim, Refund, StornoPcs
<1>1. PICK o : o = act[a].ord
  OBVIOUS
<1>2. o \in Orders /\ act[a].tok = StornoToken /\ "storno" \notin SessionOps
  BY <1>0, <1>1, Found DEF SessionOps
<1>3. CASE r = Idle
  BY <1>3, AwayIdle, AwayWorks
<1>4. CASE StornoClaim(a) /\ r # Idle
  <2>1. /\ order[o].status = "PAID" /\ StornoHas(a, o)
        /\ order' = [order EXCEPT ![o].claim = StornoToken, ![o].target = "REVERTED"]
    BY <1>1, <1>4, StornoTakes
  <2>2. /\ order'[o].status = "PAID" /\ order'[o].claim = StornoToken /\ order'[o].target = "REVERTED"
        /\ order'[o].adj = order[o].adj /\ order'[o].effect = order[o].effect
    BY <1>0, <1>2, <2>1 DEF OrderDocs
  <2>3. /\ r.pc \in {"refund", "move"} /\ r.op = "storno" /\ r.ord = o /\ r.tok = StornoToken
        /\ r.plan[o] = Effective(o) /\ r.rest = Effective(o)
    BY <2>1 DEF StornoHas
  <2>4. CASE order[o].effect = "REVERTED"
    <3>1. r.rest = {}
      BY <2>3, <2>4 DEF Effective
    <3>. QED
      BY <1>2, <2>2, <2>3, <2>4, <3>1 DEF Handling, Reversing
  <2>5. CASE order[o].effect # "REVERTED"
    <3>1. r.plan[o] = order'[o].adj /\ r.rest = r.plan[o]
      BY <2>2, <2>3, <2>5 DEF Effective
    <3>2. Owns(r, order'[o]) /\ Halfway(r, o)'
      BY <2>2, <2>3, <2>5, <3>1 DEF Owns, Halfway, Aim
    <3>. QED
      BY <1>2, <2>2, <2>3, <3>1, <3>2 DEF Handling, Reversing
  <2>. QED
    BY <2>4, <2>5
<1>5. CASE Refund(a) /\ r # Idle
  <2>1. act[a].pc = "refund" /\ order' = order /\ keys' = keys /\ act' = [act EXCEPT ![a].pc = "move", ![a].flag = TRUE]
    BY <1>5, EndsIdle DEF Refund
  <2>2. /\ r.op = "storno" /\ r.pc = "move" /\ r.ord = o /\ r.plan = act[a].plan
        /\ r.tok = act[a].tok /\ r.rest = act[a].rest
    BY <1>0, <1>1, <2>1 DEF RequestStates
  <2>3. Reversing(act[a])
    BY <1>0 DEF AllWorking
  <2>4. /\ order'[o].status = "DELETED" \/ (order'[o].status = "PAID" /\ order'[o].claim = StornoToken)
        /\ \/ Owns(act[a], order'[o]) /\ act[a].plan[o] = order'[o].adj /\ Halfway(act[a], o)
           \/ act[a].rest = {} /\ (order'[o].status = "PAID" => order'[o].effect = "REVERTED")
    BY <1>0, <1>1, <2>1, <2>3 DEF Reversing
  <2>5. Owns(act[a], order'[o]) <=> Owns(r, order'[o])
    BY <1>0, <2>2 DEF Owns
  <2>6. Halfway(act[a], o) => Halfway(r, o)'
    BY <2>1, <2>2 DEF Halfway
  <2>. QED
    BY <1>2, <2>2, <2>4, <2>5, <2>6 DEF Handling, Reversing
<1>. QED
  BY <1>3, <1>4, <1>5

LEMMA WorksActs ==
    ASSUME Base, Base', OpsOK, Held, RefundInv, StockInv, "complete" \notin Ops, NEW a \in Requests, Acts(a)
    PROVE  AllWorking'
<1>0. /\ AllCharging /\ AllMarked /\ AllWorking /\ AllGiven /\ Apart /\ OneStorno
      /\ \A b \in Requests \ {a} : act'[b] = act[b]
      /\ act[a].op # "complete"
  BY ActsAlone DEF StockInv, OpsOK, RefundInv
<1>1. ASSUME NEW b \in Requests, NEW r \in RequestStates, act'[b] = r PROVE Handling(r)' /\ Reversing(r)'
  <2>1. CASE b # a
    <3>1. act[b] = r
      BY <1>0, <1>1, <2>1
    <3>. QED
      BY <1>0, <2>1, <3>1, HandlingOther, ReversingOther
  <2>2. CASE b = a
    <3>1. act'[a] = r
      BY <1>1, <2>2
    <3>2. CASE StockList(a) \/ StockClaim(a) \/ StockMove(a) \/ StockDone(a) \/ StornoClaim(a) \/ Refund(a)
      BY <1>0, <3>1, <3>2, WorksList, WorksClaim, WorksMove, WorksDone, WorksStorno
    <3>3. CASE ~(StockList(a) \/ StockClaim(a) \/ StockMove(a) \/ StockDone(a) \/ StornoClaim(a) \/ Refund(a))
      <4>1. Away(r)
        BY <3>1, <3>3, AwayActs
      <4>. QED
        BY <4>1, AwayWorks
    <3>. QED
      BY <3>2, <3>3
  <2>. QED
    BY <2>1, <2>2
<1>. QED
  BY <1>1 DEF AllWorking

LEMMA WorksPasses == ASSUME Base, AllWorking, Passes PROVE AllWorking'
<1>1. act' = act /\ keys' = keys
  BY DEF Passes, OpenSession, PublicOrder, ExpirePay, ExpireTransition, ExpireHook, history, vars
<1>2. \A o \in Orders : StockSame(order[o], order'[o])
  BY StillPasses DEF Still
<1>3. ASSUME NEW b \in Requests, NEW r \in RequestStates, act'[b] = r PROVE Handling(r)' /\ Reversing(r)'
  <2>1. act[b] = r /\ Handling(r) /\ Reversing(r)
    BY <1>1, <1>3 DEF AllWorking
  <2>2. ASSUME NEW o \in Orders PROVE /\ Listed(r, o) => Listed(r, o)'
                                      /\ Owns(r, order[o]) => Owns(r, order'[o])
                                      /\ Halfway(r, o) => Halfway(r, o)'
    BY <1>1, <1>2 DEF Listed, Owns, Halfway, StockSame, Due
  <2>3. r.op = "storno" => r.ord \in Orders
    BY <2>1, Found
  <2>4. r.op \in SessionOps /\ r.pc = "move" => r.left \subseteq Orders /\ Min(r.left) \in Orders
    BY <1>3, <2>1, Found, FirstOf DEF RequestStates, Fits
  <2>5. Handling(r)'
    <3>1. r.todo \subseteq Orders
      BY <1>3 DEF RequestStates
    <3>. QED
      BY <2>1, <2>2, <2>4, <3>1 DEF Handling
  <2>6. Reversing(r)'
    <3>1. CASE r.op = "storno"
      <4>1. PICK o : o = r.ord
        OBVIOUS
      <4>2. o \in Orders /\ StockSame(order[o], order'[o])
        BY <1>2, <2>3, <3>1, <4>1
      <4>3. \/ order'[o].status = "DELETED" /\ order[o].status = "DELETED"
            \/ /\ order'[o].status = order[o].status /\ order[o].status = "PAID"
               /\ order'[o].claim = order[o].claim /\ order'[o].effect = order[o].effect /\ order'[o].adj = order[o].adj
            \/ order[o].status \notin {"DELETED", "PAID"}
        BY <4>2 DEF StockSame
      <4>4. (Owns(r, order[o]) => Owns(r, order'[o])) /\ (Halfway(r, o) => Halfway(r, o)')
        BY <2>2, <4>2
      <4>5. order[o].status = "DELETED" => ~Owns(r, order[o])
        BY DEF Owns
      <4>6. CASE r.pc \in {"refund", "move"}
        <5>1. order[o].status = "DELETED" \/ (order[o].status = "PAID" /\ order[o].claim = StornoToken)
          BY <2>1, <3>1, <4>1, <4>6 DEF Reversing
        <5>2. \/ Owns(r, order[o]) /\ r.plan[o] = order[o].adj /\ Halfway(r, o)
              \/ r.rest = {} /\ (order[o].status = "PAID" => order[o].effect = "REVERTED")
          BY <2>1, <3>1, <4>1, <4>6 DEF Reversing
        <5>3. \/ Owns(r, order'[o]) /\ r.plan[o] = order'[o].adj /\ Halfway(r, o)'
              \/ r.rest = {} /\ (order'[o].status = "PAID" => order'[o].effect = "REVERTED")
          BY <4>3, <4>4, <4>5, <5>1, <5>2
        <5>. QED
          BY <3>1, <4>1, <4>3, <4>6, <5>1, <5>3 DEF Reversing
      <4>7. CASE r.pc \notin {"refund", "move"}
        BY <2>1, <3>1, <4>1, <4>3, <4>7 DEF Reversing
      <4>. QED
        BY <4>6, <4>7
    <3>. QED
      BY <3>1 DEF Reversing
  <2>. QED
    BY <2>5, <2>6
<1>. QED
  BY <1>3 DEF AllWorking

-----------------------------------------------------------------------------
(* The marks on the entities, and the tokens they carry.                   *)
LEMMA TokStep ==
    ASSUME Base, NEW a, NEW s \in Sessions, SessionStep(a, s)
    PROVE  \/ session'[s].trans.tok = session[s].trans.tok /\ session'[s].trans.type = session[s].trans.type
           \/ session'[s].trans.tok = NoToken
           \/ Fresh(session'[s].trans.tok) /\ keys' = keys
<1>0. session \in [Sessions -> SessionDocs]
  BY TypeParts DEF Base
<1>1. CASE Alike(session[s], session'[s])
  BY <1>1 DEF Alike
<1>2. CASE Taking(a, session[s], session'[s]) /\ keys' = keys
  BY <1>2 DEF Taking
<1>3. CASE Freeing(a, session[s], session'[s])
  BY <1>3, NoneHolds DEF Freeing
<1>4. CASE Marking(a, s)
  BY <1>0, <1>4 DEF Marking, SessionDocs
<1>. QED
  BY <1>1, <1>2, <1>3, <1>4 DEF SessionStep

LEMMA FreshUnused ==
    ASSUME Base, NEW t, Fresh(t)
    PROVE  /\ t \in Tokens /\ \A s \in Sessions : session[s].trans.tok # t
           /\ \A o \in Orders, i \in Items : <<t, o>> \notin keys[i]
<1>1. t \in Tokens /\ \A s \in Sessions : session[s].trans.tok # t
  BY DEF Fresh, UsedTokens
<1>2. ASSUME NEW o \in Orders, NEW i \in Items, <<t, o>> \in keys[i] PROVE FALSE
  <2>1. <<t, o>> \in UNION {keys[k] : k \in Items}
    BY <1>2
  <2>2. <<t, o>>[1] \in {k[1] : k \in UNION {keys[j] : j \in Items}}
    BY <2>1
  <2>3. t \in {k[1] : k \in UNION {keys[j] : j \in Items}}
    BY <2>2
  <2>. QED
    BY <2>3 DEF Fresh, UsedTokens
<1>. QED
  BY <1>1, <1>2

LEMMA ApartStep ==
    ASSUME Base, Apart, NEW a, \A s \in Sessions : SessionStep(a, s), NEW q, Alone(q)
    PROVE  Apart'
<1>1. ASSUME NEW s \in Sessions, NEW z \in Sessions, session'[s].trans.tok \in Tokens,
             session'[z].trans.tok = session'[s].trans.tok, z # s
      PROVE  FALSE
  <2>1. ASSUME NEW u \in Sessions, NEW v \in Sessions, u # v, session'[v] = session[v],
               session'[u].trans.tok \in Tokens, session'[v].trans.tok = session'[u].trans.tok
        PROVE  FALSE
    <3>1. CASE session'[u].trans.tok = session[u].trans.tok
      BY <2>1, <3>1 DEF Apart
    <3>2. CASE session'[u].trans.tok = NoToken
      BY <2>1, <3>2, Consts
    <3>3. CASE Fresh(session'[u].trans.tok)
      <4>1. PICK t : t = session'[u].trans.tok
        OBVIOUS
      <4>. QED
        BY <2>1, <3>3, <4>1, FreshUnused
    <3>. QED
      BY <3>1, <3>2, <3>3, TokStep
  <2>2. session'[s] = session[s] \/ session'[z] = session[z]
    BY <1>1 DEF Alone
  <2>. QED
    BY <1>1, <2>1, <2>2
<1>. QED
  BY <1>1 DEF Apart

(* A mark is old, or that of the request that takes the step, on the order *)
(* it holds.                                                               *)
LEMMA MarkNew ==
    ASSUME Base, AllCharging, AllWorking, NEW a \in Requests, Acts(a), act[a].op # "complete",
           NEW o \in Orders, NEW i \in Items, NEW t, <<t, o>> \in keys'[i], <<t, o>> \notin keys[i]
    PROVE  /\ order' = order /\ t = act[a].tok /\ Owns(act[a], order[o]) /\ o = Subject(a)
           /\ act[a].op \in SessionOps \cup {"storno"} /\ act[a].pc = "move" /\ t \in Tokens \cup {StornoToken}
           /\ act[a].op \in SessionOps => Listed(act[a], o)
<1>1. StockMove(a)
  <2>1. CASE ApplyItem(a) \/ Rollback(a) \/ Sells(a) \/ Crash(a)
    BY <2>1 DEF ApplyItem, Rollback, Sells, WriteSale, WriteWebhook, Crash, docs
  <2>. QED
    BY <2>1, LoadsActs
<1>2. PICK p : p = Subject(a)
  OBVIOUS
<1>3. /\ act[a].pc = "move" /\ act[a].rest # {} /\ order' = order
      /\ keys' = keys \/ \E k \in Items : Turned(a, p, k)
  BY <1>1, <1>2, MoveEffect
<1>4. PICK k \in Items : Turned(a, p, k)
  BY <1>3
<1>5. k = i
  BY <1>4, KeysAt
<1>6. <<t, o>> = <<act[a].tok, p>>
  BY <1>4, <1>5, KeysAt
<1>7. t = act[a].tok /\ p = o
  BY <1>6
<1>8. /\ Owns(act[a], order[o]) /\ act[a].op \in SessionOps \cup {"storno"} /\ act[a].tok \in Tokens \cup {StornoToken}
      /\ o = Min(act[a].left)
  BY <1>2, <1>3, <1>7, MoverOwns
<1>9. ASSUME act[a].op \in SessionOps PROVE Listed(act[a], o)
  <2>1. act[a] \in RequestStates /\ act[a].left # {} /\ act[a].left \subseteq Orders /\ Handling(act[a])
    BY <1>3, Found DEF Fits, RequestStates, AllWorking
  <2>2. o \in act[a].left
    BY <1>8, <2>1, FirstOf
  <2>. QED
    BY <1>3, <1>9, <2>1, <2>2 DEF Handling
<1>. QED
  BY <1>2, <1>3, <1>7, <1>8, <1>9

LEMMA StornoTok ==
    ASSUME Base, NEW a \in Requests, act[a].pc \in {"claim", "move", "stornoClaim"}, act[a].op \in SessionOps \cup {"storno"}
    PROVE  (act[a].tok = StornoToken <=> act[a].op = "storno") /\ act[a].tok # NoToken
<1>1. act[a].op = "storno" => act[a].tok = StornoToken
  BY Found
<1>2. act[a].op \in SessionOps => act[a].tok \in Tokens
  BY Found DEF Fits, StockPcs, StornoPcs, SessionOps
<1>. QED
  BY <1>1, <1>2, Consts

LEMMA UnmarkedActs ==
    ASSUME Base, AllMarked, AllCharging, AllWorking, NEW a \in Requests, Acts(a), act[a].op # "complete",
           NEW o \in Orders, NEW i \in Items
    PROVE  Unmarked(o, i)'
<1>0. Unmarked(o, i) /\ StornoToken # NoToken
  BY Consts DEF AllMarked
<1>1. ASSUME order[o].status # "PAID" PROVE MarksOf(o, i)' \subseteq MarksOf(o, i)
  BY <1>1, MarkNew DEF MarksOf, Owns
<1>2. ASSUME order' # order PROVE MarksOf(o, i)' \subseteq MarksOf(o, i)
  BY <1>2, MarkNew DEF MarksOf
<1>3. CASE StockSame(order[o], order'[o])
  <2>1. Due(order'[o]) => MarksOf(o, i)' = {}
    <3>1. Due(order[o]) => order[o].status # "PAID"
      BY DEF Due
    <3>. QED
      BY <1>0, <1>1, <1>3, <3>1 DEF Unmarked, StockSame
  <2>2. order'[o].claim = StornoToken => order'[o].target = "REVERTED"
    BY <1>0, <1>3 DEF Unmarked, StockSame
  <2>3. ASSUME order'[o].status = "PAID", StornoToken \in MarksOf(o, i)' PROVE order'[o].claim = StornoToken
    <3>1. order[o].status = "PAID" /\ order'[o].claim = order[o].claim
      BY <1>3, <2>3 DEF StockSame
    <3>2. CASE StornoToken \in MarksOf(o, i)
      BY <1>0, <3>1, <3>2 DEF Unmarked
    <3>3. CASE StornoToken \notin MarksOf(o, i)
      <4>1. <<StornoToken, o>> \in keys'[i] /\ <<StornoToken, o>> \notin keys[i]
        BY <2>3, <3>3 DEF MarksOf
      <4>2. StornoToken = act[a].tok /\ Owns(act[a], order[o])
        BY <4>1, MarkNew
      <4>. QED
        BY <3>1, <4>2 DEF Owns
    <3>. QED
      BY <3>2, <3>3
  <2>. QED
    BY <2>1, <2>2, <2>3 DEF Unmarked
<1>4. CASE ~StockSame(order[o], order'[o])
  <2>1. order' # order
    BY <1>4, StillSame DEF Still
  <2>2. CASE Sold(act[a], order[o], order'[o])
    BY <1>0, <1>2, <2>1, <2>2 DEF Sold, Unmarked, Due
  <2>3. CASE Takes(a) /\ o = Subject(a) /\ Took(act[a], order[o], order'[o])
    <3>1. /\ act[a].op \in SessionOps \cup {"storno"}
          /\ act[a].pc \in {"claim", "stornoClaim"}
      BY <2>3, TakeEffect
    <3>2. act[a].tok = StornoToken <=> act[a].op = "storno"
      BY <3>1, StornoTok
    <3>. QED
      BY <1>0, <1>2, <2>1, <2>3, <3>2 DEF Took, Unmarked, Due, Aim
  <2>4. CASE StockDone(a) /\ act[a].pc = "move" /\ Did(act[a], order[o], order'[o])
    <3>1. act[a].op \in SessionOps \cup {"storno"}
      BY <2>4, Found DEF StockPcs
    <3>2. act[a].tok = StornoToken <=> act[a].op = "storno"
      BY <2>4, <3>1, StornoTok
    <3>. QED
      BY <1>0, <1>2, <2>1, <2>4, <3>2 DEF Did, Unmarked, Due
  <2>5. CASE Ended(order[o], order'[o]) \/ Gone(order'[o])
    BY <1>0, <2>5 DEF Ended, Gone, Unmarked, Due
  <2>. QED
    BY <1>4, <2>2, <2>3, <2>4, <2>5, OrderActs
<1>. QED
  BY <1>3, <1>4

LEMMA DueActs ==
    ASSUME Base, AllMarked, NEW a \in Requests, Acts(a), act[a].op # "complete", NEW o \in Orders, Due(order'[o])
    PROVE  order'[o].claim = NoToken
<1>1. Due(order[o]) => order[o].claim = NoToken
  BY DEF AllMarked
<1>. QED
  BY <1>1, OrderActs DEF StockSame, Sold, Took, Did, Ended, Gone, Due

LEMMA MarkedActs ==
    ASSUME Base, Held, AllMarked, Apart, AllCharging, AllWorking, NEW a \in Requests, Acts(a), act[a].op # "complete",
           NEW s \in Sessions, SessionStep(a, s), NEW o \in Orders, NEW i \in Items
    PROVE  Marked(s, o, i)'
<1>0. session \in [Sessions -> SessionDocs] /\ Marked(s, o, i) /\ Unmarked(o, i)
  BY Found DEF AllMarked
<1>1. PICK t : t = session'[s].trans.tok
  OBVIOUS
<1>2. SUFFICES ASSUME <<t, o>> \in keys'[i], t \in Tokens \cup {StornoToken}, order'[o].status = "PAID"
               PROVE  order'[o].ses = s /\ (order'[o].claim # NoToken \/ order'[o].effect = Aim(session'[s].trans.type))
  BY <1>1 DEF Marked, MarksOf
<1>3. t = session[s].trans.tok /\ session'[s].trans.type = session[s].trans.type
  <2>1. t # NoToken
    BY <1>2, Consts
  <2>2. ~(Fresh(t) /\ keys' = keys)
    BY <1>2, FreshUnused
  <2>. QED
    BY <1>1, <2>1, <2>2, TokStep
<1>4. t \in Tokens
  BY <1>0, <1>2, <1>3, Consts DEF SessionDocs, Transitions
<1>5. CASE <<t, o>> \notin keys[i]
  <2>1. /\ order' = order /\ t = act[a].tok /\ Owns(act[a], order[o]) /\ act[a].op \in SessionOps \cup {"storno"}
        /\ act[a].pc = "move" /\ (act[a].op \in SessionOps => Listed(act[a], o))
    BY <1>2, <1>5, MarkNew
  <2>2. act[a].op \in SessionOps
    BY <1>4, <2>1, StornoTok, Consts
  <2>3. PICK z : z = act[a].ses
    OBVIOUS
  <2>4. z \in Sessions /\ session[z].trans.tok = t
    BY <2>1, <2>2, <2>3, Transits
  <2>5. z = s
    BY <1>3, <1>4, <2>4 DEF Apart
  <2>. QED
    BY <1>4, <2>1, <2>2, <2>3, <2>5, Consts DEF Listed, Owns
<1>6. CASE <<t, o>> \in keys[i]
  <2>0. t \in MarksOf(o, i)
    BY <1>2, <1>6 DEF MarksOf
  <2>1. order[o].status = "PAID" => order[o].ses = s /\ (order[o].claim # NoToken \/ order[o].effect = Aim(session[s].trans.type))
    BY <1>0, <1>3, <2>0 DEF Marked
  <2>2. CASE StockSame(order[o], order'[o])
    BY <1>2, <1>3, <2>1, <2>2 DEF StockSame
  <2>3. CASE Sold(act[a], order[o], order'[o])
    BY <1>0, <2>0, <2>3 DEF Sold, Unmarked
  <2>4. CASE Takes(a) /\ o = Subject(a) /\ Took(act[a], order[o], order'[o])
    <3>1. act[a].op \in SessionOps \cup {"storno"} /\ act[a].pc \in {"claim", "stornoClaim"}
      BY <2>4, TakeEffect
    <3>2. act[a].tok # NoToken
      BY <3>1, StornoTok
    <3>. QED
      BY <2>1, <2>4, <3>2 DEF Took
  <2>5. CASE StockDone(a) /\ o = Subject(a) /\ act[a].pc = "move" /\ Did(act[a], order[o], order'[o])
    <3>1. act[a].op \in SessionOps \cup {"storno"}
      BY <2>5, Found DEF StockPcs
    <3>2. CASE act[a].op = "storno"
      BY <2>1, <2>5, <3>1, <3>2, StornoTok DEF Did
    <3>3. CASE act[a].op \in SessionOps
      <4>1. act[a] \in RequestStates /\ act[a].left # {} /\ act[a].left \subseteq Orders /\ Handling(act[a])
        BY <2>5, Found DEF Fits, RequestStates, AllWorking
      <4>2. o \in act[a].left
        BY <2>5, <3>3, <4>1, FirstOf DEF Subject, SessionOps
      <4>3. Listed(act[a], o)
        BY <2>5, <3>3, <4>1, <4>2 DEF Handling
      <4>4. act[a].ses = s
        BY <2>1, <2>5, <4>3 DEF Listed, Did
      <4>5. session[s].trans.type = act[a].op
        BY <2>5, <3>3, <4>4, Transits
      <4>. QED
        BY <1>3, <2>1, <2>5, <4>5 DEF Did
    <3>. QED
      BY <3>1, <3>2, <3>3
  <2>6. CASE Ended(order[o], order'[o]) \/ Gone(order'[o])
    BY <1>2, <2>6 DEF Ended, Gone
  <2>. QED
    BY <2>2, <2>3, <2>4, <2>5, <2>6, OrderActs
<1>. QED
  BY <1>5, <1>6

LEMMA MarksPasses ==
    ASSUME Base, AllMarked, Passes, NEW a, \A s \in Sessions : SessionStep(a, s)
    PROVE  AllMarked'
<1>1. keys' = keys
  BY DEF Passes, OpenSession, PublicOrder, ExpirePay, ExpireTransition, ExpireHook, history, vars
<1>4. ASSUME NEW o \in Orders, Due(order'[o]) PROVE order'[o].claim = NoToken
  BY <1>4, StillPasses DEF Still, AllMarked, StockSame
<1>2. ASSUME NEW o \in Orders, NEW i \in Items PROVE Unmarked(o, i)'
  <2>1. StockSame(order[o], order'[o]) /\ Unmarked(o, i) /\ MarksOf(o, i)' = MarksOf(o, i)
    BY <1>1, StillPasses DEF Still, AllMarked, MarksOf
  <2>. QED
    BY <2>1, Consts DEF Unmarked, StockSame
<1>3. ASSUME NEW s \in Sessions, NEW o \in Orders, NEW i \in Items PROVE Marked(s, o, i)'
  <2>1. StockSame(order[o], order'[o]) /\ Marked(s, o, i) /\ MarksOf(o, i)' = MarksOf(o, i)
    BY <1>1, StillPasses DEF Still, AllMarked, MarksOf
  <2>2. PICK t : t = session'[s].trans.tok
    OBVIOUS
  <2>3. CASE t = session[s].trans.tok /\ session'[s].trans.type = session[s].trans.type
    BY <2>1, <2>2, <2>3 DEF Marked, StockSame
  <2>4. CASE t = NoToken \/ Fresh(t)
    <3>1. t \notin MarksOf(o, i)
      BY <2>4, FreshUnused, Consts DEF MarksOf
    <3>. QED
      BY <2>1, <2>2, <3>1 DEF Marked
  <2>. QED
    BY <2>2, <2>3, <2>4, TokStep
<1>. QED
  BY <1>2, <1>3, <1>4 DEF AllMarked, Due

-----------------------------------------------------------------------------
(* The orders a transition has claimed.                                    *)
LEMMA ShrinksOr ==
    ASSUME Base, Held, HookSes, NEW a \in Requests, Acts(a), NEW s \in Sessions
    PROVE  Shrinks(s) \/ (session[s].trans = NoTransition /\ session[s].status = "OPEN")
<1>1. CASE CalmStep
  BY <1>1, CalmShrinks
<1>2. CASE Writes(a) \/ Link(a)
  <2>1. PICK o : o = act[a].ord
    OBVIOUS
  <2>2. o \in Orders /\ Only(o) /\ session' = session /\ act[a].pc \in PayingPcs
    BY <1>2, <2>1, WriteEffect, LinkEffect
       DEF Writes, WriteSale, WriteCard, WriteComplete, WriteWebhook, Link, docs, PayingPcs, PayPcs
  <2>3. order'[o] = order[o] \/ order'[o].ses = act[a].ses
    <3>1. CASE Writes(a)
      BY <2>1, <3>1, WriteEffect DEF HookSes
    <3>2. CASE Link(a)
      BY <2>1, <3>2, LinkEffect DEF SameSale
    <3>. QED
      BY <1>2, <3>1, <3>2
  <2>4. CASE s # act[a].ses
    <3>1. \A p \in Orders : order'[p].ses = s => order'[p] = order[p]
      BY <2>2, <2>3, <2>4 DEF Only
    <3>. QED
      BY <3>1 DEF Shrinks
  <2>5. CASE s = act[a].ses
    BY <2>2, <2>5 DEF Held, Holds, PayHeld
  <2>. QED
    BY <2>4, <2>5
<1>3. CASE Moving(a)
  <2>1. PICK o : o = Min(act[a].left)
    OBVIOUS
  <2>2. o \in Orders /\ Only(o) /\ SameSale(order[o], order'[o]) /\ order'[o].checkout = order[o].checkout
    BY <1>3, <2>1, MovingEffect
  <2>. QED
    BY <2>2 DEF Shrinks, Only, SameSale
<1>. QED
  BY <1>1, <1>2, <1>3, CalmActs

(* An order comes under a transition by the claim of the request at it,    *)
(* and stays as it is as long as it is under it.                           *)
Undertakes(a, s, o) ==
    /\ Takes(a) /\ act[a].op \in SessionOps /\ act[a].pc = "claim" /\ s = act[a].ses /\ o = Subject(a)
    /\ session' = session /\ keys' = keys
    /\ order'[o].claim = act[a].tok /\ order'[o].target = Aim(act[a].op) /\ order'[o].effect # Aim(act[a].op)
LEMMA UnderStep ==
    ASSUME Base, AllMarked, AllWorking, NEW a \in Requests, Acts(a), act[a].op # "complete", NEW s \in Sessions,
           NEW o \in Orders, o \in Under(s)'
    PROVE  \/ o \in Under(s) /\ StockSame(order[o], order'[o])
           \/ Undertakes(a, s, o)
<1>1. order'[o].ses = s /\ order'[o].status = "PAID" /\ order'[o].claim \in Tokens
  BY DEF Under, OrdersOf
<1>2. CASE StockSame(order[o], order'[o])
  BY <1>1, <1>2 DEF StockSame, Under, OrdersOf
<1>3. ASSUME Sells(a), Sold(act[a], order[o], order'[o]) PROVE FALSE
  BY <1>1, <1>3, Consts DEF Sold, AllMarked
<1>4. CASE Takes(a) /\ o = Subject(a) /\ Took(act[a], order[o], order'[o])
  <2>1. act[a].op \in SessionOps /\ act[a].pc = "claim" /\ session' = session /\ keys' = keys
    <3>1. act[a].op = "storno" => act[a].tok = StornoToken
      BY Found
    <3>. QED
      BY <1>1, <1>4, <3>1, TakeEffect, Consts DEF Took
  <2>2. Handling(act[a])
    BY Found DEF AllWorking
  <2>3. o \in act[a].todo
    <3>1. act[a].left # {} /\ o = Min(act[a].left) /\ act[a] \in RequestStates
      BY <1>4, <2>1, Found DEF Takes, Subject, SessionOps, StornoClaim
    <3>2. o \in act[a].left
      BY <3>1, FirstOf DEF RequestStates
    <3>. QED
      BY <2>1, <2>2, <3>2 DEF Handling
  <2>4. s = act[a].ses
    BY <1>1, <1>4, <2>1, <2>2, <2>3 DEF Handling, Listed, Took
  <2>. QED
    BY <1>4, <2>1, <2>4 DEF Undertakes, Took, SessionOps
<1>5. ASSUME Did(act[a], order[o], order'[o]), act[a].pc = "move", StockDone(a) PROVE FALSE
  <2>1. act[a].op \in SessionOps \cup {"storno"} /\ (act[a].op = "storno" => act[a].tok = StornoToken)
    BY <1>5, Found DEF StockPcs
  <2>. QED
    BY <1>1, <1>5, <2>1, Consts DEF Did
<1>6. ASSUME Ended(order[o], order'[o]) \/ Gone(order'[o]) PROVE FALSE
  BY <1>1, <1>6 DEF Ended, Gone
<1>. QED
  BY <1>2, <1>3, <1>4, <1>5, <1>6, OrderActs

LEMMA FreedEmpty ==
    ASSUME Base, Held, TestInv, AllMarked, AllGiven, NEW a \in Requests, NEW s \in Sessions, Freed(a, s)
    PROVE  Under(s) = {} /\ order' = order
<1>1. s = act[a].ses /\ order' = order /\ act[a] \in RequestStates /\ Duty(act[a]) /\ Bound(s)
  BY Found DEF Freed, Unclaim, CloseEnd, TestEnd, DeleteEnd, TestInv, Duties, AllGiven
<1>2. CASE Unclaim(a)
  BY <1>1, <1>2 DEF Unclaim, AllGiven, Giving
<1>3. CASE CloseEnd(a)
  <2>1. act[a].op = "close" /\ act[a].pc = "closeEnd"
    BY <1>3, EndEffect
  <2>2. session[s].trans.type = "close" /\ session[s].status = "OPEN"
    BY <1>1, <2>1 DEF Held, Holds, PastClaim, TransHeld
  <2>3. AllDone(s, Settles(s), {})
    BY <1>1, <2>1 DEF Duty, CloseDuty
  <2>4. ASSUME NEW o \in Under(s) PROVE FALSE
    <3>1. session[s].isTest /\ order[o].effect # "REVERTED" /\ o \in OrdersOf(s, "PAID")
      BY <1>1, <2>2, <2>4 DEF Bound, Aim, Under
    <3>. QED
      BY <2>3, <3>1 DEF AllDone, Done, Settles
  <2>. QED
    BY <1>1, <2>4
<1>4. CASE TestEnd(a)
  <2>1. act[a].op \in {"test", "normal"} /\ act[a].pc = "testEnd"
    BY <1>4, Found DEF TestEnd, TestPcs
  <2>2. session[s].trans.type = act[a].op
    BY <1>1, <2>1 DEF Held, Holds, PastClaim, TransHeld, SessionOps
  <2>3. AllDone(s, Aim(act[a].op), {})
    BY <1>1, <2>1 DEF Duty, StockDuty, SessionOps
  <2>4. ASSUME NEW o \in Under(s) PROVE FALSE
    <3>1. order[o].effect # Aim(act[a].op) /\ o \in OrdersOf(s, "PAID") /\ order[o].claim \in Tokens
      BY <1>1, <2>2, <2>4 DEF Bound, Under
    <3>. QED
      BY <2>3, <3>1, Consts DEF AllDone, Done
  <2>. QED
    BY <1>1, <2>4
<1>5. CASE DeleteEnd(a)
  BY <1>1, <1>5, GivenBack, Found DEF DeleteEnd, DeletePcs
<1>. QED
  BY <1>2, <1>3, <1>4, <1>5 DEF Freed

(* What a session with orders under its transition may become.             *)
LEMMA UnderKeeps ==
    ASSUME Base, Held, TestInv, AllMarked, AllGiven, NEW a \in Requests, NEW s \in Sessions, SessionStep(a, s),
           Under(s) # {}
    PROVE  /\ session'[s].trans.tok = session[s].trans.tok /\ session'[s].trans.type = session[s].trans.type
           /\ session'[s].isTest = session[s].isTest
           /\ session[s].status = "CLOSED" => session'[s].status = "CLOSED"
           /\ session[s].trans # NoTransition
<1>1. PICK o \in Under(s) : TRUE
  OBVIOUS
<1>2. session[s].trans.tok \in Tokens
  BY <1>1 DEF AllGiven, Bound, Under
<1>3. session[s].trans # NoTransition
  BY <1>2, NoneHolds, Consts
<1>4. CASE Alike(session[s], session'[s])
  BY <1>3, <1>4 DEF Alike
<1>5. CASE Taking(a, session[s], session'[s])
  BY <1>3, <1>5 DEF Taking
<1>6. ~Freed(a, s)
  BY FreedEmpty
<1>7. CASE Marking(a, s)
  BY <1>3, <1>7, Found DEF Marking, SessionDocs
<1>. QED
  BY <1>4, <1>5, <1>6, <1>7 DEF SessionStep

LEMMA BoundActs ==
    ASSUME Base, Held, HookSes, TestInv, AllMarked, AllWorking, AllGiven, NEW a \in Requests, Acts(a),
           act[a].op # "complete", NEW s \in Sessions, SessionStep(a, s)
    PROVE  Bound(s)'
<1>0. act[a] \in RequestStates /\ Duty(act[a]) /\ Bound(s)
  BY Found DEF TestInv, Duties, AllGiven
<1>1. ASSUME NEW o \in Orders, o \in Under(s), StockSame(order[o], order'[o])
      PROVE  /\ order'[o].claim = session'[s].trans.tok /\ order'[o].target = Aim(session'[s].trans.type)
             /\ order'[o].effect # Aim(session'[s].trans.type)
             /\ session'[s].status # "CLOSED" => session'[s].isTest /\ ~PendingSumUp(s)' /\ ~UnrefundedSumUp(s)'
  <2>1. /\ order[o].claim = session[s].trans.tok /\ order[o].target = Aim(session[s].trans.type)
        /\ order[o].effect # Aim(session[s].trans.type)
    BY <1>0, <1>1 DEF Bound
  <2>2. order[o].status = "PAID"
    BY <1>1 DEF Under, OrdersOf
  <2>3. /\ session'[s].trans.tok = session[s].trans.tok /\ session'[s].trans.type = session[s].trans.type
        /\ session'[s].isTest = session[s].isTest
        /\ session[s].status = "CLOSED" => session'[s].status = "CLOSED"
        /\ session[s].trans # NoTransition
    BY <1>1, UnderKeeps
  <2>4. ASSUME session'[s].status # "CLOSED" PROVE session'[s].isTest /\ ~PendingSumUp(s)' /\ ~UnrefundedSumUp(s)'
    <3>1. session[s].isTest /\ ~PendingSumUp(s) /\ ~UnrefundedSumUp(s)
      BY <1>0, <1>1, <2>3, <2>4 DEF Bound
    <3>2. Shrinks(s)
      BY <2>3, ShrinksOr
    <3>. QED
      BY <2>3, <3>1, <3>2, Shrunk
  <2>. QED
    BY <1>1, <2>1, <2>2, <2>3, <2>4 DEF StockSame
<1>2. ASSUME NEW o \in Orders, Undertakes(a, s, o)
      PROVE  /\ order'[o].claim = session'[s].trans.tok /\ order'[o].target = Aim(session'[s].trans.type)
             /\ order'[o].effect # Aim(session'[s].trans.type)
             /\ session'[s].status # "CLOSED" => session'[s].isTest /\ ~PendingSumUp(s)' /\ ~UnrefundedSumUp(s)'
  <2>1. act[a].op \in SessionOps /\ act[a].pc = "claim" /\ s = act[a].ses /\ session' = session
    BY <1>2 DEF Undertakes
  <2>2. /\ session[s].trans.type = act[a].op /\ session[s].trans.tok = act[a].tok /\ act[a].tok \in Tokens
        /\ session[s].status = (IF act[a].op = "close" THEN "OPEN" ELSE "CLOSED")
    BY <2>1, Transits
  <2>3. ASSUME session'[s].status # "CLOSED" PROVE session'[s].isTest /\ ~PendingSumUp(s)' /\ ~UnrefundedSumUp(s)'
    <3>1. session[s].isTest /\ ~PendingSumUp(s) /\ ~UnrefundedSumUp(s)
      BY <1>0, <2>1, <2>2, <2>3 DEF Duty, CloseDuty, StockPcs
    <3>2. Shrinks(s)
      BY <2>2, ShrinksOr, NoneHolds, Consts
    <3>. QED
      BY <2>1, <3>1, <3>2, Shrunk
  <2>. QED
    BY <1>2, <2>1, <2>2, <2>3 DEF Undertakes
<1>3. ASSUME NEW o \in Orders, o \in Under(s)'
      PROVE  /\ order'[o].claim = session'[s].trans.tok /\ order'[o].target = Aim(session'[s].trans.type)
             /\ order'[o].effect # Aim(session'[s].trans.type)
             /\ session'[s].status # "CLOSED" => session'[s].isTest /\ ~PendingSumUp(s)' /\ ~UnrefundedSumUp(s)'
  BY <1>1, <1>2, <1>3, UnderStep
<1>4. Under(s)' \subseteq Orders
  BY DEF Under, OrdersOf
<1>. QED
  BY <1>3, <1>4 DEF Bound

(* A session whose stock is recorded as given back stays so.               *)
LEMMA GivenActs ==
    ASSUME Base, Held, HookSes, TestInv, AllWorking, AllGiven, NEW a \in Requests, Acts(a),
           act[a].op # "complete", NEW s \in Sessions, SessionStep(a, s)
    PROVE  Given(s)'
<1>0. act[a] \in RequestStates /\ Duty(act[a]) /\ Given(s) /\ Sound(s)
  BY Found DEF TestInv, Duties, AllSound, AllGiven
<1>1. ASSUME Marking(a, s)
      PROVE  /\ s = act[a].ses /\ act[a].op = "delete" /\ act[a].pc = "deleteMark" /\ order' = order
             /\ session'[s].trans = session[s].trans /\ session[s].trans # NoTransition
  <2>1. /\ s = act[a].ses /\ act[a].op = "delete" /\ act[a].pc = "deleteMark" /\ order' = order
        /\ session'[s].trans = session[s].trans
    BY <1>1, Found DEF Marking, DeleteMark, DeletePcs, SessionDocs
  <2>2. session[s].trans.by = a
    BY <2>1, Transits DEF SessionOps
  <2>. QED
    BY <2>1, <2>2, NoneHolds, Consts
<1>2. session'[s].status = "CLOSED" /\ session'[s].effect = "REVERTED" /\ session'[s].trans = NoTransition => session'[s].isTest
  <2>1. CASE Alike(session[s], session'[s])
    BY <1>0, <2>1 DEF Alike, Given
  <2>2. CASE Taking(a, session[s], session'[s])
    BY <2>2 DEF Taking
  <2>3. CASE Freeing(a, session[s], session'[s])
    BY <2>3 DEF Freeing
  <2>4. CASE Marking(a, s)
    BY <1>1, <2>4
  <2>. QED
    BY <2>1, <2>2, <2>3, <2>4 DEF SessionStep
<1>3. ASSUME session'[s].status = "CLOSED", session'[s].effect = "REVERTED", session'[s].trans.type = "delete"
      PROVE  AllDone(s, "REVERTED", {})'
  <2>1. CASE Alike(session[s], session'[s])
    <3>1. session[s].status = "CLOSED" /\ session[s].trans.type = "delete" /\ AllDone(s, "REVERTED", {})
      BY <1>0, <1>3, <2>1 DEF Alike, Given
    <3>2. ASSUME NEW o \in Orders, order'[o].ses = s, order'[o].status = "PAID" PROVE order'[o].effect = "REVERTED"
      <4>1. order[o].status = "PAID" /\ order[o].ses = s => order[o].effect = "REVERTED"
        BY <3>1 DEF AllDone, Done, OrdersOf
      <4>2. CASE StockSame(order[o], order'[o])
        BY <3>2, <4>1, <4>2 DEF StockSame
      <4>3. ASSUME Sells(a), o = act[a].ord PROVE FALSE
        <5>1. Writes(a) /\ act[a].op \in {"sale", "webhook"} /\ act[a].pc = "write"
          BY <4>3, SellEffect
        <5>2. s = act[a].ses
          BY <3>2, <4>3, <5>1, WriteEffect DEF HookSes
        <5>. QED
          BY <3>1, <5>1, <5>2 DEF Held, Holds, PayHeld, PayingPcs, PayPcs
      <4>4. CASE Took(act[a], order[o], order'[o])
        BY <3>2, <4>1, <4>4 DEF Took
      <4>5. CASE Did(act[a], order[o], order'[o]) /\ StockDone(a) /\ act[a].pc = "move" /\ o = Subject(a)
        <5>1. CASE act[a].op = "storno"
          BY <4>5, <5>1 DEF Did, Aim
        <5>2. CASE act[a].op # "storno"
          <6>1. act[a].op \in SessionOps /\ o = Min(act[a].left) /\ Handling(act[a])
            BY <1>0, <4>5, <5>2, Found DEF StockPcs, Subject, AllWorking
          <6>2. o \in act[a].left
            BY <4>5, <6>1, <5>2, MovingEffect DEF Moving
          <6>3. order[o].ses = act[a].ses
            BY <4>5, <6>1, <6>2 DEF Handling, Listed, Did
          <6>4. act[a].ses = s
            BY <3>2, <4>5, <6>3 DEF Did
          <6>5. act[a].op = "delete"
            BY <3>1, <4>5, <6>1, <6>4, Transits
          <6>. QED
            BY <4>5, <6>5 DEF Did, Aim
        <5>. QED
          BY <5>1, <5>2
      <4>6. ASSUME Ended(order[o], order'[o]) \/ Gone(order'[o]) PROVE FALSE
        BY <3>2, <4>6 DEF Ended, Gone
      <4>. QED
        BY <4>2, <4>3, <4>4, <4>5, <4>6, OrderActs
    <3>. QED
      BY <3>2 DEF AllDone, Done, OrdersOf
  <2>2. CASE Taking(a, session[s], session'[s]) /\ order' = order
    <3>1. AllDone(s, "REVERTED", {})
      <4>1. CASE session[s].trans = NoTransition
        BY <1>0, <1>3, <2>2, <4>1 DEF Taking, Given, Sound, Settles
      <4>2. CASE session'[s].trans.type = session[s].trans.type
        BY <1>0, <1>3, <2>2, <4>2 DEF Taking, Given
      <4>. QED
        BY <2>2, <4>1, <4>2 DEF Taking
    <3>. QED
      BY <2>2, <3>1 DEF AllDone, OrdersOf
  <2>3. CASE Freeing(a, session[s], session'[s])
    BY <1>3, <2>3, NoneType DEF Freeing
  <2>4. CASE Marking(a, s)
    <3>1. AllDone(s, "REVERTED", {})
      BY <1>0, <1>1, <2>4 DEF Duty, StockDuty, SessionOps, Aim
    <3>. QED
      BY <1>1, <2>4, <3>1 DEF AllDone, OrdersOf
  <2>. QED
    BY <2>1, <2>2, <2>3, <2>4 DEF SessionStep
<1>. QED
  BY <1>2, <1>3 DEF Given

LEMMA GivingOther ==
    ASSUME Base, Held, TestInv, AllMarked, AllWorking, AllGiven, NEW a \in Requests, Acts(a), act[a].op # "complete",
           \A s \in Sessions : SessionStep(a, s), NEW b \in Requests \ {a}, NEW r \in RequestStates, act[b] = r
    PROVE  Giving(r)'
<1>0. Giving(r)
  BY DEF AllGiven
<1>1. ASSUME r.pc \in {"deleteOrders", "deleteEnd"} PROVE session'[r.ses].effect = "REVERTED"
  <2>1. r.op = "delete"
    BY <1>1, Found DEF DeletePcs
  <2>2. PICK s \in Sessions : s = r.ses
    BY <2>1, Found DEF SessionOps
  <2>3. session[s].trans.by = b
    BY <1>1, <2>1, <2>2, Transits DEF SessionOps
  <2>4. SessionStep(a, s) /\ session[s].effect = "REVERTED"
    BY <1>0, <1>1, <2>2 DEF Giving
  <2>5. CASE Alike(session[s], session'[s])
    BY <2>2, <2>4, <2>5 DEF Alike
  <2>6. CASE Taking(a, session[s], session'[s])
    BY <2>2, <2>4, <2>6 DEF Taking
  <2>7. CASE Freeing(a, session[s], session'[s])
    BY <2>3, <2>7 DEF Freeing
  <2>8. CASE Marking(a, s)
    BY <2>2, <2>8, Found DEF Marking, SessionDocs
  <2>. QED
    BY <2>4, <2>5, <2>6, <2>7, <2>8 DEF SessionStep
<1>2. ASSUME r.pc = "unclaim" PROVE Under(r.ses)' = {}
  <2>1. r.op = "close" /\ r.ses \in Sessions
    BY <1>2, Found DEF ClosePcs, SessionOps
  <2>2. session[r.ses].trans.by = b
    BY <2>1 DEF Held, Holds, PastClaim, TransHeld
  <2>3. PICK s \in Sessions : s = r.ses
    BY <2>1
  <2>4. Under(s) = {}
    BY <1>0, <1>2, <2>3 DEF Giving
  <2>5. ASSUME NEW o \in Orders, o \in Under(s)' PROVE FALSE
    <3>1. Undertakes(a, s, o)
      BY <2>4, <2>5, UnderStep
    <3>2. session[s].trans.by = a
      BY <3>1, Transits DEF Undertakes
    <3>. QED
      BY <2>2, <2>3, <3>2
  <2>6. Under(s)' \subseteq Orders
    BY DEF Under, OrdersOf
  <2>. QED
    BY <2>3, <2>5, <2>6
<1>. QED
  BY <1>1, <1>2 DEF Giving

(* The steps after which a session is deleted, or its close called off.    *)
GivePcs == {"deleteOrders", "deleteEnd", "unclaim"}
LEMMA GivesGoto ==
    ASSUME Base, NEW a \in Requests, NEW pc, Goto(a, pc), pc \notin GivePcs
    PROVE  act'[a].pc \notin GivePcs
BY GotoFields

LEMMA GivesFrom ==
    ASSUME Base, Base', NEW a \in Requests, Acts(a), act'[a].pc \in GivePcs
    PROVE  \/ ClosePending(a) \/ ClosePaid(a) \/ DeleteMark(a) \/ DeleteOrders(a)
           \/ \E t \in Tokens : DeleteClaim(a, t)
<1>0. Idle.pc \notin GivePcs
  BY IdleOK DEF GivePcs
<1>1. act'[a].op \in {"close", "delete"}
  <2>1. act'[a].pc \in PcsOf(act'[a].op) /\ act'[a].op \in PayOps \cup SessionOps \cup {"storno", "none"}
    BY FoundNext DEF Base, TypeOK
  <2>. QED
    BY <2>1, PcOps DEF GivePcs, ClosePcs, DeletePcs
<1>2. ASSUME PayStep(a) \/ StornoStep(a) PROVE FALSE
  <2>1. act[a].op \in PayOps \cup {"storno"}
    BY <1>2, Found DEF PayStep, PayClaim, ApplyItem, Rollback, Refresh, WriteSale, WriteCard, WriteComplete, WriteWebhook,
       WriteFails, Trigger, Link, Cancel, PayRelease, HookRelease, PayPcs, StornoStep, StornoClaim, Refund, StornoEnd,
       StornoThrows, StornoPcs
  <2>2. act'[a] = Idle \/ act'[a].op = act[a].op
    BY <1>2, StepOn DEF Step, StaysOn
  <2>. QED
    BY <1>0, <1>1, <2>1, <2>2 DEF PayOps
<1>3. ASSUME Crash(a) \/ StockFail(a) \/ Unclaim(a) \/ CloseEnd(a) \/ TestSet(a) \/ TestEnd(a) \/ DeleteEnd(a) PROVE FALSE
  BY <1>0, <1>3, EndsIdle DEF Crash, StockFail, Unclaim, CloseEnd, TestSet, TestEnd, DeleteEnd
<1>4. ASSUME BeginPayment(a) \/ BeginManagement(a) PROVE FALSE
  <2>1. CASE \E o \in Orders : StornoBegin(a, o)
    <3>1. act'[a].pc = "stornoClaim"
      BY <2>1, Found DEF StornoBegin, Begin, Request, Idle
    <3>. QED
      BY <3>1 DEF GivePcs
  <2>2. CASE ~\E o \in Orders : StornoBegin(a, o)
    BY <1>4, <2>2, BeginQuiet DEF FirstPcs, GivePcs
  <2>. QED
    BY <2>1, <2>2
<1>5. ASSUME CloseSum(a) PROVE FALSE
  BY <1>5, SumEffect DEF GivePcs
<1>6. ASSUME TestPaid(a) \/ TestPending(a) \/ DeletePaid(a) PROVE FALSE
  <2>1. End(a) \/ \E pc \in {"testPending", "testClaim", "testSet", "deleteClaim"} : Goto(a, pc)
    BY <1>6 DEF TestPaid, TestPending, DeletePaid
  <2>. QED
    BY <1>0, <2>1, EndsIdle, GivesGoto DEF GivePcs
<1>7. ASSUME NEW t \in Tokens, TestClaim(a, t) PROVE FALSE
  <2>1. End(a) \/ act' = [act EXCEPT ![a].pc = "list", ![a].tok = t]
    BY <1>7 DEF TestClaim
  <2>2. End(a) \/ act'[a].pc = "list"
    BY <2>1, Found DEF RequestStates
  <2>. QED
    BY <1>0, <2>2, EndsIdle DEF GivePcs
<1>8. ASSUME StockList(a) \/ StockClaim(a) \/ StockMove(a) \/ StockDone(a) PROVE FALSE
  <2>1. act[a].op \in SessionOps \cup {"storno"}
    BY <1>8, Found DEF StockList, StockClaim, StockMove, StockDone, StockPcs
  <2>2. AfterStock(act[a].op) \notin GivePcs
    BY <2>1, AfterPcs DEF GivePcs
  <2>3. act'[a].pc \in {"claim", "move", "fail", AfterStock(act[a].op)}
    <3>0. act[a] \in RequestStates /\ act \in [Requests -> RequestStates]
      BY Found
    <3>1. CASE StockList(a)
      <4>1. PICK found, plan : \/ act' = [act EXCEPT ![a].pc = "claim", ![a].todo = found, ![a].left = found, ![a].plan = plan]
                               \/ Goto(a, "fail")
        BY <3>1 DEF StockList
      <4>2. CASE Goto(a, "fail")
        BY <4>2, GotoFields
      <4>3. CASE act' = [act EXCEPT ![a].pc = "claim", ![a].todo = found, ![a].left = found, ![a].plan = plan]
        BY <3>0, <4>3 DEF RequestStates
      <4>. QED
        BY <4>1, <4>2, <4>3
    <3>2. CASE StockClaim(a)
      <4>1. act[a].pc = "claim"
        BY <3>2 DEF StockClaim
      <4>2. PICK left, rest, pc : /\ pc \in {"move", AfterStock(act[a].op)}
                                  /\ \/ act' = [act EXCEPT ![a].left = left]
                                     \/ Goto(a, "fail")
                                     \/ act' = [act EXCEPT ![a].pc = pc, ![a].left = left, ![a].rest = rest]
        BY <3>2 DEF StockClaim
      <4>3. CASE Goto(a, "fail")
        BY <4>3, GotoFields
      <4>4. CASE act' = [act EXCEPT ![a].left = left]
        BY <3>0, <4>1, <4>4 DEF RequestStates
      <4>5. CASE act' = [act EXCEPT ![a].pc = pc, ![a].left = left, ![a].rest = rest]
        BY <3>0, <4>2, <4>5 DEF RequestStates
      <4>. QED
        BY <4>2, <4>3, <4>4, <4>5
    <3>3. CASE StockMove(a)
      <4>1. PICK o : o = Subject(a)
        OBVIOUS
      <4>2. /\ act[a].pc = "move"
            /\ \/ act'[a] = [act[a] EXCEPT !.pc = "fail"]
               \/ \E i \in Items : act'[a] = [act[a] EXCEPT !.rest = act[a].rest \ {i}]
        BY <3>3, <4>1, MoveEffect DEF Turned
      <4>. QED
        BY <3>0, <4>2 DEF RequestStates
    <3>4. CASE StockDone(a)
      BY <3>4, Found DEF StockDone, RequestStates
    <3>. QED
      BY <1>8, <3>1, <3>2, <3>3, <3>4
  <2>. QED
    BY <2>2, <2>3 DEF GivePcs
<1>. QED
  BY <1>2, <1>3, <1>4, <1>5, <1>6, <1>7, <1>8 DEF Acts, Step, StockStep, CloseStep, TestStep, DeleteStep

LEMMA GivingOwn ==
    ASSUME Base, Base', Held, TestInv, AllGiven, NEW a \in Requests, Acts(a), NEW r, act'[a] = r
    PROVE  Giving(r)'
<1>0. act[a] \in RequestStates /\ Giving(act[a])
  BY Found DEF AllGiven
<1>1. CASE r.pc \notin GivePcs
  BY <1>1 DEF Giving, GivePcs
<1>2. CASE ClosePending(a) \/ ClosePaid(a)
  <2>1. PICK s \in Sessions : s = act[a].ses
    BY <1>2, Found DEF ClosePending, ClosePaid, ClosePcs, SessionOps
  <2>2. act[a].op = "close" /\ order' = order
    BY <1>2, Found DEF ClosePending, ClosePaid, ClosePcs, docs
  <2>3. session[s].status = "OPEN"
    BY <2>1, <2>2 DEF Held, Holds, PastClaim, TransHeld
  <2>4. PICK pc \in {"unclaim", "closePaid", "closeSum", "list"} :
            Goto(a, pc) /\ (pc = "unclaim" => PendingSumUp(s) \/ UnrefundedSumUp(s))
    BY <1>2, <2>1 DEF ClosePending, ClosePaid
  <2>5. r.pc = pc /\ r.ses = s
    BY <2>1, <2>4, GotoFields
  <2>6. pc = "unclaim" => Under(s) = {}
    BY <2>3, <2>4 DEF AllGiven, Bound
  <2>7. pc = "unclaim" => Under(s)' = {}
    BY <2>2, <2>6 DEF Under, OrdersOf
  <2>. QED
    BY <2>4, <2>5, <2>7 DEF Giving
<1>3. CASE DeleteMark(a)
  <2>1. PICK s \in Sessions : s = act[a].ses
    BY <1>3, Found DEF DeleteMark, DeletePcs, SessionOps
  <2>2. act[a].op = "delete" /\ act[a].pc = "deleteMark"
    BY <1>3, Found DEF DeleteMark, DeletePcs
  <2>3. session[s].trans.by = a
    BY <2>1, <2>2, Transits DEF SessionOps
  <2>4. session'[s].effect = "REVERTED"
    BY <1>3, <2>1, <2>3, Found DEF DeleteMark, HoldsTransition, SessionDocs
  <2>5. r.pc = "deleteOrders" /\ r.ses = s
    BY <1>3, <2>1, GotoFields DEF DeleteMark
  <2>. QED
    BY <2>4, <2>5 DEF Giving
<1>4. CASE DeleteOrders(a)
  <2>1. r.pc = "deleteEnd" /\ r.ses = act[a].ses /\ session' = session /\ act[a].pc = "deleteOrders"
    BY <1>4, GotoFields DEF DeleteOrders
  <2>. QED
    BY <1>0, <2>1 DEF Giving
<1>5. ASSUME NEW t \in Tokens, DeleteClaim(a, t) PROVE Giving(r)'
  <2>1. PICK s \in Sessions : s = act[a].ses
    BY <1>5, Found DEF DeleteClaim, DeletePcs, SessionOps
  <2>2. CASE End(a)
    BY <2>2, EndsIdle, IdleOK DEF Giving
  <2>3. CASE ClaimTransition(a, s, "delete", t) /\
             act' = [act EXCEPT ![a].tok = t, ![a].pc = IF session[s].effect = "REVERTED" THEN "deleteOrders" ELSE "list"]
    <3>1. r.pc = (IF session[s].effect = "REVERTED" THEN "deleteOrders" ELSE "list") /\ r.ses = s
      BY <2>1, <2>3, Found DEF RequestStates
    <3>2. session'[s].effect = session[s].effect
      BY <2>3, Found DEF ClaimTransition, SessionDocs
    <3>. QED
      BY <3>1, <3>2 DEF Giving
  <2>. QED
    BY <1>5, <2>1, <2>2, <2>3 DEF DeleteClaim
<1>. QED
  BY <1>1, <1>2, <1>3, <1>4, <1>5, GivesFrom

LEMMA GivenAllActs ==
    ASSUME Base, Base', Held, HookSes, TestInv, AllMarked, AllWorking, AllGiven, NEW a \in Requests, Acts(a),
           act[a].op # "complete", \A s \in Sessions : SessionStep(a, s)
    PROVE  AllGiven'
<1>1. \A s \in Sessions : Bound(s)' /\ Given(s)'
  BY BoundActs, GivenActs
<1>2. ASSUME NEW b \in Requests, NEW r \in RequestStates, act'[b] = r PROVE Giving(r)'
  <2>1. CASE b = a
    BY <1>2, <2>1, GivingOwn
  <2>2. CASE b # a
    BY <1>2, <2>2, ActsAlone, GivingOther
  <2>. QED
    BY <2>1, <2>2
<1>. QED
  BY <1>1, <1>2 DEF AllGiven

(* Time passes, a session is opened, an order comes from the public menu.  *)
LEMMA PassAlike ==
    ASSUME Base, \A z \in Sessions : Typed(z), Passes, NEW s \in Sessions
    PROVE  Alike(session[s], session'[s])
<1>0. session \in [Sessions -> SessionDocs]
  BY TypeParts DEF Base
<1>1. CASE session' = session
  BY <1>1 DEF Alike
<1>2. ASSUME NEW z \in Sessions, NEW x, session' = [session EXCEPT ![z] = x], Alike(session[z], x)
      PROVE  Alike(session[s], session'[s])
  BY <1>0, <1>2 DEF Alike
<1>3. ASSUME NEW z \in Sessions, OpenSession(z) PROVE Alike(session[s], session'[s])
  <2> DEFINE x == [session[z] EXCEPT !.status = "OPEN"]
  <2>1. Alike(session[z], x)
    BY <1>0, <1>3 DEF OpenSession, Alike, SessionDocs
  <2>2. session' = [session EXCEPT ![z] = x]
    BY <1>3 DEF OpenSession
  <2> HIDE DEF x
  <2>. QED
    BY <1>2, <2>1, <2>2
<1>4. ASSUME NEW z \in Sessions, ExpirePay(z) PROVE Alike(session[s], session'[s])
  <2> DEFINE x == [session[z] EXCEPT !.payFresh = FALSE]
  <2>1. Alike(session[z], x)
    BY <1>0 DEF Alike, SessionDocs
  <2>2. session' = [session EXCEPT ![z] = x]
    BY <1>4 DEF ExpirePay
  <2> HIDE DEF x
  <2>. QED
    BY <1>2, <2>1, <2>2
<1>5. ASSUME NEW z \in Sessions, ExpireTransition(z) PROVE Alike(session[s], session'[s])
  <2>1. PICK trans : trans = [session[z].trans EXCEPT !.fresh = FALSE]
    OBVIOUS
  <2>2. session[z].trans \in Transitions /\ session' = [session EXCEPT ![z].trans = trans]
    BY <1>0, <1>5, <2>1 DEF ExpireTransition, SessionDocs
  <2>3. session[z].trans # NoTransition
    BY <1>5, NoneType DEF ExpireTransition
  <2>4. trans.tok = session[z].trans.tok /\ trans.type = session[z].trans.type
    BY <2>1, <2>2 DEF Transitions
  <2>5. trans # NoTransition
    BY <2>3, <2>4, NoneType DEF Typed
  <2>6. PICK x : x = [session[z] EXCEPT !.trans = trans]
    OBVIOUS
  <2>7. Alike(session[z], x)
    BY <1>0, <2>4, <2>5, <2>6 DEF Alike, SessionDocs
  <2>8. session' = [session EXCEPT ![z] = x]
    BY <2>2, <2>6
  <2>. QED
    BY <1>2, <2>7, <2>8
<1>. QED
  BY <1>1, <1>3, <1>4, <1>5 DEF Passes, PublicOrder, ExpireHook, vars

LEMMA GivenPasses ==
    ASSUME Base, TestInv, AllGiven, Passes
    PROVE  AllGiven'
<1>0. Still /\ act' = act /\ CalmStep
  BY StillPasses, CalmPasses
<1>1. \A z \in Sessions : Typed(z)
  BY DEF TestInv, AllSound, Sound, Typed
<1>2. ASSUME NEW s \in Sessions PROVE Under(s)' \subseteq Under(s)
  BY <1>0 DEF Still, StockSame, Under, OrdersOf
<1>3. ASSUME NEW s \in Sessions PROVE Bound(s)'
  <2>1. Bound(s) /\ Alike(session[s], session'[s]) /\ Shrinks(s)
    BY <1>0, <1>1, PassAlike, CalmShrinks DEF AllGiven
  <2>2. ASSUME NEW o \in Orders, o \in Under(s)'
        PROVE  /\ order'[o].claim = session'[s].trans.tok /\ order'[o].target = Aim(session'[s].trans.type)
               /\ order'[o].effect # Aim(session'[s].trans.type)
               /\ session'[s].status # "CLOSED" => session'[s].isTest /\ ~PendingSumUp(s)' /\ ~UnrefundedSumUp(s)'
    <3>1. o \in Under(s) /\ order[o].status = "PAID" /\ order[o].claim \in Tokens
      BY <1>2, <2>2 DEF Under, OrdersOf
    <3>2. StockSame(order[o], order'[o])
      BY <1>0 DEF Still
    <3>3. /\ order[o].claim = session[s].trans.tok /\ order[o].target = Aim(session[s].trans.type)
          /\ order[o].effect # Aim(session[s].trans.type)
          /\ session[s].status # "CLOSED" => session[s].isTest /\ ~PendingSumUp(s) /\ ~UnrefundedSumUp(s)
      BY <2>1, <3>1 DEF Bound
    <3>4. session[s].trans # NoTransition
      BY <3>1, <3>3, NoneHolds, Consts
    <3>5. /\ session'[s].trans.tok = session[s].trans.tok /\ session'[s].trans.type = session[s].trans.type
          /\ session'[s].isTest = session[s].isTest
          /\ session[s].status = "CLOSED" => session'[s].status = "CLOSED"
      BY <2>1, <3>4 DEF Alike
    <3>. QED
      BY <2>1, <3>1, <3>2, <3>3, <3>5, Shrunk DEF StockSame
  <2>3. Under(s)' \subseteq Orders
    BY DEF Under, OrdersOf
  <2>. QED
    BY <2>2, <2>3 DEF Bound
<1>4. ASSUME NEW s \in Sessions PROVE Given(s)'
  <2>1. Given(s) /\ Alike(session[s], session'[s])
    BY <1>1, PassAlike DEF AllGiven
  <2>2. AllDone(s, "REVERTED", {}) => AllDone(s, "REVERTED", {})'
    BY <1>0 DEF Still, StockSame, AllDone, Done, OrdersOf
  <2>. QED
    BY <2>1, <2>2 DEF Alike, Given
<1>5. ASSUME NEW b \in Requests, NEW r \in RequestStates, act'[b] = r PROVE Giving(r)'
  <2>1. act[b] = r /\ Giving(r)
    BY <1>0, <1>5 DEF AllGiven
  <2>2. r.pc \in GivePcs => r.ses \in Sessions
    BY <2>1, Found DEF GivePcs, ClosePcs, DeletePcs, SessionOps
  <2>3. r.pc \in {"deleteOrders", "deleteEnd"} => session'[r.ses].effect = "REVERTED"
    BY <1>1, <2>1, <2>2, PassAlike DEF Giving, GivePcs, Alike
  <2>4. r.pc = "unclaim" => Under(r.ses)' = {}
    BY <1>2, <2>1, <2>2 DEF Giving, GivePcs
  <2>. QED
    BY <2>3, <2>4 DEF Giving
<1>. QED
  BY <1>3, <1>4, <1>5 DEF AllGiven

-----------------------------------------------------------------------------
LEMMA StockInit == Init => StockInv
<1>1. SUFFICES ASSUME Init PROVE StockInv
  OBVIOUS
<1>2. /\ \A s \in Sessions : session[s] = NewSession
      /\ \A o \in Orders : order[o] = NewOrder /\ \A i \in Items : taken[o][i] = 0
      /\ \A a \in Requests : act[a] = Idle
      /\ \A i \in Items : keys[i] = {}
  BY <1>1 DEF Init
<1>3. /\ Idle.op = "none" /\ Idle.pc = "idle" /\ NewOrder.status = "NEW" /\ NewOrder.claim = NoToken
      /\ NewSession.status = "NONE" /\ NewSession.trans = NoTransition
  BY IdleOK DEF NewOrder, NewSession
<1>4. Ledger
  <2>1. ASSUME NEW o \in Orders, NEW i \in Items PROVE ~Carried(o, i) /\ ~Units(o, i)
    BY <1>2, <1>3 DEF Carried, Carries, Units, PayOps
  <2>. QED
    BY <1>2, <2>1 DEF Ledger
<1>5. AllCharging
  BY <1>2, <1>3 DEF AllCharging, Charging, PayOps
<1>6. AllWorking
  BY <1>2, <1>3 DEF AllWorking, Handling, Reversing, SessionOps
<1>7. AllMarked
  <2>1. ASSUME NEW o \in Orders, NEW i \in Items PROVE MarksOf(o, i) = {}
    BY <1>2 DEF MarksOf
  <2>. QED
    BY <1>2, <1>3, <2>1, Consts DEF AllMarked, Unmarked, Marked
<1>8. Apart
  BY <1>2, <1>3, NoneHolds, Consts DEF Apart
<1>9. AllGiven
  <2>1. ASSUME NEW s \in Sessions PROVE Under(s) = {}
    BY <1>2, <1>3 DEF Under, OrdersOf
  <2>2. ASSUME NEW s \in Sessions PROVE Bound(s) /\ Given(s)
    BY <1>2, <1>3, <2>1 DEF Bound, Given
  <2>3. ASSUME NEW a \in Requests, NEW r, act[a] = r PROVE Giving(r)
    BY <1>2, <1>3, <2>3 DEF Giving
  <2>. QED
    BY <2>2, <2>3 DEF AllGiven
<1>. QED
  BY <1>4, <1>5, <1>6, <1>7, <1>8, <1>9 DEF StockInv

LEMMA StockActs ==
    ASSUME Base, Base', OpsOK, OpsOK', "complete" \notin Ops, RefundInv, ClosedInv, TestInv, StockInv,
           NEW a \in Requests, Acts(a)
    PROVE  StockInv'
<1>1. Held /\ HookSes /\ act[a].op # "complete" /\ \A z \in Sessions : Typed(z)
  BY DEF ClosedInv, OpsOK, TestInv, AllSound, Sound, Typed
<1>2. \A s \in Sessions : SessionStep(a, s)
  BY <1>1, StepsActs
<1>3. Ledger /\ AllCharging /\ AllWorking /\ AllMarked /\ Apart /\ AllGiven
  BY DEF StockInv
<1>4. \E q : Alone(q)
  BY SessionActs, SessionBegins DEF Acts
<1>5. Ledger'
  BY <1>1, LedgerActs
<1>6. AllCharging'
  BY <1>3, ChargesActs
<1>7. AllWorking'
  BY <1>1, WorksActs
<1>8. AllMarked'
  <2>1. \A o \in Orders : Due(order'[o]) => order'[o].claim = NoToken
    BY <1>1, <1>3, DueActs
  <2>2. \A o \in Orders, i \in Items : Unmarked(o, i)'
    BY <1>1, <1>3, UnmarkedActs
  <2>3. \A s \in Sessions, o \in Orders, i \in Items : Marked(s, o, i)'
    BY <1>1, <1>2, <1>3, MarkedActs
  <2>. QED
    BY <2>1, <2>2, <2>3 DEF AllMarked, Due
<1>9. Apart'
  BY <1>2, <1>3, <1>4, ApartStep
<1>10. AllGiven'
  BY <1>1, <1>2, <1>3, GivenAllActs
<1>. QED
  BY <1>5, <1>6, <1>7, <1>8, <1>9, <1>10 DEF StockInv

LEMMA StockPasses ==
    ASSUME Timely, Base, TestInv, StockInv, Passes
    PROVE  StockInv'
<1>1. \A z \in Sessions : Typed(z)
  BY DEF TestInv, AllSound, Sound, Typed
<1>2. \A s \in Sessions : SessionStep(NoRequest, s)
  BY <1>1, StepsPasses
<1>3. \E q : Alone(q)
  BY SessionPasses
<1>. QED
  BY <1>2, <1>3, LedgerPasses, ChargesPasses, WorksPasses, MarksPasses, ApartStep, GivenPasses DEF StockInv

LEMMA StockAlways == Timely /\ "complete" \notin Ops => (Spec => []StockInv)
<1>1. SUFFICES ASSUME Timely, "complete" \notin Ops PROVE Spec => []StockInv
  OBVIOUS
<1>2. ASSUME Base, Base', BookInv, BookInv', RefundInv, ClosedInv, TestInv, StockInv, [Next]_vars PROVE StockInv'
  BY <1>1, <1>2, StockActs, StockPasses, ActsOrPasses DEF BookInv
<1>3. Spec => []BookInv
  BY <1>1, BookAlways DEF OneWay
<1>4. Spec => []RefundInv
  <2>1. Base /\ RefundInv /\ [Next]_vars /\ Base' => RefundInv'
    BY RefundStep
  <2>. QED
    BY <2>1, RefundInit, BaseAlways, PTL DEF Spec
<1>5. (Spec => []ClosedInv) /\ (Spec => []TestInv)
  BY <1>1, ClosedAlways, TestAlways
<1>. QED
  BY <1>2, <1>3, <1>4, <1>5, StockInit, BaseAlways, PTL DEF Spec

(* What an order took from stock is what its document says it took: no     *)
(* payment, rollback, storno or transition, no retry and no crash of one,  *)
(* takes a unit twice or gives it back twice.  Two registers completing    *)
(* the same public order are the exception (order.save() is guarded by a   *)
(* version, not by a claim), and excluded.                                 *)
THEOREM StockStaysMatched == Timely /\ "complete" \notin Ops => (Spec => []StockMatchesOrders)
<1>1. ASSUME Base, StockInv PROVE StockMatchesOrders
  <2>1. ASSUME NEW o \in Orders, NEW i \in Items PROVE taken[o][i] \in {0, 1}
    BY <1>1 DEF StockInv, Ledger
  <2>2. ASSUME NEW o \in Orders, NEW i \in Items, Quiet(o)
        PROVE  taken[o][i] = IF order[o].status = "PAID" /\ order[o].effect = "APPLIED" /\ i \in order[o].adj THEN 1 ELSE 0
    <3>1. ASSUME NEW a \in Requests, Carries(act[a], o, i) PROVE FALSE
      BY <1>1, <2>2, <3>1, CarrierPays DEF StockInv, Quiet, Working, PreWrite
    <3>2. ~Carried(o, i)
      BY <3>1 DEF Carried
    <3>3. Units(o, i) <=> order[o].status = "PAID" /\ order[o].effect = "APPLIED" /\ i \in order[o].adj
      BY <2>2 DEF Units, Half, Quiet
    <3>. QED
      BY <1>1, <3>2, <3>3 DEF StockInv, Ledger
  <2>. QED
    BY <2>1, <2>2 DEF StockMatchesOrders
<1>2. SUFFICES ASSUME Timely, "complete" \notin Ops PROVE Spec => []StockMatchesOrders
  OBVIOUS
<1>. QED
  BY <1>1, <1>2, StockAlways, BaseAlways, PTL
=============================================================================
