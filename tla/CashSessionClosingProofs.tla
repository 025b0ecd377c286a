---------------------- MODULE CashSessionClosingProofs -----------------------
(***************************************************************************)
(* The claims of a session, in every instance of CashSession whose claims  *)
(* outlast the requests that hold them (Timely): a payment and a           *)
(* transition shut each other out, so that a closing summary misses no     *)
(* payment, and a settled session has the stock of each of its orders      *)
(* where its kind, TEST or normal, wants it.                               *)
(***************************************************************************)
EXTENDS CashSessionBooksProofs

(* The steps at which a payment holds its session, or a transition does.   *)
PayingPcs    == PayPcs \ {"payClaim", "hookRelease"}
PastClaim(r) == \/ r.op = "close"
                \/ r.op \in SessionOps /\ r.pc \in StockPcs \cup {"testEnd", "deleteMark", "deleteOrders", "deleteEnd"}
Holding(r)   == r.pc \in PayingPcs \/ PastClaim(r)

PayHeld(b, x) == x.pay = b /\ x.payFresh /\ x.status = "OPEN" /\ x.trans = NoTransition
TransHeld(b, r, x) ==
    /\ x.trans.by = b /\ x.trans.type = r.op /\ x.trans.tok = r.tok /\ ~x.trans.failed /\ x.trans.fresh
    /\ x.status = (IF r.op = "close" THEN "OPEN" ELSE "CLOSED")
    /\ r.op \in {"test", "normal"} => x.isTest # (r.op = "test")
Holds(b, r, x) == /\ r.pc \in PayingPcs => PayHeld(b, x)
                  /\ PastClaim(r) => TransHeld(b, r, x)
Held == \A a \in Requests : Holds(a, act[a], session[act[a].ses])

(* Nobody but a holds the session s.                                       *)
Vacant(a, s) == \A b \in Requests \ {a} : act[b].ses = s => ~Holding(act[b])

LEMMA HoldingSession == ASSUME Base, NEW b \in Requests, Holding(act[b]) PROVE act[b].ses \in Sessions
BY Found DEF Holding, PastClaim, PayingPcs, SessionOps

LEMMA NoneHolds == NoTransition.by = NoRequest /\ NoTransition.failed = FALSE /\ NoTransition.tok = NoToken
BY DEF NoTransition

LEMMA VacantPayable ==
    ASSUME Base, Held, NEW a, NEW s \in Sessions, PayClaimable(session[s])
    PROVE  Vacant(a, s)
BY Consts, NoneHolds DEF Held, Holds, Holding, PayHeld, TransHeld, Vacant, PayClaimable, Payable, NoActivePayment

LEMMA VacantClaimable ==
    ASSUME Base, Held, NEW a, NEW s \in Sessions, NEW type, NEW t, Claimable(session[s], type, t),
           NoActivePayment(session[s]) \/ session[s].status # "OPEN"
    PROVE  Vacant(a, s)
BY Consts, NoneHolds DEF Held, Holds, Holding, PayHeld, TransHeld, Vacant, NoActivePayment, Claimable, Resumable

LEMMA VacantHolder ==
    ASSUME Base, Held, NEW a \in Requests, NEW s \in Sessions, session[s].trans.by = a
    PROVE  Vacant(a, s)
BY Consts, NoneHolds DEF Held, Holds, Holding, PayHeld, TransHeld, Vacant

LEMMA VacantHeld ==
    ASSUME Base, Held, NEW a \in Requests, Holding(act[a])
    PROVE  Vacant(a, act[a].ses)
BY Consts, NoneHolds DEF Held, Holds, Holding, PayHeld, TransHeld, Vacant

(* A step of a that touches no session but one the others do not hold.     *)
Touches(a) == \/ session' = session
              \/ \E s \in Sessions : \E x : session' = [session EXCEPT ![s] = x] /\ Vacant(a, s)

LEMMA HeldStep ==
    ASSUME Base, Held, NEW a \in Requests, NEW r, act' = [act EXCEPT ![a] = r], Touches(a),
           Holds(a, r, session'[r.ses])
    PROVE  Held'
<1>1. ASSUME NEW b \in Requests PROVE Holds(b, act'[b], session'[act'[b].ses])
  <2>0. act \in [Requests -> RequestStates] /\ session \in [Sessions -> SessionDocs]
    BY Found
  <2>1. CASE b = a
    BY <2>0, <2>1
  <2>2. CASE b # a
    <3>1. act'[b] = act[b] /\ Holds(b, act[b], session[act[b].ses])
      BY <2>0, <2>2 DEF Held
    <3>2. CASE Holding(act[b])
      <4>1. act[b].ses \in Sessions
        BY <3>2, HoldingSession
      <4>2. session'[act[b].ses] = session[act[b].ses]
        BY <2>0, <2>2, <3>2, <4>1 DEF Touches, Vacant
      <4>. QED
        BY <3>1, <4>2
    <3>3. CASE ~Holding(act[b])
      BY <3>1, <3>3 DEF Holds, Holding
    <3>. QED
      BY <3>2, <3>3
  <2>. QED
    BY <2>1, <2>2
<1>. QED
  BY <1>1 DEF Held

(* A request that goes on holding what it held, at most.                   *)
Continues(q, r) ==
    /\ r.pc \in PayingPcs => q.pc \in PayingPcs /\ r.ses = q.ses
    /\ PastClaim(r) => PastClaim(q) /\ r.ses = q.ses /\ r.op = q.op /\ r.tok = q.tok

LEMMA HeldContinues ==
    ASSUME Base, Held, NEW a \in Requests, NEW r, act' = [act EXCEPT ![a] = r], session' = session,
           Continues(act[a], r)
    PROVE  Held'
<1>1. Holds(a, r, session[r.ses])
  BY DEF Held, Holds, Continues, TransHeld
<1>. QED
  BY <1>1, HeldStep DEF Touches

LEMMA HeldEnds == ASSUME Base, Held, NEW a \in Requests, End(a), Touches(a) PROVE Held'
<1>1. ~(Idle.pc \in PayingPcs) /\ ~PastClaim(Idle)
  BY IdleOK DEF PayingPcs, PayPcs, PastClaim, SessionOps
<1>. QED
  BY <1>1, HeldStep DEF End, Holds

(* What the type of a request says of what it holds.                       *)
LEMMA HoldingOps ==
    ASSUME Base', NEW a \in Requests
    PROVE  /\ act'[a].pc \in PayingPcs => act'[a].op \in PayOps
           /\ PastClaim(act'[a]) => act'[a].op \in SessionOps
           /\ act'[a].op \in PayOps => ~PastClaim(act'[a])
           /\ act'[a].op \in SessionOps \cup {"storno", "none"} => act'[a].pc \notin PayingPcs
           /\ act'[a].pc \in FirstPcs => act'[a].op = "close" \/ ~Holding(act'[a])
<1>1. /\ act'[a].pc \in PcsOf(act'[a].op)
      /\ act'[a].op \in PayOps \cup SessionOps \cup {"storno", "none"}
  BY DEF Base, TypeOK, RequestsFit, Fits
<1>2. act'[a].op \in PayOps <=> act'[a].pc \in PayPcs
  BY <1>1, PcOps
<1>3. (SessionOps \cup {"storno", "none"}) \cap PayOps = {} /\ "close" \in SessionOps
  BY DEF SessionOps, PayOps
<1>4. act'[a].pc \in FirstPcs => act'[a].pc \notin PayingPcs \cup StockPcs \cup {"testEnd", "deleteMark", "deleteOrders", "deleteEnd"}
  BY DEF FirstPcs, PayingPcs, PayPcs, StockPcs
<1>. QED
  BY <1>2, <1>3, <1>4 DEF PayingPcs, PastClaim, Holding

LEMMA HeldLoose ==
    ASSUME Base, Held, NEW a \in Requests, \A b \in Requests \ {a} : act'[b] = act[b],
           Touches(a), act' \in [Requests -> RequestStates], ~Holding(act'[a])
    PROVE  Held'
<1>1. act' = [act EXCEPT ![a] = act'[a]]
  BY Found
<1>2. Holds(a, act'[a], session'[act'[a].ses])
  BY DEF Holds, Holding
<1>. QED
  BY <1>1, <1>2, HeldStep

(* The same request, with what it holds.                                   *)
On(a) == /\ \A b \in Requests \ {a} : act'[b] = act[b]
         /\ \/ act'[a] = Idle
            \/ act'[a].op = act[a].op /\ act'[a].ses = act[a].ses /\ act'[a].tok = act[a].tok

LEMMA OnMoves ==
    ASSUME NEW a \in Requests, Moves(a), act[a].op # "none", act[a].pc \notin {"testClaim", "deleteClaim"}
    PROVE  On(a)
BY DEF On, Moves, Goes, Starts

LEMMA HeldOn ==
    ASSUME Base, Base', Held, NEW a \in Requests, On(a), session' = session,
           Holding(act[a]) \/ ~Holding(act'[a])
    PROVE  Held'
<1>0. act' \in [Requests -> RequestStates] /\ act' = [act EXCEPT ![a] = act'[a]]
  BY Found DEF Base, TypeOK, On
<1>1. CASE ~Holding(act'[a])
  BY <1>0, <1>1, HeldLoose DEF On, Touches
<1>2. CASE Holding(act[a]) /\ Holding(act'[a])
  <2>1. act'[a] # Idle
    BY <1>2, IdleOK DEF Holding, PayingPcs, PayPcs, PastClaim, SessionOps
  <2>2. /\ act[a].pc \in PayingPcs => act[a].op \in PayOps
        /\ PastClaim(act[a]) => act[a].op \in SessionOps
    BY Found DEF PayingPcs, PastClaim, SessionOps
  <2>3. Continues(act[a], act'[a])
    BY <1>2, <2>1, <2>2, HoldingOps DEF On, Continues, Holding, SessionOps, PayOps
  <2>. QED
    BY <1>0, <2>3, HeldContinues
<1>. QED
  BY <1>1, <1>2

(* The steps that change no session.                                       *)
LEMMA HeldPlain ==
    ASSUME Base, Base', Held, NEW a \in Requests,
           \/ ApplyItem(a) \/ Rollback(a) \/ WriteSale(a) \/ WriteCard(a) \/ WriteComplete(a) \/ WriteWebhook(a)
           \/ WriteFails(a) \/ Trigger(a) \/ Link(a) \/ Cancel(a) \/ HookRelease(a)
           \/ StockList(a) \/ StockClaim(a) \/ StockMove(a) \/ StockDone(a)
           \/ ClosePending(a) \/ ClosePaid(a) \/ CloseSum(a) \/ TestPaid(a) \/ TestPending(a)
           \/ DeletePaid(a) \/ DeleteOrders(a) \/ StornoStep(a) \/ Crash(a)
    PROVE  Held'
<1>0. act' \in [Requests -> RequestStates]
  BY DEF Base, TypeOK
<1>1. CASE \/ ApplyItem(a) \/ Rollback(a) \/ WriteFails(a) \/ Trigger(a) \/ Link(a) \/ Cancel(a)
           \/ WriteSale(a) \/ WriteCard(a) \/ WriteComplete(a) \/ WriteWebhook(a)
  <2>1. act[a].pc \in PayingPcs /\ session' = session
    BY <1>1 DEF ApplyItem, Rollback, WriteFails, Trigger, Link, Cancel, WriteSale, WriteCard,
                WriteComplete, WriteWebhook, PayingPcs, PayPcs, docs
  <2>2. act[a].op \in PayOps /\ act[a].pc \notin {"testClaim", "deleteClaim"} /\ act[a].op # "none"
    BY <2>1, Found DEF PayingPcs, PayPcs, PayOps
  <2>3. Moves(a)
    BY <1>1, PayQuiet, TerminalQuiet, CancelEffect, WriteEffect, UndoQuiet DEF QuietMove, Writes
  <2>. QED
    BY <2>1, <2>2, <2>3, OnMoves, HeldOn DEF Holding
<1>2. CASE StockList(a) \/ StockClaim(a) \/ StockMove(a) \/ StockDone(a)
  <2>1. act[a].pc \in StockPcs /\ session' = session
    BY <1>2 DEF StockList, StockClaim, StockMove, StockDone, StockPcs, docs
  <2>2. act[a].op \in SessionOps \cup {"storno"} /\ act[a].pc \notin {"testClaim", "deleteClaim"}
    BY <2>1, Found DEF StockPcs
  <2>3. On(a)
    BY <1>2, <2>2, StockQuiet, OnMoves DEF QuietMove, SessionOps
  <2>4. CASE act[a].op \in SessionOps
    BY <2>1, <2>3, <2>4, HeldOn DEF Holding, PastClaim
  <2>5. CASE act[a].op = "storno"
    <3>1. act'[a].op \in {"storno", "none"}
      BY <2>3, <2>5, IdleOK DEF On
    <3>2. ~Holding(act'[a])
      BY <3>1, HoldingOps DEF Holding, SessionOps
    <3>. QED
      BY <2>1, <2>3, <3>2, HeldOn
  <2>. QED
    BY <2>2, <2>4, <2>5
<1>3. CASE ClosePending(a) \/ ClosePaid(a) \/ DeleteOrders(a)
  <2>1. Holding(act[a]) /\ session' = session
    BY <1>3, Found DEF ClosePending, ClosePaid, DeleteOrders, ClosePcs, DeletePcs, docs, Holding, PastClaim, SessionOps
  <2>2. act[a].pc \notin {"testClaim", "deleteClaim"} /\ act[a].op # "none"
    BY <1>3, Found DEF ClosePending, ClosePaid, DeleteOrders, ClosePcs, DeletePcs
  <2>3. Moves(a)
    BY <1>3, ManageQuiet, DeleteEffect DEF QuietMove
  <2>. QED
    BY <2>1, <2>2, <2>3, OnMoves, HeldOn
<1>4. CASE CloseSum(a)
  <2>1. On(a) /\ act[a].op = "close" /\ session' = session
    BY <1>4, SumEffect DEF On, docs
  <2>. QED
    BY <2>1, HeldOn DEF Holding, PastClaim
<1>5. CASE TestPaid(a) \/ TestPending(a) \/ DeletePaid(a)
  <2>1. session' = session /\ (End(a) \/ \E pc \in {"testPending", "testClaim", "testSet", "deleteClaim"} : Goto(a, pc))
    BY <1>5 DEF TestPaid, TestPending, DeletePaid, docs
  <2>2. act[a].op \in {"test", "normal", "delete"}
    BY <1>5, Found DEF TestPaid, TestPending, DeletePaid, TestPcs, DeletePcs
  <2>3. ASSUME NEW pc \in {"testPending", "testClaim", "testSet", "deleteClaim"}, Goto(a, pc) PROVE Held'
    <3>1. act'[a].pc = pc /\ act'[a].op = act[a].op /\ \A b \in Requests \ {a} : act'[b] = act[b]
      BY <2>3, GotoFields
    <3>2. ~Holding(act'[a])
      BY <2>2, <2>3, <3>1 DEF Holding, PayingPcs, PayPcs, PastClaim, StockPcs
    <3>. QED
      BY <1>0, <2>1, <3>1, <3>2, HeldLoose DEF Touches
  <2>. QED
    BY <2>1, <2>3, HeldEnds DEF Touches
<1>6. CASE StornoStep(a)
  <2>1. session' = session
    BY <1>6 DEF StornoStep, StornoClaim, Refund, StornoEnd, StornoThrows
  <2>2. CASE StornoEnd(a)
    BY <2>1, <2>2, StornoEndEffect, HeldEnds DEF Touches
  <2>3. CASE ~StornoEnd(a)
    <3>1. (\A b \in Requests \ {a} : act'[b] = act[b]) /\ act'[a].op \in {"storno", "none"}
      BY <1>6, <2>3, StornosEffect, IdleOK DEF StornoStep, Stornos
    <3>2. ~Holding(act'[a])
      BY <3>1, HoldingOps DEF Holding, SessionOps
    <3>. QED
      BY <1>0, <2>1, <3>1, <3>2, HeldLoose DEF Touches
  <2>. QED
    BY <2>2, <2>3
<1>7. CASE Crash(a) \/ HookRelease(a)
  BY <1>7, HeldEnds DEF Crash, HookRelease, docs, Touches
<1>. QED
  BY <1>1, <1>2, <1>3, <1>4, <1>5, <1>6, <1>7

(* The steps that change their session.                                    *)
LEMMA HeldPay ==
    ASSUME Base, Base', Held, NEW a \in Requests, PayClaim(a) \/ Refresh(a) \/ PayRelease(a)
    PROVE  Held'
<1>0. /\ act[a].ses \in Sessions /\ session \in [Sessions -> SessionDocs] /\ session[act[a].ses] \in SessionDocs
      /\ act[a].op \in PayOps /\ act[a].op # "none" /\ act[a].pc \notin {"testClaim", "deleteClaim"}
      /\ act' \in [Requests -> RequestStates]
  BY Found DEF PayClaim, Refresh, PayRelease, PayPcs, PayOps, Base, TypeOK
<1>1. PICK s \in Sessions : s = act[a].ses
  BY <1>0
<1>2. Moves(a)
  BY PayQuiet, TerminalQuiet DEF QuietMove
<1>3. On(a)
  BY <1>0, <1>2, OnMoves
<1>4. ~PastClaim(act'[a]) /\ (act'[a].pc \in PayingPcs => act'[a].ses = s)
  <2>1. act'[a].op \in PayOps \cup {"none"}
    BY <1>0, <1>3, IdleOK DEF On
  <2>2. ~PastClaim(act'[a])
    BY <2>1, HoldingOps DEF PayOps, PastClaim, SessionOps
  <2>3. act'[a].pc \in PayingPcs => act'[a] # Idle
    BY IdleOK DEF PayingPcs, PayPcs
  <2>. QED
    BY <1>1, <1>3, <2>2, <2>3 DEF On
<1>5. act' = [act EXCEPT ![a] = act'[a]]
  BY <1>0, <1>3, Found DEF On
<1>6. ASSUME Touches(a), act'[a].pc \in PayingPcs => PayHeld(a, session'[s]) PROVE Held'
  <2>1. Holds(a, act'[a], session'[act'[a].ses])
    BY <1>4, <1>6 DEF Holds
  <2>. QED
    BY <1>5, <1>6, <2>1, HeldStep
<1>7. CASE PayClaim(a)
  <2>1. CASE PayClaimable(session[s]) /\ session' = [session EXCEPT ![s].pay = a, ![s].payFresh = TRUE]
    <3> DEFINE x == [session[s] EXCEPT !.pay = a, !.payFresh = TRUE]
    <3>1. session' = [session EXCEPT ![s] = x]
      BY <2>1
    <3>2. PayHeld(a, x)
      BY <1>0, <1>1, <2>1 DEF PayHeld, SessionDocs, PayClaimable, Payable
    <3> HIDE DEF x
    <3>. QED
      BY <1>0, <1>6, <2>1, <3>1, <3>2, VacantPayable DEF Touches
  <2>2. CASE session' = session /\ (Goto(a, "hookRelease") \/ End(a))
    <3>1. act'[a].pc \notin PayingPcs
      BY <2>2, GotoFields, Found, IdleOK, ZenonT(40) DEF End, PayingPcs, PayPcs
    <3>. QED
      BY <1>6, <2>2, <3>1 DEF Touches
  <2>. QED
    BY <1>1, <1>7, <2>1, <2>2 DEF PayClaim
<1>8. CASE Refresh(a)
  <2>0. Holding(act[a]) /\ PayHeld(a, session[s])
    BY <1>1, <1>8 DEF Refresh, Holding, PayingPcs, PayPcs, Held, Holds
  <2>1. CASE session' = [session EXCEPT ![s].payFresh = TRUE]
    <3> DEFINE x == [session[s] EXCEPT !.payFresh = TRUE]
    <3>1. session' = [session EXCEPT ![s] = x]
      BY <2>1
    <3>2. PayHeld(a, x)
      BY <1>0, <1>1, <2>0 DEF PayHeld, SessionDocs
    <3> HIDE DEF x
    <3>. QED
      BY <1>0, <1>1, <1>6, <2>0, <3>1, <3>2, VacantHeld DEF Touches
  <2>2. CASE session' = session
    BY <1>6, <2>0, <2>2 DEF Touches
  <2>. QED
    BY <1>1, <1>8, <2>1, <2>2 DEF Refresh
<1>9. CASE PayRelease(a)
  <2>1. Holding(act[a])
    BY <1>9 DEF PayRelease, Holding, PayingPcs, PayPcs
  <2>2. Touches(a)
    <3>1. \/ session' = session
          \/ \E x : session' = [session EXCEPT ![s] = x]
      BY <1>1, <1>9 DEF PayRelease
    <3>. QED
      BY <1>1, <2>1, <3>1, VacantHeld DEF Touches
  <2>3. act'[a].pc \notin PayingPcs
    <3>1. Goto(a, "hookRelease") \/ End(a)
      BY <1>9 DEF PayRelease
    <3>. QED
      BY <3>1, GotoFields, Found, IdleOK, ZenonT(40) DEF End, PayingPcs, PayPcs
  <2>. QED
    BY <1>6, <2>2, <2>3
<1>. QED
  BY <1>7, <1>8, <1>9

(* A transition ends: closed, given up, done or failed.                    *)
LEMMA HeldOver ==
    ASSUME Base, Base', Held, NEW a \in Requests,
           Unclaim(a) \/ CloseEnd(a) \/ TestSet(a) \/ TestEnd(a) \/ DeleteEnd(a) \/ (StockFail(a) /\ act[a].op # "storno")
    PROVE  Held'
<1>0. PICK s \in Sessions : s = act[a].ses
  BY Found DEF Unclaim, CloseEnd, TestSet, TestEnd, DeleteEnd, StockFail, ClosePcs, TestPcs, DeletePcs, StockPcs, SessionOps
<1>1. \/ session' = session
      \/ session[s].trans.by = a /\ \E x : session' = [session EXCEPT ![s] = x]
      \/ PayClaimable(session[s]) /\ \E x : session' = [session EXCEPT ![s] = x]
  <2>1. CASE Unclaim(a) \/ CloseEnd(a)
    BY <1>0, <2>1 DEF Unclaim, CloseEnd, HoldsTransition
  <2>2. CASE TestSet(a)
    BY <1>0, <2>2 DEF TestSet, Unpaying
  <2>3. CASE TestEnd(a) \/ DeleteEnd(a)
    BY <1>0, <2>3 DEF TestEnd, DeleteEnd, HoldsTransition
  <2>4. CASE StockFail(a) /\ act[a].op # "storno"
    BY <1>0, <2>4 DEF StockFail, HoldsTransition
  <2>. QED
    BY <2>1, <2>2, <2>3, <2>4
<1>2. Touches(a)
  BY <1>1, VacantHolder, VacantPayable DEF Touches
<1>3. End(a)
  BY DEF Unclaim, CloseEnd, TestSet, TestEnd, DeleteEnd, StockFail
<1>. QED
  BY <1>2, <1>3, HeldEnds

LEMMA HeldClaim ==
    ASSUME Base, Base', Held, NEW a \in Requests, NEW t \in Tokens, TestClaim(a, t) \/ DeleteClaim(a, t)
    PROVE  Held'
<1>0. /\ act[a].op \in {"test", "normal", "delete"} /\ act[a].ses \in Sessions
      /\ act[a] \in RequestStates /\ session \in [Sessions -> SessionDocs]
      /\ TestClaim(a, t) => act[a].op # "delete"
      /\ DeleteClaim(a, t) => act[a].op = "delete"
  BY Found DEF TestClaim, DeleteClaim, TestPcs, DeletePcs, SessionOps
<1>1. PICK s \in Sessions : s = act[a].ses
  BY <1>0
<1>2. PICK pc \in {"list", "deleteOrders"} :
         \/ End(a) /\ session' = session
         \/ /\ session[s].status = "CLOSED" /\ Claimable(session[s], act[a].op, t)
            /\ act[a].op \in {"test", "normal"} => session[s].isTest # (act[a].op = "test")
            /\ session' = [session EXCEPT ![s].trans = ClaimedBy(a, act[a].op, t)]
            /\ act' = [act EXCEPT ![a].pc = pc, ![a].tok = t]
  <2>1. CASE TestClaim(a, t)
    BY <1>0, <1>1, <2>1 DEF TestClaim, ClaimTransition
  <2>2. CASE DeleteClaim(a, t)
    <3>1. PICK pc \in {"list", "deleteOrders"} :
             pc = IF session[s].effect = "REVERTED" THEN "deleteOrders" ELSE "list"
      OBVIOUS
    <3>2. act' = [act EXCEPT ![a].tok = t, ![a].pc = pc] => act' = [act EXCEPT ![a].pc = pc, ![a].tok = t]
      <4>1. act \in [Requests -> RequestStates]
        BY Found
      <4>2. [act[a] EXCEPT !.tok = t, !.pc = pc] = [act[a] EXCEPT !.pc = pc, !.tok = t]
        BY <1>0 DEF RequestStates
      <4>. QED
        BY <4>1, <4>2
    <3>. QED
      BY <1>0, <1>1, <2>2, <3>1, <3>2 DEF DeleteClaim, ClaimTransition
  <2>. QED
    BY <2>1, <2>2
<1>3. CASE End(a) /\ session' = session
  BY <1>3, HeldEnds DEF Touches
<1>4. CASE /\ session[s].status = "CLOSED" /\ Claimable(session[s], act[a].op, t)
           /\ act[a].op \in {"test", "normal"} => session[s].isTest # (act[a].op = "test")
           /\ session' = [session EXCEPT ![s].trans = ClaimedBy(a, act[a].op, t)]
           /\ act' = [act EXCEPT ![a].pc = pc, ![a].tok = t]
  <2>1. PICK trans : trans = ClaimedBy(a, act[a].op, t)
    OBVIOUS
  <2> DEFINE x == [session[s] EXCEPT !.trans = trans]
             r == [act[a] EXCEPT !.pc = pc, !.tok = t]
  <2>2. session' = [session EXCEPT ![s] = x]
    BY <1>4, <2>1
  <2>3. act' = [act EXCEPT ![a] = r]
    BY <1>4
  <2>4. x.trans = trans /\ x.status = session[s].status /\ x.isTest = session[s].isTest
    BY <1>0 DEF SessionDocs
  <2>5. r.op = act[a].op /\ r.ses = s /\ r.tok = t /\ r.pc = pc
    BY <1>0, <1>1 DEF RequestStates
  <2> HIDE DEF x, r
  <2>6. Vacant(a, s)
    BY <1>4, VacantClaimable
  <2>7. TransHeld(a, r, x)
    <3>1. x.trans.by = a /\ x.trans.type = r.op /\ x.trans.tok = r.tok /\ x.trans.failed = FALSE /\ x.trans.fresh = TRUE
      <4>1. trans.by = a /\ trans.type = act[a].op /\ trans.tok = t /\ trans.failed = FALSE /\ trans.fresh = TRUE
        BY <2>1 DEF ClaimedBy
      <4>. QED
        BY <2>4, <2>5, <4>1
    <3>2. x.status = (IF r.op = "close" THEN "OPEN" ELSE "CLOSED")
      BY <1>0, <1>4, <2>4, <2>5
    <3>3. r.op \in {"test", "normal"} => x.isTest # (r.op = "test")
      BY <1>4, <2>4, <2>5
    <3>. QED
      BY <3>1, <3>2, <3>3 DEF TransHeld
  <2>8. r.pc \notin PayingPcs
    BY <2>5 DEF PayingPcs, PayPcs
  <2>9. Holds(a, r, session'[r.ses])
    BY <1>0, <2>2, <2>5, <2>7, <2>8 DEF Holds
  <2>. QED
    BY <2>2, <2>3, <2>6, <2>9, HeldStep DEF Touches
<1>. QED
  BY <1>2, <1>3, <1>4

LEMMA HeldMark == ASSUME Base, Base', Held, NEW a \in Requests, DeleteMark(a) PROVE Held'
<1>0. act[a].op = "delete" /\ PastClaim(act[a]) /\ act[a].ses \in Sessions /\ session \in [Sessions -> SessionDocs]
  BY Found DEF DeleteMark, DeletePcs, PastClaim, SessionOps
<1>1. PICK s \in Sessions : s = act[a].ses
  BY <1>0
<1>2. On(a) /\ act'[a] # Idle /\ act' = [act EXCEPT ![a] = act'[a]] /\ act'[a].pc = "deleteOrders"
  <2>1. /\ act'[a].pc = "deleteOrders" /\ act'[a].op = act[a].op /\ act'[a].ses = act[a].ses
        /\ act'[a].tok = act[a].tok /\ \A b \in Requests \ {a} : act'[b] = act[b]
    BY GotoFields DEF DeleteMark
  <2>2. act' \in [Requests -> RequestStates]
    BY DEF Base, TypeOK
  <2>. QED
    BY <2>1, <2>2, IdleOK, Found DEF On
<1>3. TransHeld(a, act[a], session[s])
  BY <1>0, <1>1 DEF Held, Holds
<1>4. CASE session' = session
  BY <1>0, <1>2, <1>4, HeldOn DEF Holding
<1>5. CASE session' = [session EXCEPT ![s].effect = "REVERTED"]
  <2> DEFINE x == [session[s] EXCEPT !.effect = "REVERTED"]
  <2>1. session' = [session EXCEPT ![s] = x]
    BY <1>5
  <2>2. x.trans = session[s].trans /\ x.status = session[s].status /\ x.isTest = session[s].isTest
    BY <1>0 DEF SessionDocs
  <2> HIDE DEF x
  <2>3. TransHeld(a, act'[a], x)
    BY <1>2, <1>3, <2>2 DEF TransHeld, On
  <2>4. Holds(a, act'[a], session'[act'[a].ses])
    BY <1>0, <1>1, <1>2, <2>1, <2>3 DEF Holds, On, PayingPcs, PayPcs
  <2>5. Vacant(a, s)
    BY <1>0, <1>1, VacantHeld DEF Holding
  <2>. QED
    BY <1>2, <2>1, <2>4, <2>5, HeldStep DEF Touches
<1>. QED
  BY <1>1, <1>4, <1>5 DEF DeleteMark

LEMMA HeldCloseBegin ==
    ASSUME Base, Base', Held, NEW a \in Requests, NEW s \in Sessions, NEW t \in Tokens, CloseBegin(a, s, t)
    PROVE  Held'
<1>0. session \in [Sessions -> SessionDocs] /\ session[s].status = "OPEN" /\ NoActivePayment(session[s])
      /\ Claimable(session[s], "close", t)
  BY Found DEF CloseBegin, Closable
<1>1. PICK trans : trans = ClaimedBy(a, "close", t)
  OBVIOUS
<1> DEFINE q == Request("close", "closePending", s, NoOrder)
           r == [q EXCEPT !.tok = t]
           x == [session[s] EXCEPT !.pay = NoRequest, !.payFresh = FALSE, !.trans = trans]
<1>2. q \in RequestStates /\ q.op = "close" /\ q.pc = "closePending" /\ q.ses = s
  BY RequestOK DEF AllOps, Pcs, ClosePcs
<1>3. act' = [act EXCEPT ![a] = r]
  BY DEF CloseBegin, Begin
<1>4. session' = [session EXCEPT ![s] = x]
  BY <1>0, <1>1 DEF CloseBegin, Unpaying
<1> HIDE DEF q
<1>5. r.op = "close" /\ r.ses = s /\ r.tok = t /\ r.pc = "closePending"
  BY <1>2 DEF RequestStates
<1>6. x.trans = trans /\ x.status = "OPEN"
  BY <1>0 DEF SessionDocs
<1>7. trans.by = a /\ trans.type = "close" /\ trans.tok = t /\ trans.failed = FALSE /\ trans.fresh = TRUE
  BY <1>1 DEF ClaimedBy
<1> HIDE DEF x, r
<1>8. TransHeld(a, r, x)
  BY <1>5, <1>6, <1>7 DEF TransHeld
<1>9. Holds(a, r, session'[r.ses])
  BY <1>0, <1>4, <1>5, <1>8 DEF Holds, PayingPcs, PayPcs
<1>10. Vacant(a, s)
  BY <1>0, VacantClaimable
<1>. QED
  BY <1>3, <1>4, <1>9, <1>10, HeldStep DEF Touches

LEMMA HeldBegin ==
    ASSUME Base, Base', Held, NEW a \in Requests, BeginPayment(a) \/ BeginManagement(a)
    PROVE  Held'
<1>0. act' \in [Requests -> RequestStates]
  BY DEF Base, TypeOK
<1>1. CASE \E s \in Sessions, t \in Tokens : CloseBegin(a, s, t)
  BY <1>1, HeldCloseBegin
<1>2. CASE \E o \in Orders : StornoBegin(a, o)
  <2>1. session' = session
    BY <1>2 DEF StornoBegin
  <2>2. (\A b \in Requests \ {a} : act'[b] = act[b]) /\ act'[a].op \in {"storno", "none"}
    BY <1>2, StornosEffect, IdleOK DEF Stornos
  <2>3. ~Holding(act'[a])
    BY <2>2, HoldingOps DEF Holding, SessionOps
  <2>. QED
    BY <1>0, <2>1, <2>2, <2>3, HeldLoose DEF Touches
<1>3. CASE ~(\E s \in Sessions, t \in Tokens : CloseBegin(a, s, t)) /\ ~(\E o \in Orders : StornoBegin(a, o))
  <2>1. QuietMove(a) /\ act'[a].pc \in FirstPcs /\ act'[a].op # "close"
    BY <1>3, BeginQuiet
  <2>2. ~Holding(act'[a]) /\ \A b \in Requests \ {a} : act'[b] = act[b]
    BY <2>1, HoldingOps DEF QuietMove, Moves
  <2>3. session' = session
    BY <1>3 DEF BeginPayment, BeginManagement, SaleBegin, CompleteBegin, WebhookBegin, TestBegin, DeleteBegin, docs
  <2>. QED
    BY <1>0, <2>2, <2>3, HeldLoose DEF Touches
<1>. QED
  BY <1>1, <1>2, <1>3

(* Time and other people: a claim held in time does not turn stale.        *)
LEMMA HeldTime ==
    ASSUME Timely, Base, Held,
           \/ \E s \in Sessions : OpenSession(s) \/ ExpirePay(s) \/ ExpireTransition(s)
           \/ \E o \in Orders : PublicOrder(o) \/ ExpireHook(o)
           \/ UNCHANGED vars
    PROVE  Held'
<1>0. session \in [Sessions -> SessionDocs]
  BY TypeParts DEF Base
<1>1. ASSUME act' = act, session' = session PROVE Held'
  BY <1>1 DEF Held
<1>2. ASSUME act' = act, NEW s \in Sessions, NEW x, session' = [session EXCEPT ![s] = x],
             \A b \in Requests : act[b].ses = s /\ Holding(act[b]) => Holds(b, act[b], x)
      PROVE  Held'
  <2>1. ASSUME NEW b \in Requests PROVE Holds(b, act'[b], session'[act'[b].ses])
    <3>1. CASE Holding(act[b])
      <4>1. act[b].ses \in Sessions
        BY <3>1, HoldingSession
      <4>. QED
        BY <1>0, <1>2, <3>1, <4>1 DEF Held
    <3>2. CASE ~Holding(act[b])
      BY <1>2, <3>2 DEF Holds, Holding
    <3>. QED
      BY <3>1, <3>2
  <2>. QED
    BY <2>1 DEF Held
<1>3. ASSUME NEW s \in Sessions, OpenSession(s) PROVE Held'
  <2> DEFINE x == [session[s] EXCEPT !.status = "OPEN"]
  <2>1. session' = [session EXCEPT ![s] = x] /\ act' = act
    BY <1>3 DEF OpenSession
  <2>2. ASSUME NEW b \in Requests, act[b].ses = s PROVE ~Holding(act[b])
    BY <1>3, <2>2 DEF OpenSession, Held, Holds, Holding, PayHeld, TransHeld
  <2> HIDE DEF x
  <2>. QED
    BY <1>2, <2>1, <2>2
<1>4. ASSUME NEW s \in Sessions, ExpirePay(s) PROVE Held'
  <2> DEFINE x == [session[s] EXCEPT !.payFresh = FALSE]
  <2>1. session' = [session EXCEPT ![s] = x] /\ act' = act
    BY <1>4 DEF ExpirePay
  <2>2. x.trans = session[s].trans /\ x.status = session[s].status /\ x.isTest = session[s].isTest
    BY <1>0 DEF SessionDocs
  <2> HIDE DEF x
  <2>3. ASSUME NEW b \in Requests, act[b].ses = s, Holding(act[b]) PROVE Holds(b, act[b], x)
    <3>1. Holds(b, act[b], session[s])
      BY <2>3 DEF Held
    <3>2. act[b].pc \notin PayingPcs
      BY <1>4, <2>3, <3>1 DEF ExpirePay, PayHolder, PayingPcs, Holds, PayHeld
    <3>. QED
      BY <2>2, <3>1, <3>2 DEF Holds, TransHeld
  <2>. QED
    BY <1>2, <2>1, <2>3
<1>5. ASSUME NEW s \in Sessions, ExpireTransition(s) PROVE Held'
  <2>1. PICK trans : trans = [session[s].trans EXCEPT !.fresh = FALSE]
    OBVIOUS
  <2> DEFINE x == [session[s] EXCEPT !.trans = trans]
  <2>2. session' = [session EXCEPT ![s] = x] /\ act' = act
    BY <1>5, <2>1 DEF ExpireTransition
  <2>3. ASSUME NEW b \in Requests, act[b].ses = s PROVE ~Holding(act[b])
    <3>1. Holds(b, act[b], session[s])
      BY <2>3 DEF Held
    <3>2. act[b].pc \notin PayingPcs
      BY <1>5, <3>1 DEF ExpireTransition, Holds, PayHeld, NoTransition
    <3>3. PastClaim(act[b]) => act[b].pc \in ClosePcs \cup StockPcs \cup {"testEnd"}
                                                \cup (DeletePcs \ {"deletePaid", "deleteClaim"})
      <4>1. act[b].op = "close" => PcsOf(act[b].op) = ClosePcs \cup StockPcs
        BY DEF PcsOf
      <4>. QED
        BY <4>1, Found DEF PastClaim, DeletePcs
    <3>4. ~PastClaim(act[b])
      BY <1>5, <2>3, <3>1, <3>3 DEF ExpireTransition, TransHolder, Holds, TransHeld
    <3>. QED
      BY <3>2, <3>4 DEF Holding
  <2> HIDE DEF x
  <2>. QED
    BY <1>2, <2>2, <2>3
<1>6. ASSUME NEW o \in Orders, PublicOrder(o) \/ ExpireHook(o) PROVE Held'
  BY <1>1, <1>6 DEF PublicOrder, ExpireHook
<1>7. CASE UNCHANGED vars
  BY <1>1, <1>7 DEF vars
<1>. QED
  BY <1>3, <1>4, <1>5, <1>6, <1>7

LEMMA HeldInit == Init => Held
<1>1. ~(Idle.pc \in PayingPcs) /\ ~PastClaim(Idle)
  BY IdleOK DEF PayingPcs, PayPcs, PastClaim, SessionOps
<1>. QED
  BY <1>1 DEF Init, Held, Holds

LEMMA HeldNext == ASSUME Timely, Base, Base', Held, [Next]_vars PROVE Held'
<1>1. ASSUME NEW a \in Requests, Step(a) PROVE Held'
  <2>1. CASE PayStep(a)
    BY <2>1, HeldPlain, HeldPay DEF PayStep
  <2>2. CASE StockStep(a)
    <3>1. CASE StockFail(a) /\ act[a].op = "storno"
      <4>1. End(a) /\ session' = session
        BY <3>1 DEF StockFail
      <4>. QED
        BY <4>1, HeldEnds DEF Touches
    <3>. QED
      BY <2>2, <3>1, HeldPlain, HeldOver DEF StockStep
  <2>3. CASE CloseStep(a) \/ TestStep(a) \/ DeleteStep(a)
    BY <2>3, HeldPlain, HeldOver, HeldClaim, HeldMark DEF CloseStep, TestStep, DeleteStep
  <2>4. CASE StornoStep(a)
    BY <2>4, HeldPlain
  <2>. QED
    BY <1>1, <2>1, <2>2, <2>3, <2>4 DEF Step
<1>2. ASSUME NEW a \in Requests, BeginPayment(a) \/ BeginManagement(a) \/ Crash(a) PROVE Held'
  BY <1>2, HeldBegin, HeldPlain
<1>. QED
  BY <1>1, <1>2, HeldTime DEF Next
-----------------------------------------------------------------------------
(* Only the end of a close closes a session.                               *)
LEMMA ClosesOnly ==
    ASSUME Base, [Next]_vars, \A a \in Requests : ~CloseEnd(a), NEW z \in Sessions
    PROVE  session'[z].status = "CLOSED" => session[z].status = "CLOSED"
<1> DEFINE SameClosed == session'[z].status = "CLOSED" => session[z].status = "CLOSED"
<1>0. session \in [Sessions -> SessionDocs]
  BY TypeParts DEF Base
<1>1. ASSUME NEW s \in Sessions, OpenSession(s) \/ ExpirePay(s) \/ ExpireTransition(s) PROVE SameClosed
  BY <1>0, <1>1 DEF OpenSession, ExpirePay, ExpireTransition, SessionDocs
<1>2. ASSUME NEW o \in Orders, PublicOrder(o) \/ ExpireHook(o) PROVE SameClosed
  BY <1>2 DEF PublicOrder, ExpireHook
<1>3. ASSUME NEW a \in Requests, BeginPayment(a) \/ BeginManagement(a) PROVE SameClosed
  <2>1. CASE \E s \in Sessions, t \in Tokens : CloseBegin(a, s, t)
    BY <1>0, <2>1 DEF CloseBegin, Unpaying, SessionDocs
  <2>2. CASE ~\E s \in Sessions, t \in Tokens : CloseBegin(a, s, t)
    BY <1>3, <2>2 DEF BeginPayment, BeginManagement, SaleBegin, CompleteBegin, WebhookBegin, TestBegin, DeleteBegin,
       StornoBegin, docs
  <2>. QED
    BY <2>1, <2>2
<1>4. ASSUME NEW a \in Requests, PayStep(a) PROVE SameClosed
  <2>1. CASE PayClaim(a) \/ Refresh(a) \/ PayRelease(a)
    BY <1>0, <2>1 DEF PayClaim, Refresh, PayRelease, SessionDocs
  <2>2. CASE ~(PayClaim(a) \/ Refresh(a) \/ PayRelease(a))
    BY <1>4, <2>2 DEF PayStep, ApplyItem, Rollback, WriteSale, WriteCard, WriteComplete, WriteWebhook, WriteFails,
       Trigger, Link, Cancel, HookRelease, docs
  <2>. QED
    BY <2>1, <2>2
<1>5. ASSUME NEW a \in Requests, StockStep(a) PROVE SameClosed
  BY <1>0, <1>5, ZenonT(40) DEF StockStep, StockList, StockClaim, StockMove, StockDone, StockFail, docs, SessionDocs
<1>6. ASSUME NEW a \in Requests, CloseStep(a) PROVE SameClosed
  BY <1>0, <1>6 DEF CloseStep, ClosePending, ClosePaid, Unclaim, CloseSum, docs, SessionDocs
<1>7. ASSUME NEW a \in Requests, TestStep(a) PROVE SameClosed
  <2>1. CASE TestSet(a)
    BY <1>0, <2>1, SMTT(30) DEF TestSet, Unpaying, SessionDocs
  <2>2. CASE TestEnd(a)
    BY <1>0, <2>2, SMTT(30) DEF TestEnd, SessionDocs
  <2>3. CASE \E t \in Tokens : TestClaim(a, t)
    BY <1>0, <2>3 DEF TestClaim, ClaimTransition, SessionDocs
  <2>. QED
    BY <1>7, <2>1, <2>2, <2>3 DEF TestStep, TestPaid, TestPending, docs
<1>8. ASSUME NEW a \in Requests, DeleteStep(a) PROVE SameClosed
  <2>1. CASE DeleteEnd(a)
    <3>1. [NewSession EXCEPT !.status = "DELETED"].status = "DELETED"
      BY DEF NewSession
    <3>. QED
      BY <1>0, <2>1, <3>1 DEF DeleteEnd
  <2>2. CASE DeleteMark(a) \/ \E t \in Tokens : DeleteClaim(a, t)
    BY <1>0, <2>2, ZenonT(40) DEF DeleteMark, DeleteClaim, ClaimTransition, SessionDocs
  <2>3. CASE DeletePaid(a) \/ DeleteOrders(a)
    BY <2>3 DEF DeletePaid, DeleteOrders, docs
  <2>. QED
    BY <1>8, <2>1, <2>2, <2>3 DEF DeleteStep
<1>9. ASSUME NEW a \in Requests, StornoStep(a) \/ Crash(a) PROVE SameClosed
  BY <1>9 DEF StornoStep, StornoClaim, Refund, StornoEnd, StornoThrows, Crash, docs
<1>10. CASE UNCHANGED vars
  BY <1>10 DEF vars
<1>. QED
  BY <1>1, <1>2, <1>3, <1>4, <1>5, <1>6, <1>7, <1>8, <1>9, <1>10 DEF Next, Step

-----------------------------------------------------------------------------
(* A delivery works for the session its order waits in.                    *)
HookSes == \A a \in Requests : LET o == act[a].ord IN
    act[a].op = "webhook" /\ order[o].status = "PENDING" => order[o].ses = act[a].ses

(* A close about to be written has counted what is paid.                   *)
Counted == \A a \in Requests : act[a].pc = "closeEnd" => OrdersOf(act[a].ses, "PAID") \subseteq act[a].todo

ClosedInv == Held /\ HookSes /\ Counted /\ ClosedBooksAreComplete

(* A pending order waits where it waited, or is one no delivery knows.     *)
Waits(d, e) == e.status = "PENDING" => d.status = "PENDING" /\ e.ses = d.ses

LEMMA HooksKept ==
    ASSUME Base, Base', HookSes, NEW a \in Requests, Moves(a) \/ End(a),
           \A o \in Orders : Waits(order[o], order'[o]) \/ \A b \in Requests : act'[b].op = "webhook" => act'[b].ord # o
    PROVE  HookSes'
<1>1. ASSUME NEW b \in Requests, act'[b].op = "webhook", NEW o, o = act'[b].ord, order'[o].status = "PENDING"
      PROVE  order'[o].ses = act'[b].ses
  <2>1. o \in Orders
    BY <1>1 DEF Base, RequestsFit, Fits, PayOps
  <2>2. order[o].status = "PENDING" /\ order'[o].ses = order[o].ses
    BY <1>1, <2>1 DEF Waits
  <2>3. Moves(a)
    BY EndMoves
  <2>4. CASE b # a
    BY <1>1, <2>2, <2>3, <2>4 DEF Moves, HookSes
  <2>5. CASE b = a
    BY <1>1, <2>2, <2>3, <2>5, IdleOK DEF Moves, Goes, Starts, HookSes
  <2>. QED
    BY <2>4, <2>5
<1>. QED
  BY <1>1 DEF HookSes

LEMMA HooksOn ==
    ASSUME Base, Base', HookSes, \A b \in Requests : act'[b].op = "webhook" => act'[b] = act[b],
           \A o \in Orders : Waits(order[o], order'[o]) \/ \A b \in Requests : act'[b].op = "webhook" => act'[b].ord # o
    PROVE  HookSes'
<1>1. ASSUME NEW b \in Requests, act'[b].op = "webhook", NEW o, o = act'[b].ord, order'[o].status = "PENDING"
      PROVE  order'[o].ses = act'[b].ses
  <2>1. o \in Orders
    BY <1>1 DEF Base, RequestsFit, Fits, PayOps
  <2>. QED
    BY <1>1, <2>1 DEF Waits, HookSes
<1>. QED
  BY <1>1 DEF HookSes

LEMMA HooksNext == ASSUME Base, Base', HookSes, [Next]_vars PROVE HookSes'
<1>1. CASE QuietStep
  <2>1. \A o \in Orders : Waits(order[o], order'[o])
    BY <1>1 DEF QuietStep, Quieting, SameBook, Waits
  <2>. QED
    BY <1>1, <2>1, HooksKept, HooksOn DEF QuietStep
<1>2. ASSUME NEW o \in Orders, PublicOrder(o) PROVE HookSes'
  <2>1. \A p \in Orders \ {o} : order'[p] = order[p]
    BY <1>2 DEF PublicOrder
  <2>2. act' = act /\ \A b \in Requests : act[b].ord # o
    BY <1>2 DEF PublicOrder, Unused
  <2>. QED
    BY <2>1, <2>2, HooksOn DEF Waits
<1>3. ASSUME NEW a \in Requests, Writes(a) PROVE HookSes'
  <2>1. PICK o : o = act[a].ord
    OBVIOUS
  <2>2. /\ o \in Orders /\ Only(o) /\ Moves(a) /\ act[a].pc = "write"
        /\ act[a].op \in {"sale", "card"} => /\ order[o].status = "NEW"
                                             /\ \A b \in Requests \ {a} : act[b].ord # o
        /\ order'[o].status = (IF act[a].op = "card" THEN "PENDING" ELSE "PAID")
    BY <1>3, <2>1, WriteEffect
  <2>3. \A p \in Orders \ {o} : Waits(order[p], order'[p])
    BY <2>2 DEF Only, Waits
  <2>4. CASE act[a].op = "card"
    <3>1. act'[a].op # "webhook"
      BY <2>2, <2>4, IdleOK DEF Moves, Goes, Starts
    <3>. QED
      BY <2>2, <2>3, <2>4, <3>1, HooksKept DEF Moves
  <2>5. CASE act[a].op # "card"
    BY <2>2, <2>3, <2>5, HooksKept DEF Waits
  <2>. QED
    BY <2>4, <2>5
<1>4. ASSUME NEW a \in Requests, Cancel(a) PROVE HookSes'
  <2>1. Moves(a) /\ \A o \in Orders : Waits(order[o], order'[o])
    BY <1>4, CancelEffect DEF Waits, Only
  <2>. QED
    BY <2>1, HooksKept
<1>5. ASSUME NEW a \in Requests, Stornos(a) PROVE HookSes'
  BY <1>5, StornosEffect, HooksOn, IdleOK DEF Waits
<1>6. ASSUME NEW a \in Requests, StornoEnd(a) PROVE HookSes'
  <2>1. \A o \in Orders : Waits(order[o], order'[o])
    BY <1>6, StornoEndEffect DEF Waits, Only
  <2>. QED
    BY <1>6, <2>1, StornoEndEffect, HooksKept
<1>7. ASSUME NEW a \in Requests, DeleteOrders(a) PROVE HookSes'
  BY <1>7, DeleteEffect, HooksKept DEF Waits
<1>8. ASSUME NEW a \in Requests, CloseSum(a) PROVE HookSes'
  BY <1>8, SumEffect, HooksOn DEF Waits, docs
<1>9. ASSUME NEW a \in Requests, CloseEnd(a) PROVE HookSes'
  BY <1>9, EndEffect, HooksKept DEF Waits
<1>. QED
  BY <1>1, <1>2, <1>3, <1>4, <1>5, <1>6, <1>7, <1>8, <1>9, QuietOrLoud DEF Loud

-----------------------------------------------------------------------------
(* A step that closes no session and puts a payment only into one that is  *)
(* not closed, nor about to be.                                            *)
Gained(s) == OrdersOf(s, "PAID")' \subseteq OrdersOf(s, "PAID")
Awake(s)  == session[s].status # "CLOSED" /\ \A b \in Requests : act'[b].pc = "closeEnd" => act'[b].ses # s

LEMMA CountsKept ==
    ASSUME Base, Counted, ClosedBooksAreComplete, counted' = counted,
           \A s \in Sessions : session'[s].status = "CLOSED" => session[s].status = "CLOSED",
           \A b \in Requests : act'[b].pc = "closeEnd" => act'[b] = act[b],
           \A s \in Sessions : Gained(s) \/ Awake(s)
    PROVE  Counted' /\ ClosedBooksAreComplete'
<1>1. ASSUME NEW b \in Requests, act'[b].pc = "closeEnd"
      PROVE  (OrdersOf(act[b].ses, "PAID") \subseteq act[b].todo)'
  <2>1. act'[b] = act[b] /\ act[b].pc = "closeEnd" /\ act[b].ses \in Sessions
    BY <1>1, Found DEF ClosePcs, SessionOps
  <2>2. OrdersOf(act[b].ses, "PAID") \subseteq act[b].todo /\ Gained(act[b].ses)
    BY <1>1, <2>1 DEF Counted, Awake
  <2>3. act'[b].ses = act[b].ses /\ act'[b].todo = act[b].todo
    BY <2>1
  <2>4. \A o \in Orders : order'[o].ses = act[b].ses /\ order'[o].status = "PAID" => o \in act[b].todo
    <3>1. ASSUME NEW s, s = act[b].ses, Gained(s), OrdersOf(s, "PAID") \subseteq act[b].todo
          PROVE  \A o \in Orders : order'[o].ses = s /\ order'[o].status = "PAID" => o \in act[b].todo
      BY <3>1 DEF Gained, OrdersOf
    <3>. QED
      BY <2>2, <3>1
  <2>. QED
    BY <2>3, <2>4 DEF OrdersOf
<1>2. Counted'
  BY <1>1 DEF Counted
<1>3. ClosedBooksAreComplete'
  BY DEF ClosedBooksAreComplete, Gained, Awake
<1>. QED
  BY <1>2, <1>3

LEMMA MovesCounts == ASSUME Base, NEW a \in Requests, Moves(a) PROVE \A b \in Requests : act'[b].pc = "closeEnd" => act'[b] = act[b]
BY IdleOK DEF Moves, Goes, Starts, FirstPcs

(* What a payment writes, no close is past counting.                       *)
LEMMA WritesAwake ==
    ASSUME Base, Held, HookSes, NEW a \in Requests, Writes(a), NEW s \in Sessions
    PROVE  Gained(s) \/ Awake(s)
<1>1. PICK o : o = act[a].ord
  OBVIOUS
<1>2. /\ o \in Orders /\ Only(o) /\ Moves(a) /\ act[a].pc = "write"
      /\ act[a].op = "webhook" => order[o].status = "PENDING"
      /\ order'[o].ses = (IF act[a].op = "webhook" THEN order[o].ses ELSE act[a].ses)
  BY <1>1, WriteEffect
<1>3. order'[o].ses = act[a].ses
  BY <1>1, <1>2 DEF HookSes
<1>4. CASE s = act[a].ses
  <2>1. act[a].pc \in PayingPcs
    BY <1>2 DEF PayingPcs, PayPcs
  <2>2. session[s].status # "CLOSED"
    BY <1>4, <2>1 DEF Held, Holds, PayHeld
  <2>3. Vacant(a, s)
    BY <1>4, <2>1, VacantHeld DEF Holding
  <2>4. ASSUME NEW b \in Requests, act'[b].pc = "closeEnd" PROVE act'[b].ses # s
    <3>1. b # a /\ act'[b] = act[b]
      BY <1>2, <2>4, MovesCounts
    <3>2. Holding(act[b])
      BY <2>4, <3>1, Found DEF Holding, PastClaim, ClosePcs
    <3>. QED
      BY <2>3, <3>1, <3>2 DEF Vacant
  <2>. QED
    BY <2>2, <2>4 DEF Awake
<1>5. CASE s # act[a].ses
  BY <1>2, <1>3, <1>5 DEF Gained, OrdersOf, Only
<1>. QED
  BY <1>4, <1>5

LEMMA CountsSum ==
    ASSUME Base, Counted, ClosedBooksAreComplete, NEW a \in Requests, CloseSum(a)
    PROVE  Counted' /\ ClosedBooksAreComplete'
<1>1. \A s : OrdersOf(s, "PAID")' = OrdersOf(s, "PAID")
  BY SumEffect DEF OrdersOf, docs
<1>. QED
  BY <1>1, SumEffect DEF Counted, ClosedBooksAreComplete, docs, history

LEMMA CountsEnd ==
    ASSUME Base, Counted, ClosedBooksAreComplete, NEW a \in Requests, CloseEnd(a)
    PROVE  Counted' /\ ClosedBooksAreComplete'
<1>0. /\ act[a].ses \in Sessions /\ act[a].pc = "closeEnd" /\ End(a) /\ order' = order
      /\ session \in [Sessions -> SessionDocs] /\ counted \in [Sessions -> SUBSET Orders]
  BY EndEffect, Found DEF RestOK
<1>1. \A s : OrdersOf(s, "PAID")' = OrdersOf(s, "PAID")
  BY <1>0 DEF OrdersOf
<1>2. Counted'
  BY <1>0, <1>1, EndMoves, MovesCounts DEF Counted
<1>3. \A s \in Sessions \ {act[a].ses} : session'[s] = session[s] /\ counted'[s] = counted[s]
  BY <1>0 DEF CloseEnd
<1>4. \/ counted'[act[a].ses] = act[a].todo
      \/ session'[act[a].ses] = session[act[a].ses] /\ counted'[act[a].ses] = counted[act[a].ses]
  BY <1>0 DEF CloseEnd
<1>5. ClosedBooksAreComplete'
  BY <1>0, <1>1, <1>3, <1>4 DEF ClosedBooksAreComplete, Counted
<1>. QED
  BY <1>2, <1>5

LEMMA CountsNext ==
    ASSUME Base, Held, HookSes, Counted, ClosedBooksAreComplete, [Next]_vars
    PROVE  Counted' /\ ClosedBooksAreComplete'
<1>1. CASE \E a \in Requests : CloseEnd(a)
  BY <1>1, CountsEnd
<1>2. CASE \E a \in Requests : CloseSum(a)
  BY <1>2, CountsSum
<1>3. CASE ~(\E a \in Requests : CloseEnd(a) \/ CloseSum(a))
  <2>1. \A s \in Sessions : session'[s].status = "CLOSED" => session[s].status = "CLOSED"
    BY <1>3, ClosesOnly
  <2>2. CASE QuietStep
    <3>1. \A s \in Sessions : Gained(s)
      BY <2>2 DEF QuietStep, Quieting, SameBook, Gained, OrdersOf
    <3>2. \A b \in Requests : act'[b].pc = "closeEnd" => act'[b] = act[b]
      BY <2>2, MovesCounts DEF QuietStep
    <3>. QED
      BY <2>1, <2>2, <3>1, <3>2, CountsKept DEF QuietStep, Quieting
  <2>3. ASSUME NEW o \in Orders, PublicOrder(o) PROVE Counted' /\ ClosedBooksAreComplete'
    <3>1. order'[o].status # "PAID" /\ \A p \in Orders \ {o} : order'[p] = order[p]
      <4>1. order \in [Orders -> OrderDocs] /\ order[o] \in OrderDocs
        BY TypeParts DEF Base
      <4>. QED
        BY <2>3, <4>1 DEF PublicOrder, OrderDocs
    <3>2. \A s \in Sessions : Gained(s)
      BY <3>1 DEF Gained, OrdersOf
    <3>. QED
      BY <2>1, <2>3, <3>2, CountsKept DEF PublicOrder, history
  <2>4. ASSUME NEW a \in Requests, Writes(a) PROVE Counted' /\ ClosedBooksAreComplete'
    BY <2>1, <2>4, WritesAwake, WriteEffect, MovesCounts, CountsKept
  <2>5. ASSUME NEW a \in Requests, Cancel(a) \/ StornoEnd(a) \/ DeleteOrders(a) \/ Stornos(a)
        PROVE  Counted' /\ ClosedBooksAreComplete'
    <3>1. \A o \in Orders : order'[o].status = "PAID" => order[o].status = "PAID" /\ order'[o].ses = order[o].ses
      BY <2>5, CancelEffect, StornoEndEffect, DeleteEffect, StornosEffect DEF Only
    <3>2. \A s \in Sessions : Gained(s)
      BY <3>1 DEF Gained, OrdersOf
    <3>3. \A b \in Requests : act'[b].pc = "closeEnd" => act'[b] = act[b]
      BY <2>5, CancelEffect, StornoEndEffect, DeleteEffect, StornosEffect, EndMoves, MovesCounts, IdleOK
    <3>4. counted' = counted
      BY <2>5, CancelEffect, StornoEndEffect, DeleteEffect, StornosEffect
    <3>. QED
      BY <2>1, <3>2, <3>3, <3>4, CountsKept
  <2>. QED
    BY <1>3, <2>2, <2>3, <2>4, <2>5, QuietOrLoud DEF Loud
<1>. QED
  BY <1>1, <1>2, <1>3

LEMMA ClosedInit == Init => ClosedInv
<1>. SUFFICES ASSUME Init PROVE ClosedInv
  OBVIOUS
<1>1. /\ \A a \in Requests : act[a] = Idle
      /\ \A s \in Sessions : session[s].status = "NONE"
  BY DEF Init, NewSession
<1>. QED
  BY <1>1, HeldInit, IdleOK DEF ClosedInv, HookSes, Counted, ClosedBooksAreComplete

LEMMA ClosedNext == ASSUME Timely, Base, Base', ClosedInv, [Next]_vars PROVE ClosedInv'
BY HeldNext, HooksNext, CountsNext DEF ClosedInv

LEMMA ClosedAlways == Timely => (Spec => []ClosedInv)
<1>1. Init => ClosedInv
  BY ClosedInit
<1>2. Timely /\ Base /\ ClosedInv /\ [Next]_vars /\ Base' => ClosedInv'
  BY ClosedNext
<1>3. SUFFICES ASSUME Timely PROVE Spec => []ClosedInv
  OBVIOUS
<1>4. Base /\ ClosedInv /\ [Next]_vars /\ Base' => ClosedInv'
  BY <1>2, <1>3
<1>. QED
  BY <1>1, <1>4, BaseAlways, PTL DEF Spec

(* The closing summary of a session has every payment that is recorded in  *)
(* it: while a payment is under way under its claim no close begins, and   *)
(* once one has, no payment reaches its write.                             *)
THEOREM ClosedBooksMissNothing == Timely => (Spec => []ClosedBooksAreComplete)
<1>1. ClosedInv => ClosedBooksAreComplete
  BY DEF ClosedInv
<1>2. SUFFICES ASSUME Timely PROVE Spec => []ClosedBooksAreComplete
  OBVIOUS
<1>. QED
  BY <1>1, <1>2, ClosedAlways, PTL
-----------------------------------------------------------------------------
(* The stock of a TEST session.                                            *)

(* The stock of an order stays where it is, or a storno gives it back.     *)
SameEffect(d, e) == \/ e.effect = d.effect /\ (d.claim = StornoToken => e.claim = StornoToken)
                    \/ e.effect = "REVERTED" /\ e.claim = StornoToken

(* A step that pays no order, gives none a checkout and moves no stock of  *)
(* one, but for a storno.                                                  *)
Calm(d, e) ==
    /\ e.status # "DELETED" => d.status # "DELETED" /\ e.ver = d.ver /\ e.ses = d.ses
    /\ e.status = "NEW" => d.status = "NEW"
    /\ e.status = "PENDING" => \/ d.status = "PENDING" /\ e.checkout = d.checkout
                               \/ d.status = "NEW" /\ ~e.checkout
    /\ e.status = "PAID" => /\ d.status = "PAID" /\ e.checkout = d.checkout
                            /\ SameEffect(d, e)
CalmStep == \A o \in Orders : Calm(order[o], order'[o])

LEMMA CalmSame == ASSUME Base, order' = order PROVE CalmStep
BY DEF CalmStep, Calm, SameEffect

LEMMA CalmSet ==
    ASSUME Base, NEW o \in Orders, NEW d, order' = [order EXCEPT ![o] = d], Calm(order[o], d)
    PROVE  CalmStep
BY TypeParts DEF Base, CalmStep, Calm, SameEffect

LEMMA CalmPassing ==
    ASSUME Base, \E o \in Orders : PublicOrder(o) \/ ExpireHook(o)
    PROVE  CalmStep
<1>1. PICK o \in Orders : PublicOrder(o) \/ ExpireHook(o)
  OBVIOUS
<1>2. order[o] \in OrderDocs /\ OrderOK(order[o])
  BY TypeParts DEF Base
<1>3. CASE PublicOrder(o)
  <2> DEFINE d == [order[o] EXCEPT !.status = "PENDING"]
  <2>1. order[o].status = "NEW" /\ ~order[o].checkout
    BY <1>2, <1>3 DEF PublicOrder, Unused, OrderOK, NewOrder
  <2>2. Calm(order[o], d)
    BY <1>2, <2>1 DEF Calm, OrderDocs, SameEffect
  <2>3. order' = [order EXCEPT ![o] = d]
    BY <1>3 DEF PublicOrder
  <2> HIDE DEF d
  <2>. QED
    BY <2>2, <2>3, CalmSet
<1>4. CASE ExpireHook(o)
  <2> DEFINE d == [order[o] EXCEPT !.hookFresh = FALSE]
  <2>1. Calm(order[o], d)
    BY <1>2 DEF Calm, OrderDocs, SameEffect
  <2>2. order' = [order EXCEPT ![o] = d]
    BY <1>4 DEF ExpireHook
  <2> HIDE DEF d
  <2>. QED
    BY <2>1, <2>2, CalmSet
<1>. QED
  BY <1>1, <1>3, <1>4

LEMMA CalmBegin ==
    ASSUME Base, NEW a \in Requests, BeginPayment(a) \/ BeginManagement(a)
    PROVE  CalmStep
<1>1. CASE \E o \in Orders : WebhookBegin(a, o)
  <2>1. PICK o \in Orders : WebhookBegin(a, o)
    BY <1>1
  <2> DEFINE d == [order[o] EXCEPT !.hook = a, !.hookFresh = TRUE]
  <2>2. Calm(order[o], d)
    BY TypeParts DEF Base, Calm, OrderDocs, SameEffect
  <2>3. order' = [order EXCEPT ![o] = d]
    BY <2>1 DEF WebhookBegin
  <2> HIDE DEF d
  <2>. QED
    BY <2>2, <2>3, CalmSet
<1>2. CASE \E o \in Orders : StornoBegin(a, o)
  <2>1. PICK o \in Orders : StornoBegin(a, o)
    BY <1>2
  <2> DEFINE d == [order[o] EXCEPT !.storno = "IN_PROGRESS"]
  <2>2. Calm(order[o], d)
    BY TypeParts DEF Base, Calm, OrderDocs, SameEffect
  <2>3. order' = [order EXCEPT ![o] = d]
    BY <2>1 DEF StornoBegin
  <2> HIDE DEF d
  <2>. QED
    BY <2>2, <2>3, CalmSet
<1>3. CASE order' = order
  BY <1>3, CalmSame
<1>. QED
  BY <1>1, <1>2, <1>3 DEF BeginPayment, BeginManagement, SaleBegin, CompleteBegin, CloseBegin, TestBegin, DeleteBegin, docs

(* The document of a storno's order, at each of its writes.                *)
LEMMA CalmStorno ==
    ASSUME Base, NEW a \in Requests, StornoStep(a) \/ (StockFail(a) /\ act[a].op = "storno")
    PROVE  CalmStep
<1>0. PICK o \in Orders : o = act[a].ord
  BY Found DEF StornoStep, StornoClaim, Refund, StornoEnd, StornoThrows, StornoPcs
<1>1. order[o] \in OrderDocs
  BY Found
<1>2. ASSUME NEW st, order' = [order EXCEPT ![o].storno = st] PROVE CalmStep
  <2> DEFINE d == [order[o] EXCEPT !.storno = st]
  <2>1. Calm(order[o], d)
    BY <1>1 DEF Calm, OrderDocs, SameEffect
  <2>2. order' = [order EXCEPT ![o] = d]
    BY <1>2
  <2> HIDE DEF d
  <2>. QED
    BY <2>1, <2>2, CalmSet
<1>3. CASE StornoClaim(a)
  <2>1. ASSUME order' = [order EXCEPT ![o].claim = StornoToken, ![o].target = "REVERTED"] PROVE CalmStep
    <3> DEFINE d == [order[o] EXCEPT !.claim = StornoToken, !.target = "REVERTED"]
    <3>1. Calm(order[o], d)
      BY <1>1 DEF Calm, OrderDocs, SameEffect
    <3>2. order' = [order EXCEPT ![o] = d]
      BY <2>1
    <3> HIDE DEF d
    <3>. QED
      BY <3>1, <3>2, CalmSet
  <2>2. \/ order' = [order EXCEPT ![o].claim = StornoToken, ![o].target = "REVERTED"]
        \/ order' = [order EXCEPT ![o].storno = IF order[o].storno = "IN_PROGRESS" THEN "FAILED" ELSE order[o].storno]
    BY <1>0, <1>3 DEF StornoClaim
  <2>. QED
    BY <1>2, <2>1, <2>2
<1>4. CASE Refund(a)
  <2>1. \/ order' = order
        \/ order' = [order EXCEPT ![o].storno = IF order[o].status = "DELETED" THEN order[o].storno ELSE "FAILED"]
    BY <1>0, <1>4 DEF Refund
  <2>. QED
    BY <1>2, <2>1, CalmSame
<1>5. CASE StornoEnd(a)
  <2> DEFINE e == [order[o] EXCEPT !.status = "CANCELLED", !.storno = "COMPLETED", !.refunded = act[a].flag,
                                   !.effect = "REVERTED", !.claim = NoToken]
             d == IF order[o].status = "DELETED" THEN order[o] ELSE e
  <2>1. Calm(order[o], d)
    BY <1>1 DEF Calm, OrderDocs, SameEffect
  <2>2. order' = [order EXCEPT ![o] = d]
    BY <1>0, <1>5 DEF StornoEnd
  <2> HIDE DEF d
  <2>. QED
    BY <2>1, <2>2, CalmSet
<1>6. CASE StornoThrows(a)
  <2>1. order' = [order EXCEPT ![o].storno = IF order[o].storno = "IN_PROGRESS" THEN "FAILED" ELSE order[o].storno]
    BY <1>0, <1>6 DEF StornoThrows
  <2>. QED
    BY <1>2, <2>1
<1>7. CASE StockFail(a) /\ act[a].op = "storno"
  <2> DEFINE d == [order[o] EXCEPT !.storno = "FAILED", !.refunded = act[a].flag]
  <2>1. Calm(order[o], d)
    BY <1>1 DEF Calm, OrderDocs, SameEffect
  <2>2. order' = [order EXCEPT ![o] = d]
    BY <1>0, <1>7 DEF StockFail
  <2> HIDE DEF d
  <2>. QED
    BY <2>1, <2>2, CalmSet
<1>. QED
  BY <1>3, <1>4, <1>5, <1>6, <1>7 DEF StornoStep

LEMMA CalmStock ==
    ASSUME Base, NEW a \in Requests, StockClaim(a) \/ (StockDone(a) /\ act[a].op = "storno")
    PROVE  CalmStep
<1>0. /\ order \in [Orders -> OrderDocs] /\ act[a].left \subseteq Orders
      /\ act[a].pc = "claim" => act[a].tok \in Tokens
      /\ act[a].pc = "move" => act[a].left # {}
      /\ act[a].op = "storno" => act[a].tok = StornoToken
  BY Found DEF StockClaim, StockDone, StockPcs, Fits, RequestStates
<1>1. PICK o : o = Min(act[a].left)
  OBVIOUS
<1>2. act[a].left # {} => o \in Orders /\ order[o] \in OrderDocs
  BY <1>0, <1>1, FirstOf
<1>3. CASE order' = order
  BY <1>3, CalmSame
<1>4. CASE StockClaim(a) /\ order' # order
  <2>1. /\ act[a].left # {} /\ ClaimOk(a, o) /\ act[a].pc = "claim"
        /\ order' = [order EXCEPT ![o].claim = act[a].tok, ![o].target = Target(a)]
    BY <1>1, <1>4 DEF StockClaim
  <2> DEFINE d == [order[o] EXCEPT !.claim = act[a].tok, !.target = Target(a)]
  <2>2. order[o].claim # StornoToken
    BY <1>0, <2>1, Consts DEF ClaimOk, ClaimFree, ClaimOwn
  <2>3. Calm(order[o], d)
    BY <1>2, <2>1, <2>2 DEF Calm, OrderDocs, SameEffect
  <2>4. order' = [order EXCEPT ![o] = d]
    BY <2>1
  <2> HIDE DEF d
  <2>. QED
    BY <1>2, <2>1, <2>3, <2>4, CalmSet
<1>5. CASE StockDone(a) /\ act[a].op = "storno" /\ order' # order
  <2>1. /\ act[a].pc = "move" /\ ClaimOwn(o, act[a].tok, Target(a))
        /\ order' = [order EXCEPT ![o].effect = Target(a),
                                  ![o].claim = IF act[a].op = "storno" THEN @ ELSE NoToken]
    BY <1>1, <1>5 DEF StockDone
  <2> DEFINE d == [order[o] EXCEPT !.effect = Target(a), !.claim = order[o].claim]
  <2>2. order[o].claim = StornoToken
    BY <1>0, <1>5, <2>1 DEF ClaimOwn
  <2>3. Calm(order[o], d)
    BY <1>0, <1>2, <1>5, <2>1, <2>2 DEF Calm, OrderDocs, SameEffect, Target
  <2>4. order' = [order EXCEPT ![o] = d]
    BY <1>5, <2>1
  <2> HIDE DEF d
  <2>. QED
    BY <1>0, <1>2, <2>1, <2>3, <2>4, CalmSet
<1>. QED
  BY <1>3, <1>4, <1>5

LEMMA CalmOthers ==
    ASSUME Base, NEW a \in Requests, Cancel(a) \/ HookRelease(a) \/ DeleteOrders(a)
    PROVE  CalmStep
<1>1. CASE DeleteOrders(a)
  BY <1>1, DeleteEffect DEF CalmStep, Calm, SameEffect
<1>2. CASE Cancel(a) \/ HookRelease(a)
  <2>1. PICK o \in Orders : o = act[a].ord
    BY <1>2, Found DEF Cancel, HookRelease, PayPcs
  <2>2. order[o] \in OrderDocs
    BY Found
  <2>3. CASE Cancel(a)
    <3> DEFINE d == [order[o] EXCEPT !.status = IF order[o].status = "PENDING" THEN "CANCELLED"
                                                ELSE order[o].status]
    <3>1. Calm(order[o], d)
      BY <2>2 DEF Calm, OrderDocs, SameEffect
    <3>2. order' = [order EXCEPT ![o] = d]
      BY <2>1, <2>3 DEF Cancel
    <3> HIDE DEF d
    <3>. QED
      BY <3>1, <3>2, CalmSet
  <2>4. CASE HookRelease(a)
    <3> DEFINE d == IF order[o].hook = a THEN [order[o] EXCEPT !.hook = NoRequest, !.hookFresh = FALSE] ELSE order[o]
    <3>1. Calm(order[o], d)
      BY <2>2 DEF Calm, OrderDocs, SameEffect
    <3>2. order' = [order EXCEPT ![o] = d]
      BY <2>1, <2>4 DEF HookRelease
    <3> HIDE DEF d
    <3>. QED
      BY <3>1, <3>2, CalmSet
  <2>. QED
    BY <1>2, <2>3, <2>4
<1>. QED
  BY <1>1, <1>2

(* The steps that are not calm.                                            *)
Moving(a) == StockDone(a) /\ act[a].op # "storno"

(* A step of a request, or of time and the other people.                   *)
Acts(a) == BeginPayment(a) \/ BeginManagement(a) \/ Step(a) \/ Crash(a)
Passes  == \/ \E s \in Sessions : OpenSession(s) \/ ExpirePay(s) \/ ExpireTransition(s)
           \/ \E o \in Orders : PublicOrder(o) \/ ExpireHook(o)
           \/ UNCHANGED vars

LEMMA ActsOrPasses == ASSUME [Next]_vars PROVE Passes \/ \E a \in Requests : Acts(a)
BY DEF Next, Passes, Acts

LEMMA CalmActs ==
    ASSUME Base, NEW a \in Requests, Acts(a)
    PROVE  CalmStep \/ Writes(a) \/ Link(a) \/ Moving(a)
<1>1. ASSUME PayStep(a) PROVE CalmStep \/ Writes(a) \/ Link(a)
  <2>1. CASE Cancel(a) \/ HookRelease(a)
    BY <2>1, CalmOthers
  <2>2. CASE order' = order
    BY <2>2, CalmSame
  <2>. QED
    BY <1>1, <2>1, <2>2 DEF PayStep, PayClaim, ApplyItem, Rollback, Refresh, WriteComplete, WriteWebhook, WriteFails,
       Trigger, PayRelease, Writes, docs
<1>2. ASSUME StockStep(a) PROVE CalmStep \/ Moving(a)
  <2>1. CASE StockFail(a) /\ act[a].op # "storno"
    BY <2>1, CalmSame DEF StockFail
  <2>. QED
    BY <1>2, <2>1, CalmStock, CalmStorno, CalmSame DEF StockStep, StockList, StockMove, Moving, docs
<1>3. ASSUME CloseStep(a) \/ TestStep(a) \/ DeleteStep(a) PROVE CalmStep
  BY <1>3, CalmSame, CalmOthers DEF CloseStep, ClosePending, ClosePaid, Unclaim, CloseSum, CloseEnd,
     TestStep, TestPaid, TestPending, TestSet, TestEnd, TestClaim,
     DeleteStep, DeletePaid, DeleteMark, DeleteEnd, DeleteClaim, docs
<1>4. ASSUME BeginPayment(a) \/ BeginManagement(a) \/ StornoStep(a) \/ Crash(a) PROVE CalmStep
  BY <1>4, CalmBegin, CalmStorno, CalmSame DEF Crash, docs
<1>. QED
  BY <1>1, <1>2, <1>3, <1>4 DEF Acts, Step

LEMMA CalmPasses == ASSUME Base, Passes PROVE CalmStep /\ act' = act
<1>1. ASSUME NEW s \in Sessions, OpenSession(s) \/ ExpirePay(s) \/ ExpireTransition(s) PROVE CalmStep /\ act' = act
  BY <1>1, CalmSame DEF OpenSession, ExpirePay, ExpireTransition
<1>2. CASE UNCHANGED vars
  BY <1>2, CalmSame DEF vars
<1>3. ASSUME NEW o \in Orders, PublicOrder(o) \/ ExpireHook(o) PROVE CalmStep /\ act' = act
  BY <1>3, CalmPassing DEF PublicOrder, ExpireHook
<1>. QED
  BY <1>1, <1>2, <1>3 DEF Passes

LEMMA CalmOrNot ==
    ASSUME Base, [Next]_vars
    PROVE  CalmStep \/ \E a \in Requests : Writes(a) \/ Link(a) \/ Moving(a)
BY ActsOrPasses, CalmActs, CalmPasses

(* What a request knows of its order it has read, now or before.           *)
Reads(a) ==
    /\ \A b \in Requests \ {a} : act'[b] = act[b]
    /\ act'[a].op = "complete" =>
          \/ /\ act[a].op = "complete" /\ act'[a].ord = act[a].ord /\ act'[a].ver = act[a].ver
             /\ act'[a].pc \in PreWrite => act[a].pc \in PreWrite
          \/ act'[a].ver = order[act'[a].ord].ver /\ order[act'[a].ord].status = "PENDING"
    /\ act'[a].op = "webhook" => \/ act[a].op = "webhook" /\ act'[a].ord = act[a].ord
                                 \/ order[act'[a].ord].checkout

LEMMA ReadsMoves == ASSUME NEW a \in Requests, Moves(a) PROVE Reads(a)
BY IdleOK DEF Moves, Goes, Starts, Reads

LEMMA ReadsNext == ASSUME Base, [Next]_vars PROVE act' = act \/ \E a \in Requests : Reads(a)
<1>1. ASSUME NEW a \in Requests, Loud(a) PROVE Reads(a)
  <2>1. CASE Writes(a) \/ Cancel(a) \/ DeleteOrders(a)
    BY <2>1, WriteEffect, CancelEffect, DeleteEffect, ReadsMoves
  <2>2. CASE StornoEnd(a) \/ CloseEnd(a)
    BY <2>2, StornoEndEffect, EndEffect, EndMoves, ReadsMoves
  <2>3. CASE Stornos(a)
    BY <2>3, StornosEffect, IdleOK DEF Reads
  <2>4. CASE CloseSum(a)
    BY <2>4, SumEffect DEF Reads
  <2>. QED
    BY <1>1, <2>1, <2>2, <2>3, <2>4 DEF Loud
<1>. QED
  BY <1>1, QuietOrLoud, ReadsMoves DEF QuietStep, PublicOrder

(* What the steps that are not calm do to their order.                     *)
SameSale(d, e) == e.status = d.status /\ e.ses = d.ses /\ e.ver = d.ver

LEMMA LinkEffect ==
    ASSUME Base, NEW a \in Requests, Link(a), NEW o, o = act[a].ord
    PROVE  /\ o \in Orders /\ Only(o) /\ act[a].pc = "link" /\ act[a].op = "card" /\ Moves(a)
           /\ \/ order' = order
              \/ /\ order[o].status = "PENDING" /\ order[o].ses = act[a].ses
                 /\ SameSale(order[o], order'[o]) /\ order'[o].checkout
<1>0. /\ o \in Orders /\ order \in [Orders -> OrderDocs] /\ order[o] \in OrderDocs /\ act[a].pc = "link"
      /\ Fits(act[a], order[o])
  BY Found DEF Link, PayPcs
<1>1. act[a].op = "card" /\ (order[o].status = "PENDING" => order[o].ses = act[a].ses)
  BY <1>0 DEF Fits, Terminal
<1>2. CASE order' = order
  BY <1>0, <1>1, <1>2, TerminalQuiet DEF Only, QuietMove
<1>3. CASE order[o].status = "PENDING" /\ order' = [order EXCEPT ![o].checkout = TRUE]
  <2> DEFINE d == [order[o] EXCEPT !.checkout = TRUE]
  <2>1. SameSale(order[o], d) /\ d.checkout = TRUE
    BY <1>0 DEF SameSale, OrderDocs
  <2>2. order' = [order EXCEPT ![o] = d]
    BY <1>3
  <2> HIDE DEF d
  <2>. QED
    BY <1>0, <1>1, <1>3, <2>1, <2>2, TerminalQuiet DEF Only, QuietMove
<1>. QED
  BY <1>2, <1>3 DEF Link

LEMMA MovingEffect ==
    ASSUME Base, NEW a \in Requests, Moving(a), NEW o, o = Min(act[a].left)
    PROVE  /\ o \in Orders /\ o \in act[a].left /\ Only(o) /\ Moves(a) /\ act[a].pc = "move" /\ act[a].op \in SessionOps
           /\ act[a].tok \in Tokens /\ act[a].ses \in Sessions
           /\ SameSale(order[o], order'[o]) /\ order'[o].checkout = order[o].checkout
           /\ \/ order' = order
              \/ order'[o].effect = Target(a) /\ order[o].claim \in Tokens
<1>0. /\ order \in [Orders -> OrderDocs] /\ act[a].left \subseteq Orders /\ act[a].left # {}
      /\ act[a].pc = "move" /\ act[a].op \in SessionOps /\ act[a].tok \in Tokens /\ act[a].ses \in Sessions
  BY Found DEF Moving, StockDone, StockPcs, Fits, RequestStates
<1>1. o \in Orders /\ o \in act[a].left /\ order[o] \in OrderDocs
  BY <1>0, FirstOf
<1>2. Moves(a)
  BY StockQuiet DEF Moving, QuietMove
<1>3. CASE order' = order
  BY <1>0, <1>1, <1>2, <1>3 DEF Only, SameSale
<1>4. CASE order' # order
  <2>1. /\ ClaimOwn(o, act[a].tok, Target(a))
        /\ order' = [order EXCEPT ![o].effect = Target(a),
                                  ![o].claim = IF act[a].op = "storno" THEN @ ELSE NoToken]
    BY <1>4 DEF Moving, StockDone
  <2> DEFINE d == [order[o] EXCEPT !.effect = Target(a), !.claim = NoToken]
  <2>2. SameSale(order[o], d) /\ d.checkout = order[o].checkout /\ d.effect = Target(a)
    BY <1>1 DEF SameSale, OrderDocs
  <2>3. order' = [order EXCEPT ![o] = d]
    BY <2>1 DEF Moving
  <2> HIDE DEF d
  <2>. QED
    BY <1>0, <1>1, <1>2, <2>1, <2>2, <2>3 DEF Only, ClaimOwn
<1>. QED
  BY <1>3, <1>4

LEMMA WriteStock ==
    ASSUME Base, NEW a \in Requests, Writes(a), NEW o, o = act[a].ord
    PROVE  /\ order'[o].checkout = order[o].checkout
           /\ act[a].op # "card" => order'[o].effect = "APPLIED"
<1>0. /\ o \in Orders /\ order \in [Orders -> OrderDocs] /\ order[o] \in OrderDocs /\ act[a].plan[o] \in SUBSET Items
  BY Found, WriteEffect DEF RequestStates
<1>1. PICK p : p = Paid(order[o], act[a].plan[o])
  OBVIOUS
<1>2. p \in OrderDocs /\ p.checkout = order[o].checkout /\ p.effect = "APPLIED"
  <2>1. p \in OrderDocs
    BY <1>0, <1>1, PaidDoc
  <2>. QED
    BY <1>0, <1>1, <2>1 DEF Paid, OrderDocs
<1>3. CASE WriteSale(a)
  <2> DEFINE d == [p EXCEPT !.ses = act[a].ses]
  <2>1. d.checkout = order[o].checkout /\ d.effect = "APPLIED"
    BY <1>2 DEF OrderDocs
  <2>2. order' = [order EXCEPT ![o] = d]
    BY <1>1, <1>3 DEF WriteSale
  <2> HIDE DEF d
  <2>. QED
    BY <1>0, <2>1, <2>2
<1>4. CASE WriteCard(a)
  <2> DEFINE d == [order[o] EXCEPT !.status = "PENDING", !.ses = act[a].ses, !.card = TRUE]
  <2>1. d.checkout = order[o].checkout
    BY <1>0 DEF OrderDocs
  <2>2. order' = [order EXCEPT ![o] = d] /\ act[a].op = "card"
    BY <1>4 DEF WriteCard
  <2> HIDE DEF d
  <2>. QED
    BY <1>0, <2>1, <2>2
<1>5. CASE WriteComplete(a) /\ Unchanged(a, o)
  <2> DEFINE d == [p EXCEPT !.ses = act[a].ses, !.card = FALSE, !.ver = order[o].ver + 1]
  <2>1. d.checkout = order[o].checkout /\ d.effect = "APPLIED"
    BY <1>2 DEF OrderDocs
  <2>2. order' = [order EXCEPT ![o] = d]
    BY <1>1, <1>5 DEF WriteComplete
  <2> HIDE DEF d
  <2>. QED
    BY <1>0, <2>1, <2>2
<1>6. CASE WriteWebhook(a) /\ StillMine(a, o)
  <2> DEFINE d == [p EXCEPT !.hook = NoRequest, !.hookFresh = FALSE]
  <2>1. d.checkout = order[o].checkout /\ d.effect = "APPLIED"
    BY <1>2 DEF OrderDocs
  <2>2. order' = [order EXCEPT ![o] = d]
    BY <1>1, <1>6 DEF WriteWebhook
  <2> HIDE DEF d
  <2>. QED
    BY <1>0, <2>1, <2>2
<1>. QED
  BY <1>3, <1>4, <1>5, <1>6 DEF Writes

(* What a step does to an order.                                           *)
LEMMA OrderSteps ==
    ASSUME Base, [Next]_vars, NEW o \in Orders
    PROVE  \/ Calm(order[o], order'[o])
           \/ \E a \in Requests : Writes(a) /\ o = act[a].ord
           \/ /\ SameSale(order[o], order'[o])
              /\ \/ order[o].status = "PENDING" /\ order'[o].checkout
                 \/ order'[o].checkout = order[o].checkout
<1>1. ASSUME NEW a \in Requests, Writes(a), o # act[a].ord PROVE order'[o] = order[o]
  BY <1>1, WriteEffect DEF Only
<1>2. ASSUME NEW a \in Requests, Link(a), o # act[a].ord PROVE order'[o] = order[o]
  BY <1>2, LinkEffect DEF Only
<1>3. ASSUME NEW a \in Requests, Moving(a), o # Min(act[a].left) PROVE order'[o] = order[o]
  BY <1>3, MovingEffect DEF Only
<1>4. order'[o] = order[o] => Calm(order[o], order'[o])
  BY DEF Calm, SameEffect
<1>. QED
  BY <1>1, <1>2, <1>3, <1>4, CalmOrNot, LinkEffect, MovingEffect DEF CalmStep

-----------------------------------------------------------------------------
(* A completion that read its order before the last save of it: its own    *)
(* save will be refused.                                                   *)
Behind(o) == \A b \in Requests :
    act[b].op = "complete" /\ act[b].ord = o /\ act[b].pc \in PreWrite => act[b].ver < order[o].ver

(* What a request has read of its order.                                   *)
Versions == \A b \in Requests : LET o == act[b].ord IN
    act[b].op = "complete" /\ order[o].status # "DELETED" => act[b].ver <= order[o].ver
Delivered == \A b \in Requests : LET o == act[b].ord IN
    act[b].op = "webhook" /\ order[o].status = "PENDING" => order[o].checkout

(* Only SumUp's payment leaves a completion that may still be saved.       *)
Overtaken == \A o \in Orders : order[o].status = "PAID" => order[o].checkout \/ Behind(o)
ReadInv == Versions /\ Delivered /\ Overtaken

(* An order no payment will write again stays in its session.              *)
Fixed(o, s) == \/ order[o].status = "DELETED"
               \/ order[o].status \notin {"NEW", "PENDING"} /\ order[o].ses = s /\ Behind(o)

LEMMA VersNat ==
    ASSUME Base, NEW b \in Requests, act[b].op = "complete"
    PROVE  act[b].ver \in Nat /\ act[b].ord \in Orders /\ order[act[b].ord].ver \in Nat
BY Found DEF Fits, PayOps, RequestStates, OrderDocs

LEMMA BehindKept ==
    ASSUME Base, Base', [Next]_vars, NEW o \in Orders, Behind(o), order[o].status \notin {"NEW", "PENDING"},
           order'[o].ver >= order[o].ver
    PROVE  Behind(o)'
<1>1. order[o].ver \in Nat /\ order'[o].ver \in Nat
  BY TypeParts DEF Base, OrderDocs, TypeOK
<1>2. ASSUME NEW b \in Requests, act'[b].op = "complete", act'[b].ord = o, act'[b].pc \in PreWrite
      PROVE  act'[b].ver < order'[o].ver
  <2>1. /\ act[b].op = "complete" /\ act[b].ord = o /\ act[b].ver = act'[b].ver
        /\ act[b].pc \in PreWrite
    BY <1>2, ReadsNext DEF Reads
  <2>2. act[b].ver < order[o].ver /\ act[b].ver \in Nat
    BY <2>1, VersNat DEF Behind
  <2>. QED
    BY <1>1, <2>1, <2>2
<1>. QED
  BY <1>2 DEF Behind

LEMMA FixedNext ==
    ASSUME Base, Base', [Next]_vars, NEW o \in Orders, NEW s, Fixed(o, s)
    PROVE  Fixed(o, s)'
<1>0. order[o].ver \in Nat
  BY TypeParts DEF Base, OrderDocs
<1>1. ASSUME NEW a \in Requests, Writes(a), o = act[a].ord PROVE order[o].status = "DELETED" /\ order'[o].status = "DELETED"
  <2>1. /\ act[a].pc = "write" /\ act[a].op \in PayOps
        /\ act[a].op \in {"sale", "card"} => order[o].status = "NEW"
        /\ act[a].op = "webhook" => order[o].status = "PENDING"
        /\ act[a].op = "complete" => Unchanged(a, o)
    BY <1>1, WriteEffect, Found DEF PayPcs
  <2>2. act[a].op = "complete"
    BY <2>1 DEF Fixed, PayOps
  <2>3. order[o].status # "DELETED" /\ order[o].ver = act[a].ver
    BY <2>1, <2>2 DEF Unchanged
  <2>4. act[a].ver < order[o].ver
    BY <1>1, <2>1, <2>2, <2>3 DEF Fixed, Behind, PreWrite
  <2>. QED
    BY <1>0, <2>3, <2>4
<1>2. CASE Calm(order[o], order'[o])
  <2>1. CASE order'[o].status = "DELETED"
    BY <2>1 DEF Fixed
  <2>2. CASE order'[o].status # "DELETED"
    <3>1. /\ order[o].status \notin {"NEW", "PENDING"} /\ order[o].ses = s /\ Behind(o)
          /\ order'[o].ver = order[o].ver /\ order'[o].ses = s /\ order'[o].status \notin {"NEW", "PENDING"}
      BY <1>2, <2>2 DEF Calm, Fixed, SameEffect
    <3>2. Behind(o)'
      BY <1>0, <3>1, BehindKept
    <3>. QED
      BY <3>1, <3>2 DEF Fixed
  <2>. QED
    BY <2>1, <2>2
<1>3. CASE SameSale(order[o], order'[o])
  <2>1. CASE order[o].status = "DELETED"
    BY <1>3, <2>1 DEF SameSale, Fixed
  <2>2. CASE order[o].status # "DELETED"
    <3>1. Behind(o)'
      BY <1>0, <1>3, <2>2, BehindKept DEF SameSale, Fixed
    <3>. QED
      BY <1>3, <2>2, <3>1 DEF SameSale, Fixed
  <2>. QED
    BY <2>1, <2>2
<1>4. CASE \E a \in Requests : Writes(a) /\ o = act[a].ord
  BY <1>1, <1>4 DEF Fixed
<1>. QED
  BY <1>2, <1>3, <1>4, OrderSteps

LEMMA VersionsNext == ASSUME Base, Base', Versions, [Next]_vars PROVE Versions'
<1>1. ASSUME NEW b \in Requests, NEW o \in Orders, act'[b].op = "complete", o = act'[b].ord, order'[o].status # "DELETED"
      PROVE  act'[b].ver <= order'[o].ver
  <2>0. act'[b].ver \in Nat /\ order'[o].ver \in Nat /\ order[o].ver \in Nat
    <3>1. act'[b] \in RequestStates /\ order'[o] \in OrderDocs /\ order[o] \in OrderDocs
      BY TypeParts DEF Base, TypeOK
    <3>. QED
      BY <3>1 DEF RequestStates, OrderDocs
  <2>1. order'[o].ver >= order[o].ver /\ order[o].status # "DELETED"
    <3>1. CASE \E a \in Requests : Writes(a) /\ o = act[a].ord
      <4>1. PICK a \in Requests : Writes(a) /\ o = act[a].ord
        BY <3>1
      <4>2. /\ order'[o].ver = (IF act[a].op = "complete" THEN order[o].ver + 1 ELSE order[o].ver)
            /\ act[a].op \in {"sale", "card"} => order[o].status = "NEW"
            /\ act[a].op = "webhook" => order[o].status = "PENDING"
            /\ act[a].op = "complete" => Unchanged(a, o)
            /\ act[a].pc = "write"
        BY <4>1, WriteEffect
      <4>3. act[a].op \in PayOps
        BY <4>2, Found DEF PayPcs
      <4>. QED
        BY <2>0, <4>2, <4>3 DEF PayOps, Unchanged
    <3>2. CASE Calm(order[o], order'[o])
      BY <1>1, <2>0, <3>2 DEF Calm, SameEffect
    <3>3. CASE SameSale(order[o], order'[o])
      BY <1>1, <2>0, <3>3 DEF SameSale
    <3>. QED
      BY <3>1, <3>2, <3>3, OrderSteps
  <2>2. act'[b].ver = order[o].ver \/ (act[b].op = "complete" /\ act[b].ord = o /\ act[b].ver = act'[b].ver)
    BY <1>1, ReadsNext DEF Reads
  <2>3. CASE act[b].op = "complete" /\ act[b].ord = o /\ act[b].ver = act'[b].ver
    <3>1. act[b].ver <= order[o].ver
      BY <2>1, <2>3 DEF Versions
    <3>. QED
      BY <2>0, <2>1, <2>3, <3>1
  <2>. QED
    BY <2>0, <2>1, <2>2, <2>3
<1>2. ASSUME NEW b \in Requests, act'[b].op = "complete" PROVE act'[b].ord \in Orders
  BY <1>2 DEF Base, RequestsFit, Fits, PayOps
<1>. QED
  BY <1>1, <1>2 DEF Versions

LEMMA DeliveredNext == ASSUME Base, Base', Delivered, [Next]_vars PROVE Delivered'
<1>1. ASSUME NEW b \in Requests, NEW o \in Orders, act'[b].op = "webhook", o = act'[b].ord, order'[o].status = "PENDING"
      PROVE  order'[o].checkout
  <2>1. order[o].checkout \/ (act[b].op = "webhook" /\ act[b].ord = o)
    BY <1>1, ReadsNext DEF Reads
  <2>2. order[o].status # "NEW"
    <3>1. CASE act[b].op = "webhook" /\ act[b].ord = o
      BY <3>1, Found DEF Fits
    <3>2. CASE order[o].checkout
      <4>1. NewOrder.checkout = FALSE
        BY DEF NewOrder
      <4>2. order[o] # NewOrder
        BY <3>2, <4>1
      <4>. QED
        BY <4>2 DEF Base, OrderOK
    <3>. QED
      BY <2>1, <3>1, <3>2
  <2>3. CASE \E a \in Requests : Writes(a) /\ o = act[a].ord
    <3>1. PICK a \in Requests : Writes(a) /\ o = act[a].ord
      BY <2>3
    <3>. QED
      BY <1>1, <2>2, <3>1, WriteEffect
  <2>4. CASE order[o].status = "PENDING" /\ order'[o].checkout = order[o].checkout
    BY <2>1, <2>4 DEF Delivered
  <2>. QED
    BY <1>1, <2>2, <2>3, <2>4, OrderSteps DEF Calm, SameSale, SameEffect
<1>2. ASSUME NEW b \in Requests, act'[b].op = "webhook" PROVE act'[b].ord \in Orders
  BY <1>2 DEF Base, RequestsFit, Fits, PayOps
<1>. QED
  BY <1>1, <1>2 DEF Delivered

LEMMA OvertakenNext == ASSUME Base, Base', ReadInv, [Next]_vars PROVE Overtaken'
<1>1. ASSUME NEW o \in Orders, order'[o].status = "PAID" PROVE order'[o].checkout \/ Behind(o)'
  <2>0. order[o].ver \in Nat
    BY TypeParts DEF Base, OrderDocs
  <2>1. CASE order[o].status = "PAID" /\ order'[o].checkout = order[o].checkout /\ order'[o].ver = order[o].ver
    BY <2>0, <2>1, BehindKept DEF ReadInv, Overtaken
  <2>2. CASE \E a \in Requests : Writes(a) /\ o = act[a].ord
    <3>1. PICK a \in Requests : Writes(a) /\ o = act[a].ord
      BY <2>2
    <3>2. /\ Moves(a) /\ act[a].pc = "write" /\ order'[o].checkout = order[o].checkout
          /\ act[a].op \in {"sale", "card"} => order[o].status = "NEW" /\ \A b \in Requests \ {a} : act[b].ord # o
          /\ act[a].op = "complete" => Unchanged(a, o) /\ act'[a].pc \notin PreWrite
          /\ act[a].op = "webhook" => order[o].status = "PENDING"
          /\ order'[o].status = (IF act[a].op = "card" THEN "PENDING" ELSE "PAID")
          /\ order'[o].ver = (IF act[a].op = "complete" THEN order[o].ver + 1 ELSE order[o].ver)
      BY <3>1, WriteEffect, WriteStock
    <3>3. act[a].op \in PayOps
      BY <3>2, Found DEF PayPcs
    <3>4. CASE act[a].op = "webhook"
      BY <3>1, <3>2, <3>4 DEF ReadInv, Delivered
    <3>5. CASE act[a].op = "sale"
      <4>1. act'[a].op # "complete"
        BY <3>2, <3>5, IdleOK DEF Moves, Goes, Starts
      <4>. QED
        BY <3>2, <3>5, <4>1 DEF Moves, Behind
    <3>6. CASE act[a].op = "complete"
      <4>1. ASSUME NEW b \in Requests, act'[b].op = "complete", act'[b].ord = o, act'[b].pc \in PreWrite
            PROVE  act'[b].ver < order'[o].ver
        <5>1. b # a /\ act'[b] = act[b]
          BY <3>2, <3>6, <4>1 DEF Moves
        <5>2. act[b].ver <= order[o].ver /\ act[b].ver \in Nat
          BY <3>2, <3>6, <4>1, <5>1, VersNat DEF ReadInv, Versions, Unchanged
        <5>. QED
          BY <2>0, <3>2, <3>6, <5>1, <5>2
      <4>. QED
        BY <4>1 DEF Behind
    <3>. QED
      BY <1>1, <3>2, <3>3, <3>4, <3>5, <3>6 DEF PayOps
  <2>3. CASE SameSale(order[o], order'[o]) /\ order'[o].checkout
    BY <2>3
  <2>. QED
    BY <1>1, <2>1, <2>2, <2>3, OrderSteps DEF Calm, SameSale, SameEffect
<1>. QED
  BY <1>1 DEF Overtaken

LEMMA ReadInit == Init => ReadInv
BY IdleOK DEF Init, ReadInv, Versions, Delivered, Overtaken, NewOrder

LEMMA ReadNext == ASSUME Base, Base', ReadInv, [Next]_vars PROVE ReadInv'
BY VersionsNext, DeliveredNext, OvertakenNext DEF ReadInv

LEMMA ReadAlways == Spec => []ReadInv
<1>1. Base /\ ReadInv /\ [Next]_vars /\ Base' => ReadInv'
  BY ReadNext
<1>. QED
  BY <1>1, ReadInit, BaseAlways, PTL DEF Spec

-----------------------------------------------------------------------------
(* The stock of an order has the effect a transition or a session is for,  *)
(* but for one a storno gives back.                                        *)
Aim(op)    == IF op = "normal" THEN "APPLIED" ELSE "REVERTED"
Settles(s) == IF session[s].isTest THEN "REVERTED" ELSE "APPLIED"
Done(d, effect) == d.effect = effect \/ (d.claim = StornoToken /\ effect = "APPLIED")
AllDone(s, effect, rest) == \A o \in OrdersOf(s, "PAID") : Done(order[o], effect) \/ o \in rest

(* Orders of an open session are given back only under the close of a TEST *)
(* session, which begins where no card payment is open or unrefunded; and  *)
(* such a payment needs the session free of transitions.                   *)
Sound(s) == LET x == session[s] IN
    /\ x.trans = NoTransition \/ x.trans.type # "none"
    /\ x.status = "NONE" => OrdersOf(s, "PAID") = {}
    /\ x.status = "OPEN" /\ (x.trans = NoTransition \/ ~x.isTest) => AllDone(s, "APPLIED", {})
    /\ x.status = "OPEN" => AllDone(s, "APPLIED", {}) \/ ~(PendingSumUp(s) \/ UnrefundedSumUp(s))
    /\ x.status = "CLOSED" /\ x.trans = NoTransition => AllDone(s, Settles(s), {})
    /\ x.status = "CLOSED" /\ x.isTest => ~UnrefundedSumUp(s)

(* What a request has checked, and how far it is with the orders it listed.*)
Over(s) == session[s].status \in {"CLOSED", "DELETED"}
CloseDuty(r) ==
    /\ r.pc \in StockPcs \cup {"closePaid"} => ~PendingSumUp(r.ses) /\ session[r.ses].isTest
    /\ r.pc \in StockPcs \cup {"closeSum", "closeEnd"} /\ session[r.ses].isTest => ~UnrefundedSumUp(r.ses)
    /\ r.pc = "unclaim" => AllDone(r.ses, "APPLIED", {})
    /\ r.pc \in {"closeSum", "closeEnd"} => AllDone(r.ses, Settles(r.ses), {})
TestDuty(r) ==
    /\ r.pc = "testPaid" /\ ~r.flag => Over(r.ses)
    /\ r.op = "test" /\ r.pc = "testClaim" => Over(r.ses) /\ ~UnrefundedSumUp(r.ses)
    /\ r.pc \in StockPcs \cup {"testEnd"} => ~UnrefundedSumUp(r.ses)
DeleteDuty(r) ==
    /\ Over(r.ses)
    /\ r.pc \in StockPcs \cup {"deleteClaim"} => ~UnrefundedSumUp(r.ses)
StockDuty(r) ==
    /\ r.pc \in {"claim", "move"} => r.left \subseteq r.todo /\ \A o \in r.todo : Fixed(o, r.ses)
    /\ r.pc = "claim" => AllDone(r.ses, Aim(r.op), r.todo)
    /\ r.pc = "move" => AllDone(r.ses, Aim(r.op), r.left)
    /\ r.pc \in {"testEnd", "deleteMark"} => AllDone(r.ses, Aim(r.op), {})
Duty(r) ==
    /\ r.op = "close" => CloseDuty(r)
    /\ r.op \in {"test", "normal"} => TestDuty(r)
    /\ r.op = "delete" => DeleteDuty(r)
    /\ r.op \in SessionOps => StockDuty(r)

AllSound == \A s \in Sessions : Sound(s)
Duties   == \A a \in Requests, r \in RequestStates : act[a] = r => Duty(r)
TestInv  == AllSound /\ Duties

(* A step that adds nothing to a session, and moves none of its stock.     *)
Shrinks(s) ==
    \A o \in Orders : order'[o].ses = s =>
        /\ order'[o].status = "PAID" => /\ order[o].ses = s /\ order[o].status = "PAID"
                                        /\ order'[o].checkout = order[o].checkout
        /\ order'[o].status = "PENDING" /\ order'[o].checkout =>
               order[o].ses = s /\ order[o].status = "PENDING" /\ order[o].checkout
Steady(s) ==
    \A o \in Orders : order'[o].ses = s /\ order'[o].status = "PAID" =>
        SameEffect(order[o], order'[o])

LEMMA CalmShrinks == ASSUME Base, CalmStep, NEW s \in Sessions PROVE Shrinks(s) /\ Steady(s)
<1>1. ASSUME NEW o \in Orders, order'[o].ses = s, order'[o].status \in {"PAID", "PENDING"}
      PROVE  /\ order[o].ses = s
             /\ order'[o].status = "PAID" => order[o].status = "PAID" /\ order'[o].checkout = order[o].checkout
             /\ order'[o].status = "PAID" => SameEffect(order[o], order'[o])
             /\ order'[o].status = "PENDING" /\ order'[o].checkout =>
                   order[o].status = "PENDING" /\ order'[o].checkout = order[o].checkout
  BY <1>1 DEF CalmStep, Calm, SameEffect
<1>. QED
  BY <1>1 DEF Shrinks, Steady, SameEffect

LEMMA Shrunk ==
    ASSUME NEW s, Shrinks(s)
    PROVE  /\ PendingSumUp(s)' => PendingSumUp(s)
           /\ UnrefundedSumUp(s)' => UnrefundedSumUp(s)
           /\ OrdersOf(s, "PAID")' \subseteq OrdersOf(s, "PAID")
<1>1. PendingSumUp(s)' => PendingSumUp(s)
  BY DEF Shrinks, PendingSumUp, OrdersOf
<1>2. UnrefundedSumUp(s)' => UnrefundedSumUp(s)
  BY DEF Shrinks, UnrefundedSumUp, OrdersOf
<1>3. OrdersOf(s, "PAID")' \subseteq OrdersOf(s, "PAID")
  BY DEF Shrinks, OrdersOf
<1>. QED
  BY <1>1, <1>2, <1>3

LEMMA DoneKept ==
    ASSUME NEW s, NEW effect \in Effects, NEW rest, Shrinks(s), Steady(s), AllDone(s, effect, rest)
    PROVE  AllDone(s, effect, rest)'
BY DEF Shrinks, Steady, SameEffect, AllDone, OrdersOf, Done, Effects

LEMMA EffectsOf == /\ {"APPLIED", "REVERTED"} \subseteq Effects
                   /\ \A s : Settles(s) \in Effects
                   /\ \A op : Aim(op) \in Effects
BY DEF Effects, Settles, Aim

(* A session as it was, but for a claim on it.                             *)
LEMMA SoundKept ==
    ASSUME NEW s \in Sessions, Sound(s), Shrinks(s), Steady(s),
           session'[s].status = session[s].status, session'[s].isTest = session[s].isTest,
           session'[s].trans = NoTransition => session[s].trans = NoTransition,
           session'[s].trans = NoTransition \/ session'[s].trans.type # "none"
    PROVE  Sound(s)'
<1>1. Settles(s)' = Settles(s)
  BY DEF Settles
<1>2. PICK effect \in Effects : effect = Settles(s)
  BY EffectsOf
<1>3. AllDone(s, effect, {}) => AllDone(s, effect, {})'
  BY DoneKept, EffectsOf
<1>4. AllDone(s, "APPLIED", {}) => AllDone(s, "APPLIED", {})'
  BY DoneKept, EffectsOf
<1>5. AllDone(s, Settles(s), {})' <=> AllDone(s, effect, {})'
  BY <1>1, <1>2 DEF AllDone
<1>6. AllDone(s, Settles(s), {}) <=> AllDone(s, effect, {})
  BY <1>2
<1>7. OrdersOf(s, "PAID") = {} => OrdersOf(s, "PAID")' = {}
  BY Shrunk
<1>8. session[s].status = "CLOSED" /\ session[s].trans = NoTransition => AllDone(s, effect, {})
  BY <1>6 DEF Sound
<1>. QED
  BY <1>3, <1>4, <1>5, <1>7, <1>8, Shrunk DEF Sound

(* What the others know stays true: a step of a takes nothing from a       *)
(* session that another of them holds.                                     *)
Leaves(a, s) ==
    /\ Over(s) => Over(s)'
    /\ session'[s].isTest = session[s].isTest \/ Vacant(a, s)
    /\ Shrinks(s) \/ (Vacant(a, s) /\ session[s].status = "OPEN")
    /\ Steady(s) \/ Vacant(a, s)

LEMMA OthersKept ==
    ASSUME Base, Base', [Next]_vars, NEW a, NEW b \in Requests \ {a}, NEW r \in RequestStates,
           act[b] = r, Duty(r), r.op \in SessionOps, r.ses \in Sessions, Leaves(a, r.ses)
    PROVE  Duty(r)'
<1>1. PICK s \in Sessions : s = r.ses
  OBVIOUS
<1>2. CASE ~Vacant(a, s)
  <2>1. Shrinks(s) /\ Steady(s) /\ session'[s].isTest = session[s].isTest /\ (Over(s) => Over(s)')
    BY <1>1, <1>2 DEF Leaves
  <2>2. ~PendingSumUp(s) => ~PendingSumUp(s)'
    BY <2>1, Shrunk
  <2>3. ~UnrefundedSumUp(s) => ~UnrefundedSumUp(s)'
    BY <2>1, Shrunk
  <2>4. \A effect \in Effects : \A rest : AllDone(s, effect, rest) => AllDone(s, effect, rest)'
    BY <2>1, DoneKept, EffectsOf
  <2>5. PICK effect \in Effects : effect = Settles(s)
    BY EffectsOf
  <2>6. AllDone(s, Settles(s), {}) => AllDone(s, effect, {})'
    BY <2>4, <2>5
  <2>7. AllDone(s, effect, {})' => AllDone(s, Settles(s), {})'
    BY <2>1, <2>5 DEF Settles, AllDone
  <2>8. r.op = "close" => CloseDuty(r)'
    BY <1>1, <2>1, <2>2, <2>3, <2>4, <2>6, <2>7, EffectsOf DEF Duty, CloseDuty
  <2>9. r.op \in {"test", "normal"} => TestDuty(r)'
    BY <1>1, <2>1, <2>3 DEF Duty, TestDuty
  <2>10. r.op = "delete" => DeleteDuty(r)'
    BY <1>1, <2>1, <2>3 DEF Duty, DeleteDuty
  <2>11. r.todo \subseteq Orders
    BY DEF RequestStates
  <2>12. r.pc \in {"claim", "move"} => \A o \in r.todo : Fixed(o, s)'
    BY <1>1, <2>11, FixedNext DEF Duty, StockDuty
  <2>13. StockDuty(r)'
    BY <1>1, <2>4, <2>12, EffectsOf DEF Duty, StockDuty
  <2>. QED
    BY <2>8, <2>9, <2>10, <2>13 DEF Duty
<1>3. CASE Vacant(a, s)
  <2>1. ~Holding(r)
    BY <1>1, <1>3 DEF Vacant
  <2>2. r.op # "close" /\ r.pc \notin StockPcs \cup {"testEnd", "deleteMark"}
    BY <2>1 DEF Holding, PastClaim
  <2>3. StockDuty(r)'
    BY <2>2 DEF StockDuty, StockPcs
  <2>4. Over(s) => Over(s)' /\ Shrinks(s)
    BY <1>1 DEF Leaves, Over
  <2>5. Over(s) => Over(s)' /\ (~UnrefundedSumUp(s) => ~UnrefundedSumUp(s)')
    BY <2>4, Shrunk
  <2>6. r.op \in {"test", "normal"} => TestDuty(r)'
    BY <1>1, <2>2, <2>5 DEF Duty, TestDuty
  <2>7. r.op = "delete" => DeleteDuty(r)'
    BY <1>1, <2>2, <2>5 DEF Duty, DeleteDuty
  <2>. QED
    BY <2>2, <2>3, <2>6, <2>7 DEF Duty
<1>. QED
  BY <1>2, <1>3

LEMMA TestStepped ==
    ASSUME Base, Base', TestInv, [Next]_vars, NEW a, \A b \in Requests \ {a} : act'[b] = act[b],
           \A s \in Sessions : Leaves(a, s) /\ Sound(s)',
           a \in Requests => \A r \in RequestStates : act'[a] = r => Duty(r)'
    PROVE  TestInv'
<1>1. ASSUME NEW b \in Requests, NEW r \in RequestStates, act'[b] = r PROVE Duty(r)'
  <2>1. CASE b = a
    BY <1>1, <2>1
  <2>2. CASE b # a
    <3>1. act[b] = r /\ Duty(r)
      BY <1>1, <2>2 DEF TestInv, Duties
    <3>2. CASE r.op \in SessionOps
      <4>1. r.ses \in Sessions
        BY <3>1, <3>2, Found
      <4>. QED
        BY <2>2, <3>1, <3>2, <4>1, OthersKept
    <3>3. CASE r.op \notin SessionOps
      BY <3>3 DEF Duty, SessionOps
    <3>. QED
      BY <3>2, <3>3
  <2>. QED
    BY <2>1, <2>2
<1>. QED
  BY <1>1 DEF TestInv, Duties, AllSound

-----------------------------------------------------------------------------
(* What a step makes of a session: most leave its status, its kind and its *)
(* transition alone, or claim it.                                          *)
Claimed(c, x) ==
    /\ x.status = c.status /\ x.isTest = c.isTest
    /\ x.trans = NoTransition => c.trans = NoTransition
    /\ x.trans = NoTransition \/ x.trans.type # "none"
SameClaims(s) == Claimed(session[s], session'[s])
Typed(s) == session[s].trans = NoTransition \/ session[s].trans.type # "none"
Settling(a) == Unclaim(a) \/ CloseEnd(a) \/ TestSet(a) \/ TestEnd(a) \/ DeleteEnd(a)

LEMMA ClaimsSame == ASSUME NEW s, Typed(s), session' = session PROVE SameClaims(s)
BY DEF Typed, SameClaims, Claimed

LEMMA ClaimsSet ==
    ASSUME Base, NEW s \in Sessions, Typed(s), NEW z \in Sessions, NEW x, session' = [session EXCEPT ![z] = x],
           s = z => Claimed(session[s], x)
    PROVE  SameClaims(s)
BY TypeParts DEF Base, Typed, SameClaims, Claimed

LEMMA NoneType == NoTransition.type = "none" /\ NoTransition.fresh = FALSE /\ NoTransition.by = NoRequest
BY DEF NoTransition

(* A claim taken, extended, given up or gone stale on a payment.           *)
LEMMA ClaimsPay ==
    ASSUME Base, NEW s \in Sessions, Typed(s),
           \/ \E a \in Requests : PayClaim(a) \/ Refresh(a) \/ PayRelease(a)
           \/ \E z \in Sessions : ExpirePay(z)
    PROVE  SameClaims(s)
<1>0. session \in [Sessions -> SessionDocs]
  BY TypeParts DEF Base
<1>1. ASSUME NEW z \in Sessions, NEW pay, NEW fresh,
             session' = [session EXCEPT ![z].pay = pay, ![z].payFresh = fresh]
      PROVE  SameClaims(s)
  <2> DEFINE x == [session[z] EXCEPT !.pay = pay, !.payFresh = fresh]
  <2>1. s = z => Claimed(session[s], x)
    BY <1>0 DEF Typed, Claimed, SessionDocs
  <2>2. session' = [session EXCEPT ![z] = x]
    BY <1>1
  <2> HIDE DEF x
  <2>. QED
    BY <2>1, <2>2, ClaimsSet
<1>2. ASSUME NEW z \in Sessions, NEW fresh, session' = [session EXCEPT ![z].payFresh = fresh] PROVE SameClaims(s)
  <2> DEFINE x == [session[z] EXCEPT !.payFresh = fresh]
  <2>1. s = z => Claimed(session[s], x)
    BY <1>0 DEF Typed, Claimed, SessionDocs
  <2>2. session' = [session EXCEPT ![z] = x]
    BY <1>2
  <2> HIDE DEF x
  <2>. QED
    BY <2>1, <2>2, ClaimsSet
<1>3. ASSUME NEW a \in Requests, PayClaim(a) \/ Refresh(a) \/ PayRelease(a) PROVE SameClaims(s)
  <2>1. PICK z \in Sessions : z = act[a].ses
    BY <1>3, Found DEF PayClaim, Refresh, PayRelease, PayPcs
  <2>2. \/ session' = session
        \/ session' = [session EXCEPT ![z].pay = a, ![z].payFresh = TRUE]
        \/ session' = [session EXCEPT ![z].payFresh = TRUE]
        \/ session' = [session EXCEPT ![z].pay = NoRequest, ![z].payFresh = FALSE]
    BY <1>3, <2>1 DEF PayClaim, Refresh, PayRelease
  <2>. QED
    BY <1>1, <1>2, <2>2, ClaimsSame
<1>4. ASSUME NEW z \in Sessions, ExpirePay(z) PROVE SameClaims(s)
  BY <1>2, <1>4 DEF ExpirePay
<1>. QED
  BY <1>3, <1>4

(* A transition claimed, or its claim failed, marked or gone stale.        *)
LEMMA ClaimsTransition ==
    ASSUME Base, NEW s \in Sessions, Typed(s),
           \/ \E a \in Requests, t \in Tokens : TestClaim(a, t) \/ DeleteClaim(a, t) \/ \E z \in Sessions : CloseBegin(a, z, t)
           \/ \E a \in Requests : DeleteMark(a) \/ StockFail(a)
           \/ \E z \in Sessions : ExpireTransition(z)
    PROVE  SameClaims(s)
<1>0. session \in [Sessions -> SessionDocs]
  BY TypeParts DEF Base
<1>1. ASSUME NEW z \in Sessions, NEW trans, trans.type # "none",
             session' = [session EXCEPT ![z].trans = trans]
      PROVE  SameClaims(s)
  <2> DEFINE x == [session[z] EXCEPT !.trans = trans]
  <2>1. s = z => Claimed(session[s], x)
    BY <1>0, <1>1, NoneType DEF Claimed, SessionDocs
  <2>2. session' = [session EXCEPT ![z] = x]
    BY <1>1
  <2> HIDE DEF x
  <2>. QED
    BY <2>1, <2>2, ClaimsSet
<1>2. ASSUME NEW a \in Requests, NEW t \in Tokens, TestClaim(a, t) \/ DeleteClaim(a, t) PROVE SameClaims(s)
  <2>1. act[a].op \in {"test", "normal", "delete"} /\ act[a].ses \in Sessions
    BY <1>2, Found DEF TestClaim, DeleteClaim, TestPcs, DeletePcs, SessionOps
  <2>2. PICK z \in Sessions : z = act[a].ses
    BY <2>1
  <2>3. PICK type \in {"test", "normal", "delete"} :
           session' = session \/ session' = [session EXCEPT ![z].trans = ClaimedBy(a, type, t)]
    BY <1>2, <2>1, <2>2 DEF TestClaim, DeleteClaim, ClaimTransition
  <2>4. PICK trans : trans = ClaimedBy(a, type, t)
    OBVIOUS
  <2>5. trans.type # "none"
    BY <2>3, <2>4 DEF ClaimedBy
  <2>. QED
    BY <1>1, <2>3, <2>4, <2>5, ClaimsSame
<1>3. ASSUME NEW a \in Requests, NEW t \in Tokens, NEW z \in Sessions, CloseBegin(a, z, t) PROVE SameClaims(s)
  <2>1. PICK trans : trans = ClaimedBy(a, "close", t)
    OBVIOUS
  <2> DEFINE x == [session[z] EXCEPT !.pay = NoRequest, !.payFresh = FALSE, !.trans = trans]
  <2>2. trans.type # "none"
    BY <2>1 DEF ClaimedBy
  <2>3. s = z => Claimed(session[s], x)
    BY <1>0, <2>2, NoneType DEF Claimed, SessionDocs
  <2>4. session' = [session EXCEPT ![z] = x]
    BY <1>0, <1>3, <2>1 DEF CloseBegin, Unpaying
  <2> HIDE DEF x
  <2>. QED
    BY <2>3, <2>4, ClaimsSet
<1>4. ASSUME NEW z \in Sessions, ExpireTransition(z) PROVE SameClaims(s)
  <2>1. PICK trans : trans = [session[z].trans EXCEPT !.fresh = FALSE]
    OBVIOUS
  <2>2. session[z].trans \in Transitions /\ session' = [session EXCEPT ![z].trans = trans]
    BY <1>0, <1>4, <2>1 DEF ExpireTransition, SessionDocs
  <2>3. trans.type = session[z].trans.type /\ session[z].trans # NoTransition
    BY <1>4, <2>1, <2>2, NoneType DEF ExpireTransition, Transitions
  <2>4. CASE s = z
    BY <1>1, <2>2, <2>3, <2>4 DEF Typed
  <2>5. CASE s # z
    <3>1. session'[s] = session[s]
      BY <1>0, <2>2, <2>5
    <3>. QED
      BY <3>1 DEF Typed, SameClaims, Claimed
  <2>. QED
    BY <2>4, <2>5
<1>5. ASSUME NEW a \in Requests, StockFail(a) PROVE SameClaims(s)
  <2>1. CASE session' = session
    BY <2>1, ClaimsSame
  <2>2. CASE session' # session
    <3>1. PICK z : z = act[a].ses
      OBVIOUS
    <3>2. PICK trans : trans = [session[z].trans EXCEPT !.failed = TRUE]
      OBVIOUS
    <3>3. act[a].op # "storno" /\ session[z].trans.by = a /\ session' = [session EXCEPT ![z].trans = trans]
      BY <1>5, <2>2, <3>1, <3>2 DEF StockFail, HoldsTransition
    <3>4. z \in Sessions
      BY <1>5, <3>1, <3>3, Found DEF StockFail, StockPcs, SessionOps
    <3>5. session[z].trans \in Transitions
      BY <1>0, <3>4 DEF SessionDocs
    <3>6. trans.type = session[z].trans.type /\ session[z].trans # NoTransition
      BY <3>2, <3>3, <3>5, NoneType, Consts DEF Transitions
    <3>7. CASE s = z
      BY <1>1, <3>3, <3>4, <3>6, <3>7 DEF Typed
    <3>8. CASE s # z
      <4>1. session'[s] = session[s]
        BY <1>0, <3>3, <3>8
      <4>. QED
        BY <4>1 DEF Typed, SameClaims, Claimed
    <3>. QED
      BY <3>7, <3>8
  <2>. QED
    BY <2>1, <2>2
<1>6. ASSUME NEW a \in Requests, DeleteMark(a) PROVE SameClaims(s)
  <2>1. PICK z \in Sessions : z = act[a].ses
    BY <1>6, Found DEF DeleteMark, DeletePcs, SessionOps
  <2> DEFINE x == [session[z] EXCEPT !.effect = "REVERTED"]
  <2>2. s = z => Claimed(session[s], x)
    BY <1>0 DEF Typed, Claimed, SessionDocs
  <2>3. session' = session \/ session' = [session EXCEPT ![z] = x]
    BY <1>6, <2>1 DEF DeleteMark
  <2> HIDE DEF x
  <2>. QED
    BY <2>2, <2>3, ClaimsSet, ClaimsSame
<1>. QED
  BY <1>2, <1>3, <1>4, <1>5, <1>6

LEMMA ClaimsActs ==
    ASSUME Base, NEW a \in Requests, Acts(a), NEW s \in Sessions, Typed(s)
    PROVE  SameClaims(s) \/ Settling(a)
<1>1. ASSUME BeginPayment(a) \/ BeginManagement(a) PROVE SameClaims(s)
  <2>1. CASE \E z \in Sessions, t \in Tokens : CloseBegin(a, z, t)
    BY <2>1, ClaimsTransition
  <2>2. CASE ~\E z \in Sessions, t \in Tokens : CloseBegin(a, z, t)
    BY <1>1, <2>2, ClaimsSame DEF BeginPayment, BeginManagement, SaleBegin, CompleteBegin, WebhookBegin, TestBegin,
       DeleteBegin, StornoBegin, docs
  <2>. QED
    BY <2>1, <2>2
<1>2. ASSUME PayStep(a) PROVE SameClaims(s)
  BY <1>2, ClaimsPay, ClaimsSame DEF PayStep, ApplyItem, Rollback, WriteSale, WriteCard, WriteComplete, WriteWebhook,
     WriteFails, Trigger, Link, Cancel, HookRelease, docs
<1>3. ASSUME StockStep(a) PROVE SameClaims(s)
  BY <1>3, ClaimsTransition, ClaimsSame DEF StockStep, StockList, StockClaim, StockMove, StockDone, docs
<1>4. ASSUME CloseStep(a) \/ TestStep(a) \/ DeleteStep(a), ~Settling(a) PROVE SameClaims(s)
  BY <1>4, ClaimsTransition, ClaimsSame DEF CloseStep, ClosePending, ClosePaid, CloseSum, TestStep, TestPaid, TestPending,
     DeleteStep, DeletePaid, DeleteOrders, Settling, docs
<1>5. ASSUME StornoStep(a) \/ Crash(a) PROVE SameClaims(s)
  BY <1>5, ClaimsSame DEF StornoStep, StornoClaim, Refund, StornoEnd, StornoThrows, Crash, docs
<1>. QED
  BY <1>1, <1>2, <1>3, <1>4, <1>5 DEF Acts, Step

LEMMA ClaimsPasses ==
    ASSUME Base, Passes, NEW s \in Sessions, Typed(s)
    PROVE  SameClaims(s) \/ OpenSession(s)
<1>1. ASSUME NEW z \in Sessions, OpenSession(z), s # z PROVE SameClaims(s)
  <2>1. session'[s] = session[s]
    BY <1>1, TypeParts DEF OpenSession, Base
  <2>. QED
    BY <2>1 DEF Typed, SameClaims, Claimed
<1>2. ASSUME NEW o \in Orders, PublicOrder(o) \/ ExpireHook(o) PROVE SameClaims(s)
  BY <1>2, ClaimsSame DEF PublicOrder, ExpireHook
<1>3. CASE UNCHANGED vars
  BY <1>3, ClaimsSame DEF vars
<1>. QED
  BY <1>1, <1>2, <1>3, ClaimsPay, ClaimsTransition DEF Passes

-----------------------------------------------------------------------------
(* What a step leaves of a session, and that the session stays sound.      *)
LEMMA LeavesCalm ==
    ASSUME Base, CalmStep, NEW a, NEW s \in Sessions, Sound(s), SameClaims(s)
    PROVE  Leaves(a, s) /\ Sound(s)'
<1>1. Shrinks(s) /\ Steady(s)
  BY CalmShrinks
<1>2. Sound(s)'
  BY <1>1, SoundKept DEF SameClaims, Claimed
<1>. QED
  BY <1>1, <1>2 DEF Leaves, Over, SameClaims, Claimed

LEMMA LeavesOpening ==
    ASSUME Base, NEW s \in Sessions, Sound(s), OpenSession(s)
    PROVE  Leaves(NoRequest, s) /\ Sound(s)'
<1>0. session[s] \in SessionDocs /\ order' = order /\ session[s].status = "NONE"
  BY TypeParts DEF Base, OpenSession
<1>1. Shrinks(s) /\ Steady(s)
  BY <1>0, CalmSame, CalmShrinks
<1>2. session'[s].trans = session[s].trans /\ session'[s].isTest = session[s].isTest /\ session'[s].status = "OPEN"
  BY <1>0, TypeParts DEF Base, OpenSession, SessionDocs
<1>3. \A o \in Orders : ~(order'[o].ses = s /\ order'[o].status = "PAID")
  BY <1>0 DEF Sound, OrdersOf
<1>4. AllDone(s, "APPLIED", {})'
  BY <1>3 DEF AllDone, OrdersOf
<1>. QED
  BY <1>0, <1>1, <1>2, <1>4 DEF Leaves, Over, Sound

(* A payment writes under its claim, into an open session.                 *)
LEMMA LeavesPaying ==
    ASSUME Base, Held, HookSes, NEW a \in Requests, Writes(a) \/ Link(a), NEW s \in Sessions, Sound(s)
    PROVE  Leaves(a, s) /\ Sound(s)'
<1>1. PICK o : o = act[a].ord
  OBVIOUS
<1>2. o \in Orders /\ Only(o) /\ session' = session /\ act[a].pc \in PayingPcs
  BY <1>1, WriteEffect, LinkEffect
     DEF Writes, WriteSale, WriteCard, WriteComplete, WriteWebhook, Link, docs, PayingPcs, PayPcs
<1>3. order'[o] = order[o] \/ order'[o].ses = act[a].ses
  <2>1. CASE Writes(a)
    BY <1>1, <2>1, WriteEffect DEF HookSes
  <2>2. CASE Link(a)
    BY <1>1, <2>2, LinkEffect DEF SameSale
  <2>. QED
    BY <2>1, <2>2
<1>4. order'[o] = order[o] \/ (order'[o].status = "PAID" => order'[o].effect = "APPLIED")
  <2>1. CASE Writes(a)
    BY <1>1, <2>1, WriteEffect, WriteStock
  <2>2. CASE Link(a)
    BY <1>1, <2>2, LinkEffect DEF SameSale
  <2>. QED
    BY <2>1, <2>2
<1>5. CASE s # act[a].ses
  <2>1. Shrinks(s) /\ Steady(s)
    <3>1. \A p \in Orders : order'[p].ses = s => order'[p] = order[p]
      BY <1>2, <1>3, <1>5 DEF Only
    <3>. QED
      BY <3>1 DEF Shrinks, Steady, SameEffect
  <2>2. Sound(s)'
    BY <1>2, <2>1, SoundKept DEF Sound
  <2>. QED
    BY <1>2, <2>1, <2>2 DEF Leaves, Over
<1>6. CASE s = act[a].ses
  <2>1. session[s].status = "OPEN" /\ session[s].trans = NoTransition
    BY <1>2, <1>6 DEF Held, Holds, PayHeld
  <2>2. Vacant(a, s)
    BY <1>2, <1>6, VacantHeld DEF Holding
  <2>3. AllDone(s, "APPLIED", {})
    BY <2>1 DEF Sound
  <2>4. ASSUME NEW p \in Orders, order'[p].ses = s, order'[p].status = "PAID" PROVE Done(order'[p], "APPLIED")
    <3>1. CASE order'[p] = order[p]
      BY <2>3, <2>4, <3>1 DEF AllDone, OrdersOf
    <3>2. CASE order'[p] # order[p]
      BY <1>2, <1>4, <2>4, <3>2 DEF Only, Done
    <3>. QED
      BY <3>1, <3>2
  <2>5. AllDone(s, "APPLIED", {})'
    BY <2>4 DEF AllDone, OrdersOf
  <2>6. Sound(s)'
    BY <1>2, <2>1, <2>5 DEF Sound
  <2>. QED
    BY <1>2, <2>1, <2>2, <2>6 DEF Leaves, Over
<1>. QED
  BY <1>5, <1>6

(* A transition moves the stock of orders no payment will write again, in  *)
(* a session that it holds.                                                *)
LEMMA LeavesMoving ==
    ASSUME Base, Held, Duties, NEW a \in Requests, Moving(a), NEW s \in Sessions, Sound(s)
    PROVE  Leaves(a, s) /\ Sound(s)'
<1>1. PICK o : o = Min(act[a].left)
  OBVIOUS
<1>2. /\ o \in Orders /\ o \in act[a].left /\ Only(o) /\ act[a].pc = "move" /\ act[a].op \in SessionOps
      /\ act[a] \in RequestStates /\ SameSale(order[o], order'[o]) /\ order'[o].checkout = order[o].checkout
      /\ session' = session
  BY <1>1, MovingEffect, Found DEF Moving, StockDone
<1>3. Duty(act[a])
  BY <1>2 DEF Duties
<1>4. Shrinks(s)
  BY <1>2 DEF Shrinks, Only, SameSale
<1>5. CASE s # act[a].ses
  <2>1. order[o].status = "DELETED" \/ order[o].ses = act[a].ses
    BY <1>2, <1>3 DEF Duty, StockDuty, Fixed
  <2>2. Steady(s)
    BY <1>2, <1>5, <2>1 DEF Steady, Only, SameSale, SameEffect
  <2>3. Sound(s)'
    BY <1>2, <1>4, <2>2, SoundKept DEF Sound
  <2>. QED
    BY <1>2, <1>4, <2>2, <2>3 DEF Leaves, Over
<1>6. CASE s = act[a].ses
  <2>1. Holding(act[a]) /\ PastClaim(act[a])
    BY <1>2 DEF Holding, PastClaim, StockPcs
  <2>2. Vacant(a, s)
    BY <1>6, <2>1, VacantHeld
  <2>3. TransHeld(a, act[a], session[s])
    BY <1>6, <2>1 DEF Held, Holds
  <2>4. session[s].trans # NoTransition
    BY <2>3, NoneHolds, Consts DEF TransHeld
  <2>5. session[s].status = "OPEN" => session[s].isTest /\ ~PendingSumUp(s)' /\ ~UnrefundedSumUp(s)'
    <3>1. ASSUME session[s].status = "OPEN" PROVE act[a].op = "close"
      BY <2>3, <3>1 DEF TransHeld
    <3>2. act[a].op = "close" => ~PendingSumUp(s) /\ session[s].isTest /\ ~UnrefundedSumUp(s)
      BY <1>2, <1>3, <1>6 DEF Duty, CloseDuty, StockPcs
    <3>. QED
      BY <1>4, <3>1, <3>2, Shrunk
  <2>6. session[s].status \in {"OPEN", "CLOSED"}
    BY <2>3 DEF TransHeld
  <2>7. session[s].status = "CLOSED" /\ session[s].isTest => ~UnrefundedSumUp(s)'
    BY <1>4, Shrunk DEF Sound
  <2>8. Sound(s)'
    BY <1>2, <2>4, <2>5, <2>6, <2>7 DEF Sound
  <2>. QED
    BY <1>2, <1>4, <2>2, <2>8 DEF Leaves, Over
<1>. QED
  BY <1>5, <1>6

(* The steps that settle a session: a close given up or done, a session    *)
(* reclassified or gone.                                                   *)
LEMMA LeavesOther ==
    ASSUME Base, NEW a, NEW s \in Sessions, Sound(s), order' = order, session'[s] = session[s]
    PROVE  Leaves(a, s) /\ Sound(s)'
BY CalmSame, LeavesCalm DEF SameClaims, Claimed, Sound

LEMMA LeavesAt ==
    ASSUME Base, NEW a, NEW s \in Sessions, order' = order, Vacant(a, s), Over(s) => Over(s)'
    PROVE  Leaves(a, s) /\ Shrinks(s) /\ Steady(s)
BY CalmSame, CalmShrinks DEF Leaves

LEMMA LeavesUnclaim ==
    ASSUME Base, Held, Duties, NEW a \in Requests, Unclaim(a), NEW s \in Sessions, Sound(s), s = act[a].ses
    PROVE  Leaves(a, s) /\ Sound(s)'
<1>0. /\ act[a].pc = "unclaim" /\ act[a].op = "close" /\ act[a] \in RequestStates /\ session[s] \in SessionDocs
      /\ session \in [Sessions -> SessionDocs] /\ order' = order
  BY Found DEF Unclaim, ClosePcs
<1>1. TransHeld(a, act[a], session[s]) /\ Vacant(a, s)
  BY <1>0, VacantHeld DEF Held, Holds, Holding, PastClaim
<1>2. session[s].status = "OPEN" /\ session' = [session EXCEPT ![s].trans = NoTransition]
  BY <1>0, <1>1 DEF TransHeld, Unclaim, HoldsTransition
<1>3. session'[s].status = "OPEN" /\ session'[s].trans = NoTransition
  BY <1>0, <1>2 DEF SessionDocs
<1>4. AllDone(s, "APPLIED", {})
  BY <1>0 DEF Duties, Duty, CloseDuty
<1>5. Leaves(a, s) /\ Shrinks(s) /\ Steady(s)
  BY <1>0, <1>1, <1>2, LeavesAt DEF Over
<1>6. AllDone(s, "APPLIED", {})'
  BY <1>4, <1>5, DoneKept, EffectsOf
<1>. QED
  BY <1>3, <1>5, <1>6 DEF Sound

LEMMA LeavesClosed ==
    ASSUME Base, Held, Duties, NEW a \in Requests, CloseEnd(a), NEW s \in Sessions, Sound(s), s = act[a].ses
    PROVE  Leaves(a, s) /\ Sound(s)'
<1>0. /\ act[a].pc = "closeEnd" /\ act[a].op = "close" /\ act[a] \in RequestStates
      /\ session \in [Sessions -> SessionDocs] /\ order' = order
  BY Found DEF CloseEnd, ClosePcs
<1>1. TransHeld(a, act[a], session[s]) /\ Vacant(a, s)
  BY <1>0, VacantHeld DEF Held, Holds, Holding, PastClaim
<1>2. PICK effect : /\ session[s].status = "OPEN"
                    /\ session' = [session EXCEPT ![s].status = "CLOSED", ![s].trans = NoTransition, ![s].effect = effect]
  <2>1. session[s].status = "OPEN" /\ session[s].trans.by = a
    BY <1>0, <1>1 DEF TransHeld
  <2>2. PICK effect : effect = IF session[s].isTest THEN "REVERTED" ELSE "APPLIED"
    OBVIOUS
  <2>. QED
    BY <2>1, <2>2 DEF CloseEnd, HoldsTransition
<1>3. session'[s].status = "CLOSED" /\ session'[s].trans = NoTransition /\ session'[s].isTest = session[s].isTest
  BY <1>0, <1>2 DEF SessionDocs
<1>4. AllDone(s, Settles(s), {}) /\ (session[s].isTest => ~UnrefundedSumUp(s))
  BY <1>0 DEF Duties, Duty, CloseDuty
<1>5. Leaves(a, s) /\ Shrinks(s) /\ Steady(s)
  BY <1>0, <1>1, <1>2, LeavesAt DEF Over
<1>6. PICK e : e = Settles(s)
  OBVIOUS
<1>7. AllDone(s, e, {})' /\ Settles(s)' = e
  BY <1>3, <1>4, <1>5, <1>6, DoneKept, EffectsOf DEF Settles
<1>8. AllDone(s, Settles(s), {})'
  BY <1>7 DEF AllDone
<1>. QED
  BY <1>3, <1>4, <1>5, <1>8, Shrunk DEF Sound

LEMMA LeavesMarked ==
    ASSUME Base, Held, NEW a \in Requests, TestSet(a), NEW s \in Sessions, Sound(s), s = act[a].ses
    PROVE  Leaves(a, s) /\ Sound(s)'
<1>0. session \in [Sessions -> SessionDocs] /\ order' = order
  BY Found DEF TestSet
<1>1. CASE session' = session
  BY <1>0, <1>1, LeavesOther
<1>2. CASE PayClaimable(session[s])
  <2>1. PICK kind : session' = session \/
           session' = [session EXCEPT ![s].pay = NoRequest, ![s].payFresh = FALSE, ![s].isTest = kind]
    BY <1>0 DEF TestSet, Unpaying
  <2>2. session'[s].status = "OPEN" /\ session'[s].trans = NoTransition
    BY <1>0, <1>2, <2>1 DEF PayClaimable, Payable, SessionDocs
  <2>3. Leaves(a, s) /\ Shrinks(s) /\ Steady(s)
    BY <1>0, <1>2, VacantPayable, LeavesAt DEF Over, PayClaimable, Payable
  <2>4. AllDone(s, "APPLIED", {})
    BY <1>2 DEF Sound, PayClaimable, Payable
  <2>5. AllDone(s, "APPLIED", {})'
    BY <2>3, <2>4, DoneKept, EffectsOf
  <2>. QED
    BY <2>2, <2>3, <2>5 DEF Sound
<1>. QED
  BY <1>1, <1>2 DEF TestSet

LEMMA LeavesTested ==
    ASSUME Base, Held, Duties, NEW a \in Requests, TestEnd(a), NEW s \in Sessions, Sound(s), s = act[a].ses
    PROVE  Leaves(a, s) /\ Sound(s)'
<1>0. /\ act[a].pc = "testEnd" /\ act[a].op \in {"test", "normal"} /\ act[a] \in RequestStates
      /\ session \in [Sessions -> SessionDocs] /\ order' = order
  BY Found DEF TestEnd, TestPcs
<1>1. TransHeld(a, act[a], session[s]) /\ Vacant(a, s)
  BY <1>0, VacantHeld DEF Held, Holds, Holding, PastClaim, SessionOps
<1>2. PICK effect, kind : /\ kind = (act[a].op = "test") /\ session[s].status = "CLOSED"
                          /\ session' = [session EXCEPT ![s].isTest = kind, ![s].effect = effect, ![s].trans = NoTransition]
  BY <1>0, <1>1 DEF TransHeld, TestEnd, HoldsTransition
<1>3. session'[s].status = "CLOSED" /\ session'[s].trans = NoTransition /\ session'[s].isTest = kind
  BY <1>0, <1>2 DEF SessionDocs
<1>4. AllDone(s, Aim(act[a].op), {}) /\ ~UnrefundedSumUp(s)
  BY <1>0 DEF Duties, Duty, StockDuty, TestDuty, SessionOps
<1>5. Leaves(a, s) /\ Shrinks(s) /\ Steady(s)
  BY <1>0, <1>1, <1>2, <1>3, LeavesAt DEF Over
<1>6. PICK e : e = Aim(act[a].op)
  OBVIOUS
<1>7. AllDone(s, e, {})' /\ Settles(s)' = e
  <2>1. Settles(s)' = e
    BY <1>0, <1>2, <1>3, <1>6 DEF Settles, Aim
  <2>. QED
    BY <1>4, <1>5, <1>6, <2>1, DoneKept, EffectsOf
<1>8. AllDone(s, Settles(s), {})'
  BY <1>7 DEF AllDone
<1>. QED
  BY <1>3, <1>4, <1>5, <1>8, Shrunk DEF Sound

LEMMA LeavesDeleted ==
    ASSUME Base, Held, NEW a \in Requests, DeleteEnd(a), NEW s \in Sessions, Sound(s), s = act[a].ses
    PROVE  Leaves(a, s) /\ Sound(s)'
<1>0. session \in [Sessions -> SessionDocs] /\ order' = order
  BY Found DEF DeleteEnd
<1>1. CASE session' = session
  BY <1>0, <1>1, LeavesOther
<1>2. CASE session[s].trans.by = a /\ session' = [session EXCEPT ![s] = [NewSession EXCEPT !.status = "DELETED"]]
  <2>1. session'[s].status = "DELETED" /\ session'[s].trans = NoTransition
    BY <1>0, <1>2 DEF NewSession
  <2>2. Leaves(a, s)
    BY <1>0, <1>2, <2>1, VacantHolder, LeavesAt DEF Over
  <2>. QED
    BY <2>1, <2>2 DEF Sound
<1>. QED
  BY <1>1, <1>2 DEF DeleteEnd, HoldsTransition

LEMMA LeavesActs ==
    ASSUME Base, Held, HookSes, TestInv, NEW a \in Requests, Acts(a), NEW s \in Sessions
    PROVE  Leaves(a, s) /\ Sound(s)'
<1>0. Sound(s) /\ Duties /\ Typed(s)
  BY DEF TestInv, AllSound, Sound, Typed
<1>1. CASE Writes(a) \/ Link(a)
  BY <1>0, <1>1, LeavesPaying
<1>2. CASE Moving(a)
  BY <1>0, <1>2, LeavesMoving
<1>3. CASE Settling(a)
  <2>1. CASE s = act[a].ses
    BY <1>0, <1>3, <2>1, LeavesUnclaim, LeavesClosed, LeavesMarked, LeavesTested, LeavesDeleted DEF Settling
  <2>2. CASE s # act[a].ses
    <3>1. order' = order /\ session'[s] = session[s]
      BY <1>3, <2>2, Found DEF Settling, Unclaim, CloseEnd, TestSet, TestEnd, DeleteEnd, Unpaying
    <3>. QED
      BY <1>0, <3>1, LeavesOther
  <2>. QED
    BY <2>1, <2>2
<1>4. CASE CalmStep /\ SameClaims(s)
  BY <1>0, <1>4, LeavesCalm
<1>. QED
  BY <1>0, <1>1, <1>2, <1>3, <1>4, CalmActs, ClaimsActs

LEMMA LeavesPasses ==
    ASSUME Base, TestInv, Passes, NEW s \in Sessions
    PROVE  Leaves(NoRequest, s) /\ Sound(s)'
<1>0. Sound(s) /\ Typed(s)
  BY DEF TestInv, AllSound, Sound, Typed
<1>. QED
  BY <1>0, LeavesOpening, LeavesCalm, CalmPasses, ClaimsPasses

-----------------------------------------------------------------------------
(* What a request has checked when it goes on.                             *)
LEMMA DutyOther == ASSUME NEW r, r.op \notin SessionOps PROVE Duty(r)'
BY DEF Duty, SessionOps

LEMMA DutyIdle == ASSUME Base, NEW a \in Requests, End(a), NEW r, act'[a] = r PROVE Duty(r)'
<1>1. r.op = "none"
  BY Found, IdleOK DEF End
<1>. QED
  BY <1>1, DutyOther DEF SessionOps

(* Nothing the duties are about has changed.                               *)
LEMMA StillDone ==
    ASSUME order' = order, session' = session, NEW s, NEW effect, NEW rest
    PROVE  /\ AllDone(s, effect, rest)' <=> AllDone(s, effect, rest)
           /\ PendingSumUp(s)' <=> PendingSumUp(s)
           /\ UnrefundedSumUp(s)' <=> UnrefundedSumUp(s)
           /\ Over(s)' <=> Over(s)
           /\ AllDone(s, Settles(s), {})' <=> AllDone(s, Settles(s), {})
BY DEF AllDone, OrdersOf, Done, PendingSumUp, UnrefundedSumUp, Over, Settles

LEMMA DutyPay ==
    ASSUME Base, NEW a \in Requests, PayStep(a) \/ StornoStep(a) \/ Crash(a), NEW r, act'[a] = r
    PROVE  Duty(r)'
<1>1. CASE PayStep(a)
  <2>1. act[a].pc \in PayPcs
    BY <1>1 DEF PayStep, PayClaim, ApplyItem, Rollback, Refresh, WriteSale, WriteCard, WriteComplete, WriteWebhook,
                WriteFails, Trigger, Link, Cancel, PayRelease, HookRelease, PayPcs
  <2>2. act[a].op \in PayOps
    BY <2>1, Found
  <2>3. Moves(a)
    BY <1>1, PayQuiet, TerminalQuiet, CancelEffect, WriteEffect, UndoQuiet DEF PayStep, QuietMove, Writes
  <2>4. r.op \in PayOps \cup {"none"}
    BY <2>2, <2>3, IdleOK DEF Moves, Goes, Starts, PayOps
  <2>. QED
    BY <2>4, DutyOther DEF PayOps, SessionOps
<1>2. CASE StornoStep(a)
  <2>1. StornoEnd(a) => r.op = "none"
    BY StornoEndEffect, Found, IdleOK DEF End
  <2>2. ~StornoEnd(a) => r.op \in {"storno", "none"}
    BY <1>2, StornosEffect, IdleOK DEF StornoStep, Stornos
  <2>. QED
    BY <2>1, <2>2, DutyOther DEF SessionOps
<1>3. CASE Crash(a)
  BY <1>3, DutyIdle DEF Crash
<1>. QED
  BY <1>1, <1>2, <1>3

LEMMA DutyBegin ==
    ASSUME Base, NEW a \in Requests, BeginPayment(a) \/ BeginManagement(a), NEW r, act'[a] = r
    PROVE  Duty(r)'
<1>0. act \in [Requests -> RequestStates]
  BY Found
<1>1. CASE \E s \in Sessions, t \in Tokens : CloseBegin(a, s, t)
  <2>1. PICK s \in Sessions, t \in Tokens : CloseBegin(a, s, t)
    BY <1>1
  <2> DEFINE q == Request("close", "closePending", s, NoOrder)
  <2>2. q \in RequestStates /\ q.op = "close" /\ q.pc = "closePending"
    BY RequestOK DEF AllOps, Pcs, ClosePcs
  <2>3. r = [q EXCEPT !.tok = t]
    BY <1>0, <2>1 DEF CloseBegin, Begin
  <2> HIDE DEF q
  <2>4. r.op = "close" /\ r.pc = "closePending"
    BY <2>2, <2>3 DEF RequestStates
  <2>. QED
    BY <2>4 DEF Duty, CloseDuty, StockDuty, StockPcs
<1>2. CASE \E s \in Sessions, isTest \in BOOLEAN : TestBegin(a, s, isTest)
  <2>1. PICK s \in Sessions, isTest \in BOOLEAN : TestBegin(a, s, isTest)
    BY <1>2
  <2>2. PICK open \in BOOLEAN, op \in {"test", "normal"}, pc \in {"testPaid", "testSet", "testClaim"} :
           /\ open = (session[s].status = "OPEN") /\ (pc = "testClaim" => op = "normal")
           /\ act' = [act EXCEPT ![a] = [Request(op, pc, s, NoOrder) EXCEPT !.flag = open]]
    <3>1. PICK open \in BOOLEAN : open = (session[s].status = "OPEN")
      OBVIOUS
    <3>2. PICK op, pc : op = TestOp(isTest) /\ pc = IF isTest THEN "testPaid" ELSE IF open THEN "testSet" ELSE "testClaim"
      OBVIOUS
    <3>3. op \in {"test", "normal"} /\ pc \in {"testPaid", "testSet", "testClaim"} /\ (pc = "testClaim" => op = "normal")
      BY <3>2 DEF TestOp
    <3>4. act' = [act EXCEPT ![a] = [Request(op, pc, s, NoOrder) EXCEPT !.flag = open]]
      BY <2>1, <3>1, <3>2 DEF TestBegin, Begin
    <3>. QED
      BY <3>1, <3>3, <3>4
  <2> DEFINE q == Request(op, pc, s, NoOrder)
  <2>3. q \in RequestStates /\ q.op = op /\ q.pc = pc /\ q.ses = s
    <3>1. op \in AllOps /\ pc \in Pcs
      BY <2>2 DEF AllOps, Pcs, TestPcs
    <3>. QED
      BY <3>1, RequestOK
  <2>4. r = [q EXCEPT !.flag = open]
    BY <1>0, <2>2
  <2> HIDE DEF q
  <2>5. r.op = op /\ r.pc = pc /\ r.ses = s /\ r.flag = open
    BY <2>3, <2>4 DEF RequestStates
  <2>6. ~open => Over(s)'
    BY <2>1, <2>2 DEF TestBegin, Over, docs
  <2>7. TestDuty(r)'
    BY <2>2, <2>5, <2>6 DEF TestDuty, StockPcs
  <2>. QED
    BY <2>2, <2>5, <2>7 DEF Duty, StockDuty, StockPcs
<1>3. CASE \E s \in Sessions : DeleteBegin(a, s)
  <2>1. PICK s \in Sessions : DeleteBegin(a, s)
    BY <1>3
  <2>2. r = Request("delete", "deletePaid", s, NoOrder)
    BY <1>0, <2>1 DEF DeleteBegin, Begin
  <2>3. r.op = "delete" /\ r.pc = "deletePaid" /\ r.ses = s
    <3>1. "delete" \in AllOps /\ "deletePaid" \in Pcs
      BY DEF AllOps, Pcs, DeletePcs
    <3>. QED
      BY <2>2, <3>1, RequestOK
  <2>4. Over(s)'
    BY <2>1 DEF DeleteBegin, Over, docs
  <2>. QED
    BY <2>3, <2>4 DEF Duty, DeleteDuty, StockDuty, StockPcs
<1>4. CASE \E o \in Orders : StornoBegin(a, o)
  <2>1. r.op \in {"storno", "none"}
    BY <1>4, StornosEffect, IdleOK DEF Stornos
  <2>. QED
    BY <2>1, DutyOther DEF SessionOps
<1>5. CASE BeginPayment(a)
  <2>1. ASSUME NEW op \in {"sale", "card", "complete"}, NEW s \in Sessions, NEW o \in Orders
        PROVE  Request(op, "payClaim", s, o) \in RequestStates /\ Request(op, "payClaim", s, o).op = op
    BY RequestOK DEF AllOps, Pcs, PayPcs
  <2>2. ASSUME NEW o \in Orders, WebhookBegin(a, o) PROVE r.op = "webhook"
    <3>1. PICK strict, q : q = Request("webhook", "payClaim", order[o].ses, o) /\ act' = [act EXCEPT ![a] = [q EXCEPT !.flag = strict]]
      BY <2>2 DEF WebhookBegin, Begin
    <3>2. q.op = "webhook" /\ q.op = [q EXCEPT !.flag = strict].op
      BY <3>1, IdleOK DEF Request, Idle
    <3>. QED
      BY <1>0, <3>1, <3>2
  <2>3. ASSUME NEW s \in Sessions, NEW o \in Orders, CompleteBegin(a, s, o) PROVE r.op = "complete"
    <3>1. PICK v, q : q = Request("complete", "payClaim", s, o) /\ act' = [act EXCEPT ![a] = [q EXCEPT !.ver = v]]
      BY <2>3 DEF CompleteBegin, Begin
    <3>2. q \in RequestStates /\ q.op = "complete"
      BY <2>1, <3>1
    <3>3. [q EXCEPT !.ver = v].op = "complete"
      BY <3>2 DEF RequestStates
    <3>. QED
      BY <1>0, <3>1, <3>3
  <2>4. ASSUME NEW s \in Sessions, NEW o \in Orders, NEW op, SaleBegin(a, s, o, op) PROVE r.op \in {"sale", "card"}
    BY <1>0, <2>1, <2>4 DEF SaleBegin, Begin
  <2>5. r.op \in {"sale", "card", "complete", "webhook"}
    BY <1>5, <2>2, <2>3, <2>4 DEF BeginPayment
  <2>. QED
    BY <2>5, DutyOther DEF SessionOps
<1>. QED
  BY <1>1, <1>2, <1>3, <1>4, <1>5 DEF BeginManagement

(* The checks of a close, a reclassification and a deletion, which change  *)
(* nothing.                                                                *)
LEMMA DutyChecks ==
    ASSUME Base, Held, TestInv, NEW a \in Requests,
           ClosePending(a) \/ ClosePaid(a) \/ TestPaid(a) \/ TestPending(a) \/ DeletePaid(a), NEW r, act'[a] = r
    PROVE  Duty(r)'
<1>0. order' = order /\ session' = session
  BY DEF ClosePending, ClosePaid, TestPaid, TestPending, DeletePaid, docs
<1>1. /\ act[a] \in RequestStates /\ Duty(act[a]) /\ act[a].op \in {"close", "test", "normal", "delete"}
      /\ ClosePending(a) \/ ClosePaid(a) => act[a].op = "close"
      /\ TestPaid(a) \/ TestPending(a) => act[a].op \in {"test", "normal"}
      /\ DeletePaid(a) => act[a].op = "delete"
  BY Found DEF ClosePending, ClosePaid, TestPaid, TestPending, DeletePaid, ClosePcs, TestPcs, DeletePcs, TestInv, Duties
<1>2. PICK s \in Sessions : s = act[a].ses
  BY <1>1, Found DEF SessionOps
<1>3. Sound(s)
  BY DEF TestInv, AllSound
<1>4. act[a].op = "close" => session[s].status = "OPEN"
  BY <1>2 DEF Held, Holds, PastClaim, TransHeld
<1>5. ASSUME NEW pc, Goto(a, pc) PROVE r.op = act[a].op /\ r.ses = s /\ r.pc = pc /\ r.flag = act[a].flag
  BY <1>2, <1>5, GotoFields
<1>6. CASE ClosePending(a)
  <2>1. PICK pc : /\ Goto(a, pc)
                  /\ pc = IF PendingSumUp(s) THEN "unclaim" ELSE IF session[s].isTest THEN "closePaid" ELSE "closeSum"
    BY <1>2, <1>6 DEF ClosePending
  <2>2. r.op = "close" /\ r.ses = s /\ r.pc = pc
    BY <1>1, <1>5, <1>6, <2>1
  <2>3. CloseDuty(r)
    <3>1. CASE PendingSumUp(s)
      <4>1. r.pc = "unclaim" /\ AllDone(s, "APPLIED", {})
        BY <1>1, <1>3, <1>4, <1>6, <2>1, <2>2, <3>1 DEF Sound
      <4>. QED
        BY <2>2, <4>1 DEF CloseDuty, StockPcs
    <3>2. CASE ~PendingSumUp(s) /\ session[s].isTest
      BY <2>1, <2>2, <3>2 DEF CloseDuty, StockPcs
    <3>3. CASE ~PendingSumUp(s) /\ ~session[s].isTest
      <4>1. r.pc = "closeSum" /\ AllDone(s, Settles(s), {})
        BY <1>1, <1>3, <1>4, <1>6, <2>1, <2>2, <3>3 DEF Sound, Settles
      <4>. QED
        BY <2>2, <3>3, <4>1 DEF CloseDuty, StockPcs
    <3>. QED
      BY <3>1, <3>2, <3>3
  <2>4. CloseDuty(r)'
    BY <1>0, <2>3, StillDone DEF CloseDuty
  <2>5. r.pc \notin {"claim", "move", "testEnd", "deleteMark"}
    BY <2>1, <2>2
  <2>. QED
    BY <2>2, <2>4, <2>5 DEF Duty, StockDuty
<1>7. CASE ClosePaid(a)
  <2>1. PICK pc : Goto(a, pc) /\ pc = IF UnrefundedSumUp(s) THEN "unclaim" ELSE "list"
    BY <1>2, <1>7 DEF ClosePaid
  <2>2. r.op = "close" /\ r.ses = s /\ r.pc = pc
    BY <1>1, <1>5, <1>7, <2>1
  <2>3. ~PendingSumUp(s) /\ session[s].isTest
    BY <1>1, <1>2, <1>7 DEF Duty, CloseDuty, ClosePaid
  <2>4. CloseDuty(r)
    <3>1. CASE UnrefundedSumUp(s)
      <4>1. r.pc = "unclaim" /\ AllDone(s, "APPLIED", {})
        BY <1>1, <1>3, <1>4, <1>7, <2>1, <2>2, <3>1 DEF Sound
      <4>. QED
        BY <2>2, <4>1 DEF CloseDuty, StockPcs
    <3>2. CASE ~UnrefundedSumUp(s)
      BY <2>1, <2>2, <2>3, <3>2 DEF CloseDuty, StockPcs
    <3>. QED
      BY <3>1, <3>2
  <2>5. CloseDuty(r)'
    BY <1>0, <2>4, StillDone DEF CloseDuty
  <2>. QED
    BY <2>1, <2>2, <2>5 DEF Duty, StockDuty
<1>8. CASE TestPaid(a) \/ TestPending(a) \/ DeletePaid(a)
  <2>1. CASE End(a)
    BY <2>1, DutyIdle
  <2>2. CASE ~End(a)
    <3>1. PICK pc \in {"testPending", "testSet", "testClaim", "deleteClaim"} :
             /\ Goto(a, pc)
             /\ pc \in {"testClaim", "deleteClaim"} => Over(s) /\ ~UnrefundedSumUp(s)
             /\ act[a].op = "delete" <=> pc = "deleteClaim"
      BY <1>1, <1>2, <1>8, <2>2 DEF TestPaid, TestPending, DeletePaid, Duty, TestDuty, DeleteDuty
    <3>2. r.op = act[a].op /\ r.ses = s /\ r.pc = pc
      BY <1>5, <3>1
    <3>3. r.op \in {"test", "normal"} => TestDuty(r)'
      BY <1>0, <3>1, <3>2, StillDone DEF TestDuty, StockPcs
    <3>4. r.op = "delete" => DeleteDuty(r)'
      BY <1>0, <3>1, <3>2, StillDone DEF DeleteDuty, StockPcs
    <3>5. r.op # "close"
      BY <1>1, <1>8, <3>2
    <3>. QED
      BY <3>1, <3>2, <3>3, <3>4, <3>5 DEF Duty, StockDuty
  <2>. QED
    BY <2>1, <2>2
<1>. QED
  BY <1>6, <1>7, <1>8

(* A transition claimed goes on to the stock.                              *)
LEMMA DutyClaims ==
    ASSUME Base, TestInv, NEW a \in Requests, NEW t \in Tokens, TestClaim(a, t) \/ DeleteClaim(a, t),
           NEW r, act'[a] = r, \A s \in Sessions : Leaves(a, s)
    PROVE  Duty(r)'
<1>0. /\ act[a] \in RequestStates /\ Duty(act[a]) /\ order' = order
      /\ TestClaim(a, t) => act[a].op \in {"test", "normal"}
      /\ DeleteClaim(a, t) => act[a].op = "delete"
      /\ act \in [Requests -> RequestStates]
  BY Found DEF TestClaim, DeleteClaim, TestPcs, DeletePcs, TestInv, Duties
<1>1. PICK s \in Sessions : s = act[a].ses
  BY <1>0, Found DEF SessionOps
<1>2. Sound(s)
  BY DEF TestInv, AllSound
<1>3. CASE End(a)
  BY <1>3, DutyIdle
<1>4. CASE ~End(a)
  <2>1. PICK pc \in {"list", "deleteOrders"} :
           /\ session[s].status = "CLOSED" /\ act'[a] = [act[a] EXCEPT !.pc = pc, !.tok = t]
           /\ TestClaim(a, t) => pc = "list" /\ session[s].isTest # (act[a].op = "test")
    <3>1. CASE TestClaim(a, t)
      BY <1>0, <1>1, <1>4, <3>1 DEF TestClaim
    <3>2. CASE DeleteClaim(a, t)
      <4>1. PICK pc \in {"list", "deleteOrders"} :
               pc = IF session[s].effect = "REVERTED" THEN "deleteOrders" ELSE "list"
        OBVIOUS
      <4>2. session[s].status = "CLOSED" /\ act'[a] = [act[a] EXCEPT !.tok = t, !.pc = pc]
        BY <1>0, <1>1, <1>4, <3>2, <4>1 DEF DeleteClaim
      <4>3. [act[a] EXCEPT !.tok = t, !.pc = pc] = [act[a] EXCEPT !.pc = pc, !.tok = t]
        BY <1>0 DEF RequestStates
      <4>4. act[a].pc = "deleteClaim"
        BY <3>2 DEF DeleteClaim
      <4>5. ~TestClaim(a, t)
        BY <4>4 DEF TestClaim
      <4>. QED
        BY <4>2, <4>3, <4>5
    <3>. QED
      BY <3>1, <3>2
  <2>2. r.op = act[a].op /\ r.ses = s /\ r.pc = pc
    BY <1>0, <1>1, <2>1 DEF RequestStates
  <2>3. Over(s)'
    BY <2>1 DEF Leaves, Over
  <2>4. ~UnrefundedSumUp(s)
    <3>1. CASE act[a].op = "test"
      BY <1>0, <1>1, <3>1 DEF Duty, TestDuty, TestClaim, DeleteClaim
    <3>2. CASE act[a].op = "normal"
      <4>1. session[s].isTest # (act[a].op = "test") /\ (act[a].op = "test") = FALSE
        BY <1>0, <2>1, <3>2
      <4>2. session[s].isTest \in BOOLEAN
        BY <1>1, Found DEF SessionDocs
      <4>3. session[s].isTest
        BY <4>1, <4>2
      <4>. QED
        BY <1>2, <2>1, <4>3 DEF Sound
    <3>3. CASE act[a].op = "delete"
      BY <1>0, <1>1, <3>3 DEF Duty, DeleteDuty, TestClaim, DeleteClaim
    <3>. QED
      BY <1>0, <3>1, <3>2, <3>3
  <2>5. ~UnrefundedSumUp(s)'
    BY <1>0, <2>4 DEF UnrefundedSumUp, OrdersOf
  <2>6. r.op \in {"test", "normal"} => TestDuty(r)'
    BY <2>1, <2>2, <2>5 DEF TestDuty
  <2>7. r.op = "delete" => DeleteDuty(r)'
    BY <2>2, <2>3, <2>5 DEF DeleteDuty
  <2>8. r.op # "close"
    BY <1>0, <2>2
  <2>. QED
    BY <2>1, <2>2, <2>6, <2>7, <2>8 DEF Duty, StockDuty
<1>. QED
  BY <1>3, <1>4

(* The last steps of a close and of a deletion.                            *)
LEMMA DutyEnds ==
    ASSUME Base, TestInv, NEW a \in Requests, NEW r, act'[a] = r, \A s \in Sessions : Leaves(a, s),
           CloseSum(a) \/ Settling(a) \/ DeleteMark(a) \/ DeleteOrders(a)
    PROVE  Duty(r)'
<1>1. CASE Settling(a)
  BY <1>1, DutyIdle DEF Settling, Unclaim, CloseEnd, TestSet, TestEnd, DeleteEnd
<1>2. CASE CloseSum(a)
  <2>0. act[a].pc = "closeSum" /\ act[a].op = "close" /\ act[a] \in RequestStates /\ Duty(act[a])
        /\ act \in [Requests -> RequestStates] /\ order' = order /\ session' = session
    BY <1>2, Found DEF CloseSum, ClosePcs, TestInv, Duties, docs
  <2>1. PICK s \in Sessions : s = act[a].ses
    BY <2>0, Found DEF SessionOps
  <2>2. PICK todo : r = [act[a] EXCEPT !.pc = "closeEnd", !.todo = todo]
    BY <1>2, <2>0 DEF CloseSum
  <2>3. r.op = "close" /\ r.ses = s /\ r.pc = "closeEnd"
    BY <2>0, <2>1, <2>2 DEF RequestStates
  <2>4. AllDone(s, Settles(s), {}) /\ (session[s].isTest => ~UnrefundedSumUp(s))
    BY <2>0, <2>1 DEF Duty, CloseDuty
  <2>5. CloseDuty(r)'
    BY <2>0, <2>3, <2>4, StillDone DEF CloseDuty, StockPcs
  <2>. QED
    BY <2>3, <2>5 DEF Duty, StockDuty
<1>3. CASE DeleteMark(a) \/ DeleteOrders(a)
  <2>0. act[a].op = "delete" /\ act[a] \in RequestStates /\ Duty(act[a])
    BY <1>3, Found DEF DeleteMark, DeleteOrders, DeletePcs, TestInv, Duties
  <2>1. PICK s \in Sessions : s = act[a].ses
    BY <2>0, Found DEF SessionOps
  <2>2. PICK pc \in {"deleteOrders", "deleteEnd"} : Goto(a, pc)
    BY <1>3 DEF DeleteMark, DeleteOrders
  <2>3. r.op = "delete" /\ r.ses = s /\ r.pc = pc
    BY <2>0, <2>1, <2>2, GotoFields
  <2>4. Over(s)'
    BY <2>0, <2>1 DEF Duty, DeleteDuty, Leaves
  <2>5. DeleteDuty(r)'
    BY <2>2, <2>3, <2>4 DEF DeleteDuty, StockPcs
  <2>. QED
    BY <2>2, <2>3, <2>5 DEF Duty, StockDuty
<1>. QED
  BY <1>1, <1>2, <1>3

-----------------------------------------------------------------------------
(* A transition at work on the stock of its session.                       *)
AfterPcsOf == {"closeSum", "testEnd", "deleteMark"}

LEMMA AfterOps == ASSUME NEW op \in SessionOps PROVE AfterStock(op) \in AfterPcsOf
BY DEF AfterStock, AfterPcsOf, SessionOps

LEMMA AimTarget == ASSUME NEW a, act[a].op \in SessionOps PROVE Target(a) = Aim(act[a].op)
BY DEF Target, Aim

LEMMA DutyStock ==
    ASSUME NEW q, Duty(q), q.pc \in StockPcs, q.op \in SessionOps, session' = session, Shrinks(q.ses),
           NEW r, r.op = q.op, r.ses = q.ses, r.pc \in StockPcs \cup AfterPcsOf,
           r.pc \in {"claim", "move"} => r.left \subseteq r.todo /\ \A o \in r.todo : Fixed(o, r.ses)',
           r.pc = "claim" => AllDone(r.ses, Aim(r.op), r.todo)',
           r.pc = "move" => AllDone(r.ses, Aim(r.op), r.left)',
           r.pc \in AfterPcsOf => AllDone(r.ses, Aim(r.op), {})'
    PROVE  Duty(r)'
<1>1. PICK s : s = q.ses
  OBVIOUS
<1>2. ASSUME ~UnrefundedSumUp(s) PROVE ~UnrefundedSumUp(s)'
  BY <1>1, <1>2, Shrunk
<1>3. StockDuty(r)'
  BY DEF StockDuty, AfterPcsOf
<1>4. ASSUME r.op = "close" PROVE CloseDuty(r)'
  <2>1. ~PendingSumUp(s) /\ session[s].isTest /\ ~UnrefundedSumUp(s)
    BY <1>1, <1>4 DEF Duty, CloseDuty
  <2>2. ~PendingSumUp(s)' /\ session'[s].isTest /\ ~UnrefundedSumUp(s)'
    BY <1>1, <2>1, Shrunk
  <2>3. Settles(s)' = "REVERTED" /\ Aim(r.op) = "REVERTED"
    BY <1>4, <2>2 DEF Settles, Aim
  <2>4. r.pc \in {"closeSum", "closeEnd"} => AllDone(s, Settles(s), {})'
    <3>1. r.pc \in {"closeSum", "closeEnd"} => r.pc \in AfterPcsOf
      BY DEF AfterPcsOf, StockPcs
    <3>2. r.pc \in AfterPcsOf => AllDone(s, "REVERTED", {})'
      BY <1>1, <2>3
    <3>. QED
      BY <2>3, <3>1, <3>2 DEF AllDone
  <2>5. r.pc # "unclaim"
    BY DEF AfterPcsOf, StockPcs
  <2>. QED
    BY <1>1, <2>2, <2>4, <2>5 DEF CloseDuty
<1>5. ASSUME r.op \in {"test", "normal"} PROVE TestDuty(r)'
  <2>1. r.pc \notin {"testPaid", "testClaim"}
    BY DEF AfterPcsOf, StockPcs
  <2>2. ~UnrefundedSumUp(s)
    BY <1>1, <1>5 DEF Duty, TestDuty
  <2>. QED
    BY <1>1, <1>2, <2>1, <2>2 DEF TestDuty
<1>6. ASSUME r.op = "delete" PROVE DeleteDuty(r)'
  <2>1. Over(s) /\ ~UnrefundedSumUp(s)
    BY <1>1, <1>6 DEF Duty, DeleteDuty
  <2>. QED
    BY <1>1, <1>2, <2>1 DEF DeleteDuty, Over
<1>. QED
  BY <1>3, <1>4, <1>5, <1>6 DEF Duty

(* The orders of a session no card payment of which is unrefunded are      *)
(* listed once no payment will write them again.                           *)
LEMMA DutyList ==
    ASSUME Base, Base', ReadInv, TestInv, [Next]_vars, NEW a \in Requests, StockList(a), NEW r, act'[a] = r
    PROVE  Duty(r)'
<1>0. /\ act[a] \in RequestStates /\ act \in [Requests -> RequestStates] /\ Duty(act[a]) /\ act[a].pc = "list"
      /\ order' = order /\ session' = session /\ act[a].op \in SessionOps \cup {"storno"}
      /\ act[a].pc = "list" => act[a].op \in SessionOps
  BY Found DEF StockList, StockPcs, TestInv, Duties, docs, Fits
<1>1. PICK s \in Sessions, q \in RequestStates : s = act[a].ses /\ q = act[a]
  BY <1>0, Found
<1>2. Shrinks(s)
  BY <1>0, CalmSame, CalmShrinks
<1>3. PICK found : found = {o \in OrdersOf(s, "PAID") : order[o].effect # Target(a)}
  OBVIOUS
<1>4. CASE Goto(a, "fail")
  <2>1. r.op = act[a].op /\ r.ses = s /\ r.pc = "fail"
    BY <1>1, <1>4, GotoFields
  <2>. QED
    BY <1>0, <1>1, <1>2, <2>1, DutyStock DEF StockPcs, AfterPcsOf
<1>5. CASE ~Goto(a, "fail")
  <2>1. PICK plan : r = [act[a] EXCEPT !.pc = "claim", !.todo = found, !.left = found, !.plan = plan]
    BY <1>0, <1>1, <1>3, <1>5 DEF StockList
  <2>2. r.op = act[a].op /\ r.ses = s /\ r.pc = "claim" /\ r.todo = found /\ r.left = found
    BY <1>0, <1>1, <2>1 DEF RequestStates
  <2>3. ~UnrefundedSumUp(s)
    BY <1>0, <1>1 DEF Duty, CloseDuty, TestDuty, DeleteDuty, SessionOps, StockPcs
  <2>4. ASSUME NEW o \in found PROVE Fixed(o, s)'
    <3>1. o \in Orders /\ order[o].ses = s /\ order[o].status = "PAID" /\ ~order[o].checkout
      BY <1>3, <2>3 DEF OrdersOf, UnrefundedSumUp
    <3>2. Fixed(o, s)
      BY <3>1 DEF Fixed, ReadInv, Overtaken
    <3>. QED
      BY <3>1, <3>2, FixedNext
  <2>5. AllDone(s, Aim(q.op), found)
    BY <1>0, <1>1, <1>3, AimTarget DEF AllDone, Done
  <2>6. AllDone(s, Aim(q.op), found)'
    BY <1>0, <2>5, StillDone
  <2>. QED
    BY <1>0, <1>1, <1>2, <2>2, <2>4, <2>6, DutyStock DEF StockPcs, AfterPcsOf
<1>. QED
  BY <1>4, <1>5

LEMMA FixedKept ==
    ASSUME Base, Base', [Next]_vars, NEW q \in RequestStates, NEW s, \A o \in q.todo : Fixed(o, s)
    PROVE  \A o \in q.todo : Fixed(o, s)'
<1>1. q.todo \subseteq Orders
  BY DEF RequestStates
<1>. QED
  BY <1>1, FixedNext

LEMMA DutyClaimed ==
    ASSUME Base, Base', TestInv, [Next]_vars, NEW a \in Requests, StockClaim(a), NEW r, act'[a] = r
    PROVE  Duty(r)'
<1>0. /\ act[a] \in RequestStates /\ act \in [Requests -> RequestStates] /\ Duty(act[a]) /\ act[a].pc = "claim"
      /\ session' = session /\ act[a].op \in SessionOps
  BY Found DEF StockClaim, StockPcs, TestInv, Duties, docs, Fits
<1>1. PICK s \in Sessions, q \in RequestStates : s = act[a].ses /\ q = act[a]
  BY <1>0, Found
<1>2. Shrinks(s) /\ Steady(s)
  BY CalmStock, CalmShrinks
<1>3. act[a].left \subseteq act[a].todo /\ \A o \in q.todo : Fixed(o, s)'
  BY <1>0, <1>1, FixedKept DEF Duty, StockDuty
<1>4. AllDone(s, Aim(q.op), q.todo)'
  BY <1>0, <1>1, <1>2, DoneKept, EffectsOf DEF Duty, StockDuty
<1>5. CASE Goto(a, "fail")
  <2>1. r.op = act[a].op /\ r.ses = s /\ r.pc = "fail"
    BY <1>1, <1>5, GotoFields
  <2>. QED
    BY <1>0, <1>1, <1>2, <2>1, DutyStock DEF StockPcs, AfterPcsOf
<1>6. ASSUME NEW left, left \subseteq act[a].left, act' = [act EXCEPT ![a].left = left] PROVE Duty(r)'
  <2>1. r = [act[a] EXCEPT !.left = left]
    BY <1>0, <1>6
  <2>2. r.op = act[a].op /\ r.ses = s /\ r.pc = "claim" /\ r.todo = act[a].todo /\ r.left = left
    BY <1>0, <1>1, <2>1 DEF RequestStates
  <2>. QED
    BY <1>0, <1>1, <1>2, <1>3, <1>4, <1>6, <2>2, DutyStock DEF StockPcs, AfterPcsOf
<1>7. ASSUME NEW pc, NEW rest, pc = IF act[a].todo = {} THEN AfterStock(act[a].op) ELSE "move",
             act' = [act EXCEPT ![a].pc = pc, ![a].left = act[a].todo, ![a].rest = rest]
      PROVE  Duty(r)'
  <2>1. r = [act[a] EXCEPT !.pc = pc, !.left = act[a].todo, !.rest = rest]
    BY <1>0, <1>7
  <2>2. r.op = act[a].op /\ r.ses = s /\ r.pc = pc /\ r.todo = act[a].todo /\ r.left = act[a].todo
    BY <1>0, <1>1, <2>1 DEF RequestStates
  <2>3. CASE act[a].todo = {}
    <3>1. pc \in AfterPcsOf /\ AllDone(s, Aim(q.op), {})'
      BY <1>0, <1>1, <1>4, <1>7, <2>3, AfterOps
    <3>2. pc \notin {"claim", "move"}
      BY <3>1 DEF AfterPcsOf
    <3>. QED
      BY <1>0, <1>1, <1>2, <2>2, <3>1, <3>2, DutyStock DEF StockPcs
  <2>4. CASE act[a].todo # {}
    <3>1. pc = "move"
      BY <1>7, <2>4
    <3>. QED
      BY <1>0, <1>1, <1>2, <1>3, <1>4, <2>2, <3>1, DutyStock DEF StockPcs, AfterPcsOf
  <2>. QED
    BY <2>3, <2>4
<1>8. \/ Goto(a, "fail")
      \/ \E left : left \subseteq act[a].left /\ act' = [act EXCEPT ![a].left = left]
      \/ act' = [act EXCEPT ![a].pc = IF act[a].todo = {} THEN AfterStock(act[a].op) ELSE "move",
                            ![a].left = act[a].todo, ![a].rest = FirstPlan(a, act[a].todo)]
  BY DEF StockClaim
<1>9. PICK pc, rest : pc = (IF act[a].todo = {} THEN AfterStock(act[a].op) ELSE "move") /\ rest = FirstPlan(a, act[a].todo)
  OBVIOUS
<1>. QED
  BY <1>5, <1>6, <1>7, <1>8, <1>9

LEMMA DutyMoves ==
    ASSUME Base, Base', TestInv, [Next]_vars, NEW a \in Requests, StockMove(a), act[a].op # "storno", NEW r, act'[a] = r
    PROVE  Duty(r)'
<1>0. /\ act[a] \in RequestStates /\ act \in [Requests -> RequestStates] /\ Duty(act[a]) /\ act[a].pc = "move"
      /\ session' = session /\ order' = order /\ act[a].op \in SessionOps
  BY Found DEF StockMove, StockPcs, TestInv, Duties
<1>1. PICK s \in Sessions, q \in RequestStates : s = act[a].ses /\ q = act[a]
  BY <1>0, Found
<1>2. Shrinks(s)
  BY <1>0, CalmSame, CalmShrinks
<1>3. act[a].left \subseteq act[a].todo /\ \A o \in q.todo : Fixed(o, s)'
  BY <1>0, <1>1, FixedKept DEF Duty, StockDuty
<1>4. AllDone(s, Aim(q.op), q.left)'
  BY <1>0, <1>1, StillDone DEF Duty, StockDuty
<1>5. CASE Goto(a, "fail")
  <2>1. r.op = act[a].op /\ r.ses = s /\ r.pc = "fail"
    BY <1>1, <1>5, GotoFields
  <2>. QED
    BY <1>0, <1>1, <1>2, <2>1, DutyStock DEF StockPcs, AfterPcsOf
<1>6. ASSUME NEW rest, act' = [act EXCEPT ![a].rest = rest] PROVE Duty(r)'
  <2>1. r = [act[a] EXCEPT !.rest = rest]
    BY <1>0, <1>6
  <2>2. r.op = act[a].op /\ r.ses = s /\ r.pc = "move" /\ r.todo = act[a].todo /\ r.left = act[a].left
    BY <1>0, <1>1, <2>1 DEF RequestStates
  <2>. QED
    BY <1>0, <1>1, <1>2, <1>3, <1>4, <2>2, DutyStock DEF StockPcs, AfterPcsOf
<1>7. Goto(a, "fail") \/ \E rest : act' = [act EXCEPT ![a].rest = rest]
  BY DEF StockMove
<1>. QED
  BY <1>5, <1>6, <1>7

LEMMA DutyMoved ==
    ASSUME Base, Base', TestInv, [Next]_vars, NEW a \in Requests, Moving(a), NEW r, act'[a] = r
    PROVE  Duty(r)'
<1>1. PICK o : o = Min(act[a].left)
  OBVIOUS
<1>0. /\ act[a] \in RequestStates /\ act \in [Requests -> RequestStates] /\ Duty(act[a]) /\ act[a].pc = "move"
      /\ session' = session /\ act[a].op \in SessionOps /\ o \in Orders /\ Only(o)
      /\ SameSale(order[o], order'[o]) /\ order'[o].checkout = order[o].checkout
      /\ order' = order \/ order'[o].effect = Target(a)
  BY <1>1, Found, MovingEffect DEF TestInv, Duties, Moving, StockDone
<1>2. PICK s \in Sessions, q \in RequestStates : s = act[a].ses /\ q = act[a]
  BY <1>0, Found
<1>3. Shrinks(s)
  BY <1>0 DEF Shrinks, Only, SameSale
<1>4. act[a].left \subseteq act[a].todo /\ \A p \in q.todo : Fixed(p, s)'
  BY <1>0, <1>2, FixedKept DEF Duty, StockDuty
<1>5. PICK left : left = act[a].left \ {o}
  OBVIOUS
<1>6. CASE act' = [act EXCEPT ![a] = [@ EXCEPT !.pc = "fail"]]
  <2>1. r = [act[a] EXCEPT !.pc = "fail"]
    BY <1>0, <1>6
  <2>2. r.op = act[a].op /\ r.ses = s /\ r.pc = "fail"
    BY <1>0, <1>2, <2>1 DEF RequestStates
  <2>. QED
    BY <1>0, <1>2, <1>3, <2>2, DutyStock DEF StockPcs, AfterPcsOf
<1>7. ASSUME NEW pc, NEW rest, pc = IF left = {} THEN AfterStock(act[a].op) ELSE "move",
             act'[a] = [act[a] EXCEPT !.pc = pc, !.left = left, !.rest = rest], order'[o].effect = Target(a)
      PROVE  Duty(r)'
  <2>1. r.op = act[a].op /\ r.ses = s /\ r.pc = pc /\ r.todo = act[a].todo /\ r.left = left
    BY <1>0, <1>2, <1>7 DEF RequestStates
  <2>2. AllDone(s, Aim(q.op), q.left)
    BY <1>0, <1>2 DEF Duty, StockDuty
  <2>3. ASSUME NEW p \in Orders, order'[p].ses = s, order'[p].status = "PAID"
        PROVE  Done(order'[p], Aim(q.op)) \/ p \in left
    <3>1. CASE p = o
      BY <1>0, <1>2, <1>7, <3>1, AimTarget DEF Done
    <3>2. CASE p # o
      BY <1>0, <1>2, <1>5, <2>2, <2>3, <3>2 DEF Only, AllDone, OrdersOf
    <3>. QED
      BY <3>1, <3>2
  <2>4. AllDone(s, Aim(q.op), left)'
    BY <2>3 DEF AllDone, OrdersOf
  <2>5. CASE left = {}
    <3>1. pc \in AfterPcsOf
      BY <1>0, <1>7, <2>5, AfterOps
    <3>2. pc \notin {"claim", "move"}
      BY <3>1 DEF AfterPcsOf
    <3>. QED
      BY <1>0, <1>2, <1>3, <2>1, <2>4, <2>5, <3>1, <3>2, DutyStock DEF StockPcs
  <2>6. CASE left # {}
    <3>1. pc = "move" /\ left \subseteq act[a].todo
      BY <1>4, <1>5, <1>7, <2>6
    <3>. QED
      BY <1>0, <1>2, <1>3, <1>4, <2>1, <2>4, <3>1, DutyStock DEF StockPcs, AfterPcsOf
  <2>. QED
    BY <2>5, <2>6
<1>8. PICK pc, rest : pc = (IF left = {} THEN AfterStock(act[a].op) ELSE "move") /\ rest = FirstPlan(a, left)
  OBVIOUS
<1>9. \/ act' = [act EXCEPT ![a] = [@ EXCEPT !.pc = "fail"]]
      \/ /\ act'[a] = [act[a] EXCEPT !.pc = pc, !.left = left, !.rest = rest]
         /\ order'[o].effect = Target(a)
  <2> DEFINE mine == order[o].effect # Target(a) /\ ClaimOwn(o, act[a].tok, Target(a))
  <2>2. mine => order' # order
    BY <1>0, <1>1, Found DEF Moving, StockDone, OrderDocs
  <2>3. act' = [act EXCEPT ![a] =
                  IF mine \/ (order[o].status # "DELETED" /\ order[o].effect = Target(a))
                  THEN [@ EXCEPT !.pc = pc, !.left = left, !.rest = rest]
                  ELSE [@ EXCEPT !.pc = "fail"]]
    <3>1. <<pc, rest>> = <<IF left = {} THEN AfterStock(act[a].op) ELSE "move", FirstPlan(a, left)>>
      BY <1>8
    <3>. QED
      BY <1>1, <1>5, <3>1 DEF Moving, StockDone
  <2>4. mine => order'[o].effect = Target(a)
    BY <1>0, <2>2
  <2>5. CASE mine \/ (order[o].status # "DELETED" /\ order[o].effect = Target(a))
    <3>1. order'[o].effect = Target(a)
      <4>1. CASE mine
        BY <2>4, <4>1
      <4>2. CASE ~mine
        <5>1. order' = order
          BY <1>1, <4>2 DEF Moving, StockDone
        <5>. QED
          BY <2>5, <4>2, <5>1
      <4>. QED
        BY <4>1, <4>2
    <3>2. act' = [act EXCEPT ![a] = [@ EXCEPT !.pc = pc, !.left = left, !.rest = rest]]
      BY <2>3, <2>5
    <3>. QED
      BY <1>0, <3>1, <3>2
  <2>6. CASE ~(mine \/ (order[o].status # "DELETED" /\ order[o].effect = Target(a)))
    BY <2>3, <2>6
  <2>. QED
    BY <2>5, <2>6
<1>. QED
  BY <1>6, <1>7, <1>8, <1>9

-----------------------------------------------------------------------------
(* Every step keeps what its request and the others know.                  *)
LEMMA DutyStocks ==
    ASSUME Base, Base', ReadInv, TestInv, [Next]_vars, NEW a \in Requests, StockStep(a), NEW r, act'[a] = r
    PROVE  Duty(r)'
<1>1. CASE StockList(a)
  BY <1>1, DutyList
<1>2. CASE StockClaim(a)
  BY <1>2, DutyClaimed
<1>3. CASE StockFail(a)
  <2>1. End(a)
    BY <1>3 DEF StockFail
  <2>. QED
    BY <2>1, DutyIdle
<1>4. CASE (StockMove(a) \/ StockDone(a)) /\ act[a].op = "storno"
  <2>1. Moves(a)
    BY <1>4, StockQuiet DEF QuietMove
  <2>2. r.op \in {"storno", "none"}
    BY <1>4, <2>1, IdleOK DEF Moves, Goes, Starts
  <2>. QED
    BY <2>2, DutyOther DEF SessionOps
<1>5. CASE (StockMove(a) \/ StockDone(a)) /\ act[a].op # "storno"
  BY <1>5, DutyMoves, DutyMoved DEF Moving
<1>. QED
  BY <1>1, <1>2, <1>3, <1>4, <1>5 DEF StockStep

LEMMA DutyActs ==
    ASSUME Base, Base', Held, ReadInv, TestInv, [Next]_vars, NEW a \in Requests, Acts(a),
           \A s \in Sessions : Leaves(a, s), NEW r, act'[a] = r
    PROVE  Duty(r)'
<1>1. CASE BeginPayment(a) \/ BeginManagement(a)
  BY <1>1, DutyBegin
<1>2. CASE PayStep(a) \/ StornoStep(a) \/ Crash(a)
  BY <1>2, DutyPay
<1>3. CASE StockStep(a)
  BY <1>3, DutyStocks
<1>4. CASE CloseStep(a)
  BY <1>4, DutyChecks, DutyEnds DEF CloseStep, Settling
<1>5. CASE TestStep(a)
  BY <1>5, DutyChecks, DutyClaims, DutyEnds DEF TestStep, Settling
<1>6. CASE DeleteStep(a)
  BY <1>6, DutyChecks, DutyClaims, DutyEnds DEF DeleteStep, Settling
<1>. QED
  BY <1>1, <1>2, <1>3, <1>4, <1>5, <1>6 DEF Acts, Step

LEMMA ActsAlone ==
    ASSUME Base, NEW a \in Requests, Acts(a)
    PROVE  \A b \in Requests \ {a} : act'[b] = act[b]
<1>0. act \in [Requests -> RequestStates]
  BY Found
<1>1. ASSUME NEW r, Begin(a, r) PROVE \A b \in Requests \ {a} : act'[b] = act[b]
  BY <1>0, <1>1 DEF Begin
<1>2. CASE BeginPayment(a) \/ BeginManagement(a)
  <2>1. ASSUME NEW s, NEW o, NEW op, SaleBegin(a, s, o, op) PROVE \E r : Begin(a, r)
    BY <2>1 DEF SaleBegin
  <2>2. ASSUME NEW s, NEW o, CompleteBegin(a, s, o) PROVE \E r : Begin(a, r)
    BY <2>2 DEF CompleteBegin
  <2>3. ASSUME NEW o, WebhookBegin(a, o) PROVE \E r : Begin(a, r)
    BY <2>3 DEF WebhookBegin
  <2>4. ASSUME NEW s, NEW t, CloseBegin(a, s, t) PROVE \E r : Begin(a, r)
    BY <2>4 DEF CloseBegin
  <2>5. ASSUME NEW s, NEW isTest, TestBegin(a, s, isTest) PROVE \E r : Begin(a, r)
    BY <2>5 DEF TestBegin
  <2>6. ASSUME NEW s, DeleteBegin(a, s) PROVE \E r : Begin(a, r)
    BY <2>6 DEF DeleteBegin
  <2>7. ASSUME NEW o, StornoBegin(a, o) PROVE \E r : Begin(a, r)
    BY <2>7 DEF StornoBegin
  <2>8. \E r : Begin(a, r)
    BY <1>2, <2>1, <2>2, <2>3, <2>4, <2>5, <2>6, <2>7 DEF BeginPayment, BeginManagement
  <2>. QED
    BY <1>1, <2>8
<1>3. CASE PayStep(a)
  <2>1. Moves(a)
    BY <1>3, PayQuiet, TerminalQuiet, CancelEffect, WriteEffect, UndoQuiet DEF PayStep, QuietMove, Writes
  <2>. QED
    BY <2>1 DEF Moves
<1>4. CASE StockStep(a)
  BY <1>0, <1>4 DEF StockStep, StockList, StockClaim, StockMove, StockDone, StockFail, Goto, End
<1>5. CASE CloseStep(a) \/ TestStep(a) \/ DeleteStep(a)
  BY <1>0, <1>5 DEF CloseStep, ClosePending, ClosePaid, Unclaim, CloseSum, CloseEnd, TestStep, TestPaid, TestPending,
     TestSet, TestEnd, TestClaim, DeleteStep, DeletePaid, DeleteMark, DeleteOrders, DeleteEnd, DeleteClaim, Goto, End
<1>6. CASE StornoStep(a) \/ Crash(a)
  BY <1>0, <1>6 DEF StornoStep, StornoClaim, Refund, StornoEnd, StornoThrows, Crash, Goto, End
<1>. QED
  BY <1>2, <1>3, <1>4, <1>5, <1>6 DEF Acts, Step

LEMMA TestInit == Init => TestInv
<1>1. SUFFICES ASSUME Init PROVE TestInv
  OBVIOUS
<1>2. ASSUME NEW s \in Sessions PROVE Sound(s)
  <2>1. /\ session[s].status = "NONE" /\ session[s].trans = NoTransition
        /\ \A o \in Orders : order[o].status = "NEW"
    BY <1>1 DEF Init, NewSession, NewOrder
  <2>2. OrdersOf(s, "PAID") = {}
    BY <2>1 DEF OrdersOf
  <2>. QED
    BY <2>1, <2>2 DEF Sound
<1>3. ASSUME NEW a \in Requests, NEW r, act[a] = r PROVE Duty(r)
  <2>1. r.op = "none"
    BY <1>1, <1>3, IdleOK DEF Init
  <2>. QED
    BY <2>1 DEF Duty, SessionOps
<1>. QED
  BY <1>2, <1>3 DEF TestInv, AllSound, Duties

LEMMA TestNext == ASSUME Base, Base', ClosedInv, ReadInv, TestInv, [Next]_vars PROVE TestInv'
<1>1. CASE Passes
  <2>1. act' = act /\ NoRequest \notin Requests
    BY <1>1, CalmPasses, RequestsAssumption
  <2>2. \A s \in Sessions : Leaves(NoRequest, s) /\ Sound(s)'
    BY <1>1, LeavesPasses
  <2>. QED
    BY <2>1, <2>2, TestStepped
<1>2. ASSUME NEW a \in Requests, Acts(a) PROVE TestInv'
  <2>1. Held /\ HookSes
    BY DEF ClosedInv
  <2>2. \A s \in Sessions : Leaves(a, s) /\ Sound(s)'
    BY <1>2, <2>1, LeavesActs
  <2>3. \A b \in Requests \ {a} : act'[b] = act[b]
    BY <1>2, ActsAlone
  <2>4. ASSUME NEW r \in RequestStates, act'[a] = r PROVE Duty(r)'
    BY <1>2, <2>1, <2>2, <2>4, DutyActs
  <2>. QED
    BY <2>2, <2>3, <2>4, TestStepped
<1>. QED
  BY <1>1, <1>2, ActsOrPasses

LEMMA TestAlways == Timely => (Spec => []TestInv)
<1>1. SUFFICES ASSUME Timely PROVE Spec => []TestInv
  OBVIOUS
<1>2. Base /\ ClosedInv /\ ReadInv /\ TestInv /\ [Next]_vars /\ Base' => TestInv'
  BY TestNext
<1>3. Spec => []ClosedInv
  BY <1>1, ClosedAlways
<1>. QED
  BY <1>2, <1>3, TestInit, BaseAlways, ReadAlways, PTL DEF Spec

(* A closed session without a transition has the stock of its paid orders  *)
(* where its kind wants it: given back for TEST, taken for any other,      *)
(* whatever payments, stornos, deliveries and transitions ran in between;  *)
(* an order that a storno has claimed is the storno's to settle.           *)
THEOREM TestBooksGiveBack == Timely => (Spec => []TestBooksAreReverted)
<1>1. TestInv => TestBooksAreReverted
  BY DEF TestInv, AllSound, Sound, AllDone, Settles, Done, TestBooksAreReverted
<1>2. SUFFICES ASSUME Timely PROVE Spec => []TestBooksAreReverted
  OBVIOUS
<1>. QED
  BY <1>1, <1>2, TestAlways, PTL
=============================================================================
