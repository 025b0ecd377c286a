----------------------- MODULE CashSessionBooksProofs ------------------------
(***************************************************************************)
(* What a single order is owed, in every instance of CashSession: it is    *)
(* paid once, counted in one closing summary, and refunded once more for   *)
(* each fault at most.  Most steps are Quiet: they leave what the books    *)
(* are about alone, and only move a request on.                            *)
(***************************************************************************)
EXTENDS CashSessionProofs

(* The part of an order the books are about.                               *)
SameBook(d, e) == /\ e.status = d.status /\ e.ses = d.ses /\ e.ver = d.ver
                  /\ e.storno = d.storno /\ e.refunded = d.refunded

(* A request goes on, towards its write but not back before it.            *)
Goes(q, r) ==
    /\ r.op = q.op /\ r.ord = q.ord /\ r.ses = q.ses /\ r.ver = q.ver
    /\ r.tok = q.tok \/ q.pc \in {"testClaim", "deleteClaim"}
    /\ r.pc \in PreWrite => q.pc \in PreWrite
    /\ r.op = "storno" => r.flag = q.flag /\ q.pc # "stornoClaim" /\ r.pc \notin {"stornoClaim", "refund"}
    /\ r.pc # "closeEnd"

FirstPcs == {"payClaim", "closePending", "testPaid", "testSet", "testClaim", "deletePaid"}

(* or begins, and knows what it read.                                      *)
Starts(q, r) ==
    /\ q.op = "none" /\ r.op \in Ops \ {"storno"} /\ r.pc \in FirstPcs
    /\ r.op = "complete" => r.ver = order[r.ord].ver /\ order[r.ord].status = "PENDING"
    /\ r.op = "webhook" => r.ses = order[r.ord].ses /\ order[r.ord].checkout

Moves(a) ==
    /\ \A b \in Requests \ {a} : act'[b] = act[b]
    /\ act'[a] = Idle \/ Goes(act[a], act'[a]) \/ Starts(act[a], act'[a])

Quieting == /\ \A o \in Orders : SameBook(order[o], order'[o])
            /\ UNCHANGED <<paid, refunds, counted>>
            /\ faults' >= faults
QuietMove(a) == Quieting /\ Moves(a)
QuietStep == Quieting /\ (act' = act \/ \E a \in Requests : Moves(a))

LEMMA FaultsGrow == ASSUME RestOK, faults' = faults \/ faults' = faults + 1 PROVE faults' >= faults
BY BoundsAssumption DEF RestOK

LEMMA SameQuiet ==
    ASSUME RestOK, UNCHANGED <<order, paid, refunds, counted>>, faults' = faults \/ faults' = faults + 1
    PROVE  Quieting
BY FaultsGrow DEF Quieting, SameBook

LEMMA EndMoves == ASSUME Base, NEW a \in Requests, End(a) PROVE Moves(a)
BY Found DEF End, Moves

LEMMA GotoFields ==
    ASSUME Base, NEW a \in Requests, NEW pc, Goto(a, pc)
    PROVE  /\ act'[a] = [act[a] EXCEPT !.pc = pc] /\ \A b \in Requests \ {a} : act'[b] = act[b]
           /\ act'[a].pc = pc /\ act'[a].op = act[a].op /\ act'[a].ord = act[a].ord /\ act'[a].ses = act[a].ses
           /\ act'[a].ver = act[a].ver /\ act'[a].flag = act[a].flag /\ act'[a].todo = act[a].todo
           /\ act'[a].tok = act[a].tok /\ act'[a].left = act[a].left /\ act'[a].plan = act[a].plan
           /\ act'[a].rest = act[a].rest
<1>1. act \in [Requests -> RequestStates] /\ act[a] \in RequestStates
  BY Found
<1>2. act'[a] = [act[a] EXCEPT !.pc = pc] /\ \A b \in Requests \ {a} : act'[b] = act[b]
  BY <1>1 DEF Goto
<1>. QED
  BY <1>1, <1>2 DEF RequestStates

LEMMA GotoMoves ==
    ASSUME Base, NEW a \in Requests, NEW pc, Goto(a, pc), pc \in PreWrite => act[a].pc \in PreWrite,
           pc \notin {"stornoClaim", "refund", "closeEnd"}, act[a].pc # "stornoClaim"
    PROVE  Moves(a)
BY GotoFields DEF Moves, Goes

(* A request with a record of its own.                                     *)
LEMMA RecordMoves ==
    ASSUME Base, NEW a \in Requests, NEW r, act' = [act EXCEPT ![a] = r], Goes(act[a], r)
    PROVE  Moves(a)
BY Found DEF Moves

LEMMA PayQuiet ==
    ASSUME Base, NEW a \in Requests, PayClaim(a) \/ ApplyItem(a) \/ Rollback(a) \/ Refresh(a)
    PROVE  QuietMove(a)
<1>0. /\ act[a].pc \in PreWrite /\ act[a] \in RequestStates /\ Quieting /\ act[a].op # "storno"
  BY Found, SameQuiet DEF PayClaim, ApplyItem, Rollback, Refresh, PreWrite, PayPcs, PayOps, docs, history
<1>1. ASSUME NEW pc \in {"payRelease", "hookRelease", "refresh", "rollback", "write"}, Goto(a, pc) PROVE Moves(a)
  BY <1>0, <1>1, GotoMoves DEF PreWrite
<1>2. ASSUME act' = [act EXCEPT ![a].pc = "apply", ![a].rest = Items] PROVE Moves(a)
  <2> DEFINE r == [act[a] EXCEPT !.pc = "apply", !.rest = Items]
  <2>1. Goes(act[a], r)
    BY <1>0 DEF Goes, RequestStates, PreWrite
  <2>2. act' = [act EXCEPT ![a] = r]
    BY <1>2
  <2>. QED
    BY <2>1, <2>2, RecordMoves
<1>3. CASE PayClaim(a)
  BY <1>0, <1>1, <1>2, <1>3, EndMoves DEF PayClaim, QuietMove
<1>4. CASE ApplyItem(a)
  <2>1. ASSUME NEW i, act' = [act EXCEPT ![a].rest = @ \ {i}, ![a].plan[act[a].ord] = @ \cup {i}]
        PROVE  Moves(a)
    <3> DEFINE plan == [act[a].plan EXCEPT ![act[a].ord] = @ \cup {i}]
               r == [act[a] EXCEPT !.rest = @ \ {i}, !.plan = plan]
    <3>2. act' = [act EXCEPT ![a] = r]
      BY <2>1
    <3> HIDE DEF plan
    <3>1. Goes(act[a], r)
      BY <1>0, <1>4 DEF Goes, RequestStates, ApplyItem
    <3>. QED
      BY <3>1, <3>2, RecordMoves
  <2>2. ASSUME NEW i, act' = [act EXCEPT ![a].rest = @ \ {i}] PROVE Moves(a)
    <3> DEFINE r == [act[a] EXCEPT !.rest = @ \ {i}]
    <3>1. Goes(act[a], r)
      BY <1>0, <1>4 DEF Goes, RequestStates, ApplyItem
    <3>2. act' = [act EXCEPT ![a] = r]
      BY <2>2
    <3>. QED
      BY <3>1, <3>2, RecordMoves
  <2>. QED
    BY <1>0, <1>1, <1>4, <2>1, <2>2 DEF ApplyItem, QuietMove
<1>5. CASE Rollback(a)
  <2>1. ASSUME NEW i, act' = [act EXCEPT ![a].plan[act[a].ord] = @ \ {i}] PROVE Moves(a)
    <3> DEFINE plan == [act[a].plan EXCEPT ![act[a].ord] = @ \ {i}]
               r == [act[a] EXCEPT !.plan = plan]
    <3>2. act' = [act EXCEPT ![a] = r]
      BY <2>1
    <3> HIDE DEF plan
    <3>1. Goes(act[a], r)
      BY <1>0, <1>5 DEF Goes, RequestStates, Rollback
    <3>. QED
      BY <3>1, <3>2, RecordMoves
  <2>2. ASSUME act' = [act EXCEPT ![a].pc = "apply", ![a].rest = Items, ![a].flag = FALSE] PROVE Moves(a)
    <3> DEFINE r == [act[a] EXCEPT !.pc = "apply", !.rest = Items, !.flag = FALSE]
    <3>1. Goes(act[a], r)
      BY <1>0, <1>5 DEF Goes, RequestStates, PreWrite
    <3>2. act' = [act EXCEPT ![a] = r]
      BY <2>2
    <3>. QED
      BY <3>1, <3>2, RecordMoves
  <2>. QED
    BY <1>0, <1>1, <1>5, <2>1, <2>2 DEF Rollback, QuietMove
<1>6. ASSUME UndoAll(a) PROVE Moves(a)
  <2> DEFINE r == [act[a] EXCEPT !.pc = "rollback", !.flag = FALSE]
  <2>1. Goes(act[a], r)
    BY <1>0 DEF Goes, RequestStates, PreWrite
  <2>2. act' = [act EXCEPT ![a] = r]
    BY <1>6 DEF UndoAll
  <2>. QED
    BY <2>1, <2>2, RecordMoves
<1>7. CASE Refresh(a)
  BY <1>0, <1>1, <1>6, <1>7 DEF Refresh, QuietMove
<1>. QED
  BY <1>3, <1>4, <1>5, <1>7

LEMMA StockDoneMoves ==
    ASSUME Base, NEW a \in Requests, StockDone(a)
    PROVE  Moves(a)
<1>0. /\ act[a].pc = "move" /\ act[a] \in RequestStates /\ act[a].op \in SessionOps \cup {"storno"}
  BY Found DEF StockDone, StockPcs
<1>1. PICK left : left = act[a].left \ {Min(act[a].left)}
  OBVIOUS
<1>2. PICK pc \in {"move", "closeSum", "deleteMark", "testEnd", "stornoEnd"} :
         pc = IF left = {} THEN AfterStock(act[a].op) ELSE "move"
  BY <1>0, AfterPcs
<1>3. PICK rest : rest = FirstPlan(a, left)
  OBVIOUS
<1> DEFINE q == [act[a] EXCEPT !.pc = pc, !.left = left, !.rest = rest]
           f == [act[a] EXCEPT !.pc = "fail"]
<1>4. act' = [act EXCEPT ![a] = q] \/ act' = [act EXCEPT ![a] = f]
  BY <1>1, <1>2, <1>3 DEF StockDone
<1>5. Goes(act[a], q)
  BY <1>0 DEF Goes, RequestStates, PreWrite
<1>6. Goes(act[a], f)
  BY <1>0 DEF Goes, RequestStates, PreWrite
<1> HIDE DEF q, f
<1>. QED
  BY <1>4, <1>5, <1>6, RecordMoves

LEMMA UndoMoves ==
    ASSUME Base, NEW a \in Requests, UndoAll(a), act[a].pc = "write"
    PROVE  Moves(a)
<1> DEFINE r == [act[a] EXCEPT !.pc = "rollback", !.flag = FALSE]
<1>1. Goes(act[a], r)
  BY Found DEF Goes, RequestStates, PreWrite, PayPcs, PayOps
<1>2. act' = [act EXCEPT ![a] = r]
  BY DEF UndoAll
<1>. QED
  BY <1>1, <1>2, RecordMoves

LEMMA BookSet ==
    ASSUME Base, NEW o \in Orders, NEW d, SameBook(order[o], d), order' = [order EXCEPT ![o] = d],
           UNCHANGED <<paid, refunds, counted>>, faults' = faults \/ faults' = faults + 1
    PROVE  Quieting
BY TypeParts, FaultsGrow DEF Base, Quieting, SameBook

LEMMA TerminalQuiet ==
    ASSUME Base, NEW a \in Requests,
           WriteFails(a) \/ Trigger(a) \/ Link(a) \/ PayRelease(a) \/ HookRelease(a)
    PROVE  QuietMove(a)
<1>0. act[a].pc \in PayPcs /\ act[a].ord \in Orders /\ order[act[a].ord] \in OrderDocs /\ RestOK
  BY Found DEF WriteFails, Trigger, Link, PayRelease, HookRelease, PayPcs
<1>a. act[a].pc # "stornoClaim"
  BY DEF WriteFails, Trigger, Link, PayRelease, HookRelease
<1>1. ASSUME NEW pc \in {"link", "cancel", "payRelease", "hookRelease"}, Goto(a, pc) PROVE Moves(a)
  BY <1>1, <1>a, GotoMoves DEF PreWrite
<1>2. CASE WriteFails(a)
  BY <1>0, <1>2, SameQuiet, UndoMoves DEF WriteFails, docs, history, QuietMove
<1>3. CASE Trigger(a)
  BY <1>0, <1>1, <1>3, SameQuiet DEF Trigger, docs, history, QuietMove
<1>4. CASE Link(a)
  <2>1. CASE order' = [order EXCEPT ![act[a].ord].checkout = TRUE]
    <3> DEFINE d == [order[act[a].ord] EXCEPT !.checkout = TRUE]
    <3>1. SameBook(order[act[a].ord], d)
      BY <1>0 DEF SameBook, OrderDocs
    <3>2. order' = [order EXCEPT ![act[a].ord] = d]
      BY <2>1
    <3> HIDE DEF d
    <3>3. Quieting
      BY <1>0, <1>4, <3>1, <3>2, BookSet DEF Link, history
    <3>. QED
      BY <1>1, <1>4, <3>3 DEF Link, QuietMove
  <2>2. CASE order' = order
    BY <1>0, <1>1, <1>4, <2>2, SameQuiet DEF Link, history, QuietMove
  <2>. QED
    BY <1>4, <2>1, <2>2 DEF Link
<1>5. CASE PayRelease(a)
  BY <1>0, <1>1, <1>5, SameQuiet, EndMoves DEF PayRelease, history, QuietMove
<1>6. CASE HookRelease(a)
  <2> DEFINE q == order[act[a].ord]
             d == IF q.hook = a THEN [q EXCEPT !.hook = NoRequest, !.hookFresh = FALSE] ELSE q
  <2>1. SameBook(q, d)
    BY <1>0 DEF SameBook, OrderDocs
  <2>2. order' = [order EXCEPT ![act[a].ord] = d]
    BY <1>6 DEF HookRelease
  <2> HIDE DEF d
  <2>3. Quieting
    BY <1>0, <1>6, <2>1, <2>2, BookSet DEF HookRelease, history
  <2>. QED
    BY <1>6, <2>3, EndMoves DEF HookRelease, QuietMove
<1>. QED
  BY <1>2, <1>3, <1>4, <1>5, <1>6

LEMMA StockQuiet ==
    ASSUME Base, NEW a \in Requests,
           StockList(a) \/ StockClaim(a) \/ StockMove(a) \/ StockDone(a) \/ (StockFail(a) /\ act[a].op # "storno")
    PROVE  QuietMove(a)
<1>0. /\ act[a].pc \in StockPcs /\ act[a] \in RequestStates /\ RestOK
      /\ act[a].op \in SessionOps \cup {"storno"}
      /\ act[a].pc \in {"list", "claim"} => act[a].op \in SessionOps
      /\ act[a].pc = "move" => act[a].left \subseteq Orders /\ act[a].left # {}
      /\ act[a].left \subseteq Orders /\ order \in [Orders -> OrderDocs] /\ act[a].pc # "stornoClaim"
  BY Found DEF StockList, StockClaim, StockMove, StockDone, StockFail, StockPcs, Fits, RequestStates
<1>1. ASSUME Goto(a, "fail") PROVE Moves(a)
  BY <1>0, <1>1, GotoMoves DEF PreWrite
<1>2. CASE StockList(a)
  <2>1. ASSUME NEW found, NEW plan,
               act' = [act EXCEPT ![a].pc = "claim", ![a].todo = found, ![a].left = found, ![a].plan = plan]
        PROVE  Moves(a)
    <3> DEFINE r == [act[a] EXCEPT !.pc = "claim", !.todo = found, !.left = found, !.plan = plan]
    <3>1. Goes(act[a], r)
      BY <1>0 DEF Goes, RequestStates, PreWrite
    <3>2. act' = [act EXCEPT ![a] = r]
      BY <2>1
    <3>. QED
      BY <3>1, <3>2, RecordMoves
  <2>2. Quieting
    BY <1>0, <1>2, SameQuiet DEF StockList, docs, history
  <2>. QED
    BY <1>1, <1>2, <2>1, <2>2 DEF StockList, QuietMove
<1>3. CASE StockClaim(a)
  <2>0. PICK o : o = Min(act[a].left)
    OBVIOUS
  <2>1. ASSUME act' = [act EXCEPT ![a].left = act[a].left \ {o}] PROVE Moves(a)
    <3> DEFINE r == [act[a] EXCEPT !.left = act[a].left \ {o}]
    <3>1. Goes(act[a], r)
      BY <1>0, <1>3 DEF Goes, RequestStates, StockClaim
    <3>2. act' = [act EXCEPT ![a] = r]
      BY <2>1
    <3>. QED
      BY <3>1, <3>2, RecordMoves
  <2>2. ASSUME NEW pc \in {"move", "closeSum", "deleteMark", "testEnd", "stornoEnd"}, NEW left, NEW rest,
               act' = [act EXCEPT ![a].pc = pc, ![a].left = left, ![a].rest = rest]
        PROVE  Moves(a)
    <3> DEFINE r == [act[a] EXCEPT !.pc = pc, !.left = left, !.rest = rest]
    <3>1. Goes(act[a], r)
      BY <1>0 DEF Goes, RequestStates, PreWrite
    <3>2. act' = [act EXCEPT ![a] = r]
      BY <2>2
    <3>. QED
      BY <3>1, <3>2, RecordMoves
  <2>3. ASSUME order' = [order EXCEPT ![o].claim = act[a].tok, ![o].target = Target(a)], o \in Orders
        PROVE  Quieting
    <3> DEFINE d == [order[o] EXCEPT !.claim = act[a].tok, !.target = Target(a)]
    <3>1. SameBook(order[o], d)
      BY <1>0, <2>3 DEF SameBook, OrderDocs
    <3>2. order' = [order EXCEPT ![o] = d]
      BY <2>3
    <3> HIDE DEF d
    <3>. QED
      BY <1>0, <1>3, <2>3, <3>1, <3>2, BookSet DEF StockClaim, history
  <2>4. ASSUME order' = order PROVE Quieting
    BY <1>0, <1>3, <2>4, SameQuiet DEF StockClaim, history
  <2>5. act[a].left # {} => o \in Orders
    BY <1>0, <2>0, FirstOf
  <2>6. (IF act[a].todo = {} THEN AfterStock(act[a].op) ELSE "move")
            \in {"move", "closeSum", "deleteMark", "testEnd", "stornoEnd"}
    BY <1>0, AfterPcs
  <2>. QED
    BY <1>1, <1>3, <2>0, <2>1, <2>2, <2>3, <2>4, <2>5, <2>6, ZenonT(40) DEF StockClaim, QuietMove
<1>4. CASE StockMove(a)
  <2>1. ASSUME NEW i, act' = [act EXCEPT ![a].rest = @ \ {i}] PROVE Moves(a)
    <3> DEFINE r == [act[a] EXCEPT !.rest = @ \ {i}]
    <3>1. Goes(act[a], r)
      BY <1>0, <1>4 DEF Goes, RequestStates, StockMove
    <3>2. act' = [act EXCEPT ![a] = r]
      BY <2>1
    <3>. QED
      BY <3>1, <3>2, RecordMoves
  <2>2. Quieting
    BY <1>0, <1>4, SameQuiet DEF StockMove
  <2>. QED
    BY <1>1, <1>4, <2>1, <2>2 DEF StockMove, QuietMove
<1>5. CASE StockDone(a)
  <2>0. PICK o \in Orders : o = Min(act[a].left)
    BY <1>0, <1>5, FirstOf DEF StockDone
  <2>1. CASE order' = order
    BY <1>0, <1>5, <2>1, SameQuiet, StockDoneMoves DEF StockDone, history, QuietMove
  <2>2. CASE order' = [order EXCEPT ![o].effect = Target(a),
                                   ![o].claim = IF act[a].op = "storno" THEN @ ELSE NoToken]
    <3> DEFINE d == [order[o] EXCEPT !.effect = Target(a),
                        !.claim = IF act[a].op = "storno" THEN order[o].claim ELSE NoToken]
    <3>1. SameBook(order[o], d)
      BY <1>0 DEF SameBook, OrderDocs
    <3>2. order' = [order EXCEPT ![o] = d]
      BY <2>2
    <3> HIDE DEF d
    <3>3. Quieting
      BY <1>0, <1>5, <3>1, <3>2, BookSet DEF StockDone, history
    <3>. QED
      BY <1>5, <3>3, StockDoneMoves DEF QuietMove
  <2>. QED
    BY <1>5, <2>0, <2>1, <2>2 DEF StockDone
<1>6. CASE StockFail(a) /\ act[a].op # "storno"
  BY <1>0, <1>6, SameQuiet, EndMoves DEF StockFail, history, QuietMove
<1>. QED
  BY <1>2, <1>3, <1>4, <1>5, <1>6

LEMMA ManageQuiet ==
    ASSUME Base, NEW a \in Requests,
           \/ ClosePending(a) \/ ClosePaid(a) \/ Unclaim(a)
           \/ TestPaid(a) \/ TestPending(a) \/ TestSet(a) \/ TestEnd(a) \/ (\E t \in Tokens : TestClaim(a, t))
           \/ DeletePaid(a) \/ DeleteMark(a) \/ DeleteEnd(a) \/ \E t \in Tokens : DeleteClaim(a, t)
    PROVE  QuietMove(a)
<1>0. /\ act[a] \in RequestStates /\ RestOK /\ act[a].op # "storno" /\ act[a].pc # "stornoClaim"
  BY Found DEF ClosePending, ClosePaid, Unclaim, TestPaid, TestPending, TestSet, TestEnd, TestClaim,
     DeletePaid, DeleteMark, DeleteEnd, DeleteClaim, ClosePcs, TestPcs, DeletePcs
<1>1. Quieting
  BY <1>0, SameQuiet DEF ClosePending, ClosePaid, Unclaim, TestPaid, TestPending, TestSet, TestEnd, TestClaim,
     DeletePaid, DeleteMark, DeleteEnd, DeleteClaim, docs, history
<1>2. ASSUME NEW pc \in {"unclaim", "closePaid", "closeSum", "list", "testPending", "testClaim", "testSet",
                         "deleteClaim", "deleteOrders"}, Goto(a, pc)
      PROVE  Moves(a)
  BY <1>0, <1>2, GotoMoves DEF PreWrite
<1>3. ASSUME NEW t, NEW pc \in {"list", "deleteOrders"}, act' = [act EXCEPT ![a].pc = pc, ![a].tok = t],
             act[a].pc \in {"testClaim", "deleteClaim"}
      PROVE  Moves(a)
  <2> DEFINE r == [act[a] EXCEPT !.pc = pc, !.tok = t]
  <2>1. Goes(act[a], r)
    BY <1>0, <1>3 DEF Goes, RequestStates, PreWrite
  <2>2. act' = [act EXCEPT ![a] = r]
    BY <1>3
  <2>. QED
    BY <2>1, <2>2, RecordMoves
<1>4. CASE ClosePending(a) \/ ClosePaid(a) \/ Unclaim(a)
  <2>1. CASE ClosePending(a)
    BY <1>1, <1>2, <2>1 DEF ClosePending, QuietMove
  <2>2. CASE ClosePaid(a)
    BY <1>1, <1>2, <2>2 DEF ClosePaid, QuietMove
  <2>3. CASE Unclaim(a)
    BY <1>1, <2>3, EndMoves DEF Unclaim, QuietMove
  <2>. QED
    BY <1>4, <2>1, <2>2, <2>3
<1>5. CASE TestPaid(a) \/ TestPending(a) \/ TestSet(a) \/ TestEnd(a)
  <2>1. CASE TestPaid(a)
    BY <1>1, <1>2, <2>1, EndMoves DEF TestPaid, QuietMove
  <2>2. CASE TestPending(a)
    BY <1>1, <1>2, <2>2, EndMoves DEF TestPending, QuietMove
  <2>3. CASE TestSet(a)
    BY <1>1, <2>3, EndMoves DEF TestSet, QuietMove
  <2>4. CASE TestEnd(a)
    BY <1>1, <2>4, EndMoves DEF TestEnd, QuietMove
  <2>. QED
    BY <1>5, <2>1, <2>2, <2>3, <2>4
<1>6. ASSUME NEW t \in Tokens, TestClaim(a, t) PROVE QuietMove(a)
  BY <1>1, <1>3, <1>6, EndMoves DEF TestClaim, QuietMove
<1>7. CASE DeletePaid(a) \/ DeleteMark(a) \/ DeleteEnd(a)
  <2>1. CASE DeletePaid(a)
    BY <1>1, <1>2, <2>1, EndMoves DEF DeletePaid, QuietMove
  <2>2. CASE DeleteMark(a)
    BY <1>1, <1>2, <2>2 DEF DeleteMark, QuietMove
  <2>3. CASE DeleteEnd(a)
    BY <1>1, <2>3, EndMoves DEF DeleteEnd, QuietMove
  <2>. QED
    BY <1>7, <2>1, <2>2, <2>3
<1>8. ASSUME NEW t \in Tokens, DeleteClaim(a, t) PROVE QuietMove(a)
  <2>1. PICK pc \in {"list", "deleteOrders"} :
           pc = IF session[act[a].ses].effect = "REVERTED" THEN "deleteOrders" ELSE "list"
    OBVIOUS
  <2>2. \/ End(a) \/ act' = [act EXCEPT ![a].pc = pc, ![a].tok = t]
    <3>1. \/ End(a)
          \/ act' = [act EXCEPT ![a].tok = t, ![a].pc = pc]
      BY <1>8, <2>1 DEF DeleteClaim
    <3>2. act[a].pc \in Pcs /\ act[a].tok \in Claims /\ act \in [Requests -> RequestStates]
      BY <1>0, Found DEF RequestStates
    <3>3. [act[a] EXCEPT !.tok = t, !.pc = pc] = [act[a] EXCEPT !.pc = pc, !.tok = t]
      BY <1>0 DEF RequestStates
    <3>4. act' = [act EXCEPT ![a].tok = t, ![a].pc = pc] => act' = [act EXCEPT ![a] = [act[a] EXCEPT !.tok = t, !.pc = pc]]
      OBVIOUS
    <3>. QED
      BY <3>1, <3>3, <3>4
  <2>3. act[a].pc = "deleteClaim"
    BY <1>8 DEF DeleteClaim
  <2>. QED
    BY <1>1, <1>3, <2>1, <2>2, <2>3, EndMoves DEF QuietMove
<1>. QED
  BY <1>4, <1>5, <1>6, <1>7, <1>8

LEMMA StartMoves ==
    ASSUME Base, NEW a \in Requests, NEW r, act' = [act EXCEPT ![a] = r], act[a].pc = "idle", Starts(act[a], r)
    PROVE  Moves(a) /\ act'[a] = r
BY Found DEF Moves

LEMMA BeginQuiet ==
    ASSUME Base, NEW a \in Requests,
           BeginPayment(a) \/ (BeginManagement(a) /\ \A o \in Orders : ~StornoBegin(a, o))
    PROVE  /\ QuietMove(a) /\ act'[a].pc \in FirstPcs
           /\ act'[a].op = "close" => \E s \in Sessions, t \in Tokens : CloseBegin(a, s, t)
<1>0. RestOK /\ order \in [Orders -> OrderDocs]
  BY Found
<1>1. ASSUME NEW s \in Sessions, NEW o \in Orders, NEW op \in {"sale", "card"}, SaleBegin(a, s, o, op)
      PROVE  QuietMove(a) /\ act'[a].pc \in FirstPcs /\ act'[a].op # "close"
  <2> DEFINE r == Request(op, "payClaim", s, o)
  <2>1. r.op = op /\ r.pc = "payClaim"
    BY RequestOK DEF AllOps, Pcs, PayPcs
  <2>2. act' = [act EXCEPT ![a] = r] /\ r.op \in Ops /\ act[a].pc = "idle"
    BY <1>1 DEF SaleBegin, Begin
  <2> HIDE DEF r
  <2>3. Starts(act[a], r)
    BY <2>1, <2>2, Found DEF Starts, FirstPcs
  <2>. QED
    BY <1>0, <1>1, <2>1, <2>2, <2>3, StartMoves, SameQuiet DEF SaleBegin, docs, history, QuietMove, FirstPcs
<1>2. ASSUME NEW s \in Sessions, NEW o \in Orders, CompleteBegin(a, s, o)
      PROVE  QuietMove(a) /\ act'[a].pc \in FirstPcs /\ act'[a].op # "close"
  <2> DEFINE q == Request("complete", "payClaim", s, o)
             r == [q EXCEPT !.ver = order[o].ver]
  <2>1. q \in RequestStates /\ q.op = "complete" /\ q.pc = "payClaim" /\ q.ord = o
    BY RequestOK DEF AllOps, Pcs, PayPcs
  <2>2. act' = [act EXCEPT ![a] = r] /\ r.op \in Ops /\ act[a].pc = "idle" /\ order[o].status = "PENDING"
    BY <1>2 DEF CompleteBegin, Begin
  <2> HIDE DEF q
  <2>3. r.op = "complete" /\ r.pc = "payClaim" /\ r.ord = o /\ r.ver = order[o].ver
    BY <2>1 DEF RequestStates
  <2> HIDE DEF r
  <2>4. Starts(act[a], r)
    BY <2>2, <2>3, Found DEF Starts, FirstPcs
  <2>. QED
    BY <1>0, <1>2, <2>2, <2>3, <2>4, StartMoves, SameQuiet DEF CompleteBegin, docs, history, QuietMove, FirstPcs
<1>3. ASSUME NEW o \in Orders, WebhookBegin(a, o)
      PROVE  QuietMove(a) /\ act'[a].pc \in FirstPcs /\ act'[a].op # "close"
  <2>s. PICK s : s = order[o].ses
    OBVIOUS
  <2> DEFINE q == Request("webhook", "payClaim", s, o)
             d == [order[o] EXCEPT !.hook = a, !.hookFresh = TRUE]
  <2>0. order[o] \in OrderDocs /\ s \in Sessions \cup {NoSession}
    BY <1>0, <2>s DEF OrderDocs
  <2>1. q \in RequestStates /\ q.op = "webhook" /\ q.pc = "payClaim" /\ q.ord = o /\ q.ses = s
    <3>1. "webhook" \in AllOps /\ "payClaim" \in Pcs
      BY DEF AllOps, Pcs, PayPcs
    <3>. QED
      BY <2>0, <3>1, RequestOK
  <2>2. PICK strict \in BOOLEAN : act' = [act EXCEPT ![a] = [q EXCEPT !.flag = strict]] /\ act[a].pc = "idle"
                                  /\ [q EXCEPT !.flag = strict].op \in Ops
    BY <1>3, <2>s DEF WebhookBegin, Begin
  <2> DEFINE r == [q EXCEPT !.flag = strict]
  <2> HIDE DEF q
  <2>3. r.op = "webhook" /\ r.pc = "payClaim" /\ r.op \in Ops /\ r.ses = order[r.ord].ses /\ order[r.ord].checkout
    <3>1. order[o].checkout
      BY <1>3 DEF WebhookBegin
    <3>. QED
      BY <2>s, <2>1, <2>2, <3>1 DEF RequestStates
  <2>4. act' = [act EXCEPT ![a] = r]
    BY <2>2
  <2> HIDE DEF r
  <2>5. Starts(act[a], r)
    BY <2>2, <2>3, Found DEF Starts, FirstPcs
  <2>6. SameBook(order[o], d)
    BY <2>0 DEF SameBook, OrderDocs
  <2>7. order' = [order EXCEPT ![o] = d]
    BY <1>3 DEF WebhookBegin
  <2> HIDE DEF d
  <2>8. Quieting
    BY <1>3, <2>6, <2>7, BookSet DEF WebhookBegin, history
  <2>. QED
    BY <2>2, <2>3, <2>4, <2>5, <2>8, StartMoves DEF QuietMove, FirstPcs
<1>4. ASSUME NEW s \in Sessions, NEW t \in Tokens, CloseBegin(a, s, t)
      PROVE  QuietMove(a) /\ act'[a].pc \in FirstPcs
  <2> DEFINE q == Request("close", "closePending", s, NoOrder)
             r == [q EXCEPT !.tok = t]
  <2>1. q \in RequestStates /\ q.op = "close" /\ q.pc = "closePending"
    BY RequestOK DEF AllOps, Pcs, ClosePcs
  <2>2. act' = [act EXCEPT ![a] = r] /\ r.op \in Ops /\ act[a].pc = "idle"
    BY <1>4 DEF CloseBegin, Begin
  <2> HIDE DEF q
  <2>3. r.op = "close" /\ r.pc = "closePending"
    BY <2>1 DEF RequestStates
  <2> HIDE DEF r
  <2>4. Starts(act[a], r)
    BY <2>2, <2>3, Found DEF Starts, FirstPcs
  <2>. QED
    BY <1>0, <1>4, <2>2, <2>3, <2>4, StartMoves, SameQuiet DEF CloseBegin, history, QuietMove, FirstPcs
<1>5. ASSUME NEW s \in Sessions, NEW isTest \in BOOLEAN, TestBegin(a, s, isTest)
      PROVE  QuietMove(a) /\ act'[a].pc \in FirstPcs /\ act'[a].op # "close"
  <2>1. PICK op \in {"test", "normal"} : op = TestOp(isTest)
    BY DEF TestOp
  <2>2. PICK open \in BOOLEAN : open = (session[s].status = "OPEN")
    OBVIOUS
  <2>3. PICK pc \in {"testPaid", "testSet", "testClaim"} :
           pc = IF isTest THEN "testPaid" ELSE IF open THEN "testSet" ELSE "testClaim"
    OBVIOUS
  <2> DEFINE q == Request(op, pc, s, NoOrder)
             r == [q EXCEPT !.flag = open]
  <2>4. op \in AllOps /\ pc \in Pcs
    BY DEF AllOps, Pcs, TestPcs
  <2>5. q \in RequestStates /\ q.op = op /\ q.pc = pc
    BY <2>4, RequestOK
  <2>6. act' = [act EXCEPT ![a] = r] /\ r.op \in Ops /\ act[a].pc = "idle"
    BY <1>5, <2>1, <2>2, <2>3 DEF TestBegin, Begin
  <2> HIDE DEF q
  <2>7. r.op = op /\ r.pc = pc
    BY <2>5 DEF RequestStates
  <2> HIDE DEF r
  <2>8. Starts(act[a], r)
    BY <2>6, <2>7, Found DEF Starts, FirstPcs
  <2>. QED
    BY <1>0, <1>5, <2>6, <2>7, <2>8, StartMoves, SameQuiet DEF TestBegin, docs, history, QuietMove, FirstPcs
<1>6. ASSUME NEW s \in Sessions, DeleteBegin(a, s)
      PROVE  QuietMove(a) /\ act'[a].pc \in FirstPcs /\ act'[a].op # "close"
  <2> DEFINE r == Request("delete", "deletePaid", s, NoOrder)
  <2>1. r.op = "delete" /\ r.pc = "deletePaid"
    BY RequestOK DEF AllOps, Pcs, DeletePcs
  <2>2. act' = [act EXCEPT ![a] = r] /\ r.op \in Ops /\ act[a].pc = "idle"
    BY <1>6 DEF DeleteBegin, Begin
  <2> HIDE DEF r
  <2>3. Starts(act[a], r)
    BY <2>1, <2>2, Found DEF Starts, FirstPcs
  <2>. QED
    BY <1>0, <1>6, <2>1, <2>2, <2>3, StartMoves, SameQuiet DEF DeleteBegin, docs, history, QuietMove, FirstPcs
<1>. QED
  BY <1>1, <1>2, <1>3, <1>4, <1>5, <1>6 DEF BeginPayment, BeginManagement

LEMMA PassingQuiet ==
    ASSUME Base, \/ \E s \in Sessions : OpenSession(s) \/ ExpirePay(s) \/ ExpireTransition(s)
                 \/ \E o \in Orders : ExpireHook(o)
                 \/ \E a \in Requests : Crash(a)
                 \/ UNCHANGED vars
    PROVE  QuietStep
<1>0. RestOK /\ order \in [Orders -> OrderDocs]
  BY TypeParts DEF Base
<1>1. ASSUME NEW s \in Sessions, OpenSession(s) \/ ExpirePay(s) \/ ExpireTransition(s) PROVE QuietStep
  BY <1>0, <1>1, SameQuiet DEF OpenSession, ExpirePay, ExpireTransition, history, QuietStep
<1>2. ASSUME NEW o \in Orders, ExpireHook(o) PROVE QuietStep
  <2> DEFINE d == [order[o] EXCEPT !.hookFresh = FALSE]
  <2>1. SameBook(order[o], d)
    BY <1>0 DEF SameBook, OrderDocs
  <2>2. order' = [order EXCEPT ![o] = d]
    BY <1>2 DEF ExpireHook
  <2> HIDE DEF d
  <2>. QED
    BY <1>2, <2>1, <2>2, BookSet DEF ExpireHook, history, QuietStep
<1>3. ASSUME NEW a \in Requests, Crash(a) PROVE QuietStep
  BY <1>0, <1>3, SameQuiet, EndMoves DEF Crash, docs, QuietStep
<1>4. CASE UNCHANGED vars
  BY <1>0, <1>4, SameQuiet DEF vars, QuietStep
<1>. QED
  BY <1>1, <1>2, <1>3, <1>4

LEMMA UndoQuiet ==
    ASSUME Base, NEW a \in Requests, \/ WriteComplete(a) /\ ~Unchanged(a, act[a].ord)
                                     \/ WriteWebhook(a) /\ ~StillMine(a, act[a].ord)
    PROVE  QuietMove(a)
BY Found, SameQuiet, UndoMoves DEF WriteComplete, WriteWebhook, QuietMove

(* The steps the books are about.                                          *)
Writes(a) == \/ WriteSale(a) \/ WriteCard(a)
             \/ WriteComplete(a) /\ Unchanged(a, act[a].ord)
             \/ WriteWebhook(a) /\ StillMine(a, act[a].ord)
Stornos(a) == \/ \E o \in Orders : StornoBegin(a, o)
              \/ StornoClaim(a) \/ Refund(a) \/ StornoThrows(a) \/ (StockFail(a) /\ act[a].op = "storno")
Loud(a) == \/ Writes(a) \/ Cancel(a) \/ Stornos(a) \/ StornoEnd(a)
           \/ DeleteOrders(a) \/ CloseSum(a) \/ CloseEnd(a)

LEMMA QuietOrLoud ==
    ASSUME Base, [Next]_vars
    PROVE  QuietStep \/ (\E o \in Orders : PublicOrder(o)) \/ \E a \in Requests : Loud(a)
<1>1. CASE UNCHANGED vars
  BY <1>1, PassingQuiet
<1>2. ASSUME NEW a \in Requests, BeginPayment(a) \/ BeginManagement(a) PROVE QuietStep \/ Loud(a)
  BY <1>2, BeginQuiet DEF Loud, Stornos, QuietStep, QuietMove
<1>3. ASSUME NEW a \in Requests, PayStep(a) PROVE QuietStep \/ Loud(a)
  BY <1>3, PayQuiet, TerminalQuiet, UndoQuiet DEF PayStep, Loud, Writes, QuietStep, QuietMove
<1>4. ASSUME NEW a \in Requests, StockStep(a) PROVE QuietStep \/ Loud(a)
  BY <1>4, StockQuiet DEF StockStep, Loud, Stornos, QuietStep, QuietMove
<1>5. ASSUME NEW a \in Requests, CloseStep(a) \/ TestStep(a) \/ DeleteStep(a) PROVE QuietStep \/ Loud(a)
  BY <1>5, ManageQuiet DEF CloseStep, TestStep, DeleteStep, Loud, QuietStep, QuietMove
<1>6. ASSUME NEW a \in Requests, StornoStep(a) PROVE Loud(a)
  BY <1>6 DEF StornoStep, Loud, Stornos
<1>7. ASSUME NEW s \in Sessions, OpenSession(s) \/ ExpirePay(s) \/ ExpireTransition(s) PROVE QuietStep
  BY <1>7, PassingQuiet
<1>8. ASSUME NEW o \in Orders, PublicOrder(o) \/ ExpireHook(o) PROVE QuietStep \/ PublicOrder(o)
  BY <1>8, PassingQuiet
<1>9. ASSUME NEW a \in Requests, Crash(a) PROVE QuietStep
  BY <1>9, PassingQuiet
<1>. QED
  BY <1>1, <1>2, <1>3, <1>4, <1>5, <1>6, <1>7, <1>8, <1>9 DEF Next, Step
-----------------------------------------------------------------------------
(* Every request is one the instance makes.                                *)
OpsOK == \A a \in Requests : act[a].op \in Ops \cup {"none"}

(* One order changes, and nothing but the history of payments with it.     *)
Only(o) == \A p \in Orders \ {o} : order'[p] = order[p]

LEMMA RecordedMoves ==
    ASSUME Base, NEW a \in Requests, Recorded(a), act[a].pc = "write"
    PROVE  /\ Moves(a) /\ act'[a].pc = "payRelease" /\ act'[a].op = act[a].op
           /\ paid'[act[a].ord] = paid[act[a].ord] + 1
           /\ \A p \in Orders \ {act[a].ord} : paid'[p] = paid[p]
<1>1. PICK r \in RequestStates :
              /\ act' = [act EXCEPT ![a] = r] /\ r.pc = "payRelease"
              /\ r.op = act[a].op /\ r.ord = act[a].ord /\ r.ses = act[a].ses /\ r.tok = act[a].tok
              /\ r.plan = NoPlan /\ r.todo = act[a].todo /\ r.ver = act[a].ver
  BY RecordedRequest
<1>2. Goes(act[a], r)
  BY <1>1, Found DEF Goes, PreWrite, PayPcs, PayOps
<1>3. paid \in [Orders -> Nat] /\ act[a].ord \in Orders
  BY Found DEF RestOK, PayPcs
<1>. QED
  BY <1>1, <1>2, <1>3, RecordMoves, Moved DEF Recorded

(* What a write does to its order.                                         *)
LEMMA WriteEffect ==
    ASSUME Base, NEW a \in Requests, Writes(a), NEW o, o = act[a].ord
    PROVE  /\ o \in Orders /\ Only(o) /\ Moves(a) /\ act[a].pc = "write"
           /\ act[a].op \in {"sale", "card"} => /\ order[o].status = "NEW"
                                                /\ \A b \in Requests \ {a} : act[b].ord # o
           /\ act[a].op = "complete" => Unchanged(a, o) /\ act'[a].pc \notin PreWrite
           /\ act[a].op = "webhook" => order[o].status = "PENDING"
           /\ order'[o].status = (IF act[a].op = "card" THEN "PENDING" ELSE "PAID")
           /\ order'[o].storno = order[o].storno /\ order'[o].refunded = order[o].refunded
           /\ order'[o].ver = (IF act[a].op = "complete" THEN order[o].ver + 1 ELSE order[o].ver)
           /\ order'[o].ses = (IF act[a].op = "webhook" THEN order[o].ses ELSE act[a].ses)
           /\ UNCHANGED <<refunds, counted, faults>>
           /\ act[a].op = "card" => paid' = paid
           /\ act[a].op # "card" => /\ paid'[o] = paid[o] + 1
                                    /\ \A p \in Orders \ {o} : paid'[p] = paid[p]
<1>a. act[a].pc = "write" /\ UNCHANGED <<refunds, counted, faults>>
  BY DEF Writes, WriteSale, WriteCard, WriteComplete, WriteWebhook, history
<1>0. /\ act[a].pc = "write" /\ o \in Orders /\ order \in [Orders -> OrderDocs] /\ order[o] \in OrderDocs
      /\ UNCHANGED <<refunds, counted, faults>> /\ act[a].plan[o] \in SUBSET Items
  BY <1>a, Found DEF PayPcs, RequestStates
<1>1. act[a].op \in {"sale", "card"} => /\ order[o].status = "NEW"
                                        /\ \A b \in Requests \ {a} : act[b].ord # o
  BY <1>0, Found DEF Base, Reserved, PreWrite, Fits
<1>2. CASE WriteSale(a)
  <2>1. PICK p : p = Paid(order[o], act[a].plan[o])
    OBVIOUS
  <2> DEFINE d == [p EXCEPT !.ses = act[a].ses]
  <2>2. /\ p \in OrderDocs /\ p.status = "PAID" /\ p.storno = order[o].storno
        /\ p.refunded = order[o].refunded /\ p.ver = order[o].ver
    BY <1>0, <2>1, PaidDoc
  <2>3. d.status = "PAID" /\ d.storno = order[o].storno /\ d.refunded = order[o].refunded
        /\ d.ver = order[o].ver /\ d.ses = act[a].ses
    BY <2>2 DEF OrderDocs
  <2>4. order' = [order EXCEPT ![o] = d]
    BY <1>2, <2>1 DEF WriteSale
  <2> HIDE DEF d
  <2>. QED
    BY <1>0, <1>1, <1>2, <2>3, <2>4, RecordedMoves DEF WriteSale, Only
<1>3. CASE WriteCard(a)
  <2> DEFINE d == [order[o] EXCEPT !.status = "PENDING", !.ses = act[a].ses, !.card = TRUE]
  <2>1. d.status = "PENDING" /\ d.storno = order[o].storno /\ d.refunded = order[o].refunded
        /\ d.ver = order[o].ver /\ d.ses = act[a].ses
    BY <1>0 DEF OrderDocs
  <2>2. order' = [order EXCEPT ![o] = d]
    BY <1>3 DEF WriteCard
  <2> HIDE DEF d
  <2>3. Moves(a)
    BY <1>3, GotoMoves DEF WriteCard, PreWrite
  <2>. QED
    BY <1>0, <1>1, <1>3, <2>1, <2>2, <2>3 DEF WriteCard, Only, history
<1>4. CASE WriteComplete(a) /\ Unchanged(a, o)
  <2>1. PICK p : p = Paid(order[o], act[a].plan[o])
    OBVIOUS
  <2> DEFINE d == [p EXCEPT !.ses = act[a].ses, !.card = FALSE, !.ver = order[o].ver + 1]
  <2>2. /\ p \in OrderDocs /\ p.status = "PAID" /\ p.storno = order[o].storno
        /\ p.refunded = order[o].refunded /\ p.ver = order[o].ver
    BY <1>0, <2>1, PaidDoc
  <2>3. d.status = "PAID" /\ d.storno = order[o].storno /\ d.refunded = order[o].refunded
        /\ d.ver = order[o].ver + 1 /\ d.ses = act[a].ses
    BY <2>2 DEF OrderDocs
  <2>4. order' = [order EXCEPT ![o] = d] /\ Recorded(a)
    BY <1>4, <2>1 DEF WriteComplete
  <2> HIDE DEF d
  <2>. QED
    BY <1>0, <1>1, <1>4, <2>3, <2>4, RecordedMoves DEF WriteComplete, Only, PreWrite
<1>5. CASE WriteWebhook(a) /\ StillMine(a, o)
  <2>1. PICK p : p = Paid(order[o], act[a].plan[o])
    OBVIOUS
  <2> DEFINE d == [p EXCEPT !.hook = NoRequest, !.hookFresh = FALSE]
  <2>2. /\ p \in OrderDocs /\ p.status = "PAID" /\ p.storno = order[o].storno
        /\ p.refunded = order[o].refunded /\ p.ver = order[o].ver /\ p.ses = order[o].ses
    BY <1>0, <2>1, PaidDoc
  <2>3. d.status = "PAID" /\ d.storno = order[o].storno /\ d.refunded = order[o].refunded
        /\ d.ver = order[o].ver /\ d.ses = order[o].ses
    BY <2>2 DEF OrderDocs
  <2>4. order' = [order EXCEPT ![o] = d] /\ Recorded(a)
    BY <1>5, <2>1 DEF WriteWebhook
  <2> HIDE DEF d
  <2>. QED
    BY <1>0, <1>1, <1>5, <2>3, <2>4, RecordedMoves DEF WriteWebhook, StillMine, Only
<1>. QED
  BY <1>2, <1>3, <1>4, <1>5 DEF Writes
-----------------------------------------------------------------------------
(* Payments and summaries, where an order is never paid both at a register *)
(* and by SumUp: the two do not check each other's write.                  *)
OneWay == ~({"complete", "webhook"} \subseteq Ops)

Unpaid == \A o \in Orders : /\ order[o].status \in {"NEW", "PENDING"} => paid[o] = 0
                            /\ order[o].status = "PAID" => paid[o] = 1

(* A completion that can still be written has read the order unpaid.       *)
Unread ==
    \A a \in Requests : LET o == act[a].ord IN
        act[a].op = "complete" /\ order[o].status # "DELETED" =>
            /\ act[a].ver <= order[o].ver
            /\ act[a].ver = order[o].ver /\ act[a].pc \in PreWrite => paid[o] = 0

(* An order is in the summary of a session, or about to be.                *)
Booked(o, s) == \/ o \in counted[s]
                \/ \E a \in Requests : act[a].pc = "closeEnd" /\ act[a].ses = s /\ o \in act[a].todo

BookedOnce ==
    \A o \in Orders, s \in Sessions : Booked(o, s) =>
        /\ paid[o] = 1 /\ order[o].status \notin {"NEW", "PENDING"}
        /\ order[o].status # "DELETED" => order[o].ses = s
        /\ \A t \in Sessions : Booked(o, t) => t = s

BookInv == OpsOK /\ Unpaid /\ PaidOnce /\ Unread /\ BookedOnce

(* A step that pays nothing.                                               *)
BookKept(d, e) ==
    /\ e.status \in {"NEW", "PENDING"} => d.status \in {"NEW", "PENDING"}
    /\ e.status = "PAID" => d.status = "PAID"
    /\ e.status # "DELETED" => /\ d.status # "DELETED" /\ e.ver = d.ver
                               /\ e.ses = d.ses \/ d.status = "NEW"

InStep(a) ==
    /\ \A b \in Requests \ {a} : act'[b] = act[b]
    /\ act'[a].pc # "closeEnd" /\ act'[a].op \in Ops \cup {"none"}
    /\ act'[a].op = "complete" =>
          \/ /\ act[a].op = "complete" /\ act'[a].ord = act[a].ord /\ act'[a].ver = act[a].ver
             /\ act'[a].pc \in PreWrite => act[a].pc \in PreWrite
          \/ act'[a].ver = order[act'[a].ord].ver /\ order[act'[a].ord].status = "PENDING"

LEMMA InStepMoves == ASSUME OpsOK, NEW a \in Requests, Moves(a) PROVE InStep(a)
<1>1. act'[a] = Idle => InStep(a)
  BY IdleOK DEF Moves, InStep
<1>. QED
  BY <1>1 DEF Moves, InStep, Goes, Starts, FirstPcs, OpsOK

LEMMA BooksKept ==
    ASSUME Base, BookInv, UNCHANGED <<paid, counted>>,
           \A o \in Orders : BookKept(order[o], order'[o]),
           act' = act \/ \E a \in Requests : InStep(a),
           Base'
    PROVE  BookInv'
<1>0. /\ paid \in [Orders -> Nat] /\ order \in [Orders -> OrderDocs] /\ order' \in [Orders -> OrderDocs]
  BY TypeParts DEF Base, RestOK, TypeOK
<1>1. OpsOK'
  BY DEF OpsOK, InStep, BookInv
<1>2. Unpaid' /\ PaidOnce'
  BY DEF Unpaid, PaidOnce, BookKept, BookInv
<1>3. ASSUME NEW b \in Requests, act'[b].op = "complete", order'[act'[b].ord].status # "DELETED"
      PROVE  /\ act'[b].ver <= order'[act'[b].ord].ver
             /\ act'[b].ver = order'[act'[b].ord].ver /\ act'[b].pc \in PreWrite => paid'[act'[b].ord] = 0
  <2>1. PICK o \in Orders : o = act'[b].ord
    BY <1>3 DEF Base, RequestsFit, Fits, PayOps
  <2>2. order[o].status # "DELETED" /\ order'[o].ver = order[o].ver /\ order[o].ver \in Nat
    BY <1>0, <1>3, <2>1 DEF BookKept, OrderDocs
  <2>3. CASE /\ act[b].op = "complete" /\ act'[b].ord = act[b].ord /\ act'[b].ver = act[b].ver
             /\ act'[b].pc \in PreWrite => act[b].pc \in PreWrite
    <3>1. /\ act[b].ver <= order[o].ver
          /\ act[b].ver = order[o].ver /\ act[b].pc \in PreWrite => paid[o] = 0
      BY <2>1, <2>2, <2>3 DEF BookInv, Unread
    <3>. QED
      BY <2>1, <2>2, <2>3, <3>1
  <2>4. CASE act'[b].ver = order[o].ver /\ order[o].status = "PENDING"
    <3>1. paid[o] = 0
      BY <2>4 DEF BookInv, Unpaid
    <3>. QED
      BY <2>1, <2>2, <2>4, <3>1
  <2>. QED
    BY <1>3, <2>1, <2>3, <2>4 DEF InStep
<1>4. ASSUME NEW o \in Orders, NEW s \in Sessions, Booked(o, s)' PROVE Booked(o, s)
  BY <1>4 DEF Booked, InStep
<1>5. BookedOnce'
  <2>1. SUFFICES ASSUME NEW o \in Orders, NEW s \in Sessions, Booked(o, s)'
                 PROVE  /\ paid'[o] = 1 /\ order'[o].status \notin {"NEW", "PENDING"}
                        /\ order'[o].status # "DELETED" => order'[o].ses = s
                        /\ \A t \in Sessions : Booked(o, t)' => t = s
    BY DEF BookedOnce
  <2>2. /\ paid[o] = 1 /\ order[o].status \notin {"NEW", "PENDING"}
        /\ order[o].status # "DELETED" => order[o].ses = s
        /\ \A t \in Sessions : Booked(o, t) => t = s
    BY <1>4, <2>1 DEF BookInv, BookedOnce
  <2>. QED
    BY <1>4, <2>2 DEF BookKept
<1>. QED
  BY <1>1, <1>2, <1>3, <1>5 DEF BookInv, Unread

LEMMA BooksQuiet ==
    ASSUME Base, BookInv, Base', QuietStep
    PROVE  BookInv'
<1>1. \A o \in Orders : BookKept(order[o], order'[o])
  BY DEF QuietStep, Quieting, SameBook, BookKept
<1>. QED
  BY <1>1, BooksKept, InStepMoves DEF QuietStep, Quieting, BookInv

LEMMA BooksPublic ==
    ASSUME Base, BookInv, Base', NEW o \in Orders, PublicOrder(o)
    PROVE  BookInv'
<1>1. order' = [order EXCEPT ![o] = [order[o] EXCEPT !.status = "PENDING"]] /\ order[o].status = "NEW"
      /\ act' = act /\ UNCHANGED <<paid, counted>> /\ order \in [Orders -> OrderDocs]
  BY TypeParts DEF PublicOrder, history, Base, Unused
<1>2. \A p \in Orders : BookKept(order[p], order'[p])
  BY <1>1 DEF BookKept, OrderDocs
<1>. QED
  BY <1>1, <1>2, BooksKept

LEMMA BooksWrite ==
    ASSUME OneWay, Base, BookInv, Base', NEW a \in Requests, Writes(a)
    PROVE  BookInv'
<1>0. PICK o : o = act[a].ord
  OBVIOUS
<1>1. /\ o \in Orders /\ Only(o) /\ Moves(a) /\ act[a].pc = "write" /\ act[a].pc \in PreWrite
      /\ act[a].op \in {"sale", "card"} => /\ order[o].status = "NEW"
                                           /\ \A b \in Requests \ {a} : act[b].ord # o
      /\ act[a].op = "complete" => Unchanged(a, o) /\ act'[a].pc \notin PreWrite
      /\ act[a].op = "webhook" => order[o].status = "PENDING"
      /\ order'[o].status = (IF act[a].op = "card" THEN "PENDING" ELSE "PAID")
      /\ order'[o].ver = (IF act[a].op = "complete" THEN order[o].ver + 1 ELSE order[o].ver)
      /\ UNCHANGED <<refunds, counted, faults>>
      /\ act[a].op = "card" => paid' = paid
      /\ act[a].op # "card" => /\ paid'[o] = paid[o] + 1
                               /\ \A p \in Orders \ {o} : paid'[p] = paid[p]
  BY <1>0, WriteEffect DEF PreWrite
<1>2. InStep(a)
  BY <1>1, InStepMoves DEF BookInv
<1>3. /\ act[a].op \in PayOps /\ order[o].ver \in Nat
      /\ act[a].op \in Ops
  BY <1>1, Found DEF OrderDocs, PayPcs, BookInv, OpsOK, PayOps
<1>4. CASE act[a].op = "card"
  <2>1. \A p \in Orders : BookKept(order[p], order'[p])
    BY <1>1, <1>4 DEF BookKept, Only
  <2>. QED
    BY <1>1, <1>2, <1>4, <2>1, BooksKept
<1>5. CASE act[a].op # "card"
  <2>1. paid[o] = 0
    <3>1. CASE act[a].op \in {"sale", "webhook"}
      BY <1>1, <3>1 DEF BookInv, Unpaid
    <3>2. CASE act[a].op = "complete"
      BY <1>0, <1>1, <3>2 DEF BookInv, Unread, Unchanged
    <3>. QED
      BY <1>3, <1>5, <3>1, <3>2 DEF PayOps
  <2>2. paid'[o] = 1 /\ order'[o].status = "PAID"
    BY <1>1, <1>5, <2>1
  <2>3. OpsOK'
    BY <1>2 DEF OpsOK, InStep, BookInv
  <2>4. Unpaid' /\ PaidOnce'
    BY <1>1, <1>5, <2>2 DEF Unpaid, PaidOnce, BookInv, Only
  <2>5. ASSUME NEW b \in Requests, act'[b].op = "complete", order'[act'[b].ord].status # "DELETED"
        PROVE  /\ act'[b].ver <= order'[act'[b].ord].ver
               /\ act'[b].ver = order'[act'[b].ord].ver /\ act'[b].pc \in PreWrite => paid'[act'[b].ord] = 0
    <3>1. PICK p \in Orders : p = act'[b].ord
      BY <2>5 DEF Base, RequestsFit, Fits, PayOps
    <3>2. act[b].op = "complete" /\ act'[b].ord = act[b].ord /\ act'[b].ver = act[b].ver
          /\ (act'[b].pc \in PreWrite => act[b].pc \in PreWrite)
      <4>1. CASE b = a
        BY <1>1, <2>5, <4>1, IdleOK, Found DEF Moves, Goes, Starts, PayPcs
      <4>2. CASE b # a
        BY <1>1, <2>5, <4>2 DEF Moves
      <4>. QED
        BY <4>1, <4>2
    <3>3. CASE p # o
      <4>1. order'[p] = order[p] /\ paid'[p] = paid[p]
        BY <1>1, <1>5, <3>3 DEF Only
      <4>2. /\ act[b].ver <= order[p].ver
            /\ act[b].ver = order[p].ver /\ act[b].pc \in PreWrite => paid[p] = 0
        BY <2>5, <3>1, <3>2, <4>1 DEF BookInv, Unread
      <4>. QED
        BY <3>1, <3>2, <4>1, <4>2
    <3>4. CASE p = o
      <4>1. act[a].op # "webhook"
        <5>1. "complete" \in Ops
          BY <3>2 DEF BookInv, OpsOK
        <5>. QED
          BY <1>3, <5>1 DEF OneWay
      <4>2. act[a].op # "sale"
        BY <1>1, <3>1, <3>2, <3>4
      <4>3. act[a].op = "complete"
        BY <1>3, <1>5, <4>1, <4>2 DEF PayOps
      <4>4. order'[o].ver = order[o].ver + 1 /\ order[o].status # "DELETED"
        BY <1>1, <4>3 DEF Unchanged
      <4>5. act[b].ver <= order[o].ver /\ act[b].ver \in Nat
        BY <3>1, <3>2, <3>4, <4>4, Found DEF BookInv, Unread, RequestStates
      <4>6. act'[b].ver <= order'[o].ver /\ act'[b].ver # order'[o].ver
        BY <1>3, <3>2, <4>4, <4>5
      <4>. QED
        BY <3>1, <3>4, <4>6
    <3>. QED
      BY <3>3, <3>4
  <2>6. ASSUME NEW p \in Orders, NEW s \in Sessions, Booked(p, s)' PROVE Booked(p, s) /\ p # o
    <3>1. Booked(p, s)
      BY <1>1, <1>2, <2>6 DEF Booked, InStep
    <3>2. ~Booked(o, s)
      BY <1>1, <2>1 DEF BookInv, BookedOnce
    <3>. QED
      BY <3>1, <3>2
  <2>7. BookedOnce'
    <3>1. SUFFICES ASSUME NEW p \in Orders, NEW s \in Sessions, Booked(p, s)'
                   PROVE  /\ paid'[p] = 1 /\ order'[p].status \notin {"NEW", "PENDING"}
                          /\ order'[p].status # "DELETED" => order'[p].ses = s
                          /\ \A t \in Sessions : Booked(p, t)' => t = s
      BY DEF BookedOnce
    <3>2. /\ paid[p] = 1 /\ order[p].status \notin {"NEW", "PENDING"}
          /\ order[p].status # "DELETED" => order[p].ses = s
          /\ \A t \in Sessions : Booked(p, t) => t = s
      BY <2>6, <3>1 DEF BookInv, BookedOnce
    <3>3. order'[p] = order[p] /\ paid'[p] = paid[p]
      BY <1>1, <1>5, <2>6, <3>1 DEF Only
    <3>. QED
      BY <2>6, <3>2, <3>3
  <2>. QED
    BY <2>3, <2>4, <2>5, <2>7 DEF BookInv, Unread
<1>. QED
  BY <1>4, <1>5

LEMMA CancelEffect ==
    ASSUME Base, NEW a \in Requests, Cancel(a), NEW o, o = act[a].ord
    PROVE  /\ o \in Orders /\ Only(o) /\ Moves(a) /\ UNCHANGED <<paid, refunds, counted, faults>>
           /\ order'[o].status = (IF order[o].status = "PENDING" THEN "CANCELLED" ELSE order[o].status)
           /\ order'[o].ses = order[o].ses /\ order'[o].ver = order[o].ver
           /\ order'[o].storno = order[o].storno /\ order'[o].refunded = order[o].refunded
<1>0. o \in Orders /\ order \in [Orders -> OrderDocs] /\ order[o] \in OrderDocs
  BY Found DEF Cancel, PayPcs
<1> DEFINE d == [order[o] EXCEPT !.status = IF order[o].status = "PENDING" THEN "CANCELLED"
                                            ELSE order[o].status]
<1>1. /\ d.status = (IF order[o].status = "PENDING" THEN "CANCELLED" ELSE order[o].status)
      /\ d.ses = order[o].ses /\ d.ver = order[o].ver
      /\ d.storno = order[o].storno /\ d.refunded = order[o].refunded
  BY <1>0 DEF OrderDocs
<1>2. order' = [order EXCEPT ![o] = d]
  BY DEF Cancel
<1> HIDE DEF d
<1>3. Moves(a)
  BY GotoMoves DEF Cancel, PreWrite
<1>. QED
  BY <1>0, <1>1, <1>2, <1>3 DEF Only, Cancel, history

(* A storno that does not cancel leaves the sale as it is.                 *)
LEMMA StornosEffect ==
    ASSUME Base, NEW a \in Requests, Stornos(a)
    PROVE  /\ \A o \in Orders : /\ order'[o].status = order[o].status /\ order'[o].ses = order[o].ses
                                /\ order'[o].ver = order[o].ver
           /\ UNCHANGED <<paid, counted>>
           /\ \A b \in Requests \ {a} : act'[b] = act[b]
           /\ act'[a] = Idle \/ (act'[a].op = "storno" /\ act'[a].pc # "closeEnd")
           /\ act[a].op # "storno" => act[a].op = "none"  /\ act'[a].op \in Ops
<1>0. act \in [Requests -> RequestStates] /\ act[a] \in RequestStates /\ order \in [Orders -> OrderDocs]
  BY Found
<1>1. ASSUME NEW o \in Orders, NEW d, order' = [order EXCEPT ![o] = d],
             d.status = order[o].status, d.ses = order[o].ses, d.ver = order[o].ver
      PROVE  \A p \in Orders : /\ order'[p].status = order[p].status /\ order'[p].ses = order[p].ses
                               /\ order'[p].ver = order[p].ver
  BY <1>0, <1>1
<1>2. ASSUME NEW o \in Orders, NEW st,
             order' = [order EXCEPT ![o].storno = st]
      PROVE  \A p \in Orders : /\ order'[p].status = order[p].status /\ order'[p].ses = order[p].ses
                               /\ order'[p].ver = order[p].ver
  <2> DEFINE d == [order[o] EXCEPT !.storno = st]
  <2>1. d.status = order[o].status /\ d.ses = order[o].ses /\ d.ver = order[o].ver
    BY <1>0 DEF OrderDocs
  <2>2. order' = [order EXCEPT ![o] = d]
    BY <1>2
  <2> HIDE DEF d
  <2>. QED
    BY <1>1, <2>1, <2>2
<1>3. End(a) => act'[a] = Idle /\ \A b \in Requests \ {a} : act'[b] = act[b]
  BY <1>0 DEF End
<1>4. ASSUME NEW o \in Orders, StornoBegin(a, o)
      PROVE  /\ \A p \in Orders : /\ order'[p].status = order[p].status /\ order'[p].ses = order[p].ses
                                  /\ order'[p].ver = order[p].ver
             /\ UNCHANGED <<paid, counted>>
             /\ \A b \in Requests \ {a} : act'[b] = act[b]
             /\ act'[a].op = "storno" /\ act'[a].pc # "closeEnd"
             /\ act[a].op = "none" /\ "storno" \in Ops
  <2> DEFINE q == Request("storno", "stornoClaim", NoSession, o)
             r == [q EXCEPT !.tok = StornoToken]
  <2>1. q \in RequestStates /\ q.op = "storno" /\ q.pc = "stornoClaim"
    BY RequestOK DEF AllOps, Pcs, StornoPcs
  <2>2. act' = [act EXCEPT ![a] = r] /\ r.op \in Ops /\ act[a].pc = "idle"
    BY <1>4 DEF StornoBegin, Begin
  <2> HIDE DEF q
  <2>3. r.op = "storno" /\ r.pc = "stornoClaim"
    BY <2>1 DEF RequestStates
  <2> HIDE DEF r
  <2>4. act[a].op = "none"
    BY <2>2, Found
  <2>5. order' = [order EXCEPT ![o].storno = "IN_PROGRESS"]
    BY <1>4 DEF StornoBegin
  <2>. QED
    BY <1>0, <1>2, <1>4, <2>2, <2>3, <2>4, <2>5 DEF StornoBegin, history
<1>5. PICK o : o = act[a].ord
  OBVIOUS
<1>6. CASE StornoClaim(a)
  <2>0. act[a].op = "storno" /\ o \in Orders
    BY <1>5, <1>6, Found DEF StornoClaim, StornoPcs
  <2>1. CASE End(a) /\ order' = [order EXCEPT ![o].storno = IF @ = "IN_PROGRESS" THEN "FAILED" ELSE @]
    <3>1. order' = [order EXCEPT ![o].storno = IF order[o].storno = "IN_PROGRESS" THEN "FAILED" ELSE order[o].storno]
      BY <2>1
    <3>. QED
      BY <1>2, <1>3, <1>6, <2>0, <2>1, <3>1 DEF StornoClaim, history
  <2>2. CASE /\ order' = [order EXCEPT ![o].claim = StornoToken, ![o].target = "REVERTED"]
             /\ \E flag, plan, rest : \E pc \in {"refund", "move"} :
                  act' = [act EXCEPT ![a].pc = pc, ![a].flag = flag, ![a].left = {o},
                                     ![a].plan = plan, ![a].rest = rest]
    <3> DEFINE d == [order[o] EXCEPT !.claim = StornoToken, !.target = "REVERTED"]
    <3>1. d.status = order[o].status /\ d.ses = order[o].ses /\ d.ver = order[o].ver
      BY <1>0, <2>0 DEF OrderDocs
    <3>2. order' = [order EXCEPT ![o] = d]
      BY <2>2
    <3> HIDE DEF d
    <3>a. PICK flag, plan, rest : \E pc \in {"refund", "move"} :
             act' = [act EXCEPT ![a].pc = pc, ![a].flag = flag, ![a].left = {o},
                                ![a].plan = plan, ![a].rest = rest]
      BY <2>2
    <3>3. PICK pc \in {"refund", "move"} :
             act' = [act EXCEPT ![a].pc = pc, ![a].flag = flag, ![a].left = {o},
                                ![a].plan = plan, ![a].rest = rest]
      BY <3>a
    <3>4. act'[a].op = "storno" /\ act'[a].pc = pc /\ \A b \in Requests \ {a} : act'[b] = act[b]
      BY <1>0, <2>0, <3>3 DEF RequestStates
    <3>. QED
      BY <1>1, <1>6, <2>0, <3>1, <3>2, <3>4 DEF StornoClaim, history
  <2>3. StornoClaim(a) => \/ End(a) /\ order' = [order EXCEPT ![o].storno = IF @ = "IN_PROGRESS" THEN "FAILED" ELSE @]
                          \/ /\ order' = [order EXCEPT ![o].claim = StornoToken, ![o].target = "REVERTED"]
                             /\ act' = [act EXCEPT ![a].pc = IF order[o].card /\ ~order[o].refunded
                                                              THEN "refund" ELSE "move",
                                          ![a].flag = order[o].refunded, ![a].left = {o},
                                          ![a].plan[o] = Effective(o), ![a].rest = Effective(o)]
    BY <1>5 DEF StornoClaim
  <2>4. ASSUME act' = [act EXCEPT ![a].pc = IF order[o].card /\ ~order[o].refunded
                                                              THEN "refund" ELSE "move",
                                          ![a].flag = order[o].refunded, ![a].left = {o},
                                          ![a].plan[o] = Effective(o), ![a].rest = Effective(o)]
        PROVE  \E flag, plan, rest : \E pc \in {"refund", "move"} :
                  act' = [act EXCEPT ![a].pc = pc, ![a].flag = flag, ![a].left = {o},
                                     ![a].plan = plan, ![a].rest = rest]
    <3>1. PICK pc \in {"refund", "move"} : pc = IF order[o].card /\ ~order[o].refunded THEN "refund" ELSE "move"
      OBVIOUS
    <3>2. PICK rest : rest = Effective(o)
      OBVIOUS
    <3>3. PICK plan : plan = [act[a].plan EXCEPT ![o] = rest]
      OBVIOUS
    <3>4. act' = [act EXCEPT ![a].pc = pc, ![a].flag = order[o].refunded, ![a].left = {o},
                             ![a].plan[o] = rest, ![a].rest = rest]
      BY <2>4, <3>1, <3>2
    <3>5. act' = [act EXCEPT ![a].pc = pc, ![a].flag = order[o].refunded, ![a].left = {o},
                             ![a].plan = plan, ![a].rest = rest]
      BY <3>3, <3>4, ZenonT(40)
    <3>. QED
      BY <3>5
  <2>. QED
    BY <1>6, <2>1, <2>2, <2>3, <2>4
<1>7. CASE Refund(a)
  <2>0. act[a].op = "storno" /\ o \in Orders
    BY <1>5, <1>7, Found DEF Refund, StornoPcs
  <2>1. CASE act' = [act EXCEPT ![a].pc = "move", ![a].flag = TRUE] /\ UNCHANGED order
    <3>1. act'[a].op = "storno" /\ act'[a].pc = "move" /\ \A b \in Requests \ {a} : act'[b] = act[b]
      BY <1>0, <2>0, <2>1 DEF RequestStates
    <3>. QED
      BY <1>7, <2>0, <2>1, <3>1 DEF Refund
  <2>2. CASE End(a) /\ order' = [order EXCEPT ![o].storno = IF order[o].status = "DELETED" THEN @ ELSE "FAILED"]
    <3>1. order' = [order EXCEPT ![o].storno = IF order[o].status = "DELETED" THEN order[o].storno ELSE "FAILED"]
      BY <2>2
    <3>. QED
      BY <1>2, <1>3, <1>7, <2>0, <2>2, <3>1 DEF Refund
  <2>. QED
    BY <1>5, <1>7, <2>1, <2>2 DEF Refund
<1>8. CASE StornoThrows(a)
  <2>0. act[a].op = "storno" /\ o \in Orders
    BY <1>5, <1>8, Found DEF StornoThrows, StornoPcs
  <2>1. order' = [order EXCEPT ![o].storno = IF order[o].storno = "IN_PROGRESS" THEN "FAILED" ELSE order[o].storno]
    BY <1>5, <1>8 DEF StornoThrows
  <2>. QED
    BY <1>2, <1>3, <1>8, <2>0, <2>1 DEF StornoThrows, history
<1>9. CASE StockFail(a) /\ act[a].op = "storno"
  <2>0. act[a].op = "storno" /\ o \in Orders
    BY <1>5, <1>9, Found DEF StockFail, StockPcs
  <2> DEFINE d == [order[o] EXCEPT !.storno = "FAILED", !.refunded = act[a].flag]
  <2>1. d.status = order[o].status /\ d.ses = order[o].ses /\ d.ver = order[o].ver
    BY <1>0, <2>0 DEF OrderDocs
  <2>2. order' = [order EXCEPT ![o] = d]
    BY <1>5, <1>9 DEF StockFail
  <2> HIDE DEF d
  <2>. QED
    BY <1>1, <1>3, <1>9, <2>0, <2>1, <2>2 DEF StockFail, history
<1>. QED
  BY <1>4, <1>6, <1>7, <1>8, <1>9 DEF Stornos

LEMMA BooksStorno ==
    ASSUME Base, BookInv, Base', NEW a \in Requests, Stornos(a)
    PROVE  BookInv'
<1>1. \A o \in Orders : BookKept(order[o], order'[o])
  BY StornosEffect DEF BookKept
<1>2. InStep(a)
  BY StornosEffect, IdleOK DEF InStep, BookInv, OpsOK
<1>. QED
  BY <1>1, <1>2, StornosEffect, BooksKept

LEMMA BooksCancel ==
    ASSUME Base, BookInv, Base', NEW a \in Requests, Cancel(a)
    PROVE  BookInv'
<1>1. \A o \in Orders : BookKept(order[o], order'[o])
  BY CancelEffect DEF BookKept, Only
<1>2. InStep(a)
  BY CancelEffect, InStepMoves DEF BookInv
<1>. QED
  BY <1>1, <1>2, CancelEffect, BooksKept

LEMMA StornoEndEffect ==
    ASSUME Base, NEW a \in Requests, StornoEnd(a), NEW o, o = act[a].ord
    PROVE  /\ o \in Orders /\ Only(o) /\ End(a) /\ UNCHANGED <<paid, refunds, counted, faults>>
           /\ act[a].op = "storno" /\ act[a].pc = "stornoEnd"
           /\ order'[o].ses = order[o].ses /\ order'[o].ver = order[o].ver
           /\ IF order[o].status = "DELETED" THEN order'[o] = order[o]
              ELSE /\ order'[o].status = "CANCELLED" /\ order'[o].storno = "COMPLETED"
                   /\ order'[o].refunded = act[a].flag
<1>0. /\ o \in Orders /\ order \in [Orders -> OrderDocs] /\ order[o] \in OrderDocs
      /\ act[a].op = "storno" /\ act[a].pc = "stornoEnd"
  BY Found DEF StornoEnd, StornoPcs
<1> DEFINE e == [order[o] EXCEPT !.status = "CANCELLED", !.storno = "COMPLETED", !.refunded = act[a].flag,
                                 !.effect = "REVERTED", !.claim = NoToken]
           d == IF order[o].status = "DELETED" THEN order[o] ELSE e
<1>1. /\ e.ses = order[o].ses /\ e.ver = order[o].ver /\ e.status = "CANCELLED"
      /\ e.storno = "COMPLETED" /\ e.refunded = act[a].flag
  BY <1>0 DEF OrderDocs
<1>2. order' = [order EXCEPT ![o] = d]
  BY DEF StornoEnd
<1> HIDE DEF e
<1>3. order'[o] = d /\ Only(o)
  BY <1>0, <1>2 DEF Only
<1>. QED
  BY <1>0, <1>1, <1>3 DEF StornoEnd, history

LEMMA DeleteEffect ==
    ASSUME Base, NEW a \in Requests, DeleteOrders(a)
    PROVE  /\ Moves(a) /\ UNCHANGED <<paid, refunds, counted, faults>>
           /\ \A o \in Orders : order'[o].status = "DELETED" \/ order'[o] = order[o]
<1>1. Moves(a)
  BY GotoMoves DEF DeleteOrders, PreWrite
<1>2. [NewOrder EXCEPT !.status = "DELETED"].status = "DELETED"
  BY DEF NewOrder
<1>. QED
  BY <1>1, <1>2 DEF DeleteOrders, history

LEMMA BooksEnd ==
    ASSUME Base, BookInv, Base', NEW a \in Requests, StornoEnd(a) \/ DeleteOrders(a)
    PROVE  BookInv'
<1>1. CASE StornoEnd(a)
  <2>1. \A o \in Orders : BookKept(order[o], order'[o])
    BY <1>1, StornoEndEffect DEF BookKept, Only
  <2>2. InStep(a)
    BY <1>1, StornoEndEffect, EndMoves, InStepMoves DEF BookInv
  <2>. QED
    BY <1>1, <2>1, <2>2, StornoEndEffect, BooksKept
<1>2. CASE DeleteOrders(a)
  <2>1. \A o \in Orders : BookKept(order[o], order'[o])
    BY <1>2, DeleteEffect DEF BookKept
  <2>2. InStep(a)
    BY <1>2, DeleteEffect, InStepMoves DEF BookInv
  <2>. QED
    BY <1>2, <2>1, <2>2, DeleteEffect, BooksKept
<1>. QED
  BY <1>1, <1>2

(* A close sums the books up, and then writes what it summed up.           *)
LEMMA SumEffect ==
    ASSUME Base, NEW a \in Requests, CloseSum(a)
    PROVE  /\ \A b \in Requests \ {a} : act'[b] = act[b]
           /\ act'[a].op = act[a].op /\ act[a].op = "close" /\ act'[a].ses = act[a].ses
           /\ act'[a].ord = act[a].ord /\ act'[a].pc = "closeEnd" /\ act'[a].tok = act[a].tok
           /\ act'[a].todo = OrdersOf(act[a].ses, "PAID") /\ act[a].ses \in Sessions
           /\ UNCHANGED <<docs, faults, history>>
<1>0. act[a].op = "close" /\ act[a].ses \in Sessions /\ act[a] \in RequestStates
  BY Found DEF CloseSum, ClosePcs, SessionOps
<1>1. PICK todo : todo = OrdersOf(act[a].ses, "PAID")
  OBVIOUS
<1> DEFINE r == [act[a] EXCEPT !.pc = "closeEnd", !.todo = todo]
<1>2. act' = [act EXCEPT ![a] = r]
  BY <1>1 DEF CloseSum
<1>3. /\ r.op = act[a].op /\ r.ses = act[a].ses /\ r.ord = act[a].ord /\ r.tok = act[a].tok
      /\ r.pc = "closeEnd" /\ r.todo = todo
  BY <1>0 DEF RequestStates
<1> HIDE DEF r
<1>. QED
  BY <1>0, <1>1, <1>2, <1>3, Found DEF CloseSum

LEMMA EndEffect ==
    ASSUME Base, NEW a \in Requests, CloseEnd(a)
    PROVE  /\ act[a].ses \in Sessions /\ act[a].pc = "closeEnd" /\ act[a].op = "close" /\ End(a)
           /\ UNCHANGED <<order, keys, faults, taken, paid, refunds>>
           /\ \A s \in Sessions : counted'[s] = counted[s] \/ (s = act[a].ses /\ counted'[s] = act[a].todo)
BY Found, SMTT(30) DEF CloseEnd, ClosePcs, SessionOps, RestOK

LEMMA BooksClose ==
    ASSUME Base, BookInv, NEW a \in Requests, CloseSum(a) \/ CloseEnd(a)
    PROVE  BookInv'
<1>0. /\ UNCHANGED <<order, paid>> /\ \A b \in Requests \ {a} : act'[b] = act[b]
      /\ act'[a].op \in {"close", "none"} /\ act'[a].op \in Ops \cup {"none"}
  BY SumEffect, EndEffect, EndMoves, Found, IdleOK DEF docs, history, End, BookInv, OpsOK
<1>1. OpsOK' /\ Unpaid' /\ PaidOnce'
  BY <1>0 DEF BookInv, OpsOK, Unpaid, PaidOnce
<1>2. ASSUME NEW b \in Requests, act'[b].op = "complete" PROVE act'[b] = act[b]
  BY <1>0, <1>2
<1>3. Unread'
  BY <1>0, <1>2 DEF BookInv, Unread
<1>4. CASE CloseSum(a)
  <2>1. ASSUME NEW o \in Orders, NEW s \in Sessions, Booked(o, s)'
        PROVE  Booked(o, s) \/ (s = act[a].ses /\ o \in OrdersOf(s, "PAID"))
    BY <1>4, <2>1, SumEffect DEF Booked, history
  <2>2. ASSUME NEW o \in Orders, NEW s \in Sessions, Booked(o, s)'
        PROVE  /\ paid[o] = 1 /\ order[o].status \notin {"NEW", "PENDING"}
               /\ order[o].status # "DELETED" => order[o].ses = s
    BY <2>1, <2>2 DEF BookInv, BookedOnce, OrdersOf, Unpaid
  <2>3. ASSUME NEW o \in Orders, NEW s \in Sessions, NEW t \in Sessions, Booked(o, s)', Booked(o, t)'
        PROVE  s = t
    <3>1. CASE order[o].status # "DELETED"
      BY <2>2, <2>3, <3>1
    <3>2. CASE order[o].status = "DELETED"
      <4>1. Booked(o, s) /\ Booked(o, t)
        BY <2>1, <2>3, <3>2 DEF OrdersOf
      <4>. QED
        BY <4>1 DEF BookInv, BookedOnce
    <3>. QED
      BY <3>1, <3>2
  <2>4. BookedOnce'
    BY <1>0, <2>2, <2>3 DEF BookedOnce
  <2>. QED
    BY <1>1, <1>3, <2>4 DEF BookInv
<1>5. CASE CloseEnd(a)
  <2>0. act'[a] = Idle /\ act[a].pc = "closeEnd" /\ Idle.pc = "idle"
    BY <1>5, EndEffect, Found, IdleOK DEF End
  <2>1. ASSUME NEW o \in Orders, NEW s \in Sessions, Booked(o, s)' PROVE Booked(o, s)
    BY <1>0, <1>5, <2>0, <2>1, EndEffect DEF Booked
  <2>2. BookedOnce'
    BY <1>0, <2>1 DEF BookInv, BookedOnce
  <2>. QED
    BY <1>1, <1>3, <2>2 DEF BookInv
<1>. QED
  BY <1>4, <1>5

LEMMA BookInit == Init => BookInv
<1>. SUFFICES ASSUME Init PROVE BookInv
  OBVIOUS
<1>1. /\ \A o \in Orders : order[o] = NewOrder /\ NewOrder.status = "NEW" /\ paid[o] = 0
      /\ \A a \in Requests : act[a] = Idle
      /\ \A s \in Sessions : counted[s] = {}
  BY DEF Init, NewOrder
<1>. QED
  BY <1>1, IdleOK DEF BookInv, OpsOK, Unpaid, PaidOnce, Unread, BookedOnce, Booked

LEMMA BookStep ==
    ASSUME OneWay, Base, BookInv, [Next]_vars, Base'
    PROVE  BookInv'
BY QuietOrLoud, BooksQuiet, BooksPublic, BooksWrite, BooksStorno, BooksCancel, BooksEnd, BooksClose DEF Loud

LEMMA BookAlways == OneWay => (Spec => []BookInv)
<1>1. Init => BookInv
  BY BookInit
<1>2. OneWay /\ Base /\ BookInv /\ [Next]_vars /\ Base' => BookInv'
  BY BookStep
<1>3. SUFFICES ASSUME OneWay PROVE Spec => []BookInv
  OBVIOUS
<1>4. Base /\ BookInv /\ [Next]_vars /\ Base' => BookInv'
  BY <1>2, <1>3
<1>. QED
  BY <1>1, <1>4, BaseAlways, PTL DEF Spec

(* An order is recorded as paid once, whatever sales, completions, stornos,*)
(* closings, reclassifications, crashes and failed writes are under way:   *)
(* the version a completion read, or the status and claim a webhook holds, *)
(* keeps a second write out.                                               *)
THEOREM OrdersArePaidOnce == OneWay => (Spec => []PaidOnce)
<1>1. BookInv => PaidOnce
  BY DEF BookInv
<1>. QED
  BY <1>1, BookAlways, PTL

(* An order is in the closing summary of one session at most: a completion *)
(* under another session comes before its first payment, never after.      *)
THEOREM BooksStayDisjoint == OneWay => (Spec => []BooksAreDisjoint)
<1>1. Base /\ BookInv => BooksAreDisjoint
  <2>. SUFFICES ASSUME Base, BookInv, NEW s \in Sessions, NEW t \in Sessions,
                       NEW o, o \in counted[s], o \in counted[t]
                PROVE  s = t
    BY DEF BooksAreDisjoint
  <2>1. o \in Orders
    BY TypeParts DEF Base, RestOK
  <2>. QED
    BY <2>1 DEF BookInv, BookedOnce, Booked
<1>. QED
  BY <1>1, BookAlways, BaseAlways, PTL
-----------------------------------------------------------------------------
(* Refunds.  A storno is alone with its order, and an order not known to   *)
(* be refunded was refunded only in attempts whose record failed.          *)
OneStorno ==
    \A a \in Requests : act[a].op = "storno" =>
        /\ order[act[a].ord].storno = "IN_PROGRESS" \/ order[act[a].ord].status = "DELETED"
        /\ \A b \in Requests \ {a} : act[b].op = "storno" => act[b].ord # act[a].ord
        /\ act[a].pc \in {"stornoClaim", "refund"} => ~act[a].flag

Unrefunded(d) == d.status # "DELETED" /\ ~d.refunded
Unspent == \A o \in Orders : Unrefunded(order[o]) /\ order[o].storno \in {"none", "FAILED"}
                                => refunds[o] <= faults

(* A storno that may still ask SumUp for a refund.                         *)
Spending == \A a \in Requests :
                /\ act[a].op = "storno" /\ ~act[a].flag
                /\ act[a].pc = "stornoClaim" => Unrefunded(order[act[a].ord])
                => refunds[act[a].ord] <= faults

RefundInv == OneStorno /\ Unspent /\ Spending /\ RefundsNeedFaults

RefundKept(d, e) == \/ e.status = "DELETED"
                    \/ d.status # "DELETED" /\ e.storno = d.storno /\ e.refunded = d.refunded

Stays(a) == /\ \A b \in Requests \ {a} : act'[b] = act[b]
            /\ act'[a].op = "storno" => /\ act[a].op = "storno" /\ act'[a].ord = act[a].ord
                                        /\ act'[a].flag = act[a].flag /\ act[a].pc # "stornoClaim"
                                        /\ act'[a].pc \notin {"stornoClaim", "refund"}

LEMMA StaysMoves == ASSUME NEW a \in Requests, Moves(a) PROVE Stays(a)
<1>1. act'[a] = Idle => Stays(a)
  BY IdleOK DEF Moves, Stays
<1>. QED
  BY <1>1 DEF Moves, Stays, Goes, Starts

LEMMA RefundsKept ==
    ASSUME Base, Base', RefundInv, UNCHANGED refunds, faults' >= faults,
           \A o \in Orders : RefundKept(order[o], order'[o]),
           act' = act \/ \E a \in Requests : Stays(a)
    PROVE  RefundInv'
<1>0. /\ refunds \in [Orders -> Nat] /\ faults \in Int /\ faults' \in Int
  BY TypeParts DEF Base, RestOK, TypeOK
<1>1. ASSUME NEW b \in Requests, act'[b].op = "storno"
      PROVE  /\ act[b].op = "storno" /\ act'[b].ord = act[b].ord /\ act[b].ord \in Orders
             /\ act'[b].flag = act[b].flag
             /\ \/ act'[b].pc = act[b].pc
                \/ act[b].pc # "stornoClaim" /\ act'[b].pc \notin {"stornoClaim", "refund"}
  <2>1. /\ act[b].op = "storno" /\ act'[b].ord = act[b].ord /\ act'[b].flag = act[b].flag
        /\ \/ act'[b].pc = act[b].pc
           \/ act[b].pc # "stornoClaim" /\ act'[b].pc \notin {"stornoClaim", "refund"}
    BY <1>1 DEF Stays
  <2>. QED
    BY <2>1, Found
<1>2. OneStorno'
  <2>1. SUFFICES ASSUME NEW b \in Requests, act'[b].op = "storno"
                 PROVE  /\ order'[act'[b].ord].storno = "IN_PROGRESS" \/ order'[act'[b].ord].status = "DELETED"
                        /\ \A c \in Requests \ {b} : act'[c].op = "storno" => act'[c].ord # act'[b].ord
                        /\ act'[b].pc \in {"stornoClaim", "refund"} => ~act'[b].flag
    BY DEF OneStorno
  <2>2. /\ order[act[b].ord].storno = "IN_PROGRESS" \/ order[act[b].ord].status = "DELETED"
        /\ \A c \in Requests \ {b} : act[c].op = "storno" => act[c].ord # act[b].ord
        /\ act[b].pc \in {"stornoClaim", "refund"} => ~act[b].flag
    BY <1>1, <2>1 DEF RefundInv, OneStorno
  <2>. QED
    BY <1>1, <2>1, <2>2 DEF RefundKept
<1>3. Unspent'
  BY <1>0 DEF RefundInv, Unspent, Unrefunded, RefundKept
<1>4. Spending'
  <2>1. SUFFICES ASSUME NEW b \in Requests, act'[b].op = "storno", ~act'[b].flag,
                        act'[b].pc = "stornoClaim" => Unrefunded(order'[act'[b].ord])
                 PROVE  refunds'[act'[b].ord] <= faults'
    BY DEF Spending, Unrefunded
  <2>2. refunds[act[b].ord] <= faults
    BY <1>1, <2>1 DEF RefundInv, Spending, Unrefunded, RefundKept
  <2>. QED
    BY <1>0, <1>1, <2>1, <2>2
<1>5. RefundsNeedFaults'
  BY <1>0 DEF RefundInv, RefundsNeedFaults
<1>. QED
  BY <1>2, <1>3, <1>4, <1>5 DEF RefundInv

(* A storno ends with its order.                                           *)
LEMMA StornoOver ==
    ASSUME Base, Base', RefundInv, NEW a \in Requests, NEW o \in Orders, o = act[a].ord,
           act[a].op = "storno", End(a), Only(o), UNCHANGED refunds, faults' >= faults,
           Unrefunded(order'[o]) /\ order'[o].storno \in {"none", "FAILED"} => refunds[o] <= faults'
    PROVE  RefundInv'
<1>0. /\ refunds \in [Orders -> Nat] /\ faults \in Int /\ faults' \in Int
  BY TypeParts DEF Base, RestOK, TypeOK
<1>1. ASSUME NEW b \in Requests, act'[b].op = "storno"
      PROVE  /\ act'[b] = act[b] /\ act[b].ord \in Orders \ {o} /\ order'[act[b].ord] = order[act[b].ord]
  <2>1. b # a /\ act'[b] = act[b]
    BY <1>1, Found, IdleOK DEF End
  <2>2. act[b].ord # o /\ act[b].ord \in Orders
    BY <1>1, <2>1, Found DEF RefundInv, OneStorno
  <2>. QED
    BY <2>1, <2>2 DEF Only
<1>2. OneStorno'
  BY <1>1 DEF RefundInv, OneStorno
<1>3. Unspent'
  BY <1>0 DEF RefundInv, Unspent, Unrefunded, Only
<1>4. Spending'
  <2>1. SUFFICES ASSUME NEW b \in Requests, act'[b].op = "storno", ~act'[b].flag,
                        act'[b].pc = "stornoClaim" => Unrefunded(order'[act'[b].ord])
                 PROVE  refunds'[act'[b].ord] <= faults'
    BY DEF Spending, Unrefunded
  <2>2. refunds[act[b].ord] <= faults
    BY <1>1, <2>1 DEF RefundInv, Spending
  <2>. QED
    BY <1>0, <1>1, <2>1, <2>2
<1>5. RefundsNeedFaults'
  BY <1>0 DEF RefundInv, RefundsNeedFaults
<1>. QED
  BY <1>2, <1>3, <1>4, <1>5 DEF RefundInv

LEMMA RefundsBegin ==
    ASSUME Base, Base', RefundInv, NEW a \in Requests, NEW o \in Orders, StornoBegin(a, o)
    PROVE  RefundInv'
<1>0. /\ refunds \in [Orders -> Nat] /\ faults \in Int /\ order \in [Orders -> OrderDocs]
      /\ order[o].status = "PAID" /\ order[o].storno \in {"none", "FAILED"}
      /\ UNCHANGED <<refunds, faults>>
  BY TypeParts DEF Base, RestOK, StornoBegin, Lockable, history
<1> DEFINE q == Request("storno", "stornoClaim", NoSession, o)
           r == [q EXCEPT !.tok = StornoToken]
           d == [order[o] EXCEPT !.storno = "IN_PROGRESS"]
<1>1. q \in RequestStates /\ q.op = "storno" /\ q.pc = "stornoClaim" /\ q.ord = o
  <2>1. "storno" \in AllOps /\ "stornoClaim" \in Pcs
    BY DEF AllOps, Pcs, StornoPcs
  <2>. QED
    BY <2>1, RequestOK
<1>a. ~q.flag
  BY DEF Request, Idle
<1>2. act' = [act EXCEPT ![a] = r] /\ order' = [order EXCEPT ![o] = d]
  BY DEF StornoBegin, Begin
<1> HIDE DEF q
<1>3. r.op = "storno" /\ r.pc = "stornoClaim" /\ r.ord = o /\ ~r.flag
  BY <1>1, <1>a DEF RequestStates
<1>4. d.status = "PAID" /\ d.storno = "IN_PROGRESS" /\ d.refunded = order[o].refunded
  BY <1>0 DEF OrderDocs
<1> HIDE DEF r, d
<1>5. act'[a] = r /\ (\A b \in Requests \ {a} : act'[b] = act[b]) /\ order'[o] = d /\ Only(o)
  BY <1>0, <1>2, Found DEF Only
<1>6. ASSUME NEW b \in Requests \ {a}, act[b].op = "storno"
      PROVE  act[b].ord # o /\ act[b].ord \in Orders
  BY <1>0, <1>6, Found DEF RefundInv, OneStorno
<1>7. OneStorno'
  <2>1. SUFFICES ASSUME NEW b \in Requests, act'[b].op = "storno"
                 PROVE  /\ order'[act'[b].ord].storno = "IN_PROGRESS" \/ order'[act'[b].ord].status = "DELETED"
                        /\ \A c \in Requests \ {b} : act'[c].op = "storno" => act'[c].ord # act'[b].ord
                        /\ act'[b].pc \in {"stornoClaim", "refund"} => ~act'[b].flag
    BY DEF OneStorno
  <2>2. CASE b = a
    BY <1>3, <1>4, <1>5, <1>6, <2>2
  <2>3. CASE b # a
    BY <1>3, <1>5, <1>6, <2>1, <2>3 DEF RefundInv, OneStorno, Only
  <2>. QED
    BY <2>2, <2>3
<1>8. Unspent'
  BY <1>0, <1>4, <1>5 DEF RefundInv, Unspent, Unrefunded, Only
<1>9. Spending'
  <2>1. SUFFICES ASSUME NEW b \in Requests, act'[b].op = "storno", ~act'[b].flag,
                        act'[b].pc = "stornoClaim" => Unrefunded(order'[act'[b].ord])
                 PROVE  refunds'[act'[b].ord] <= faults'
    BY DEF Spending, Unrefunded
  <2>2. CASE b = a
    <3>1. Unrefunded(order[o])
      BY <1>0, <1>3, <1>4, <1>5, <2>1, <2>2 DEF Unrefunded
    <3>. QED
      BY <1>0, <1>3, <1>5, <2>2, <3>1 DEF RefundInv, Unspent
  <2>3. CASE b # a
    BY <1>0, <1>5, <1>6, <2>1, <2>3 DEF RefundInv, Spending, Only
  <2>. QED
    BY <2>2, <2>3
<1>10. RefundsNeedFaults'
  BY <1>0 DEF RefundInv, RefundsNeedFaults
<1>. QED
  BY <1>7, <1>8, <1>9, <1>10 DEF RefundInv

LEMMA RefundsClaim ==
    ASSUME Base, Base', RefundInv, NEW a \in Requests, StornoClaim(a)
    PROVE  RefundInv'
<1>0. PICK o : o = act[a].ord
  OBVIOUS
<1>1. /\ refunds \in [Orders -> Nat] /\ faults \in Nat /\ order \in [Orders -> OrderDocs]
      /\ act[a].op = "storno" /\ act[a].pc = "stornoClaim" /\ o \in Orders /\ act[a] \in RequestStates
      /\ order[o] \in OrderDocs
  <2>1. act[a].pc = "stornoClaim"
    BY DEF StornoClaim
  <2>. QED
    BY <1>0, <2>1, Found DEF RestOK, StornoPcs
<1>a. UNCHANGED <<refunds, faults>>
  BY DEF StornoClaim, history
<1>2. \/ End(a) /\ order' = [order EXCEPT ![o].storno = IF order[o].storno = "IN_PROGRESS" THEN "FAILED"
                                                        ELSE order[o].storno]
      \/ /\ order[o].status = "PAID" /\ order[o].storno = "IN_PROGRESS"
         /\ order' = [order EXCEPT ![o].claim = StornoToken, ![o].target = "REVERTED"]
         /\ act' = [act EXCEPT ![a].pc = IF order[o].card /\ ~order[o].refunded THEN "refund" ELSE "move",
                               ![a].flag = order[o].refunded, ![a].left = {o},
                               ![a].plan[o] = Effective(o), ![a].rest = Effective(o)]
  BY <1>0 DEF StornoClaim
<1>3. Unrefunded(order[o]) => refunds[o] <= faults
  BY <1>0, <1>1 DEF RefundInv, OneStorno, Spending
<1>4. CASE End(a) /\ order' = [order EXCEPT ![o].storno = IF order[o].storno = "IN_PROGRESS" THEN "FAILED"
                                                        ELSE order[o].storno]
  <2> DEFINE d == [order[o] EXCEPT !.storno = IF order[o].storno = "IN_PROGRESS" THEN "FAILED"
                                              ELSE order[o].storno]
  <2>1. d.status = order[o].status /\ d.refunded = order[o].refunded
    BY <1>1 DEF OrderDocs
  <2>2. order' = [order EXCEPT ![o] = d]
    BY <1>4
  <2> HIDE DEF d
  <2>3. order'[o] = d /\ Only(o)
    BY <1>1, <2>2 DEF Only
  <2>. QED
    BY <1>0, <1>1, <1>a, <1>3, <1>4, <2>1, <2>3, StornoOver DEF Unrefunded
<1>5. CASE /\ order[o].status = "PAID" /\ order[o].storno = "IN_PROGRESS"
           /\ order' = [order EXCEPT ![o].claim = StornoToken, ![o].target = "REVERTED"]
           /\ act' = [act EXCEPT ![a].pc = IF order[o].card /\ ~order[o].refunded THEN "refund" ELSE "move",
                                 ![a].flag = order[o].refunded, ![a].left = {o},
                                 ![a].plan[o] = Effective(o), ![a].rest = Effective(o)]
  <2>1. PICK pc \in {"refund", "move"} : pc = IF order[o].card /\ ~order[o].refunded THEN "refund" ELSE "move"
    OBVIOUS
  <2>2. PICK rest : rest = Effective(o)
    OBVIOUS
  <2>3. PICK plan : plan = [act[a].plan EXCEPT ![o] = rest]
    OBVIOUS
  <2> DEFINE d == [order[o] EXCEPT !.claim = StornoToken, !.target = "REVERTED"]
             r == [act[a] EXCEPT !.pc = pc, !.flag = order[o].refunded, !.left = {o}, !.plan = plan, !.rest = rest]
  <2>4. act' = [act EXCEPT ![a].pc = pc, ![a].flag = order[o].refunded, ![a].left = {o},
                           ![a].plan[o] = rest, ![a].rest = rest]
    BY <1>5, <2>1, <2>2
  <2>5. act' = [act EXCEPT ![a] = r]
    BY <2>3, <2>4, ZenonT(40)
  <2>6. order' = [order EXCEPT ![o] = d]
    BY <1>5
  <2>7. r.op = "storno" /\ r.ord = o /\ r.pc = pc /\ r.flag = order[o].refunded
    BY <1>0, <1>1 DEF RequestStates
  <2>8. d.status = order[o].status /\ d.storno = order[o].storno /\ d.refunded = order[o].refunded
    BY <1>1 DEF OrderDocs
  <2> HIDE DEF r, d
  <2>9. act'[a] = r /\ (\A b \in Requests \ {a} : act'[b] = act[b]) /\ order'[o] = d /\ Only(o)
    BY <1>1, <2>5, <2>6, Found DEF Only
  <2>10. ASSUME NEW b \in Requests \ {a}, act[b].op = "storno"
         PROVE  act[b].ord # o /\ act[b].ord \in Orders
    BY <1>0, <1>1, <2>10, Found DEF RefundInv, OneStorno
  <2>11. OneStorno'
    <3>1. SUFFICES ASSUME NEW b \in Requests, act'[b].op = "storno"
                   PROVE  /\ order'[act'[b].ord].storno = "IN_PROGRESS" \/ order'[act'[b].ord].status = "DELETED"
                          /\ \A c \in Requests \ {b} : act'[c].op = "storno" => act'[c].ord # act'[b].ord
                          /\ act'[b].pc \in {"stornoClaim", "refund"} => ~act'[b].flag
      BY DEF OneStorno
    <3>2. CASE b = a
      BY <1>5, <2>1, <2>7, <2>8, <2>9, <2>10, <3>2, ZenonT(40)
    <3>3. CASE b # a
      BY <2>7, <2>9, <2>10, <3>1, <3>3 DEF RefundInv, OneStorno, Only
    <3>. QED
      BY <3>2, <3>3
  <2>12. Unspent'
    BY <1>1, <1>a, <2>8, <2>9 DEF RefundInv, Unspent, Unrefunded, Only
  <2>13. Spending'
    <3>1. SUFFICES ASSUME NEW b \in Requests, act'[b].op = "storno", ~act'[b].flag,
                          act'[b].pc = "stornoClaim" => Unrefunded(order'[act'[b].ord])
                   PROVE  refunds'[act'[b].ord] <= faults'
      BY DEF Spending, Unrefunded
    <3>2. CASE b = a
      <4>1. Unrefunded(order[o])
        BY <1>5, <2>7, <2>9, <3>1, <3>2 DEF Unrefunded
      <4>. QED
        BY <1>1, <1>a, <1>3, <2>7, <2>9, <3>2, <4>1
    <3>3. CASE b # a
      BY <1>1, <1>a, <2>9, <2>10, <3>1, <3>3 DEF RefundInv, Spending, Only
    <3>. QED
      BY <3>2, <3>3
  <2>14. RefundsNeedFaults'
    BY <1>1, <1>a DEF RefundInv, RefundsNeedFaults
  <2>. QED
    BY <2>11, <2>12, <2>13, <2>14 DEF RefundInv
<1>. QED
  BY <1>2, <1>4, <1>5

LEMMA RefundsRefund ==
    ASSUME Base, Base', RefundInv, NEW a \in Requests, Refund(a)
    PROVE  RefundInv'
<1>0. PICK o : o = act[a].ord
  OBVIOUS
<1>1. /\ refunds \in [Orders -> Nat] /\ faults \in Nat /\ order \in [Orders -> OrderDocs]
      /\ act[a].op = "storno" /\ act[a].pc = "refund" /\ o \in Orders /\ act[a] \in RequestStates
      /\ UNCHANGED faults /\ order[o] \in OrderDocs
  BY <1>0, Found DEF RestOK, Refund, StornoPcs
<1>2. refunds[o] <= faults
  BY <1>0, <1>1 DEF RefundInv, OneStorno, Spending
<1>3. CASE /\ refunds' = [refunds EXCEPT ![o] = @ + 1]
           /\ act' = [act EXCEPT ![a].pc = "move", ![a].flag = TRUE] /\ UNCHANGED order
  <2> DEFINE r == [act[a] EXCEPT !.pc = "move", !.flag = TRUE]
  <2>1. act' = [act EXCEPT ![a] = r]
    BY <1>3
  <2>2. r.op = "storno" /\ r.ord = o /\ r.pc = "move" /\ r.flag = TRUE
    BY <1>0, <1>1 DEF RequestStates
  <2> HIDE DEF r
  <2>3. /\ act'[a] = r /\ \A b \in Requests \ {a} : act'[b] = act[b]
        /\ refunds'[o] = refunds[o] + 1 /\ \A p \in Orders \ {o} : refunds'[p] = refunds[p]
    BY <1>1, <1>3, <2>1, Found
  <2>a. UNCHANGED order
    BY <1>3
  <2>4. ASSUME NEW b \in Requests \ {a}, act[b].op = "storno"
        PROVE  act[b].ord # o /\ act[b].ord \in Orders
    BY <1>0, <1>1, <2>4, Found DEF RefundInv, OneStorno
  <2>5. OneStorno'
    <3>1. SUFFICES ASSUME NEW b \in Requests, act'[b].op = "storno"
                   PROVE  /\ order'[act'[b].ord].storno = "IN_PROGRESS" \/ order'[act'[b].ord].status = "DELETED"
                          /\ \A c \in Requests \ {b} : act'[c].op = "storno" => act'[c].ord # act'[b].ord
                          /\ act'[b].pc \in {"stornoClaim", "refund"} => ~act'[b].flag
      BY DEF OneStorno
    <3>2. CASE b = a
      BY <1>0, <1>1, <2>a, <2>2, <2>3, <2>4, <3>2 DEF RefundInv, OneStorno
    <3>3. CASE b # a
      BY <2>a, <2>2, <2>3, <2>4, <3>1, <3>3 DEF RefundInv, OneStorno
    <3>. QED
      BY <3>2, <3>3
  <2>6. Unspent'
    <3>1. ~(Unrefunded(order[o]) /\ order[o].storno \in {"none", "FAILED"})
      BY <1>0, <1>1 DEF RefundInv, OneStorno, Unrefunded
    <3>. QED
      BY <1>1, <2>a, <2>3, <3>1 DEF RefundInv, Unspent, Unrefunded
  <2>7. Spending'
    BY <1>1, <2>a, <2>2, <2>3, <2>4 DEF RefundInv, Spending, Unrefunded
  <2>8. RefundsNeedFaults'
    BY <1>1, <1>2, <2>3 DEF RefundInv, RefundsNeedFaults
  <2>. QED
    BY <2>5, <2>6, <2>7, <2>8 DEF RefundInv
<1>4. CASE /\ order' = [order EXCEPT ![o].storno = IF order[o].status = "DELETED" THEN order[o].storno
                                                   ELSE "FAILED"]
           /\ End(a) /\ UNCHANGED refunds
  <2> DEFINE d == [order[o] EXCEPT !.storno = IF order[o].status = "DELETED" THEN order[o].storno ELSE "FAILED"]
  <2>1. order' = [order EXCEPT ![o] = d]
    BY <1>4
  <2> HIDE DEF d
  <2>2. Only(o)
    BY <1>1, <2>1 DEF Only
  <2>. QED
    BY <1>0, <1>1, <1>2, <1>4, <2>2, StornoOver
<1>. QED
  BY <1>0, <1>3, <1>4 DEF Refund

LEMMA RefundsFail ==
    ASSUME Base, Base', RefundInv, NEW a \in Requests,
           StornoThrows(a) \/ (StockFail(a) /\ act[a].op = "storno") \/ StornoEnd(a)
    PROVE  RefundInv'
<1>0. PICK o : o = act[a].ord
  OBVIOUS
<1>1. /\ refunds \in [Orders -> Nat] /\ faults \in Nat /\ order \in [Orders -> OrderDocs]
      /\ act[a].op = "storno" /\ o \in Orders /\ act[a] \in RequestStates
      /\ order[o] \in OrderDocs /\ act[a].pc # "stornoClaim" /\ UNCHANGED refunds
  <2>1. act[a].pc \in {"stornoEnd", "fail"} /\ UNCHANGED refunds
    BY DEF StornoThrows, StockFail, StornoEnd, history
  <2>2. act[a].op = "storno"
    BY <2>1, Found DEF StornoThrows, StornoEnd, StornoPcs
  <2>. QED
    BY <1>0, <2>1, <2>2, Found DEF RestOK
<1>2. ~act[a].flag => refunds[o] <= faults
  BY <1>0, <1>1 DEF RefundInv, Spending
<1>3. CASE StornoThrows(a)
  <2> DEFINE d == [order[o] EXCEPT !.storno = IF order[o].storno = "IN_PROGRESS" THEN "FAILED"
                                              ELSE order[o].storno]
  <2>1. order' = [order EXCEPT ![o] = d] /\ End(a) /\ faults' = faults + 1
    BY <1>0, <1>3 DEF StornoThrows
  <2> HIDE DEF d
  <2>2. Only(o)
    BY <1>1, <2>1 DEF Only
  <2>3. refunds[o] <= 1 + faults
    BY <1>1 DEF RefundInv, RefundsNeedFaults
  <2>. QED
    BY <1>0, <1>1, <2>1, <2>2, <2>3, StornoOver
<1>4. CASE StockFail(a) /\ act[a].op = "storno"
  <2> DEFINE d == [order[o] EXCEPT !.storno = "FAILED", !.refunded = act[a].flag]
  <2>1. order' = [order EXCEPT ![o] = d] /\ End(a) /\ faults' = faults
    BY <1>0, <1>4 DEF StockFail
  <2>2. d.refunded = act[a].flag
    BY <1>1 DEF OrderDocs
  <2> HIDE DEF d
  <2>3. order'[o] = d /\ Only(o)
    BY <1>1, <2>1 DEF Only
  <2>. QED
    BY <1>0, <1>1, <1>2, <2>1, <2>2, <2>3, StornoOver DEF Unrefunded
<1>5. CASE StornoEnd(a)
  <2>1. /\ Only(o) /\ End(a) /\ faults' = faults
        /\ IF order[o].status = "DELETED" THEN order'[o] = order[o] ELSE order'[o].storno = "COMPLETED"
    BY <1>0, <1>5, StornoEndEffect
  <2>. QED
    BY <1>0, <1>1, <2>1, StornoOver DEF Unrefunded
<1>. QED
  BY <1>3, <1>4, <1>5

LEMMA RefundsOther ==
    ASSUME Base, Base', RefundInv,
           \/ QuietStep
           \/ \E o \in Orders : PublicOrder(o)
           \/ \E a \in Requests : Writes(a) \/ Cancel(a) \/ DeleteOrders(a) \/ CloseSum(a) \/ CloseEnd(a)
    PROVE  RefundInv'
<1>0. order \in [Orders -> OrderDocs] /\ faults \in Nat
  BY TypeParts DEF Base, RestOK
<1>1. CASE QuietStep
  BY <1>1, StaysMoves, RefundsKept DEF QuietStep, Quieting, SameBook, RefundKept
<1>2. ASSUME NEW o \in Orders, PublicOrder(o) PROVE RefundInv'
  <2> DEFINE d == [order[o] EXCEPT !.status = "PENDING"]
  <2>1. order' = [order EXCEPT ![o] = d] /\ order[o].status = "NEW"
        /\ act' = act /\ UNCHANGED <<refunds, faults>>
    BY <1>2 DEF PublicOrder, history, Unused
  <2>2. d.storno = order[o].storno /\ d.refunded = order[o].refunded
    BY <1>0 DEF OrderDocs
  <2> HIDE DEF d
  <2>3. \A p \in Orders : RefundKept(order[p], order'[p])
    BY <1>0, <2>1, <2>2 DEF RefundKept
  <2>. QED
    BY <1>0, <2>1, <2>3, RefundsKept
<1>3. ASSUME NEW a \in Requests, Writes(a) PROVE RefundInv'
  <2>1. PICK o : o = act[a].ord
    OBVIOUS
  <2>2. /\ o \in Orders /\ Only(o) /\ Moves(a) /\ UNCHANGED <<refunds, faults>>
        /\ order'[o].storno = order[o].storno /\ order'[o].refunded = order[o].refunded
        /\ act[a].op \in {"sale", "card"} => order[o].status = "NEW"
        /\ act[a].op = "complete" => Unchanged(a, o)
        /\ act[a].op = "webhook" => order[o].status = "PENDING"
        /\ act[a].op \in PayOps
    BY <1>3, <2>1, WriteEffect, Found DEF PayPcs
  <2>3. \A p \in Orders : RefundKept(order[p], order'[p])
    BY <2>2 DEF RefundKept, Only, Unchanged, PayOps
  <2>. QED
    BY <1>0, <2>2, <2>3, StaysMoves, RefundsKept
<1>4. ASSUME NEW a \in Requests, Cancel(a) PROVE RefundInv'
  <2>1. \A p \in Orders : RefundKept(order[p], order'[p])
    BY <1>4, CancelEffect DEF RefundKept, Only
  <2>. QED
    BY <1>0, <1>4, <2>1, CancelEffect, StaysMoves, RefundsKept
<1>5. ASSUME NEW a \in Requests, DeleteOrders(a) PROVE RefundInv'
  <2>1. \A p \in Orders : RefundKept(order[p], order'[p])
    BY <1>5, DeleteEffect DEF RefundKept
  <2>. QED
    BY <1>0, <1>5, <2>1, DeleteEffect, StaysMoves, RefundsKept
<1>6. ASSUME NEW a \in Requests, CloseSum(a) PROVE RefundInv'
  <2>1. Stays(a) /\ UNCHANGED <<order, refunds, faults>>
    BY <1>6, SumEffect DEF Stays, docs, history
  <2>. QED
    BY <1>0, <2>1, RefundsKept DEF RefundKept
<1>7. ASSUME NEW a \in Requests, CloseEnd(a) PROVE RefundInv'
  <2>1. Stays(a) /\ UNCHANGED <<order, refunds, faults>>
    BY <1>7, EndEffect, EndMoves, StaysMoves
  <2>. QED
    BY <1>0, <2>1, RefundsKept DEF RefundKept
<1>. QED
  BY <1>1, <1>2, <1>3, <1>4, <1>5, <1>6, <1>7

LEMMA RefundInit == Init => RefundInv
<1>. SUFFICES ASSUME Init PROVE RefundInv
  OBVIOUS
<1>1. /\ \A o \in Orders : order[o] = NewOrder /\ refunds[o] = 0
      /\ \A a \in Requests : act[a] = Idle
      /\ faults = 0
  BY DEF Init
<1>. QED
  BY <1>1, IdleOK DEF RefundInv, OneStorno, Unspent, Spending, RefundsNeedFaults

LEMMA RefundStep ==
    ASSUME Base, RefundInv, [Next]_vars, Base'
    PROVE  RefundInv'
BY QuietOrLoud, RefundsOther, RefundsBegin, RefundsClaim, RefundsRefund, RefundsFail DEF Loud, Stornos

(* SumUp refunds an order once, and once more for each crash or failed     *)
(* write: the lock of the storno and the refund it records keep a second   *)
(* refund out, in every instance.                                          *)
THEOREM RefundsStayFew == Spec => []RefundsNeedFaults
<1>1. Init => RefundInv
  BY RefundInit
<1>2. Base /\ RefundInv /\ [Next]_vars /\ Base' => RefundInv'
  BY RefundStep
<1>3. RefundInv => RefundsNeedFaults
  BY DEF RefundInv
<1>. QED
  BY <1>1, <1>2, <1>3, BaseAlways, PTL DEF Spec
=============================================================================
