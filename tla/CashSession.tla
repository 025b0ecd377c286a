---------------------------- MODULE CashSession -----------------------------
(***************************************************************************)
(* Cash sessions, the payments made under them and the stock both move:    *)
(* cash-session-payment-claim.ts, cash-session-transition.ts,              *)
(* cash-session-stock.ts, the register actions of pos/actions.ts, the      *)
(* SumUp webhook and the back office actions on sessions and orders.       *)
(*                                                                         *)
(* Three claims keep them apart: a payment claims its session, a close or  *)
(* a reclassification claims the session's transition, and whatever moves  *)
(* the stock of a paid order claims that order.  Session and order claims  *)
(* last CASH_SESSION_TRANSITION_LEASE_MS or WEBHOOK_CLAIM_TTL_MS, then     *)
(* turn stale.                                                             *)
(*                                                                         *)
(* Quantities are left out.  What matters is which units were taken for    *)
(* which order: taken[o][i] counts the decrements of item i for order o    *)
(* less the increments, and a shortage is a choice.                        *)
(***************************************************************************)
EXTENDS Integers, FiniteSets, FiniteSetsExt

CONSTANTS
    Sessions,     \* cash sessions, in order of opening
    RegisterOf,   \* the point of sale of each session
    Orders,       \* orders, in order of creation
    Items,        \* stock entities an order may consume, in cart order
    Requests,     \* requests of registers, back office and SumUp
    Tokens,       \* random UUIDs of transitions
    NoToken,
    StornoToken,  \* the literal "STORNO"
    NoRequest,
    Ops,          \* the kinds of request made in this instance
    Timely,       \* TRUE: a running request always outpaces its claims
    MaxFaults     \* bound: crashed requests and failed writes

NoSession == 0
NoOrder   == 0
AllOps    == {"open", "public", "sale", "card", "complete", "webhook", "close",
              "test", "normal", "delete", "storno"}

ASSUME SessionsAssumption == Sessions \subseteq Nat \ {NoSession}
ASSUME OrdersAssumption   == Orders \subseteq Nat \ {NoOrder} /\ Items \subseteq Nat
ASSUME FiniteAssumption   == IsFiniteSet(Orders) /\ IsFiniteSet(Items)
ASSUME TokensAssumption   == NoToken # StornoToken /\ {NoToken, StornoToken} \cap Tokens = {}
ASSUME RequestsAssumption == NoRequest \notin Requests
ASSUME BoundsAssumption   == Ops \subseteq AllOps /\ Timely \in BOOLEAN /\ MaxFaults \in Nat

VARIABLES
    session,   \* CashSession documents
    order,     \* Order documents
    keys,      \* stockOperationKeys of each item
    act,       \* each request: its handler, how far it is, what it knows
    faults,    \* faults so far
    taken,     \* history: units of each item an order has taken from stock
    paid,      \* history: times an order was recorded as paid
    refunds,   \* history: refunds SumUp made of an order
    counted    \* history: orders in the closing summary of a session

docs    == <<session, order, keys>>
history == <<taken, paid, refunds, counted>>
vars    == <<session, order, keys, act, faults, taken, paid, refunds, counted>>

Effects  == {"APPLIED", "REVERTED"}
Claims   == Tokens \cup {NoToken, StornoToken}
NoTransition == [tok |-> NoToken, type |-> "none", failed |-> FALSE,
                 by |-> NoRequest, fresh |-> FALSE]
Transitions == [tok : Tokens \cup {NoToken}, type : {"none", "close", "test", "normal", "delete"},
                failed : BOOLEAN, by : Requests \cup {NoRequest}, fresh : BOOLEAN]
SessionDocs == [status : {"NONE", "OPEN", "CLOSED", "DELETED"}, isTest : BOOLEAN,
                effect : Effects, trans : Transitions,
                pay : Requests \cup {NoRequest}, payFresh : BOOLEAN]
OrderDocs == [status : {"NEW", "PENDING", "PAID", "CANCELLED", "DELETED"},
              ses : Sessions \cup {NoSession}, card : BOOLEAN, checkout : BOOLEAN,
              hook : Requests \cup {NoRequest}, hookFresh : BOOLEAN,
              adj : SUBSET Items, effect : Effects, claim : Claims, target : Effects,
              storno : {"none", "IN_PROGRESS", "FAILED", "COMPLETED"}, refunded : BOOLEAN,
              ver : Nat]

PayPcs    == {"payClaim", "apply", "rollback", "refresh", "write", "trigger", "link",
              "cancel", "payRelease", "hookRelease"}
ClosePcs  == {"closePending", "closePaid", "unclaim", "closeSum", "closeEnd"}
TestPcs   == {"testPaid", "testPending", "testSet", "testClaim", "testEnd"}
DeletePcs == {"deletePaid", "deleteClaim", "deleteMark", "deleteOrders", "deleteEnd"}
StockPcs  == {"list", "claim", "move", "fail"}
StornoPcs == {"stornoClaim", "refund", "stornoEnd"}
PcsOf(op) == CASE op = "none"               -> {"idle"}
               [] op = "close"              -> ClosePcs \cup StockPcs
               [] op \in {"test", "normal"} -> TestPcs \cup StockPcs
               [] op = "delete"             -> DeletePcs \cup StockPcs
               [] op = "storno"             -> StornoPcs \cup StockPcs
               [] OTHER                     -> PayPcs
Pcs == {"idle"} \cup PayPcs \cup ClosePcs \cup TestPcs \cup DeletePcs \cup StockPcs \cup StornoPcs

RequestStates ==
    [op : AllOps \cup {"none"}, pc : Pcs, ses : Sessions \cup {NoSession},
     ord : Orders \cup {NoOrder}, tok : Claims, todo : SUBSET Orders, left : SUBSET Orders,
     rest : SUBSET Items, plan : [Orders -> SUBSET Items], ver : Nat, flag : BOOLEAN]

(* Every variable has its type, and a request goes through the steps of    *)
(* its own handler only.                                                   *)
TypeOK ==
    /\ session \in [Sessions -> SessionDocs]
    /\ order \in [Orders -> OrderDocs]
    /\ keys \in [Items -> SUBSET ((Tokens \cup {StornoToken}) \X Orders)]
    /\ act \in [Requests -> RequestStates]
    /\ \A a \in Requests : act[a].pc \in PcsOf(act[a].op)
    /\ faults \in 0 .. MaxFaults
    /\ taken \in [Orders -> [Items -> Int]]
    /\ paid \in [Orders -> Nat] /\ refunds \in [Orders -> Nat]
    /\ counted \in [Sessions -> SUBSET Orders]

NewSession == [status |-> "NONE", isTest |-> FALSE, effect |-> "APPLIED",
               trans |-> NoTransition, pay |-> NoRequest, payFresh |-> FALSE]
NewOrder   == [status |-> "NEW", ses |-> NoSession, card |-> FALSE, checkout |-> FALSE,
               hook |-> NoRequest, hookFresh |-> FALSE, adj |-> {}, effect |-> "APPLIED",
               claim |-> NoToken, target |-> "APPLIED", storno |-> "none",
               refunded |-> FALSE, ver |-> 0]
NoPlan     == [o \in Orders |-> {}]
Idle       == [op |-> "none", pc |-> "idle", ses |-> NoSession, ord |-> NoOrder,
               tok |-> NoToken, todo |-> {}, left |-> {}, rest |-> {}, plan |-> NoPlan,
               ver |-> 0, flag |-> FALSE]

Init ==
    /\ session = [s \in Sessions |-> NewSession]
    /\ order = [o \in Orders |-> NewOrder]
    /\ keys = [i \in Items |-> {}]
    /\ act = [a \in Requests |-> Idle]
    /\ faults = 0
    /\ taken = [o \in Orders |-> [i \in Items |-> 0]]
    /\ paid = [o \in Orders |-> 0]
    /\ refunds = [o \in Orders |-> 0]
    /\ counted = [s \in Sessions |-> {}]

-----------------------------------------------------------------------------
(* Who may do what with a session: the filters of its updates.             *)

NoActivePayment(x) == x.pay = NoRequest \/ ~x.payFresh
Payable(x)         == x.status = "OPEN" /\ x.trans = NoTransition
PayClaimable(x)    == Payable(x) /\ NoActivePayment(x)
HoldsPayment(a)    == session[act[a].ses].pay = a

(* A transition is claimed when there is none, or resumed, under its own   *)
(* token, when one of the same type failed or is stale.                    *)
Resumable(x, type) == x.trans.type = type /\ (x.trans.failed \/ ~x.trans.fresh)
Claimable(x, type, t) == \/ x.trans = NoTransition /\ t \in Tokens
                         \/ Resumable(x, type) /\ t = x.trans.tok
ClaimedBy(a, type, t) == [tok |-> t, type |-> type, failed |-> FALSE, by |-> a, fresh |-> TRUE]
HoldsTransition(a) == session[act[a].ses].trans.by = a

UsedTokens == {session[s].trans.tok : s \in Sessions} \cup {act[a].tok : a \in Requests}
              \cup {k[1] : k \in UNION {keys[i] : i \in Items}}
Fresh(t)   == t \in Tokens \ UsedTokens

(* Queries over the orders of a session.                                   *)
OrdersOf(s, st)  == {o \in Orders : order[o].ses = s /\ order[o].status = st}
PendingSumUp(s)  == \E o \in OrdersOf(s, "PENDING") : order[o].checkout
UnrefundedSumUp(s) == \E o \in OrdersOf(s, "PAID") : order[o].checkout

Begin(a, r) == act[a].pc = "idle" /\ r.op \in Ops /\ act' = [act EXCEPT ![a] = r]
Goto(a, pc) == act' = [act EXCEPT ![a].pc = pc]
End(a)      == act' = [act EXCEPT ![a] = Idle]
Request(op, pc, s, o) == [Idle EXCEPT !.op = op, !.pc = pc, !.ses = s, !.ord = o]

Unused(o) == /\ order[o].status = "NEW"
             /\ \A a \in Requests : act[a].ord # o
             /\ \A k \in Orders : k < o => order[k].status # "NEW" \/ \E a \in Requests : act[a].ord = k

-----------------------------------------------------------------------------
(* Opening: the unique index on OPEN sessions decides.                     *)
OpenSession(s) ==
    /\ "open" \in Ops
    /\ session[s].status = "NONE"
    /\ \A t \in Sessions : t < s => session[t].status # "NONE"
    /\ \A t \in Sessions : RegisterOf[t] = RegisterOf[s] => session[t].status # "OPEN"
    /\ session' = [session EXCEPT ![s].status = "OPEN"]
    /\ UNCHANGED <<order, keys, act, faults, history>>

(* An order from the public menu waits for a register: createPublicOrder.  *)
PublicOrder(o) ==
    /\ "public" \in Ops /\ Unused(o)
    /\ order' = [order EXCEPT ![o].status = "PENDING"]
    /\ UNCHANGED <<session, keys, act, faults, history>>

-----------------------------------------------------------------------------
(* Payments.  createOrder starts a sale, or a card payment on the terminal;*)
(* completePendingOrderPayment reads a pending order, whoever created it.  *)

SaleBegin(a, s, o, op) ==
    /\ op \in {"sale", "card"} /\ Unused(o) /\ Payable(session[s])
    /\ Begin(a, Request(op, "payClaim", s, o))
    /\ UNCHANGED <<docs, faults, history>>

CompleteBegin(a, s, o) ==
    /\ Payable(session[s]) /\ order[o].status = "PENDING"
    /\ Begin(a, [Request("complete", "payClaim", s, o) EXCEPT !.ver = order[o].ver])
    /\ UNCHANGED <<docs, faults, history>>

(* A webhook delivery claims the order its checkout belongs to.  flag: the *)
(* first attempt on the stock is strict, a second one overrides.           *)
WebhookBegin(a, o) ==
    /\ order[o].status = "PENDING" /\ order[o].checkout
    /\ order[o].hook = NoRequest \/ ~order[o].hookFresh
    /\ order' = [order EXCEPT ![o].hook = a, ![o].hookFresh = TRUE]
    /\ \E strict \in BOOLEAN :
         Begin(a, [Request("webhook", "payClaim", order[o].ses, o) EXCEPT !.flag = strict])
    /\ UNCHANGED <<session, keys, faults, history>>

PayClaim(a) ==
    LET s == act[a].ses IN
    /\ act[a].pc = "payClaim"
    /\ \/ /\ PayClaimable(session[s])
          /\ session' = [session EXCEPT ![s].pay = a, ![s].payFresh = TRUE]
          /\ \/ /\ session[s].isTest /\ act[a].op \in {"card", "webhook"}
                /\ Goto(a, "payRelease")
             \/ /\ ~session[s].isTest /\ act[a].op = "card"
                /\ \E pc \in {"refresh", "payRelease"} : Goto(a, pc)   \* stock validated or short
             \/ /\ act[a].op # "card" /\ ~(session[s].isTest /\ act[a].op = "webhook")
                /\ act' = [act EXCEPT ![a].pc = "apply", ![a].rest = Items]
       \/ /\ ~PayClaimable(session[s])
          /\ IF act[a].op = "webhook" THEN Goto(a, "hookRelease") ELSE End(a)
          /\ UNCHANGED session
    /\ UNCHANGED <<order, keys, faults, history>>

(* applyStockForPaidOrder, one entity at a time: decremented; untracked or *)
(* overridden at zero; or short, which gives back what was taken.          *)
ApplyItem(a) ==
    /\ act[a].pc = "apply"
    /\ \/ \E i \in act[a].rest :
            /\ \A k \in act[a].rest : i <= k
            /\ \/ /\ taken' = [taken EXCEPT ![act[a].ord][i] = @ + 1]
                  /\ act' = [act EXCEPT ![a].rest = @ \ {i}, ![a].plan[act[a].ord] = @ \cup {i}]
               \/ /\ act' = [act EXCEPT ![a].rest = @ \ {i}]
                  /\ UNCHANGED taken
               \/ /\ Goto(a, "rollback")
                  /\ UNCHANGED taken
       \/ /\ act[a].rest = {}
          /\ Goto(a, "refresh")
          /\ UNCHANGED taken
    /\ UNCHANGED <<docs, faults, paid, refunds, counted>>

(* rollbackStockAdjustments; a strict webhook then tries again.            *)
Rollback(a) ==
    LET o == act[a].ord IN
    /\ act[a].pc = "rollback"
    /\ \/ \E i \in act[a].plan[o] :
            /\ \A k \in act[a].plan[o] : i <= k
            /\ taken' = [taken EXCEPT ![o][i] = @ - 1]
            /\ act' = [act EXCEPT ![a].plan[o] = @ \ {i}]
       \/ /\ act[a].plan[o] = {} /\ act[a].flag
          /\ act' = [act EXCEPT ![a].pc = "apply", ![a].rest = Items, ![a].flag = FALSE]
          /\ UNCHANGED taken
       \/ /\ act[a].plan[o] = {} /\ ~act[a].flag
          /\ Goto(a, "payRelease")
          /\ UNCHANGED taken
    /\ UNCHANGED <<docs, faults, paid, refunds, counted>>

UndoAll(a) == act' = [act EXCEPT ![a].pc = "rollback", ![a].flag = FALSE]

Refresh(a) ==
    LET s == act[a].ses IN
    /\ act[a].pc = "refresh"
    /\ \/ /\ Payable(session[s]) /\ HoldsPayment(a)
          /\ session' = [session EXCEPT ![s].payFresh = TRUE]
          /\ Goto(a, "write")
       \/ /\ ~(Payable(session[s]) /\ HoldsPayment(a))
          /\ UndoAll(a)
          /\ UNCHANGED session
    /\ UNCHANGED <<order, keys, faults, history>>

Paid(r, adj) == [r EXCEPT !.status = "PAID", !.adj = adj, !.effect = "APPLIED"]
Recorded(a)  == /\ paid' = [paid EXCEPT ![act[a].ord] = @ + 1]
                /\ act' = [act EXCEPT ![a].pc = "payRelease", ![a].plan = NoPlan]

(* Order.create, order.save and the webhook's updateOne.  save() writes    *)
(* arrays, so mongoose guards it by the version it read, which only other  *)
(* saves advance; it checks no status.                                     *)
WriteSale(a) ==
    /\ act[a].pc = "write" /\ act[a].op = "sale"
    /\ order' = [order EXCEPT ![act[a].ord] =
                    [Paid(@, act[a].plan[act[a].ord]) EXCEPT !.ses = act[a].ses]]
    /\ Recorded(a)
    /\ UNCHANGED <<session, keys, faults, taken, refunds, counted>>

WriteCard(a) ==
    /\ act[a].pc = "write" /\ act[a].op = "card"
    /\ order' = [order EXCEPT ![act[a].ord].status = "PENDING",
                              ![act[a].ord].ses = act[a].ses, ![act[a].ord].card = TRUE]
    /\ Goto(a, "trigger")
    /\ UNCHANGED <<session, keys, faults, history>>

UnchangedAny(a, o) == order[o].status # "DELETED"                      \* mutant
Unchanged(a, o) == order[o].status # "DELETED" /\ order[o].ver = act[a].ver

WriteComplete(a) ==
    LET o == act[a].ord IN
    /\ act[a].pc = "write" /\ act[a].op = "complete"
    /\ \/ /\ Unchanged(a, o)
          /\ order' = [order EXCEPT ![o] = [Paid(@, act[a].plan[o]) EXCEPT
                          !.ses = act[a].ses, !.card = FALSE, !.ver = order[o].ver + 1]]
          /\ Recorded(a)
       \/ /\ ~Unchanged(a, o)
          /\ UndoAll(a)
          /\ UNCHANGED <<order, paid>>
    /\ UNCHANGED <<session, keys, faults, taken, refunds, counted>>

StillAny(a, o) == TRUE                                                 \* mutant
StillMine(a, o) == order[o].status = "PENDING" /\ order[o].hook = a

WriteWebhook(a) ==
    LET o == act[a].ord IN
    /\ act[a].pc = "write" /\ act[a].op = "webhook"
    /\ \/ /\ StillMine(a, o)
          /\ order' = [order EXCEPT ![o] = [Paid(@, act[a].plan[o]) EXCEPT
                          !.hook = NoRequest, !.hookFresh = FALSE]]
          /\ Recorded(a)
       \/ /\ ~StillMine(a, o)
          /\ UndoAll(a)
          /\ UNCHANGED <<order, paid>>
    /\ UNCHANGED <<session, keys, faults, taken, refunds, counted>>

WriteFails(a) ==
    /\ act[a].pc = "write" /\ faults < MaxFaults
    /\ faults' = faults + 1
    /\ UndoAll(a)
    /\ UNCHANGED <<docs, history>>

(* The terminal checkout of a card payment.                                *)
Trigger(a) ==
    /\ act[a].pc = "trigger"
    /\ \E pc \in {"link", "cancel"} : Goto(a, pc)
    /\ UNCHANGED <<docs, faults, history>>

Link(a) ==
    /\ act[a].pc = "link"
    /\ \/ /\ order[act[a].ord].status = "PENDING"
          /\ order' = [order EXCEPT ![act[a].ord].checkout = TRUE]
          /\ Goto(a, "payRelease")
       \/ /\ order[act[a].ord].status # "PENDING"
          /\ Goto(a, "cancel")
          /\ UNCHANGED order
    /\ UNCHANGED <<session, keys, faults, history>>

Cancel(a) ==
    /\ act[a].pc = "cancel"
    /\ order' = [order EXCEPT ![act[a].ord].status = IF @ = "PENDING" THEN "CANCELLED" ELSE @]
    /\ Goto(a, "payRelease")
    /\ UNCHANGED <<session, keys, faults, history>>

PayRelease(a) ==
    /\ act[a].pc = "payRelease"
    /\ session' = IF HoldsPayment(a)
                  THEN [session EXCEPT ![act[a].ses].pay = NoRequest, ![act[a].ses].payFresh = FALSE]
                  ELSE session
    /\ IF act[a].op = "webhook" THEN Goto(a, "hookRelease") ELSE End(a)
    /\ UNCHANGED <<order, keys, faults, history>>

HookRelease(a) ==
    /\ act[a].pc = "hookRelease"
    /\ order' = [order EXCEPT ![act[a].ord] =
                    IF @.hook = a THEN [@ EXCEPT !.hook = NoRequest, !.hookFresh = FALSE] ELSE @]
    /\ End(a)
    /\ UNCHANGED <<session, keys, faults, history>>

-----------------------------------------------------------------------------
(* transitionCashSessionStock and transitionClaimedOrderStock: the paid    *)
(* orders of the session are listed with what they took, every one is      *)
(* claimed, then their entities are moved one by one, each move marked in  *)
(* the entity with the key token:order.                                    *)

Target(a) == IF act[a].op = "normal" THEN "APPLIED" ELSE "REVERTED"
Effective(o) == IF order[o].effect = "REVERTED" THEN {} ELSE order[o].adj
AfterStockClose(op) == IF op = "close" THEN "closeSum" ELSE "deleteMark"   \* mutant
AfterStock(op) == CASE op = "close"  -> "closeSum"   [] op = "delete" -> "deleteMark"
                    [] op = "storno" -> "stornoEnd"  [] OTHER         -> "testEnd"

StockList(a) ==
    LET found == {o \in OrdersOf(act[a].ses, "PAID") : order[o].effect # Target(a)} IN
    /\ act[a].pc = "list"
    /\ \/ act' = [act EXCEPT ![a].pc = "claim", ![a].todo = found, ![a].left = found,
                      ![a].plan = [o \in Orders |-> IF o \in found THEN order[o].adj ELSE {}]]
       \/ /\ Target(a) = "APPLIED" /\ found # {}            \* aggregate shortage
          /\ Goto(a, "fail")
    /\ UNCHANGED <<docs, faults, history>>

ClaimOwn(o, t, target) == order[o].claim = t /\ order[o].target = target
ClaimFree(o, t, target)    == order[o].claim = NoToken \/ ClaimOwn(o, t, target)

ClaimAny(a, o) == TRUE                                                 \* mutant
ClaimOk(a, o) == /\ order[o].status = "PAID" /\ order[o].effect # Target(a)
                 /\ ClaimFree(o, act[a].tok, Target(a))

(* The entities of the first of S, when S is not empty.                    *)
FirstPlan(a, S) == IF S = {} THEN {} ELSE act[a].plan[Min(S)]

StockClaim(a) ==
    LET todo == act[a].todo  left == act[a].left IN
    /\ act[a].pc = "claim"
    /\ \/ /\ left # {} /\ ClaimOk(a, Min(left))
          /\ order' = [order EXCEPT ![Min(left)].claim = act[a].tok,
                                    ![Min(left)].target = Target(a)]
          /\ act' = [act EXCEPT ![a].left = left \ {Min(left)}]
       \/ /\ left # {} /\ ~ClaimOk(a, Min(left))
          /\ Goto(a, "fail")
          /\ UNCHANGED order
       \/ /\ left = {}
          /\ act' = [act EXCEPT ![a].pc = IF todo = {} THEN AfterStock(act[a].op) ELSE "move",
                                ![a].left = todo, ![a].rest = FirstPlan(a, todo)]
          /\ UNCHANGED order
    /\ UNCHANGED <<session, keys, faults, history>>

Seen(a, o, i) == <<act[a].tok, o>> \in keys[i]

StockMove(a) ==
    LET o == Min(act[a].left) IN
    /\ act[a].pc = "move" /\ act[a].rest # {}
    /\ LET i == Min(act[a].rest) IN
       \/ /\ ~Seen(a, o, i)
          /\ keys' = [keys EXCEPT ![i] = @ \cup {<<act[a].tok, o>>}]
          /\ taken' = [taken EXCEPT ![o][i] = IF Target(a) = "APPLIED" THEN @ + 1 ELSE @ - 1]
          /\ act' = [act EXCEPT ![a].rest = @ \ {i}]
       \/ /\ Seen(a, o, i)
          /\ act' = [act EXCEPT ![a].rest = @ \ {i}]
          /\ UNCHANGED <<keys, taken>>
       \/ /\ ~Seen(a, o, i) /\ Target(a) = "APPLIED"       \* short by now
          /\ Goto(a, "fail")
          /\ UNCHANGED <<keys, taken>>
    /\ UNCHANGED <<session, order, faults, paid, refunds, counted>>

(* One order done: its effect is recorded and, but for a storno, its claim *)
(* given up.  A miss is excused when the effect is already there.          *)
StockDone(a) ==
    LET o == Min(act[a].left)
        left == act[a].left \ {o}
        mine == order[o].effect # Target(a) /\ ClaimOwn(o, act[a].tok, Target(a)) IN
    /\ act[a].pc = "move" /\ act[a].rest = {}
    /\ order' = IF mine
                THEN [order EXCEPT ![o].effect = Target(a),
                                   ![o].claim = IF act[a].op = "storno" THEN @ ELSE NoToken]
                ELSE order
    /\ act' = [act EXCEPT ![a] =
          IF mine \/ (order[o].status # "DELETED" /\ order[o].effect = Target(a))
          THEN [@ EXCEPT !.pc = IF left = {} THEN AfterStock(act[a].op) ELSE "move",
                         !.left = left, !.rest = FirstPlan(a, left)]
          ELSE [@ EXCEPT !.pc = "fail"]]
    /\ UNCHANGED <<session, keys, faults, history>>

StockFailForgets(a) ==                                                 \* mutant
    /\ act[a].pc = "fail"
    /\ session' = IF act[a].op # "storno" /\ HoldsTransition(a)
                  THEN [session EXCEPT ![act[a].ses].trans = NoTransition] ELSE session
    /\ End(a)
    /\ UNCHANGED <<order, keys, faults, history>>

(* The transition stays behind as FAILED, a storno with its refund.        *)
StockFail(a) ==
    /\ act[a].pc = "fail"
    /\ \/ /\ act[a].op # "storno"
          /\ session' = IF HoldsTransition(a)
                        THEN [session EXCEPT ![act[a].ses].trans.failed = TRUE] ELSE session
          /\ UNCHANGED order
       \/ /\ act[a].op = "storno"
          /\ order' = [order EXCEPT ![act[a].ord].storno = "FAILED",
                                    ![act[a].ord].refunded = act[a].flag]
          /\ UNCHANGED session
    /\ End(a)
    /\ UNCHANGED <<keys, faults, history>>

-----------------------------------------------------------------------------
(* closeCashSession.                                                       *)

(* Claiming the transition s for request a; read and update are one step,  *)
(* for the update is guarded by everything that was read.                  *)
ClaimTransition(a, s, type, t) ==
    /\ Claimable(session[s], type, t)
    /\ session[s].trans = NoTransition => Fresh(t)
    /\ session' = [session EXCEPT ![s].trans = ClaimedBy(a, type, t)]

Unpaying(s) == [session EXCEPT ![s].pay = NoRequest, ![s].payFresh = FALSE]   \* unset paymentClaim

CloseAnyway(s) == session[s].status = "OPEN"                           \* mutant
Closable(s) == session[s].status = "OPEN" /\ NoActivePayment(session[s])

CloseBegin(a, s, t) ==
    /\ Closable(s)
    /\ Claimable(session[s], "close", t)
    /\ session[s].trans = NoTransition => Fresh(t)
    /\ session' = [Unpaying(s) EXCEPT ![s].trans = ClaimedBy(a, "close", t)]
    /\ Begin(a, [Request("close", "closePending", s, NoOrder) EXCEPT !.tok = t])
    /\ UNCHANGED <<order, keys, faults, history>>

ClosePending(a) ==
    LET s == act[a].ses IN
    /\ act[a].pc = "closePending"
    /\ Goto(a, IF PendingSumUp(s) THEN "unclaim"
               ELSE IF session[s].isTest THEN "closePaid" ELSE "closeSum")
    /\ UNCHANGED <<docs, faults, history>>

ClosePaid(a) ==
    /\ act[a].pc = "closePaid"
    /\ Goto(a, IF UnrefundedSumUp(act[a].ses) THEN "unclaim" ELSE "list")
    /\ UNCHANGED <<docs, faults, history>>

Unclaim(a) ==
    /\ act[a].pc = "unclaim"
    /\ session' = IF HoldsTransition(a)
                  THEN [session EXCEPT ![act[a].ses].trans = NoTransition] ELSE session
    /\ End(a)
    /\ UNCHANGED <<order, keys, faults, history>>

(* computeSummaryForCashSession counts the paid orders, then they are      *)
(* written with the CLOSED status.                                         *)
CloseSum(a) ==
    /\ act[a].pc = "closeSum"
    /\ act' = [act EXCEPT ![a].pc = "closeEnd", ![a].todo = OrdersOf(act[a].ses, "PAID")]
    /\ UNCHANGED <<docs, faults, history>>

CloseEnd(a) ==
    LET s == act[a].ses IN
    /\ act[a].pc = "closeEnd"
    /\ \/ /\ HoldsTransition(a) /\ session[s].status = "OPEN"
          /\ session' = [session EXCEPT ![s].status = "CLOSED", ![s].trans = NoTransition,
                           ![s].effect = IF session[s].isTest THEN "REVERTED" ELSE "APPLIED"]
          /\ counted' = [counted EXCEPT ![s] = act[a].todo]
       \/ /\ ~(HoldsTransition(a) /\ session[s].status = "OPEN")
          /\ UNCHANGED <<session, counted>>
    /\ End(a)
    /\ UNCHANGED <<order, keys, faults, taken, paid, refunds>>

-----------------------------------------------------------------------------
(* setCashSessionTestAction: the checks come first, then an OPEN session   *)
(* is simply marked and a CLOSED one goes through a stock transition.      *)

TestOp(isTest) == IF isTest THEN "test" ELSE "normal"

(* flag: the session was read as OPEN.                                     *)
TestBegin(a, s, isTest) ==
    /\ session[s].status \in {"OPEN", "CLOSED"} /\ session[s].isTest # isTest
    /\ LET open == session[s].status = "OPEN" IN
       Begin(a, [Request(TestOp(isTest),
                         IF isTest THEN "testPaid" ELSE IF open THEN "testSet" ELSE "testClaim",
                         s, NoOrder) EXCEPT !.flag = open])
    /\ UNCHANGED <<docs, faults, history>>

TestPaid(a) ==
    /\ act[a].pc = "testPaid"
    /\ IF UnrefundedSumUp(act[a].ses) THEN End(a)
       ELSE Goto(a, IF act[a].flag THEN "testPending" ELSE "testClaim")
    /\ UNCHANGED <<docs, faults, history>>

TestPending(a) ==
    /\ act[a].pc = "testPending"
    /\ IF PendingSumUp(act[a].ses) THEN End(a) ELSE Goto(a, "testSet")
    /\ UNCHANGED <<docs, faults, history>>

TestSet(a) ==
    LET s == act[a].ses IN
    /\ act[a].pc = "testSet"
    /\ session' = IF PayClaimable(session[s])
                  THEN [Unpaying(s) EXCEPT ![s].isTest = (act[a].op = "test")] ELSE session
    /\ End(a)
    /\ UNCHANGED <<order, keys, faults, history>>

TestClaim(a, t) ==
    LET s == act[a].ses IN
    /\ act[a].pc = "testClaim"
    /\ \/ /\ session[s].status = "CLOSED" /\ session[s].isTest # (act[a].op = "test")
          /\ ClaimTransition(a, s, act[a].op, t)
          /\ act' = [act EXCEPT ![a].pc = "list", ![a].tok = t]
       \/ /\ \/ session[s].status # "CLOSED"
             \/ session[s].isTest = (act[a].op = "test")
             \/ session[s].trans # NoTransition /\ ~Resumable(session[s], act[a].op)
          /\ End(a)
          /\ UNCHANGED session
    /\ UNCHANGED <<order, keys, faults, history>>

TestEnd(a) ==
    LET s == act[a].ses IN
    /\ act[a].pc = "testEnd"
    /\ session' = IF HoldsTransition(a)
                  THEN [session EXCEPT ![s].isTest = (act[a].op = "test"),
                           ![s].effect = Target(a), ![s].trans = NoTransition]
                  ELSE session
    /\ End(a)
    /\ UNCHANGED <<order, keys, faults, history>>

-----------------------------------------------------------------------------
(* deleteCashSessionAction.                                                *)

DeleteBegin(a, s) ==
    /\ session[s].status = "CLOSED"
    /\ Begin(a, Request("delete", "deletePaid", s, NoOrder))
    /\ UNCHANGED <<docs, faults, history>>

DeletePaid(a) ==
    /\ act[a].pc = "deletePaid"
    /\ IF UnrefundedSumUp(act[a].ses) THEN End(a) ELSE Goto(a, "deleteClaim")
    /\ UNCHANGED <<docs, faults, history>>

DeleteClaim(a, t) ==
    LET s == act[a].ses IN
    /\ act[a].pc = "deleteClaim"
    /\ \/ /\ session[s].status = "CLOSED"
          /\ ClaimTransition(a, s, "delete", t)
          /\ act' = [act EXCEPT ![a].tok = t,
                        ![a].pc = IF session[s].effect = "REVERTED" THEN "deleteOrders" ELSE "list"]
       \/ /\ \/ session[s].status # "CLOSED"
             \/ session[s].trans # NoTransition /\ ~Resumable(session[s], "delete")
          /\ End(a)
          /\ UNCHANGED session
    /\ UNCHANGED <<order, keys, faults, history>>

DeleteMark(a) ==
    /\ act[a].pc = "deleteMark"
    /\ session' = IF HoldsTransition(a)
                  THEN [session EXCEPT ![act[a].ses].effect = "REVERTED"] ELSE session
    /\ Goto(a, "deleteOrders")
    /\ UNCHANGED <<order, keys, faults, history>>

DeleteOrders(a) ==
    /\ act[a].pc = "deleteOrders"
    /\ order' = [o \in Orders |-> IF order[o].ses = act[a].ses
                                  THEN [NewOrder EXCEPT !.status = "DELETED"] ELSE order[o]]
    /\ Goto(a, "deleteEnd")
    /\ UNCHANGED <<session, keys, faults, history>>

DeleteEnd(a) ==
    /\ act[a].pc = "deleteEnd"
    /\ session' = IF HoldsTransition(a)
                  THEN [session EXCEPT ![act[a].ses] = [NewSession EXCEPT !.status = "DELETED"]]
                  ELSE session
    /\ End(a)
    /\ UNCHANGED <<order, keys, faults, history>>

-----------------------------------------------------------------------------
(* stornoPaidOrderById.                                                    *)

LockableAny(o) == order[o].status = "PAID" /\ order[o].storno # "COMPLETED"   \* mutant
Lockable(o) == order[o].status = "PAID" /\ order[o].storno \in {"none", "FAILED"}

StornoBegin(a, o) ==
    /\ Lockable(o)
    /\ order' = [order EXCEPT ![o].storno = "IN_PROGRESS"]
    /\ Begin(a, [Request("storno", "stornoClaim", NoSession, o) EXCEPT !.tok = StornoToken])
    /\ UNCHANGED <<session, keys, faults, history>>

StornoClaim(a) ==
    LET o == act[a].ord
        free == /\ order[o].status = "PAID" /\ order[o].storno = "IN_PROGRESS"
                /\ ClaimFree(o, StornoToken, "REVERTED") IN
    /\ act[a].pc = "stornoClaim"
    /\ \/ /\ free
          /\ order' = [order EXCEPT ![o].claim = StornoToken, ![o].target = "REVERTED"]
          /\ act' = [act EXCEPT ![a].pc = IF order[o].card /\ ~order[o].refunded
                                          THEN "refund" ELSE "move",
                        ![a].flag = order[o].refunded, ![a].left = {o},
                        ![a].plan[o] = Effective(o), ![a].rest = Effective(o)]
       \/ /\ ~free
          /\ order' = [order EXCEPT ![o].storno = IF @ = "IN_PROGRESS" THEN "FAILED" ELSE @]
          /\ End(a)
    /\ UNCHANGED <<session, keys, faults, history>>

(* flag: the refund went through, now or in an earlier attempt.  A refusal *)
(* leaves the order's claim behind.                                        *)
Refund(a) ==
    /\ act[a].pc = "refund"
    /\ \/ /\ refunds' = [refunds EXCEPT ![act[a].ord] = @ + 1]
          /\ act' = [act EXCEPT ![a].pc = "move", ![a].flag = TRUE]
          /\ UNCHANGED order
       \/ /\ order' = [order EXCEPT ![act[a].ord].storno =
                          IF order[act[a].ord].status = "DELETED" THEN @ ELSE "FAILED"]
          /\ End(a)
          /\ UNCHANGED refunds
    /\ UNCHANGED <<session, keys, faults, taken, paid, counted>>

StornoEnd(a) ==
    /\ act[a].pc = "stornoEnd"
    /\ order' = [order EXCEPT ![act[a].ord] =
          IF @.status = "DELETED" THEN @
          ELSE [@ EXCEPT !.status = "CANCELLED", !.storno = "COMPLETED", !.refunded = act[a].flag,
                         !.effect = "REVERTED", !.claim = NoToken]]
    /\ End(a)
    /\ UNCHANGED <<session, keys, faults, history>>

(* The last write throws: the outer catch reports FAILED, without refund.  *)
StornoThrows(a) ==
    /\ act[a].pc = "stornoEnd" /\ faults < MaxFaults
    /\ faults' = faults + 1
    /\ order' = [order EXCEPT ![act[a].ord].storno = IF @ = "IN_PROGRESS" THEN "FAILED" ELSE @]
    /\ End(a)
    /\ UNCHANGED <<session, keys, history>>

-----------------------------------------------------------------------------
(* The environment.  A crash forgets a request: its claims stay.  taken    *)
(* counts the units an order or a running request answers for; what a      *)
(* crashed payment had taken from stock no one will give back, and it      *)
(* leaves the ledger.                                                      *)

Crash(a) ==
    /\ act[a].pc # "idle" /\ faults < MaxFaults
    /\ faults' = faults + 1
    /\ taken' = IF act[a].pc \in PayPcs
                THEN [taken EXCEPT ![act[a].ord] =
                         [i \in Items |-> IF i \in act[a].plan[act[a].ord] THEN @[i] - 1 ELSE @[i]]]
                ELSE taken
    /\ End(a)
    /\ UNCHANGED <<docs, paid, refunds, counted>>

(* Claims turn stale with time; those of a timely request do not.          *)
PayHolder(s)  == \E a \in Requests : /\ session[s].pay = a /\ act[a].ses = s
                                     /\ act[a].pc \in PayPcs \ {"payClaim", "hookRelease"}
HookHolder(o) == \E a \in Requests : order[o].hook = a /\ act[a].ord = o /\ act[a].op = "webhook"
TransHolder(s) == \E a \in Requests :
                    /\ session[s].trans.by = a /\ act[a].ses = s
                    /\ act[a].pc \in ClosePcs \cup StockPcs \cup {"testEnd"}
                                       \cup (DeletePcs \ {"deletePaid", "deleteClaim"})

ExpirePayNever(s) == session[s].payFresh /\ FALSE /\ UNCHANGED vars     \* mutant
ExpirePay(s) ==
    /\ session[s].payFresh /\ (Timely => ~PayHolder(s))
    /\ session' = [session EXCEPT ![s].payFresh = FALSE]
    /\ UNCHANGED <<order, keys, act, faults, history>>

ExpireTransition(s) ==
    /\ session[s].trans.fresh /\ (Timely => ~TransHolder(s))
    /\ session' = [session EXCEPT ![s].trans.fresh = FALSE]
    /\ UNCHANGED <<order, keys, act, faults, history>>

ExpireHook(o) ==
    /\ order[o].hookFresh /\ (Timely => ~HookHolder(o))
    /\ order' = [order EXCEPT ![o].hookFresh = FALSE]
    /\ UNCHANGED <<session, keys, act, faults, history>>

-----------------------------------------------------------------------------
BeginPayment(a) ==
    \/ \E s \in Sessions, o \in Orders :
         \/ \E op \in {"sale", "card"} : SaleBegin(a, s, o, op)
         \/ CompleteBegin(a, s, o)
    \/ \E o \in Orders : WebhookBegin(a, o)

PayStep(a) == PayClaim(a) \/ ApplyItem(a) \/ Rollback(a) \/ Refresh(a) \/ WriteSale(a)
                \/ WriteCard(a) \/ WriteComplete(a) \/ WriteWebhook(a) \/ WriteFails(a)
                \/ Trigger(a) \/ Link(a) \/ Cancel(a) \/ PayRelease(a) \/ HookRelease(a)

StockStep(a) == StockList(a) \/ StockClaim(a) \/ StockMove(a) \/ StockDone(a) \/ StockFail(a)

CloseStep(a) == ClosePending(a) \/ ClosePaid(a) \/ Unclaim(a) \/ CloseSum(a) \/ CloseEnd(a)

TestStep(a) == \/ TestPaid(a) \/ TestPending(a) \/ TestSet(a) \/ TestEnd(a)
               \/ \E t \in Tokens : TestClaim(a, t)

DeleteStep(a) == \/ DeletePaid(a) \/ DeleteMark(a) \/ DeleteOrders(a) \/ DeleteEnd(a)
                 \/ \E t \in Tokens : DeleteClaim(a, t)

StornoStep(a) == StornoClaim(a) \/ Refund(a) \/ StornoEnd(a) \/ StornoThrows(a)

BeginManagement(a) ==
    \/ \E s \in Sessions, t \in Tokens : CloseBegin(a, s, t)
    \/ \E s \in Sessions, isTest \in BOOLEAN : TestBegin(a, s, isTest)
    \/ \E s \in Sessions : DeleteBegin(a, s)
    \/ \E o \in Orders : StornoBegin(a, o)

Step(a) == \/ PayStep(a) \/ StockStep(a) \/ CloseStep(a) \/ TestStep(a)
           \/ DeleteStep(a) \/ StornoStep(a)

Next ==
    \/ \E s \in Sessions : OpenSession(s) \/ ExpirePay(s) \/ ExpireTransition(s)
    \/ \E o \in Orders : PublicOrder(o) \/ ExpireHook(o)
    \/ \E a \in Requests : BeginPayment(a) \/ BeginManagement(a) \/ Step(a) \/ Crash(a)

Spec == Init /\ [][Next]_vars

(* A request under way runs on and time passes; nobody need begin one.     *)
Fairness ==
    /\ \A a \in Requests : WF_vars(Step(a))
    /\ \A s \in Sessions : WF_vars(ExpirePay(s)) /\ WF_vars(ExpireTransition(s))
    /\ \A o \in Orders : WF_vars(ExpireHook(o))

FairSpec == Spec /\ Fairness
-----------------------------------------------------------------------------
(* Properties.                                                             *)

(* A closing summary misses no payment: whatever is paid in a closed       *)
(* session was counted when it was closed.  The short claim on the session *)
(* keeps a close out of the persistence of a payment.                      *)
ClosedBooksAreComplete ==
    \A s \in Sessions : session[s].status = "CLOSED" => OrdersOf(s, "PAID") \subseteq counted[s]

(* No request holds the stock of the order, and none is at work on it.     *)
Working(a, o) == act[a].pc # "idle" /\ (act[a].ord = o \/ o \in act[a].todo)
Quiet(o) == order[o].claim = NoToken /\ \A a \in Requests : ~Working(a, o)

(* The stock an order took is what its document says it took, through      *)
(* payments, rollbacks, stornos, reclassifications, their failures and     *)
(* their retries; and not even half way is a unit given back or taken      *)
(* twice.                                                                  *)
StockMatchesOrders ==
    \A o \in Orders : paid[o] <= 1 =>
        \A i \in Items :
            /\ taken[o][i] \in {0, 1}
            /\ Quiet(o) => taken[o][i] =
                  IF order[o].status = "PAID" /\ order[o].effect = "APPLIED" /\ i \in order[o].adj
                  THEN 1 ELSE 0

(* Once a session is settled, so is the stock of each of its orders: given *)
(* back in a TEST session, taken in any other.                             *)
TestBooksAreReverted ==
    \A s \in Sessions : session[s].status = "CLOSED" /\ session[s].trans = NoTransition =>
        \A o \in OrdersOf(s, "PAID") :
            order[o].claim # StornoToken =>
                order[o].effect = IF session[s].isTest THEN "REVERTED" ELSE "APPLIED"

(* An order becomes PAID once: a closed order is not completed again.      *)
PaidOnce == \A o \in Orders : paid[o] <= 1

(* No order is in the closing summaries of two sessions.                   *)
BooksAreDisjoint ==
    \A s, t \in Sessions : s # t => counted[s] \cap counted[t] = {}

(* SumUp is asked to refund an order once, and once more for each time the *)
(* record of a refund failed.                                              *)
RefundsNeedFaults == \A o \in Orders : refunds[o] <= 1 + faults

(* Whatever crashes, a session's claims give way again and again: to a     *)
(* payment, and to the next attempt at a transition.                       *)
SessionsComeFree ==
    \A s \in Sessions : /\ []<>NoActivePayment(session[s])
                        /\ []<>(session[s].trans.failed \/ ~session[s].trans.fresh)
=============================================================================
