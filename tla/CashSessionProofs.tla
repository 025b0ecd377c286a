------------------------- MODULE CashSessionProofs -------------------------
(***************************************************************************)
(* Cash sessions in every instance of CashSession, with any sessions,      *)
(* orders, requests and tokens: type correctness. The inductive invariant  *)
(* Base says what a request at a step knows: which order and session it is *)
(* at, and that a sale is alone with an order that is not written yet.     *)
(* What payments, refunds and summaries owe to an order is built on it in  *)
(* CashSessionBooksProofs and CashSessionClosingProofs.                    *)
(***************************************************************************)
EXTENDS CashSession, FiniteSetTheorems, TLAPS

PayOps     == {"sale", "card", "complete", "webhook"}
SessionOps == {"close", "test", "normal", "delete"}
PreWrite   == {"payClaim", "apply", "rollback", "refresh", "write"}
Terminal   == {"trigger", "link", "cancel"}

OrderOK(d) ==
    /\ d.status = "NEW" => d = NewOrder
    /\ d.card \/ d.checkout => d.ses \in Sessions

(* A request r and the document d of its order.                            *)
Fits(r, d) ==
    /\ r.op \in PayOps \cup SessionOps \cup {"storno", "none"}
    /\ r.op \in PayOps => r.ord \in Orders /\ r.ses \in Sessions
    /\ r.op \in SessionOps => r.ses \in Sessions
    /\ r.op = "close" \/ (r.op \in SessionOps /\ r.pc \in StockPcs) => r.tok \in Tokens
    /\ r.op = "storno" => /\ r.ord \in Orders /\ r.tok = StornoToken /\ r.pc \notin {"list", "claim"}
                          /\ d.status \notin {"NEW", "PENDING"}
                          /\ r.pc \in {"refund", "move"} => r.left = {r.ord}
    /\ r.op = "none" => r = Idle
    /\ r.pc = "move" => r.left # {}
    /\ r.op \in {"sale", "card"} /\ r.pc \in PreWrite => d.status = "NEW"
    /\ r.op \in {"complete", "webhook"} => d.status # "NEW"
    /\ r.pc \in Terminal => /\ r.op = "card" /\ d.status # "NEW"
                            /\ d.status = "PENDING" => d.ses = r.ses /\ d.card

RequestsFit == \A a \in Requests : Fits(act[a], order[act[a].ord])

(* An order that is not written yet belongs to one request.                *)
Reserved == \A a \in Requests : act[a].op \in {"sale", "card"} /\ act[a].pc \in PreWrite =>
                \A b \in Requests \ {a} : act[b].ord # act[a].ord

Base == TypeOK /\ (\A o \in Orders : OrderOK(order[o])) /\ RequestsFit /\ Reserved
-----------------------------------------------------------------------------
RestOK ==
    /\ keys \in [Items -> SUBSET ((Tokens \cup {StornoToken}) \X Orders)]
    /\ faults \in 0 .. MaxFaults
    /\ taken \in [Orders -> [Items -> Int]]
    /\ paid \in [Orders -> Nat] /\ refunds \in [Orders -> Nat]
    /\ counted \in [Sessions -> SUBSET Orders]

LEMMA TypeParts ==
    TypeOK <=> /\ session \in [Sessions -> SessionDocs] /\ order \in [Orders -> OrderDocs]
               /\ act \in [Requests -> RequestStates]
               /\ \A a \in Requests : act[a].pc \in PcsOf(act[a].op)
               /\ RestOK
BY DEF TypeOK, RestOK

LEMMA RestUnchanged == ASSUME RestOK, UNCHANGED <<keys, faults, history>> PROVE RestOK'
BY DEF RestOK, history

LEMMA Consts == /\ Sessions \subseteq Nat /\ NoSession \notin Sessions
                /\ Orders \subseteq Nat /\ NoOrder \notin Orders /\ Items \subseteq Nat
                /\ NoToken \notin Tokens /\ StornoToken \notin Tokens /\ NoToken # StornoToken
                /\ NoRequest \notin Requests
BY SessionsAssumption, OrdersAssumption, TokensAssumption, RequestsAssumption

(* The steps of each handler.                                              *)
LEMMA PcOps ==
    ASSUME NEW op \in PayOps \cup SessionOps \cup {"storno", "none"}, NEW pc \in PcsOf(op)
    PROVE  /\ op \in PayOps <=> pc \in PayPcs
           /\ op = "none" <=> pc = "idle"
           /\ pc \in ClosePcs => op = "close"
           /\ pc \in TestPcs => op \in {"test", "normal"}
           /\ pc \in DeletePcs => op = "delete"
           /\ pc \in StornoPcs => op = "storno"
           /\ pc \in StockPcs => op \in SessionOps \cup {"storno"}
           /\ pc \in Pcs
<1>1. CASE op \in PayOps
  <2>1. PcsOf(op) = PayPcs
    BY <1>1 DEF PcsOf, PayOps
  <2>. QED
    BY <1>1, <2>1 DEF PayOps, PayPcs, ClosePcs, TestPcs, DeletePcs, StockPcs, StornoPcs, Pcs
<1>2. CASE op = "none"
  BY <1>2 DEF PcsOf, PayOps, PayPcs, ClosePcs, TestPcs, DeletePcs, StockPcs, StornoPcs, Pcs
<1>3. CASE op = "close"
  BY <1>3 DEF PcsOf, PayOps, SessionOps, PayPcs, ClosePcs, TestPcs, DeletePcs, StockPcs, StornoPcs, Pcs
<1>4. CASE op \in {"test", "normal"}
  BY <1>4 DEF PcsOf, PayOps, SessionOps, PayPcs, ClosePcs, TestPcs, DeletePcs, StockPcs, StornoPcs, Pcs
<1>5. CASE op = "delete"
  BY <1>5 DEF PcsOf, PayOps, SessionOps, PayPcs, ClosePcs, TestPcs, DeletePcs, StockPcs, StornoPcs, Pcs
<1>6. CASE op = "storno"
  BY <1>6 DEF PcsOf, PayOps, SessionOps, PayPcs, ClosePcs, TestPcs, DeletePcs, StockPcs, StornoPcs, Pcs
<1>. QED
  BY <1>1, <1>2, <1>3, <1>4, <1>5, <1>6 DEF SessionOps

LEMMA IdleOK == /\ NoPlan \in [Orders -> SUBSET Items]
                /\ Idle \in RequestStates /\ Idle.pc \in PcsOf(Idle.op) /\ Idle.ord = NoOrder
                /\ Idle.op = "none" /\ Idle.pc = "idle" /\ \A d : Fits(Idle, d)
<1>1. NoPlan \in [Orders -> SUBSET Items]
  BY DEF NoPlan
<1>2. Idle \in RequestStates /\ Idle.op = "none" /\ Idle.pc = "idle" /\ Idle.ord = NoOrder
  BY <1>1 DEF Idle, RequestStates, AllOps, Pcs, Claims
<1>3. Idle.pc \in PcsOf(Idle.op)
  BY <1>2 DEF PcsOf
<1>. QED
  BY <1>1, <1>2, <1>3 DEF Fits, PayOps, SessionOps, PreWrite, Terminal

(* What every step but a first write does to the document of an order.     *)
Benign(d, e) ==
    /\ d.status = "NEW" <=> e.status = "NEW"
    /\ d.status = "NEW" => e = d
    /\ e.status = "PENDING" => d.status = "PENDING" /\ e.ses = d.ses /\ e.card = d.card
    /\ e.card \/ e.checkout => e.ses \in Sessions

BenignStep == \A o \in Orders : Benign(order[o], order'[o])

(* or to that of an order only the request at work knows.                  *)
BenignBut(a) == \A o \in Orders : \/ Benign(order[o], order'[o])
                                  \/ /\ OrderOK(order'[o])
                                     /\ \A b \in Requests \ {a} : act[b].ord # o

LEMMA BenignSame == ASSUME NEW d, OrderOK(d) PROVE Benign(d, d)
BY DEF OrderOK, Benign

LEMMA BenignUnchanged ==
    ASSUME Base, order' = order
    PROVE  BenignStep /\ order' \in [Orders -> OrderDocs]
BY BenignSame, TypeParts DEF Base, BenignStep

LEMMA OrderSet ==
    ASSUME Base, NEW o \in Orders, NEW d \in OrderDocs, Benign(order[o], d),
           order' = [order EXCEPT ![o] = d]
    PROVE  /\ BenignStep /\ order' \in [Orders -> OrderDocs] /\ order'[o] = d
           /\ \A p \in Orders \ {o} : order'[p] = order[p]
<1>1. order \in [Orders -> OrderDocs]
  BY TypeParts DEF Base
<1>2. order' \in [Orders -> OrderDocs] /\ order'[o] = d /\ \A p \in Orders \ {o} : order'[p] = order[p]
  BY <1>1
<1>. QED
  BY <1>2, BenignSame DEF Base, BenignStep

LEMMA FitsOn ==
    ASSUME NEW r, NEW d, NEW e, Fits(r, d), r.ord \in Orders => Benign(d, e)
    PROVE  Fits(r, e)
<1>1. CASE r.op \in PayOps \cup {"storno"}
  <2>1. Benign(d, e)
    BY <1>1 DEF Fits
  <2>. QED
    BY <1>1, <2>1 DEF Fits, Benign
<1>2. CASE r.op \notin PayOps \cup {"storno"}
  BY <1>2 DEF Fits, PayOps
<1>. QED
  BY <1>1, <1>2

Selling(r) == r.op \in {"sale", "card"} /\ r.pc \in PreWrite

(* The other requests: they are not moved, nor is what they wait for.      *)
LEMMA Assemble ==
    ASSUME Base, NEW a \in Requests, NEW r \in RequestStates, r.pc \in PcsOf(r.op),
           act' = [act EXCEPT ![a] = r],
           session' \in [Sessions -> SessionDocs], order' \in [Orders -> OrderDocs], BenignBut(a),
           RestOK', Fits(r, order'[r.ord]),
           \A b \in Requests \ {a} : (Selling(act[b]) \/ Selling(r)) => act[b].ord # r.ord
    PROVE  Base'
<1>1. act \in [Requests -> RequestStates] /\ \A b \in Requests : act[b].pc \in PcsOf(act[b].op)
  BY TypeParts DEF Base
<1>2. /\ act' \in [Requests -> RequestStates] /\ act'[a] = r
      /\ \A b \in Requests \ {a} : act'[b] = act[b]
  BY <1>1
<1>3. TypeOK'
  BY <1>1, <1>2, TypeParts DEF TypeOK, RestOK
<1>4. \A o \in Orders : OrderOK(order'[o])
  BY DEF Base, BenignBut, Benign, OrderOK
<1>5. ASSUME NEW b \in Requests PROVE Fits(act'[b], order'[act'[b].ord])
  <2>1. CASE b = a
    BY <1>2, <2>1
  <2>2. CASE b # a
    <3>1. Fits(act[b], order[act[b].ord])
      BY DEF Base, RequestsFit
    <3>2. act[b].ord \in Orders => Benign(order[act[b].ord], order'[act[b].ord])
      BY <2>2 DEF BenignBut
    <3>3. Fits(act[b], order'[act[b].ord])
      BY <3>1, <3>2, FitsOn
    <3>. QED
      BY <1>2, <2>2, <3>3
  <2>. QED
    BY <2>1, <2>2
<1>6. ASSUME NEW b \in Requests, Selling(act'[b]), NEW c \in Requests \ {b}
      PROVE  act'[c].ord # act'[b].ord
  <2>1. CASE b = a
    BY <1>2, <1>6, <2>1
  <2>2. CASE c = a
    BY <1>2, <1>6, <2>2
  <2>3. CASE b # a /\ c # a
    <3>1. act'[b] = act[b] /\ act'[c] = act[c]
      BY <1>2, <2>3
    <3>. QED
      BY <1>6, <3>1 DEF Base, Reserved, Selling
  <2>. QED
    BY <2>1, <2>2, <2>3
<1>. QED
  BY <1>3, <1>4, <1>5, <1>6 DEF Base, RequestsFit, Reserved, Selling

(* A step of a handler.                                                    *)
LEMMA Stepping ==
    ASSUME Base, NEW a \in Requests, NEW r \in RequestStates, act' = [act EXCEPT ![a] = r],
           r.op = act[a].op, r.ord = act[a].ord, r.ses = act[a].ses,
           r.pc \in PcsOf(r.op), r.op # "none", 
           r.tok = act[a].tok \/ (r.op \in SessionOps /\ r.tok \in Tokens),
           r.op \in SessionOps /\ r.pc \in StockPcs => r.tok \in Tokens,
           r.pc = "move" => r.left # {},
           r.op = "storno" => r.pc \notin {"list", "claim"},
           r.op = "storno" /\ r.pc \in {"refund", "move"} => r.left = {r.ord},
           Selling(r) => Selling(act[a]),
           r.pc \in Terminal => act[a].pc \in Terminal,
           session' \in [Sessions -> SessionDocs], order' \in [Orders -> OrderDocs], BenignStep, RestOK'
    PROVE  Base'
<1>1. Fits(act[a], order[act[a].ord])
  BY DEF Base, RequestsFit
<1>2. act[a].ord \in Orders => Benign(order[act[a].ord], order'[act[a].ord])
  BY DEF BenignStep
<1>3. Fits(act[a], order'[act[a].ord])
  BY <1>1, <1>2, FitsOn
<1>4. Fits(r, order'[r.ord])
  <2>1. PICK d : d = order'[r.ord]
    OBVIOUS
  <2>2. Fits(act[a], d)
    BY <1>3, <2>1
  <2>3. r.op \in SessionOps => r.op # "storno" /\ r.op \notin {"sale", "card"}
    BY DEF SessionOps
  <2>4. r.op = "close" => r.op \in SessionOps /\ r.tok \in Tokens
    BY <2>2 DEF Fits, SessionOps
  <2>5. r.op = "storno" => r.tok = StornoToken
    BY <2>2, <2>3 DEF Fits
  <2>6. /\ r.op \in PayOps \cup SessionOps \cup {"storno", "none"}
        /\ r.op \in PayOps => r.ord \in Orders /\ r.ses \in Sessions
        /\ r.op \in SessionOps => r.ses \in Sessions
        /\ r.op = "storno" => r.ord \in Orders /\ d.status \notin {"NEW", "PENDING"}
        /\ r.op \in {"complete", "webhook"} => d.status # "NEW"
    BY <2>2 DEF Fits
  <2>7. r.op \in {"sale", "card"} /\ r.pc \in PreWrite => d.status = "NEW"
    BY <2>2 DEF Fits, Selling
  <2>8. r.pc \in Terminal => /\ r.op = "card" /\ d.status # "NEW"
                             /\ d.status = "PENDING" => d.ses = r.ses /\ d.card
    BY <2>2 DEF Fits
  <2>9. Fits(r, d)
    BY <2>4, <2>5, <2>6, <2>7, <2>8 DEF Fits
  <2>. QED
    BY <2>1, <2>9
<1>5. \A b \in Requests \ {a} : (Selling(act[b]) \/ Selling(r)) => act[b].ord # r.ord
  BY DEF Base, Reserved, Selling
<1>. QED
  BY <1>4, <1>5, Assemble DEF BenignStep, BenignBut

(* The end of a request.                                                   *)
LEMMA Ending ==
    ASSUME Base, NEW a \in Requests, End(a),
           session' \in [Sessions -> SessionDocs], order' \in [Orders -> OrderDocs], BenignStep, RestOK'
    PROVE  Base'
<1>1. act' = [act EXCEPT ![a] = Idle]
  BY DEF End
<1>2. Idle \in RequestStates /\ Idle.pc \in PcsOf(Idle.op) /\ Idle.ord = NoOrder /\ ~Selling(Idle)
      /\ Fits(Idle, order'[Idle.ord])
  BY IdleOK DEF Selling
<1>3. \A b \in Requests \ {a} : (Selling(act[b]) \/ Selling(Idle)) => act[b].ord # Idle.ord
  BY <1>2, Consts DEF Base, RequestsFit, Fits, Selling, PayOps
<1>. QED
  BY <1>1, <1>2, <1>3, Assemble DEF BenignStep, BenignBut

(* A jump.                                                                 *)
LEMMA PcType ==
    ASSUME Base, NEW a \in Requests, NEW pc, Goto(a, pc), pc \in PcsOf(act[a].op)
    PROVE  \E r \in RequestStates : /\ act' = [act EXCEPT ![a] = r] /\ r.pc = pc
                                    /\ r = [act[a] EXCEPT !.pc = pc]
<1>1. act[a] \in RequestStates /\ act[a].op \in PayOps \cup SessionOps \cup {"storno", "none"}
  BY TypeParts DEF Base, RequestsFit, Fits
<1>2. pc \in Pcs
  BY <1>1, PcOps
<1>3. [act[a] EXCEPT !.pc = pc] \in RequestStates /\ [act[a] EXCEPT !.pc = pc].pc = pc
  BY <1>1, <1>2 DEF RequestStates
<1>4. act' = [act EXCEPT ![a] = [act[a] EXCEPT !.pc = pc]]
  BY DEF Goto
<1>. QED
  BY <1>3, <1>4

LEMMA Going ==
    ASSUME Base, NEW a \in Requests, NEW pc, Goto(a, pc), pc \in PcsOf(act[a].op), act[a].op # "none",
           act[a].op \in SessionOps /\ pc \in StockPcs => act[a].tok \in Tokens,
           pc = "move" => act[a].left # {},
           act[a].op = "storno" => pc \notin {"list", "claim", "refund", "move"},
           act[a].op \in {"sale", "card"} /\ pc \in PreWrite => act[a].pc \in PreWrite,
           pc \in Terminal => act[a].pc \in Terminal,
           session' \in [Sessions -> SessionDocs], order' \in [Orders -> OrderDocs], BenignStep, RestOK'
    PROVE  Base'
<1>1. PICK r \in RequestStates : /\ act' = [act EXCEPT ![a] = r] /\ r.pc = pc
                                 /\ r = [act[a] EXCEPT !.pc = pc]
  BY PcType
<1>2. act[a] \in RequestStates
  BY TypeParts DEF Base
<1>3. r.op = act[a].op /\ r.ord = act[a].ord /\ r.ses = act[a].ses /\ r.tok = act[a].tok
      /\ r.left = act[a].left
  BY <1>1, <1>2 DEF RequestStates
<1>. QED
  BY <1>1, <1>3, Stepping DEF Selling
-----------------------------------------------------------------------------
(* What a step finds: the parts of Base as facts about one request.        *)
LEMMA Found ==
    ASSUME Base, NEW a \in Requests
    PROVE  /\ session \in [Sessions -> SessionDocs] /\ order \in [Orders -> OrderDocs]
           /\ act \in [Requests -> RequestStates] /\ act[a] \in RequestStates
           /\ act[a].pc \in PcsOf(act[a].op) /\ RestOK
           /\ Fits(act[a], order[act[a].ord])
           /\ act[a].op \in PayOps \cup SessionOps \cup {"storno", "none"}
           /\ act[a].pc \in PayPcs => act[a].op \in PayOps /\ act[a].ord \in Orders /\ act[a].ses \in Sessions
           /\ act[a].op \in SessionOps => act[a].ses \in Sessions
           /\ act[a].pc \in ClosePcs => act[a].op = "close"
           /\ act[a].pc \in TestPcs => act[a].op \in {"test", "normal"}
           /\ act[a].pc \in DeletePcs => act[a].op = "delete"
           /\ act[a].pc \in StornoPcs => act[a].op = "storno"
           /\ act[a].pc \in StockPcs => act[a].op \in SessionOps \cup {"storno"}
           /\ act[a].op = "storno" => act[a].ord \in Orders /\ act[a].tok = StornoToken
           /\ act[a].pc = "idle" <=> act[a].op = "none"
<1>1. /\ session \in [Sessions -> SessionDocs] /\ order \in [Orders -> OrderDocs]
      /\ act \in [Requests -> RequestStates] /\ act[a] \in RequestStates
      /\ act[a].pc \in PcsOf(act[a].op) /\ RestOK /\ Fits(act[a], order[act[a].ord])
  BY TypeParts DEF Base, RequestsFit
<1>2. act[a].op \in PayOps \cup SessionOps \cup {"storno", "none"}
  BY <1>1 DEF Fits
<1>3. /\ act[a].op \in PayOps <=> act[a].pc \in PayPcs
      /\ act[a].op = "none" <=> act[a].pc = "idle"
      /\ act[a].pc \in ClosePcs => act[a].op = "close"
      /\ act[a].pc \in TestPcs => act[a].op \in {"test", "normal"}
      /\ act[a].pc \in DeletePcs => act[a].op = "delete"
      /\ act[a].pc \in StornoPcs => act[a].op = "storno"
      /\ act[a].pc \in StockPcs => act[a].op \in SessionOps \cup {"storno"}
  BY <1>1, <1>2, PcOps
<1>. QED
  BY <1>1, <1>2, <1>3 DEF Fits

LEMMA Moved ==
    ASSUME Base, NEW a \in Requests, NEW r \in RequestStates, act' = [act EXCEPT ![a] = r]
    PROVE  act'[a] = r /\ \A b \in Requests \ {a} : act'[b] = act[b]
BY TypeParts DEF Base

(* Documents of sessions.                                                  *)
LEMMA SessionSet ==
    ASSUME Base, NEW s \in Sessions, NEW x \in SessionDocs, session' = [session EXCEPT ![s] = x]
    PROVE  /\ session' \in [Sessions -> SessionDocs] /\ session'[s] = x
           /\ \A t \in Sessions \ {s} : session'[t] = session[t]
BY TypeParts DEF Base

LEMMA PayUpdate ==
    ASSUME Base, NEW s \in Sessions, NEW q \in Requests \cup {NoRequest}, NEW fresh \in BOOLEAN
    PROVE  [session[s] EXCEPT !.pay = q, !.payFresh = fresh] \in SessionDocs
BY TypeParts DEF Base, SessionDocs

LEMMA PayPcsOf ==
    ASSUME NEW op \in PayOps
    PROVE  PcsOf(op) = PayPcs
BY DEF PcsOf, PayOps

LEMMA PayClaimBase == ASSUME Base, NEW a \in Requests, PayClaim(a) PROVE Base'
<1>0. /\ act[a].pc = "payClaim" /\ RestOK' /\ BenignStep /\ order' \in [Orders -> OrderDocs]
      /\ session \in [Sessions -> SessionDocs]
      /\ act[a].op \in PayOps /\ act[a].ses \in Sessions
  BY Found, RestUnchanged, BenignUnchanged DEF PayClaim, PayPcs
<1>1. session' \in [Sessions -> SessionDocs]
  <2> DEFINE s == act[a].ses
  <2>1. CASE session' = [session EXCEPT ![s].pay = a, ![s].payFresh = TRUE]
    <3>1. [session[s] EXCEPT !.pay = a, !.payFresh = TRUE] \in SessionDocs
      BY <1>0, PayUpdate
    <3>2. session' = [session EXCEPT ![s] = [session[s] EXCEPT !.pay = a, !.payFresh = TRUE]]
      BY <2>1
    <3>. QED
      BY <1>0, <3>1, <3>2, SessionSet
  <2>2. CASE session' = session
    BY <1>0, <2>2
  <2>. QED
    BY <2>1, <2>2 DEF PayClaim
<1>2. PcsOf(act[a].op) = PayPcs
  BY <1>0, PayPcsOf
<1>3. ASSUME NEW pc \in {"payRelease", "refresh", "hookRelease"}, Goto(a, pc) PROVE Base'
  <2>1. pc \in PcsOf(act[a].op) /\ act[a].op \notin SessionOps \cup {"none", "storno"}
        /\ pc \notin Terminal /\ pc # "move"
    BY <1>0, <1>2 DEF PayPcs, SessionOps, PayOps, Terminal
  <2>2. act[a].pc \in PreWrite
    BY <1>0 DEF PreWrite
  <2>. QED
    BY <1>0, <1>1, <1>3, <2>1, <2>2, Going
<1>4. ASSUME act' = [act EXCEPT ![a].pc = "apply", ![a].rest = Items] PROVE Base'
  <2> DEFINE r == [act[a] EXCEPT !.pc = "apply", !.rest = Items]
  <2>1. r \in RequestStates /\ r.pc = "apply" /\ r.op = act[a].op /\ r.ord = act[a].ord
        /\ r.ses = act[a].ses /\ r.tok = act[a].tok
    BY Found, ZenonT(40) DEF RequestStates, Pcs, PayPcs
  <2>2. act' = [act EXCEPT ![a] = r]
    BY <1>4
  <2> HIDE DEF r
  <2>3. r.pc \in PcsOf(r.op) /\ r.op \notin SessionOps \cup {"none", "storno"} /\ r.pc \notin Terminal
        /\ act[a].pc \in PreWrite
    BY <1>0, <1>2, <2>1 DEF PayPcs, SessionOps, PayOps, Terminal, PreWrite
  <2>. QED
    BY <1>0, <1>1, <2>1, <2>2, <2>3, Stepping DEF Selling
<1>5. CASE End(a)
  BY <1>0, <1>1, <1>5, Ending
<1>. QED
  BY <1>3, <1>4, <1>5 DEF PayClaim

(* One unit of an item, taken for an order or given back.                  *)
LEMMA TakenSet ==
    ASSUME RestOK, NEW o \in Orders, NEW i \in Items, NEW n \in Int,
           taken' = [taken EXCEPT ![o][i] = n], UNCHANGED <<keys, faults, paid, refunds, counted>>
    PROVE  RestOK'
<1>1. taken \in [Orders -> [Items -> Int]]
  BY DEF RestOK
<1>2. taken' = [taken EXCEPT ![o] = [taken[o] EXCEPT ![i] = n]]
  OBVIOUS
<1>3. taken' \in [Orders -> [Items -> Int]]
  BY <1>1, <1>2
<1>. QED
  BY <1>3 DEF RestOK

LEMMA TakenInt == ASSUME RestOK, NEW o \in Orders, NEW i \in Items
                  PROVE  taken[o][i] \in Int /\ taken[o][i] + 1 \in Int /\ taken[o][i] - 1 \in Int
<1>1. taken[o][i] \in Int
  BY DEF RestOK
<1>. QED
  BY <1>1

(* A payment goes on with other items to take or other items taken.        *)
LEMMA Paying ==
    ASSUME Base, NEW a \in Requests, NEW r \in RequestStates, act' = [act EXCEPT ![a] = r],
           r.op = act[a].op, r.ord = act[a].ord, r.ses = act[a].ses, r.tok = act[a].tok,
           act[a].pc \in PreWrite, r.pc \in PreWrite \cup {"payRelease", "hookRelease"},
           session' \in [Sessions -> SessionDocs], order' \in [Orders -> OrderDocs], BenignStep, RestOK'
    PROVE  Base'
<1>1. act[a].pc \in PayPcs
  BY DEF PreWrite, PayPcs
<1>2. act[a].op \in PayOps /\ PcsOf(act[a].op) = PayPcs
  BY <1>1, Found, PayPcsOf
<1>3. /\ r.pc \in PcsOf(r.op) /\ r.op \notin SessionOps \cup {"none", "storno"} /\ r.pc \notin Terminal
      /\ r.pc # "move"
  BY <1>2 DEF PayPcs, SessionOps, PayOps, Terminal, PreWrite
<1>. QED
  BY <1>2, <1>3, Stepping DEF Selling

LEMMA PayingOn ==
    ASSUME Base, NEW a \in Requests, NEW pc, Goto(a, pc),
           act[a].pc \in PreWrite, pc \in PreWrite \cup {"payRelease", "hookRelease"},
           session' \in [Sessions -> SessionDocs], order' \in [Orders -> OrderDocs], BenignStep, RestOK'
    PROVE  Base'
<1>1. act[a].pc \in PayPcs
  BY DEF PreWrite, PayPcs
<1>2. act[a].op \in PayOps /\ PcsOf(act[a].op) = PayPcs
  BY <1>1, Found, PayPcsOf
<1>3. /\ pc \in PcsOf(act[a].op) /\ act[a].op \notin SessionOps \cup {"none", "storno"}
      /\ pc \notin Terminal /\ pc # "move"
  BY <1>2 DEF PayPcs, SessionOps, PayOps, Terminal, PreWrite
<1>. QED
  BY <1>2, <1>3, Going

LEMMA ApplyBase == ASSUME Base, NEW a \in Requests, ApplyItem(a) PROVE Base'
<1>0. /\ act[a].pc = "apply" /\ act[a].pc \in PreWrite /\ BenignStep /\ order' \in [Orders -> OrderDocs]
      /\ session' \in [Sessions -> SessionDocs] /\ RestOK
      /\ act[a] \in RequestStates /\ act[a].ord \in Orders /\ act[a].rest \subseteq Items
      /\ UNCHANGED <<keys, faults, paid, refunds, counted>>
  BY Found, BenignUnchanged DEF ApplyItem, PayPcs, PreWrite, docs, RequestStates
<1>1. ASSUME taken' = taken PROVE RestOK'
  BY <1>0, <1>1, RestUnchanged DEF history
<1>2. ASSUME NEW i \in act[a].rest, taken' = [taken EXCEPT ![act[a].ord][i] = @ + 1],
             act' = [act EXCEPT ![a].rest = @ \ {i}, ![a].plan[act[a].ord] = @ \cup {i}]
      PROVE  Base'
  <2>1. RestOK'
    BY <1>0, <1>2, TakenSet, TakenInt
  <2> DEFINE plan == [act[a].plan EXCEPT ![act[a].ord] = @ \cup {i}]
             r == [act[a] EXCEPT !.rest = @ \ {i}, !.plan = plan]
  <2>2. act[a].plan \in [Orders -> SUBSET Items] /\ i \in Items
    BY <1>0 DEF RequestStates
  <2>3. plan \in [Orders -> SUBSET Items]
    BY <2>2
  <2>4. act' = [act EXCEPT ![a] = r]
    BY <1>2
  <2> HIDE DEF plan
  <2>5. r \in RequestStates /\ r.op = act[a].op /\ r.ord = act[a].ord /\ r.ses = act[a].ses
        /\ r.tok = act[a].tok /\ r.pc = "apply"
    BY <1>0, <2>3 DEF RequestStates
  <2> HIDE DEF r
  <2>. QED
    BY <1>0, <2>1, <2>4, <2>5, Paying
<1>3. ASSUME NEW i \in act[a].rest, taken' = taken, act' = [act EXCEPT ![a].rest = @ \ {i}]
      PROVE  Base'
  <2> DEFINE r == [act[a] EXCEPT !.rest = @ \ {i}]
  <2>1. act' = [act EXCEPT ![a] = r]
    BY <1>3
  <2>2. r \in RequestStates /\ r.op = act[a].op /\ r.ord = act[a].ord /\ r.ses = act[a].ses
        /\ r.tok = act[a].tok /\ r.pc = "apply"
    BY <1>0 DEF RequestStates
  <2> HIDE DEF r
  <2>. QED
    BY <1>0, <1>1, <1>3, <2>1, <2>2, Paying
<1>4. ASSUME NEW pc \in {"rollback", "refresh"}, Goto(a, pc), taken' = taken PROVE Base'
  <2>1. pc \in PreWrite \cup {"payRelease", "hookRelease"}
    BY DEF PreWrite
  <2>. QED
    BY <1>0, <1>1, <1>4, <2>1, PayingOn
<1>. QED
  BY <1>2, <1>3, <1>4 DEF ApplyItem

LEMMA RollbackBase == ASSUME Base, NEW a \in Requests, Rollback(a) PROVE Base'
<1>0. /\ act[a].pc = "rollback" /\ act[a].pc \in PreWrite /\ BenignStep /\ order' \in [Orders -> OrderDocs]
      /\ session' \in [Sessions -> SessionDocs] /\ RestOK
      /\ act[a] \in RequestStates /\ act[a].ord \in Orders /\ act[a].plan \in [Orders -> SUBSET Items]
      /\ UNCHANGED <<keys, faults, paid, refunds, counted>>
  BY Found, BenignUnchanged DEF Rollback, PayPcs, PreWrite, docs, RequestStates
<1>1. ASSUME taken' = taken PROVE RestOK'
  BY <1>0, <1>1, RestUnchanged DEF history
<1>2. ASSUME NEW i \in act[a].plan[act[a].ord], taken' = [taken EXCEPT ![act[a].ord][i] = @ - 1],
             act' = [act EXCEPT ![a].plan[act[a].ord] = @ \ {i}]
      PROVE  Base'
  <2>1. i \in Items /\ RestOK'
    BY <1>0, <1>2, TakenSet, TakenInt
  <2> DEFINE plan == [act[a].plan EXCEPT ![act[a].ord] = @ \ {i}]
             r == [act[a] EXCEPT !.plan = plan]
  <2>2. plan \in [Orders -> SUBSET Items]
    BY <1>0
  <2>3. act' = [act EXCEPT ![a] = r]
    BY <1>2
  <2> HIDE DEF plan
  <2>4. r \in RequestStates /\ r.op = act[a].op /\ r.ord = act[a].ord /\ r.ses = act[a].ses
        /\ r.tok = act[a].tok /\ r.pc = "rollback"
    BY <1>0, <2>2 DEF RequestStates
  <2> HIDE DEF r
  <2>. QED
    BY <1>0, <2>1, <2>3, <2>4, Paying
<1>3. ASSUME taken' = taken,
             act' = [act EXCEPT ![a].pc = "apply", ![a].rest = Items, ![a].flag = FALSE]
      PROVE  Base'
  <2> DEFINE r == [act[a] EXCEPT !.pc = "apply", !.rest = Items, !.flag = FALSE]
  <2>1. act' = [act EXCEPT ![a] = r]
    BY <1>3
  <2>2. r \in RequestStates /\ r.op = act[a].op /\ r.ord = act[a].ord /\ r.ses = act[a].ses
        /\ r.tok = act[a].tok /\ r.pc \in PreWrite
    BY <1>0 DEF RequestStates, PreWrite, Pcs, PayPcs
  <2> HIDE DEF r
  <2>. QED
    BY <1>0, <1>1, <1>3, <2>1, <2>2, Paying
<1>4. ASSUME Goto(a, "payRelease"), taken' = taken PROVE Base'
  BY <1>0, <1>1, <1>4, PayingOn
<1>. QED
  BY <1>2, <1>3, <1>4 DEF Rollback

LEMMA UndoBase ==
    ASSUME Base, NEW a \in Requests, act[a].pc \in PreWrite, UndoAll(a), UNCHANGED docs, RestOK'
    PROVE  Base'
<1> DEFINE r == [act[a] EXCEPT !.pc = "rollback", !.flag = FALSE]
<1>0. act[a] \in RequestStates /\ BenignStep /\ order' \in [Orders -> OrderDocs]
      /\ session' \in [Sessions -> SessionDocs]
  BY Found, BenignUnchanged DEF docs
<1>1. act' = [act EXCEPT ![a] = r]
  BY DEF UndoAll
<1>2. r \in RequestStates /\ r.op = act[a].op /\ r.ord = act[a].ord /\ r.ses = act[a].ses
      /\ r.tok = act[a].tok /\ r.pc \in PreWrite
  BY <1>0 DEF RequestStates, PreWrite, Pcs, PayPcs
<1> HIDE DEF r
<1>. QED
  BY <1>0, <1>1, <1>2, Paying

LEMMA RefreshBase == ASSUME Base, NEW a \in Requests, Refresh(a) PROVE Base'
<1>0. /\ act[a].pc \in PreWrite /\ RestOK' /\ BenignStep /\ order' \in [Orders -> OrderDocs]
      /\ session \in [Sessions -> SessionDocs] /\ act[a].ses \in Sessions
  BY Found, RestUnchanged, BenignUnchanged DEF Refresh, PayPcs, PreWrite
<1>1. CASE session' = [session EXCEPT ![act[a].ses].payFresh = TRUE] /\ Goto(a, "write")
  <2> DEFINE s == act[a].ses
             x == [session[s] EXCEPT !.payFresh = TRUE]
  <2>1. x \in SessionDocs
    BY <1>0 DEF SessionDocs
  <2>2. session' = [session EXCEPT ![s] = x]
    BY <1>1
  <2> HIDE DEF x
  <2>3. session' \in [Sessions -> SessionDocs]
    BY <1>0, <2>1, <2>2, SessionSet
  <2>. QED
    BY <1>0, <1>1, <2>3, PayingOn DEF PreWrite
<1>2. CASE UndoAll(a) /\ UNCHANGED session
  BY <1>0, <1>2, UndoBase DEF Refresh, docs
<1>. QED
  BY <1>1, <1>2 DEF Refresh
-----------------------------------------------------------------------------
(* The writes of a payment.                                                *)
LEMMA PaidDoc ==
    ASSUME NEW d \in OrderDocs, NEW adj \in SUBSET Items
    PROVE  /\ Paid(d, adj) \in OrderDocs /\ Paid(d, adj).status = "PAID"
           /\ Paid(d, adj).ses = d.ses /\ Paid(d, adj).card = d.card
           /\ Paid(d, adj).checkout = d.checkout /\ Paid(d, adj).ver = d.ver
           /\ Paid(d, adj).adj = adj /\ Paid(d, adj).effect = "APPLIED"
           /\ Paid(d, adj).claim = d.claim /\ Paid(d, adj).storno = d.storno
           /\ Paid(d, adj).refunded = d.refunded
BY DEF Paid, OrderDocs, Effects

LEMMA RecordedRequest ==
    ASSUME Base, NEW a \in Requests, Recorded(a), act[a].pc = "write"
    PROVE  \E r \in RequestStates :
              /\ act' = [act EXCEPT ![a] = r] /\ r.pc = "payRelease"
              /\ r.op = act[a].op /\ r.ord = act[a].ord /\ r.ses = act[a].ses /\ r.tok = act[a].tok
              /\ r.plan = NoPlan /\ r.todo = act[a].todo /\ r.ver = act[a].ver
<1> DEFINE r == [act[a] EXCEPT !.pc = "payRelease", !.plan = NoPlan]
<1>1. act[a] \in RequestStates
  BY Found
<1>2. act' = [act EXCEPT ![a] = r]
  BY DEF Recorded
<1>3. /\ r \in RequestStates /\ r.pc = "payRelease"
      /\ r.op = act[a].op /\ r.ord = act[a].ord /\ r.ses = act[a].ses /\ r.tok = act[a].tok
      /\ r.plan = NoPlan /\ r.todo = act[a].todo /\ r.ver = act[a].ver
  BY <1>1, IdleOK DEF RequestStates, Pcs, PayPcs
<1>. QED
  BY <1>2, <1>3

LEMMA RecordedRest ==
    ASSUME Base, NEW a \in Requests, Recorded(a), act[a].ord \in Orders,
           UNCHANGED <<keys, faults, taken, refunds, counted>>
    PROVE  RestOK'
<1>1. RestOK /\ paid' = [paid EXCEPT ![act[a].ord] = @ + 1]
  BY Found DEF Recorded
<1>2. paid' \in [Orders -> Nat]
  BY <1>1 DEF RestOK
<1>. QED
  BY <1>1, <1>2 DEF RestOK

LEMMA WriteSaleBase == ASSUME Base, NEW a \in Requests, WriteSale(a) PROVE Base'
<1> DEFINE o == act[a].ord
           d == [Paid(order[o], act[a].plan[o]) EXCEPT !.ses = act[a].ses]
<1>0. /\ act[a].pc = "write" /\ act[a].op = "sale" /\ Recorded(a) /\ o \in Orders
      /\ act[a].ses \in Sessions /\ act[a].plan[o] \in SUBSET Items /\ order[o] \in OrderDocs
      /\ session' \in [Sessions -> SessionDocs] /\ UNCHANGED <<keys, faults, taken, refunds, counted>>
      /\ order \in [Orders -> OrderDocs]
  BY Found DEF WriteSale, PayPcs, RequestStates
<1>1. Selling(act[a])
  BY <1>0 DEF Selling, PreWrite
<1>2. \A b \in Requests \ {a} : act[b].ord # o
  BY <1>1 DEF Base, Reserved, Selling
<1>3. d \in OrderDocs /\ d.status = "PAID" /\ d.ses \in Sessions
  <2>1. PICK e : e = Paid(order[o], act[a].plan[o])
    OBVIOUS
  <2>2. e \in OrderDocs /\ e.status = "PAID"
    BY <1>0, <2>1, PaidDoc
  <2>3. [e EXCEPT !.ses = act[a].ses] \in OrderDocs /\ [e EXCEPT !.ses = act[a].ses].status = "PAID"
        /\ [e EXCEPT !.ses = act[a].ses].ses = act[a].ses
    BY <1>0, <2>2 DEF OrderDocs
  <2>. QED
    BY <1>0, <2>1, <2>3
<1>4. order' = [order EXCEPT ![o] = d]
  BY DEF WriteSale
<1> HIDE DEF d
<1>5. /\ order' \in [Orders -> OrderDocs] /\ order'[o] = d
      /\ \A p \in Orders \ {o} : order'[p] = order[p]
  BY <1>0, <1>3, <1>4
<1>6. BenignBut(a)
  BY <1>2, <1>3, <1>5, BenignSame DEF BenignBut, OrderOK, Base
<1>7. PICK r \in RequestStates : /\ act' = [act EXCEPT ![a] = r] /\ r.pc = "payRelease" /\ r.op = "sale"
                                 /\ r.ord = o /\ r.ses = act[a].ses
  BY <1>0, RecordedRequest
<1>8. r.pc \in PcsOf(r.op) /\ ~Selling(r)
  BY <1>7 DEF PcsOf, PayPcs, Selling, PreWrite
<1>9. Fits(r, order'[r.ord])
  BY <1>0, <1>3, <1>5, <1>7 DEF Fits, PayOps, SessionOps, PreWrite, Terminal
<1>10. \A b \in Requests \ {a} : (Selling(act[b]) \/ Selling(r)) => act[b].ord # r.ord
  BY <1>2, <1>7
<1>11. RestOK'
  BY <1>0, RecordedRest
<1>. QED
  BY <1>0, <1>5, <1>6, <1>7, <1>8, <1>9, <1>10, <1>11, Assemble

LEMMA WriteCardBase == ASSUME Base, NEW a \in Requests, WriteCard(a) PROVE Base'
<1> DEFINE o == act[a].ord
           d == [order[o] EXCEPT !.status = "PENDING", !.ses = act[a].ses, !.card = TRUE]
<1>0. /\ act[a].pc = "write" /\ act[a].op = "card" /\ Goto(a, "trigger") /\ o \in Orders
      /\ act[a].ses \in Sessions /\ order[o] \in OrderDocs
      /\ session' \in [Sessions -> SessionDocs] /\ RestOK' /\ order \in [Orders -> OrderDocs]
  BY Found, RestUnchanged DEF WriteCard, PayPcs
<1>1. Selling(act[a])
  BY <1>0 DEF Selling, PreWrite
<1>2. \A b \in Requests \ {a} : act[b].ord # o
  BY <1>1 DEF Base, Reserved, Selling
<1>3. d \in OrderDocs /\ d.status = "PENDING" /\ d.ses = act[a].ses /\ d.card
  BY <1>0 DEF OrderDocs
<1>4. order' = [order EXCEPT ![o] = d]
  BY DEF WriteCard
<1> HIDE DEF d
<1>5. /\ order' \in [Orders -> OrderDocs] /\ order'[o] = d
      /\ \A p \in Orders \ {o} : order'[p] = order[p]
  BY <1>0, <1>3, <1>4
<1>6. BenignBut(a)
  BY <1>0, <1>2, <1>3, <1>5, BenignSame DEF BenignBut, OrderOK, Base
<1>7. "trigger" \in PcsOf(act[a].op)
  BY <1>0 DEF PcsOf, PayPcs
<1>8. PICK r \in RequestStates : /\ act' = [act EXCEPT ![a] = r] /\ r.pc = "trigger"
                                 /\ r = [act[a] EXCEPT !.pc = "trigger"]
  BY <1>0, <1>7, PcType
<1>9. r.op = "card" /\ r.ord = o /\ r.ses = act[a].ses
  BY <1>0, <1>8, Found DEF RequestStates
<1>10. Fits(r, order'[r.ord])
  BY <1>0, <1>3, <1>5, <1>8, <1>9 DEF Fits, PayOps, SessionOps, PreWrite, Terminal
<1>11. \A b \in Requests \ {a} : (Selling(act[b]) \/ Selling(r)) => act[b].ord # r.ord
  BY <1>2, <1>9
<1>12. r.pc \in PcsOf(r.op)
  BY <1>7, <1>8, <1>9, <1>0
<1>. QED
  BY <1>0, <1>5, <1>6, <1>8, <1>10, <1>11, <1>12, Assemble

(* A request that has written and releases what it holds.                  *)
LEMMA Releasing ==
    ASSUME Base, NEW a \in Requests, Recorded(a), act[a].pc = "write",
           session' \in [Sessions -> SessionDocs], order' \in [Orders -> OrderDocs], BenignStep, RestOK'
    PROVE  Base'
<1>1. PICK r \in RequestStates :
              /\ act' = [act EXCEPT ![a] = r] /\ r.pc = "payRelease"
              /\ r.op = act[a].op /\ r.ord = act[a].ord /\ r.ses = act[a].ses /\ r.tok = act[a].tok
  BY RecordedRequest
<1>2. act[a].pc \in PreWrite
  BY DEF PreWrite
<1>. QED
  BY <1>1, <1>2, Paying

LEMMA WriteCompleteBase == ASSUME Base, NEW a \in Requests, WriteComplete(a) PROVE Base'
<1> DEFINE o == act[a].ord
<1>0. /\ act[a].pc = "write" /\ act[a].op = "complete" /\ o \in Orders /\ act[a].pc \in PreWrite
      /\ act[a].ses \in Sessions /\ act[a].plan[o] \in SUBSET Items /\ order[o] \in OrderDocs
      /\ session' \in [Sessions -> SessionDocs] /\ UNCHANGED <<session, keys, faults, taken, refunds, counted>>
      /\ order[o].status # "NEW" /\ RestOK
  BY Found, ZenonT(40) DEF WriteComplete, PayPcs, RequestStates, Fits, PreWrite
<1>1. CASE /\ order' = [order EXCEPT ![o] = [Paid(@, act[a].plan[o]) EXCEPT
                          !.ses = act[a].ses, !.card = FALSE, !.ver = order[o].ver + 1]]
           /\ Recorded(a)
  <2>0. PICK p : p = Paid(order[o], act[a].plan[o])
    OBVIOUS
  <2> DEFINE d == [p EXCEPT !.ses = act[a].ses, !.card = FALSE, !.ver = order[o].ver + 1]
  <2>1. p \in OrderDocs /\ p.status = "PAID"
    BY <1>0, <2>0, PaidDoc
  <2>2. order' = [order EXCEPT ![o] = d]
    BY <1>1, <2>0
  <2>3. order[o].ver + 1 \in Nat
    BY <1>0 DEF OrderDocs
  <2>4. d \in OrderDocs /\ d.status = "PAID" /\ d.ses \in Sessions
    BY <1>0, <2>1, <2>3 DEF OrderDocs
  <2> HIDE DEF d
  <2>5. Benign(order[o], d)
    BY <1>0, <2>4 DEF Benign
  <2>6. BenignStep /\ order' \in [Orders -> OrderDocs]
    BY <1>0, <2>2, <2>4, <2>5, OrderSet
  <2>7. RestOK'
    BY <1>0, <1>1, RecordedRest
  <2>. QED
    BY <1>0, <1>1, <2>6, <2>7, Releasing
<1>2. CASE UndoAll(a) /\ UNCHANGED <<order, paid>>
  <2>1. RestOK'
    BY <1>0, <1>2, RestUnchanged DEF history
  <2>. QED
    BY <1>0, <1>2, <2>1, UndoBase DEF docs
<1>. QED
  BY <1>1, <1>2 DEF WriteComplete

LEMMA WriteWebhookBase == ASSUME Base, NEW a \in Requests, WriteWebhook(a) PROVE Base'
<1> DEFINE o == act[a].ord
<1>0. /\ act[a].pc = "write" /\ act[a].op = "webhook" /\ o \in Orders /\ act[a].pc \in PreWrite
      /\ act[a].plan[o] \in SUBSET Items /\ order[o] \in OrderDocs
      /\ session' \in [Sessions -> SessionDocs] /\ UNCHANGED <<session, keys, faults, taken, refunds, counted>>
      /\ order[o].status # "NEW" /\ OrderOK(order[o]) /\ RestOK
  BY Found, ZenonT(40) DEF WriteWebhook, PayPcs, RequestStates, Fits, PreWrite, Base
<1>1. CASE /\ order' = [order EXCEPT ![o] = [Paid(@, act[a].plan[o]) EXCEPT
                          !.hook = NoRequest, !.hookFresh = FALSE]]
           /\ Recorded(a)
  <2> DEFINE p == Paid(order[o], act[a].plan[o])
             d == [p EXCEPT !.hook = NoRequest, !.hookFresh = FALSE]
  <2>1. p \in OrderDocs /\ p.status = "PAID" /\ p.ses = order[o].ses /\ p.card = order[o].card
        /\ p.checkout = order[o].checkout
    BY <1>0, PaidDoc
  <2>2. order' = [order EXCEPT ![o] = d]
    BY <1>1
  <2> HIDE DEF p
  <2>3. d \in OrderDocs /\ d.status = "PAID" /\ d.ses = order[o].ses /\ d.card = order[o].card
        /\ d.checkout = order[o].checkout
    BY <1>0, <2>1 DEF OrderDocs
  <2> HIDE DEF d
  <2>4. Benign(order[o], d)
    BY <1>0, <2>3 DEF Benign, OrderOK
  <2>5. BenignStep /\ order' \in [Orders -> OrderDocs]
    BY <1>0, <2>2, <2>3, <2>4, OrderSet
  <2>6. RestOK'
    BY <1>0, <1>1, RecordedRest
  <2>. QED
    BY <1>0, <1>1, <2>5, <2>6, Releasing
<1>2. CASE UndoAll(a) /\ UNCHANGED <<order, paid>>
  <2>1. RestOK'
    BY <1>0, <1>2, RestUnchanged DEF history
  <2>. QED
    BY <1>0, <1>2, <2>1, UndoBase DEF docs
<1>. QED
  BY <1>1, <1>2 DEF WriteWebhook

LEMMA FaultsRest ==
    ASSUME RestOK, faults < MaxFaults, faults' = faults + 1, UNCHANGED <<keys, taken, paid, refunds, counted>>
    PROVE  RestOK'
BY BoundsAssumption DEF RestOK

LEMMA WriteFailsBase == ASSUME Base, NEW a \in Requests, WriteFails(a) PROVE Base'
<1>1. RestOK' /\ act[a].pc \in PreWrite
  BY Found, FaultsRest DEF WriteFails, docs, history, PreWrite
<1>. QED
  BY <1>1, UndoBase DEF WriteFails

(* The first of some orders, or items.                                     *)
LEMMA LeastNat ==
    ASSUME NEW S \in SUBSET Nat, S # {}
    PROVE  Min(S) \in S /\ \A y \in S : Min(S) <= y
<1> DEFINE R == OpToRel(<, Nat)
<1>1. R = {ss \in Nat \X Nat : ss[1] < ss[2]}
  BY DEF OpToRel
<1>2. IsWellFoundedOn(R, Nat)
  BY NatLessThanWellFounded
<1> HIDE DEF R
<1>3. PICK x \in S : \A y \in S : ~(<<y, x>> \in R)
  BY <1>2, WFMin
<1>4. ASSUME NEW y \in S PROVE x <= y
  <2>1. <<y, x>> \in Nat \X Nat /\ <<y, x>>[1] = y /\ <<y, x>>[2] = x
    OBVIOUS
  <2>2. ~(y < x)
    BY <1>1, <1>3, <2>1
  <2>3. x \in Nat /\ y \in Nat
    OBVIOUS
  <2>. QED
    BY <2>2, <2>3
<1>. QED
  BY <1>3, <1>4 DEF Min
-----------------------------------------------------------------------------
(* The terminal, and what a payment releases.                              *)
LEMMA TerminalBase == ASSUME Base, NEW a \in Requests, Trigger(a) \/ Link(a) \/ Cancel(a) PROVE Base'
<1> DEFINE o == act[a].ord
<1>0. /\ act[a].pc \in Terminal /\ act[a].op = "card" /\ o \in Orders /\ act[a].ses \in Sessions
      /\ order[o] \in OrderDocs /\ OrderOK(order[o]) /\ order[o].status # "NEW"
      /\ order[o].status = "PENDING" => order[o].ses = act[a].ses /\ order[o].card
      /\ session' \in [Sessions -> SessionDocs] /\ RestOK'
  BY Found, RestUnchanged DEF Trigger, Link, Cancel, docs, Terminal, Fits, PayPcs, Base
<1>1. ASSUME NEW pc \in Terminal \cup {"payRelease"}, Goto(a, pc),
             BenignStep, order' \in [Orders -> OrderDocs]
      PROVE  Base'
  <2>1. pc \in PcsOf(act[a].op) /\ pc \notin PreWrite /\ pc # "move" /\ act[a].op \notin SessionOps \cup {"none", "storno"}
    BY <1>0 DEF PcsOf, PayPcs, PreWrite, Terminal, SessionOps
  <2>. QED
    BY <1>0, <1>1, <2>1, Going
<1>2. ASSUME order' = order PROVE BenignStep /\ order' \in [Orders -> OrderDocs]
  BY <1>2, BenignUnchanged
<1>3. CASE Trigger(a)
  BY <1>1, <1>2, <1>3 DEF Trigger, docs, Terminal
<1>4. CASE Link(a)
  <2>1. CASE order[o].status = "PENDING" /\ order' = [order EXCEPT ![o].checkout = TRUE]
             /\ Goto(a, "payRelease")
    <3> DEFINE d == [order[o] EXCEPT !.checkout = TRUE]
    <3>1. d \in OrderDocs /\ d.status = "PENDING" /\ d.ses = order[o].ses /\ d.card = order[o].card
      BY <1>0, <2>1 DEF OrderDocs
    <3>2. order' = [order EXCEPT ![o] = d]
      BY <2>1
    <3> HIDE DEF d
    <3>3. Benign(order[o], d)
      BY <1>0, <2>1, <3>1 DEF Benign
    <3>. QED
      BY <1>0, <1>1, <2>1, <3>1, <3>2, <3>3, OrderSet
  <2>2. CASE Goto(a, "cancel") /\ UNCHANGED order
    BY <1>1, <1>2, <2>2 DEF Terminal
  <2>. QED
    BY <1>4, <2>1, <2>2 DEF Link
<1>5. CASE Cancel(a)
  <2> DEFINE d == [order[o] EXCEPT !.status = IF order[o].status = "PENDING" THEN "CANCELLED"
                                              ELSE order[o].status]
  <2>1. d \in OrderDocs /\ d.status \notin {"NEW", "PENDING"} /\ d.ses = order[o].ses
        /\ d.card = order[o].card /\ d.checkout = order[o].checkout
    BY <1>0 DEF OrderDocs
  <2>2. order' = [order EXCEPT ![o] = d]
    BY <1>5 DEF Cancel
  <2> HIDE DEF d
  <2>3. Benign(order[o], d)
    BY <1>0, <2>1 DEF Benign, OrderOK
  <2>4. BenignStep /\ order' \in [Orders -> OrderDocs]
    BY <1>0, <2>1, <2>2, <2>3, OrderSet
  <2>. QED
    BY <1>1, <1>5, <2>4 DEF Cancel
<1>. QED
  BY <1>3, <1>4, <1>5

LEMMA PayReleaseBase == ASSUME Base, NEW a \in Requests, PayRelease(a) PROVE Base'
<1>0. /\ act[a].pc = "payRelease" /\ act[a].op \in PayOps /\ act[a].ses \in Sessions
      /\ session \in [Sessions -> SessionDocs] /\ RestOK' /\ BenignStep /\ order' \in [Orders -> OrderDocs]
  BY Found, RestUnchanged, BenignUnchanged DEF PayRelease, PayPcs
<1>1. session' \in [Sessions -> SessionDocs]
  <2> DEFINE x == [session[act[a].ses] EXCEPT !.pay = NoRequest, !.payFresh = FALSE]
  <2>1. x \in SessionDocs
    BY <1>0, PayUpdate
  <2>2. session' = session \/ session' = [session EXCEPT ![act[a].ses] = x]
    BY DEF PayRelease
  <2> HIDE DEF x
  <2>. QED
    BY <1>0, <2>1, <2>2, SessionSet
<1>2. CASE Goto(a, "hookRelease")
  <2>1. /\ "hookRelease" \in PcsOf(act[a].op) /\ act[a].op \notin SessionOps \cup {"none", "storno"}
        /\ "hookRelease" \notin PreWrite \cup Terminal
    BY <1>0, PayPcsOf DEF PayPcs, PreWrite, Terminal, SessionOps, PayOps
  <2>. QED
    BY <1>0, <1>1, <1>2, <2>1, Going
<1>3. CASE End(a)
  BY <1>0, <1>1, <1>3, Ending
<1>. QED
  BY <1>2, <1>3 DEF PayRelease

LEMMA HookReleaseBase == ASSUME Base, NEW a \in Requests, HookRelease(a) PROVE Base'
<1> DEFINE o == act[a].ord
           d == IF order[o].hook = a THEN [order[o] EXCEPT !.hook = NoRequest, !.hookFresh = FALSE]
                ELSE order[o]
<1>0. /\ act[a].pc = "hookRelease" /\ o \in Orders /\ End(a) /\ RestOK'
      /\ order[o] \in OrderDocs /\ OrderOK(order[o]) /\ session' \in [Sessions -> SessionDocs]
  BY Found, RestUnchanged DEF HookRelease, PayPcs, Base
<1>1. order[o].hook = a => order[o].status # "NEW"
  BY <1>0, Consts DEF OrderOK, NewOrder
<1>2. d \in OrderDocs /\ d.status = order[o].status /\ d.ses = order[o].ses /\ d.card = order[o].card
      /\ d.checkout = order[o].checkout /\ (d # order[o] => order[o].status # "NEW")
  BY <1>0, <1>1, ZenonT(40) DEF OrderDocs
<1>3. order' = [order EXCEPT ![o] = d]
  BY DEF HookRelease
<1> HIDE DEF d
<1>4. Benign(order[o], d)
  BY <1>0, <1>2 DEF Benign, OrderOK
<1>5. BenignStep /\ order' \in [Orders -> OrderDocs]
  BY <1>0, <1>2, <1>3, <1>4, OrderSet
<1>. QED
  BY <1>0, <1>5, Ending
-----------------------------------------------------------------------------
(* The stock of a session's orders.                                        *)
Kept(d, e) == e.status = d.status /\ e.ses = d.ses /\ e.card = d.card /\ e.checkout = d.checkout

LEMMA KeptBenign ==
    ASSUME NEW d, NEW e, OrderOK(d), Kept(d, e), d.status # "NEW"
    PROVE  Benign(d, e)
BY DEF Benign, OrderOK, Kept

LEMMA AfterPcs ==
    ASSUME NEW op \in SessionOps \cup {"storno"}
    PROVE  /\ AfterStock(op) \in PcsOf(op) /\ AfterStock(op) \in {"closeSum", "deleteMark", "stornoEnd", "testEnd"}
           /\ {"move", "fail"} \subseteq PcsOf(op)
           /\ op \in SessionOps => "claim" \in PcsOf(op)
<1>1. CASE op = "close"
  BY <1>1 DEF AfterStock, PcsOf, ClosePcs, StockPcs, SessionOps
<1>2. CASE op \in {"test", "normal"}
  BY <1>2 DEF AfterStock, PcsOf, TestPcs, StockPcs, SessionOps
<1>3. CASE op = "delete"
  BY <1>3 DEF AfterStock, PcsOf, DeletePcs, StockPcs, SessionOps
<1>4. CASE op = "storno"
  BY <1>4 DEF AfterStock, PcsOf, StornoPcs, StockPcs, SessionOps
<1>. QED
  BY <1>1, <1>2, <1>3, <1>4 DEF SessionOps

(* A request at the stock goes on, with a record of its own operation.     *)
LEMMA Stocking ==
    ASSUME Base, NEW a \in Requests, NEW r \in RequestStates, act' = [act EXCEPT ![a] = r],
           r.op = act[a].op, r.ord = act[a].ord, r.ses = act[a].ses, r.tok = act[a].tok,
           act[a].pc \in StockPcs, r.pc \in {"claim", "move", "fail", AfterStock(act[a].op)},
           r.pc = "claim" => act[a].op \in SessionOps,
           r.pc = "move" => r.left # {} /\ (r.op = "storno" => r.left = {r.ord}),
           session' \in [Sessions -> SessionDocs], order' \in [Orders -> OrderDocs], BenignStep, RestOK'
    PROVE  Base'
<1>1. act[a].op \in SessionOps \cup {"storno"} /\ Fits(act[a], order[act[a].ord])
  BY Found
<1>2. /\ AfterStock(act[a].op) \in PcsOf(act[a].op)
      /\ AfterStock(act[a].op) \in {"closeSum", "deleteMark", "stornoEnd", "testEnd"}
      /\ {"move", "fail"} \subseteq PcsOf(act[a].op)
      /\ act[a].op \in SessionOps => "claim" \in PcsOf(act[a].op)
  BY <1>1, AfterPcs
<1>3. r.pc \in PcsOf(r.op)
  BY <1>2
<1>4. r.op \notin {"none", "sale", "card"}
  BY <1>1 DEF SessionOps
<1>7. r.pc \notin Terminal
  <2>1. r.pc \in {"claim", "move", "fail", "closeSum", "deleteMark", "stornoEnd", "testEnd"}
    BY <1>2
  <2>. QED
    BY <2>1 DEF Terminal
<1>5. r.op \in SessionOps => r.tok \in Tokens
  BY <1>1 DEF Fits
<1>6. r.op = "storno" => r.pc \notin {"list", "claim", "refund"}
  BY <1>2 DEF SessionOps
<1>. QED
  BY <1>3, <1>4, <1>5, <1>6, <1>7, Stepping DEF Selling

LEMMA StockTo ==
    ASSUME Base, NEW a \in Requests, act[a].pc \in StockPcs, Goto(a, "fail"),
           session' \in [Sessions -> SessionDocs], order' \in [Orders -> OrderDocs], BenignStep, RestOK'
    PROVE  Base'
<1> DEFINE r == [act[a] EXCEPT !.pc = "fail"]
<1>1. act[a] \in RequestStates
  BY Found
<1>2. act' = [act EXCEPT ![a] = r]
  BY DEF Goto
<1>3. r \in RequestStates /\ r.op = act[a].op /\ r.ord = act[a].ord /\ r.ses = act[a].ses
      /\ r.tok = act[a].tok /\ r.pc = "fail"
  BY <1>1 DEF RequestStates, Pcs, StockPcs
<1> HIDE DEF r
<1>. QED
  BY <1>2, <1>3, Stocking

LEMMA StockListBase == ASSUME Base, NEW a \in Requests, StockList(a) PROVE Base'
<1> DEFINE found == {o \in OrdersOf(act[a].ses, "PAID") : order[o].effect # Target(a)}
           r == [act[a] EXCEPT !.pc = "claim", !.todo = found, !.left = found,
                      !.plan = [o \in Orders |-> IF o \in found THEN order[o].adj ELSE {}]]
<1>0. /\ act[a].pc = "list" /\ act[a].pc \in StockPcs /\ act[a] \in RequestStates
      /\ act[a].op \in SessionOps /\ order \in [Orders -> OrderDocs]
      /\ session' \in [Sessions -> SessionDocs] /\ order' \in [Orders -> OrderDocs] /\ BenignStep /\ RestOK'
  BY Found, RestUnchanged, BenignUnchanged DEF StockList, docs, StockPcs, Fits
<1>1. found \subseteq Orders /\ [o \in Orders |-> IF o \in found THEN order[o].adj ELSE {}] \in [Orders -> SUBSET Items]
  BY <1>0 DEF OrdersOf, OrderDocs
<1>2. CASE act' = [act EXCEPT ![a] = r]
  <2>1. r \in RequestStates /\ r.op = act[a].op /\ r.ord = act[a].ord /\ r.ses = act[a].ses
        /\ r.tok = act[a].tok /\ r.pc = "claim"
    <3> HIDE DEF found
    <3>. QED
      BY <1>0, <1>1 DEF RequestStates, Pcs, StockPcs
  <2> HIDE DEF r
  <2>. QED
    BY <1>0, <1>2, <2>1, Stocking
<1>3. CASE Goto(a, "fail")
  BY <1>0, <1>3, StockTo
<1>. QED
  BY <1>2, <1>3 DEF StockList

LEMMA FirstOf == ASSUME NEW S \in SUBSET Orders, S # {} PROVE Min(S) \in S /\ Min(S) \in Orders
BY LeastNat, Consts

LEMMA FirstPlanType ==
    ASSUME Base, NEW a \in Requests, NEW S \in SUBSET Orders
    PROVE  FirstPlan(a, S) \in SUBSET Items
<1>1. act[a].plan \in [Orders -> SUBSET Items]
  BY Found DEF RequestStates
<1>. QED
  BY <1>1, FirstOf DEF FirstPlan

LEMMA TargetEffect == ASSUME NEW a PROVE Target(a) \in Effects
BY DEF Target, Effects

LEMMA StockClaimBase == ASSUME Base, NEW a \in Requests, StockClaim(a) PROVE Base'
<1> DEFINE o == Min(act[a].left)
<1>0. /\ act[a].pc = "claim" /\ act[a].pc \in StockPcs /\ act[a] \in RequestStates
      /\ act[a].op \in SessionOps /\ act[a].tok \in Tokens /\ order \in [Orders -> OrderDocs]
      /\ act[a].left \subseteq Orders /\ act[a].todo \subseteq Orders
      /\ session' \in [Sessions -> SessionDocs] /\ RestOK'
  BY Found, RestUnchanged DEF StockClaim, StockPcs, Fits, RequestStates
<1>1. ASSUME order' = order PROVE BenignStep /\ order' \in [Orders -> OrderDocs]
  BY <1>1, BenignUnchanged
<1>2. ASSUME act[a].left # {}, ClaimOk(a, o),
             order' = [order EXCEPT ![o].claim = act[a].tok, ![o].target = Target(a)],
             act' = [act EXCEPT ![a].left = act[a].left \ {o}]
      PROVE  Base'
  <2> DEFINE d == [order[o] EXCEPT !.claim = act[a].tok, !.target = Target(a)]
             r == [act[a] EXCEPT !.left = act[a].left \ {o}]
  <2>1. o \in Orders /\ order[o] \in OrderDocs /\ OrderOK(order[o]) /\ order[o].status = "PAID"
    BY <1>0, <1>2, FirstOf DEF ClaimOk, Base
  <2> HIDE DEF o
  <2>2. d \in OrderDocs /\ Kept(order[o], d)
    BY <1>0, <2>1, TargetEffect DEF OrderDocs, Claims, Kept
  <2>3. order' = [order EXCEPT ![o] = d] /\ act' = [act EXCEPT ![a] = r]
    BY <1>2
  <2> HIDE DEF d
  <2>4. Benign(order[o], d)
    BY <2>1, <2>2, KeptBenign
  <2>5. BenignStep /\ order' \in [Orders -> OrderDocs]
    BY <2>1, <2>2, <2>3, <2>4, OrderSet
  <2>6. r \in RequestStates /\ r.op = act[a].op /\ r.ord = act[a].ord /\ r.ses = act[a].ses
        /\ r.tok = act[a].tok /\ r.pc = "claim"
    BY <1>0 DEF RequestStates
  <2> HIDE DEF r
  <2>. QED
    BY <1>0, <2>3, <2>5, <2>6, Stocking
<1>3. CASE Goto(a, "fail") /\ UNCHANGED order
  BY <1>0, <1>1, <1>3, StockTo
<1>4. ASSUME act' = [act EXCEPT ![a].pc = IF act[a].todo = {} THEN AfterStock(act[a].op) ELSE "move",
                                ![a].left = act[a].todo, ![a].rest = FirstPlan(a, act[a].todo)],
             UNCHANGED order
      PROVE  Base'
  <2>1. PICK pc : pc = IF act[a].todo = {} THEN AfterStock(act[a].op) ELSE "move"
    OBVIOUS
  <2> DEFINE r == [act[a] EXCEPT !.pc = pc, !.left = act[a].todo, !.rest = FirstPlan(a, act[a].todo)]
  <2>2. pc \in Pcs
    <3>1. AfterStock(act[a].op) \in {"closeSum", "deleteMark", "stornoEnd", "testEnd"}
      BY <1>0, AfterPcs
    <3>. QED
      BY <2>1, <3>1 DEF Pcs, StockPcs, ClosePcs, DeletePcs, StornoPcs, TestPcs
  <2>3. act' = [act EXCEPT ![a] = r]
    BY <1>4, <2>1
  <2>4. FirstPlan(a, act[a].todo) \in SUBSET Items
    BY <1>0, FirstPlanType
  <2>5. r \in RequestStates /\ r.op = act[a].op /\ r.ord = act[a].ord /\ r.ses = act[a].ses
        /\ r.tok = act[a].tok /\ r.pc = pc /\ r.left = act[a].todo
    BY <1>0, <2>2, <2>4 DEF RequestStates
  <2> HIDE DEF r
  <2>6. BenignStep /\ order' \in [Orders -> OrderDocs]
    BY <1>1, <1>4
  <2>7. /\ r.pc \in {"claim", "move", "fail", AfterStock(act[a].op)}
        /\ r.pc = "move" => r.left # {} /\ r.op # "storno"
    <3>1. AfterStock(act[a].op) \in {"closeSum", "deleteMark", "stornoEnd", "testEnd"}
      BY <1>0, AfterPcs
    <3>2. act[a].op # "storno"
      BY <1>0 DEF SessionOps
    <3>. QED
      BY <2>1, <2>5, <3>1, <3>2
  <2>. QED
    BY <1>0, <2>3, <2>5, <2>6, <2>7, Stocking
<1>. QED
  BY <1>2, <1>3, <1>4 DEF StockClaim

LEMMA ItemFirst == ASSUME NEW S \in SUBSET Items, S # {} PROVE Min(S) \in S /\ Min(S) \in Items
BY LeastNat, Consts

LEMMA Single == ASSUME NEW o \in Nat PROVE Min({o}) = o
BY LeastNat

LEMMA StockMoveBase == ASSUME Base, NEW a \in Requests, StockMove(a) PROVE Base'
<1>0. /\ act[a].pc = "move" /\ act[a].pc \in StockPcs /\ act[a] \in RequestStates
      /\ act[a].op \in SessionOps \cup {"storno"} /\ act[a].left \in SUBSET Orders /\ act[a].left # {}
      /\ act[a].rest \in SUBSET Items /\ act[a].rest # {}
      /\ session' \in [Sessions -> SessionDocs] /\ order' \in [Orders -> OrderDocs] /\ BenignStep
      /\ RestOK /\ UNCHANGED <<faults, paid, refunds, counted>>
  BY Found, BenignUnchanged DEF StockMove, StockPcs, Fits, RequestStates
<1>1. act[a].tok \in Tokens \cup {StornoToken}
  BY <1>0, Found DEF Fits
<1>2. PICK o : o = Min(act[a].left)
  OBVIOUS
<1>3. PICK i : i = Min(act[a].rest)
  OBVIOUS
<1>4. o \in Orders /\ i \in Items
  BY <1>0, <1>2, <1>3, FirstOf, ItemFirst
<1>5. ASSUME keys' = [keys EXCEPT ![i] = @ \cup {<<act[a].tok, o>>}],
             taken' = [taken EXCEPT ![o][i] = IF Target(a) = "APPLIED" THEN @ + 1 ELSE @ - 1]
      PROVE  RestOK'
  <2>1. keys' \in [Items -> SUBSET ((Tokens \cup {StornoToken}) \X Orders)]
    BY <1>0, <1>1, <1>4, <1>5 DEF RestOK
  <2>2. PICK n : n = IF Target(a) = "APPLIED" THEN taken[o][i] + 1 ELSE taken[o][i] - 1
    OBVIOUS
  <2>3. n \in Int
    BY <1>0, <1>4, <2>2, TakenInt
  <2>4. taken \in [Orders -> [Items -> Int]]
    BY <1>0 DEF RestOK
  <2>5. taken' = [taken EXCEPT ![o] = [taken[o] EXCEPT ![i] = n]]
    BY <1>5, <2>2
  <2>6. taken' \in [Orders -> [Items -> Int]]
    BY <1>4, <2>3, <2>4, <2>5
  <2>. QED
    BY <1>0, <2>1, <2>6 DEF RestOK
<1>6. ASSUME keys' = keys, taken' = taken PROVE RestOK'
  BY <1>0, <1>6, RestUnchanged DEF history
<1>7. ASSUME act' = [act EXCEPT ![a].rest = @ \ {i}], RestOK' PROVE Base'
  <2> DEFINE r == [act[a] EXCEPT !.rest = act[a].rest \ {i}]
  <2>1. act' = [act EXCEPT ![a] = r]
    BY <1>7
  <2>2. r \in RequestStates /\ r.op = act[a].op /\ r.ord = act[a].ord /\ r.ses = act[a].ses
        /\ r.tok = act[a].tok /\ r.pc = "move" /\ r.left = act[a].left
    BY <1>0 DEF RequestStates
  <2> HIDE DEF r
  <2>3. r.left # {} /\ (r.op = "storno" => r.left = {r.ord})
    BY <1>0, <2>2, Found DEF Fits
  <2>. QED
    BY <1>0, <1>7, <2>1, <2>2, <2>3, Stocking
<1>8. ASSUME Goto(a, "fail"), RestOK' PROVE Base'
  BY <1>0, <1>8, StockTo
<1>. QED
  BY <1>2, <1>3, <1>5, <1>6, <1>7, <1>8 DEF StockMove

LEMMA StockDoneBase == ASSUME Base, NEW a \in Requests, StockDone(a) PROVE Base'
<1>1. PICK o : o = Min(act[a].left)
  OBVIOUS
<1>2. PICK left : left = act[a].left \ {o}
  OBVIOUS
<1>0. /\ act[a].pc = "move" /\ act[a].pc \in StockPcs /\ act[a] \in RequestStates
      /\ act[a].op \in SessionOps \cup {"storno"} /\ act[a].left \in SUBSET Orders /\ act[a].left # {}
      /\ session' \in [Sessions -> SessionDocs] /\ RestOK' /\ order \in [Orders -> OrderDocs]
  BY Found, RestUnchanged DEF StockDone, StockPcs, Fits, RequestStates
<1>3. /\ o \in Orders /\ order[o] \in OrderDocs /\ OrderOK(order[o]) /\ left \in SUBSET Orders
      /\ act[a].tok \in Tokens \cup {StornoToken}
  BY <1>0, <1>1, <1>2, FirstOf, Found DEF Base, Fits
<1>4. BenignStep /\ order' \in [Orders -> OrderDocs]
  <2>1. CASE UNCHANGED order
    BY <2>1, BenignUnchanged
  <2>2. CASE /\ ClaimOwn(o, act[a].tok, Target(a))
             /\ order' = [order EXCEPT ![o].effect = Target(a),
                                   ![o].claim = IF act[a].op = "storno" THEN @ ELSE NoToken]
    <3> DEFINE d == [order[o] EXCEPT !.effect = Target(a),
                        !.claim = IF act[a].op = "storno" THEN order[o].claim ELSE NoToken]
    <3>1. d \in OrderDocs /\ Kept(order[o], d)
      BY <1>3, TargetEffect DEF OrderDocs, Kept, Claims
    <3>2. order[o].status # "NEW"
      BY <1>3, <2>2, Consts DEF OrderOK, NewOrder, ClaimOwn
    <3>3. order' = [order EXCEPT ![o] = d]
      BY <2>2
    <3> HIDE DEF d
    <3>. QED
      BY <1>3, <3>1, <3>2, <3>3, KeptBenign, OrderSet
  <2>. QED
    BY <1>1, <2>1, <2>2 DEF StockDone
<1>5. PICK pc : pc = IF left = {} THEN AfterStock(act[a].op) ELSE "move"
  OBVIOUS
<1>6. AfterStock(act[a].op) \in {"closeSum", "deleteMark", "stornoEnd", "testEnd"}
  BY <1>0, AfterPcs
<1>7. FirstPlan(a, left) \in SUBSET Items
  BY <1>3, FirstPlanType
<1> DEFINE q == [act[a] EXCEPT !.pc = pc, !.left = left, !.rest = FirstPlan(a, left)]
           f == [act[a] EXCEPT !.pc = "fail"]
<1>8. act' = [act EXCEPT ![a] = q] \/ act' = [act EXCEPT ![a] = f]
  BY <1>1, <1>2, <1>5 DEF StockDone
<1>9. q \in RequestStates /\ q.op = act[a].op /\ q.ord = act[a].ord /\ q.ses = act[a].ses
      /\ q.tok = act[a].tok /\ q.pc = pc /\ q.left = left
  <2>1. pc \in Pcs
    BY <1>5, <1>6 DEF Pcs, StockPcs, ClosePcs, DeletePcs, StornoPcs, TestPcs
  <2>. QED
    BY <1>0, <1>3, <1>7, <2>1 DEF RequestStates
<1>10. f \in RequestStates /\ f.op = act[a].op /\ f.ord = act[a].ord /\ f.ses = act[a].ses
      /\ f.tok = act[a].tok /\ f.pc = "fail"
  BY <1>0 DEF RequestStates, Pcs, StockPcs
<1> HIDE DEF q, f
<1>11. CASE act' = [act EXCEPT ![a] = q]
  <2>1. q.pc \in {"claim", "move", "fail", AfterStock(act[a].op)} /\ q.pc # "claim"
    BY <1>5, <1>6, <1>9
  <2>2. q.pc = "move" => q.left # {} /\ q.op # "storno"
    <3>1. act[a].op = "storno" => left = {}
      <4>1. act[a].op = "storno" => act[a].left = {act[a].ord} /\ act[a].ord \in Nat
        BY <1>0, Found, Consts DEF Fits
      <4>. QED
        BY <1>1, <1>2, <4>1, Single
    <3>. QED
      BY <1>5, <1>6, <1>9, <3>1
  <2>. QED
    BY <1>0, <1>4, <1>9, <1>11, <2>1, <2>2, Stocking
<1>12. CASE act' = [act EXCEPT ![a] = f]
  BY <1>0, <1>4, <1>10, <1>12, Stocking
<1>. QED
  BY <1>8, <1>11, <1>12

LEMMA StockFailBase == ASSUME Base, NEW a \in Requests, StockFail(a) PROVE Base'
<1>0. /\ act[a].pc = "fail" /\ act[a].pc \in StockPcs /\ act[a] \in RequestStates /\ RestOK' /\ End(a)
      /\ act[a].op \in SessionOps \cup {"storno"}
      /\ session \in [Sessions -> SessionDocs] /\ order \in [Orders -> OrderDocs]
  BY Found, RestUnchanged DEF StockFail, StockPcs
<1>1. CASE act[a].op # "storno" /\ UNCHANGED order
           /\ session' = IF HoldsTransition(a)
                         THEN [session EXCEPT ![act[a].ses].trans.failed = TRUE] ELSE session
  <2> DEFINE x == [session[act[a].ses] EXCEPT !.trans.failed = TRUE]
  <2>1. act[a].ses \in Sessions
    BY <1>0, <1>1, Found
  <2> DEFINE tr == [session[act[a].ses].trans EXCEPT !.failed = TRUE]
  <2>7. session[act[a].ses].trans \in Transitions
    BY <1>0, <2>1 DEF SessionDocs
  <2>5. tr \in Transitions
    BY <2>7 DEF Transitions
  <2>6. x = [session[act[a].ses] EXCEPT !.trans = tr]
    OBVIOUS
  <2>3. session' = session \/ session' = [session EXCEPT ![act[a].ses] = x]
    BY <1>1
  <2> HIDE DEF tr
  <2>2. x \in SessionDocs
    BY <1>0, <2>1, <2>5, <2>6 DEF SessionDocs
  <2> HIDE DEF x
  <2>4. session' \in [Sessions -> SessionDocs]
    BY <1>0, <2>1, <2>2, <2>3
  <2>. QED
    BY <1>0, <1>1, <2>4, BenignUnchanged, Ending
<1>2. CASE act[a].op = "storno" /\ UNCHANGED session
           /\ order' = [order EXCEPT ![act[a].ord].storno = "FAILED", ![act[a].ord].refunded = act[a].flag]
  <2> DEFINE o == act[a].ord
             d == [order[o] EXCEPT !.storno = "FAILED", !.refunded = act[a].flag]
  <2>1. o \in Orders /\ order[o] \in OrderDocs /\ OrderOK(order[o]) /\ order[o].status # "NEW"
    BY <1>0, <1>2, Found DEF Base, Fits
  <2>2. d \in OrderDocs /\ Kept(order[o], d)
    BY <1>0, <2>1 DEF OrderDocs, Kept, RequestStates
  <2>3. order' = [order EXCEPT ![o] = d]
    BY <1>2
  <2> HIDE DEF d
  <2>4. BenignStep /\ order' \in [Orders -> OrderDocs]
    BY <2>1, <2>2, <2>3, KeptBenign, OrderSet
  <2>. QED
    BY <1>0, <1>2, <2>4, Ending
<1>. QED
  BY <1>1, <1>2 DEF StockFail
-----------------------------------------------------------------------------
(* Closing, reclassifying and deleting a session.                          *)
LEMMA NoneOK == NoTransition \in Transitions
BY DEF NoTransition, Transitions

LEMMA SessionTo ==
    ASSUME Base, NEW s \in Sessions, NEW x \in SessionDocs,
           session' = session \/ session' = [session EXCEPT ![s] = x]
    PROVE  session' \in [Sessions -> SessionDocs]
BY TypeParts DEF Base

LEMMA Managing ==
    ASSUME Base, NEW a \in Requests, NEW pc, Goto(a, pc), act[a].op \in SessionOps, pc \in PcsOf(act[a].op),
           pc # "move", pc \in StockPcs => act[a].op = "close",
           session' \in [Sessions -> SessionDocs], order' \in [Orders -> OrderDocs], BenignStep, RestOK'
    PROVE  Base'
<1>1. act[a].op \notin PayOps /\ act[a].op # "storno" /\ act[a].op # "none"
  BY DEF SessionOps, PayOps
<1>2. pc \notin PayPcs
  BY <1>1, PcOps
<1>3. pc \notin Terminal /\ pc \notin PreWrite
  BY <1>2 DEF PayPcs, Terminal, PreWrite
<1>4. act[a].op = "close" => act[a].tok \in Tokens
  BY Found DEF Fits
<1>. QED
  BY <1>1, <1>3, <1>4, Going

LEMMA ClosingBase ==
    ASSUME Base, NEW a \in Requests, ClosePending(a) \/ ClosePaid(a)
    PROVE  Base'
<1>0. /\ act[a].op = "close" /\ act[a].op \in SessionOps
      /\ session' \in [Sessions -> SessionDocs] /\ order' \in [Orders -> OrderDocs] /\ BenignStep /\ RestOK'
  BY Found, RestUnchanged, BenignUnchanged DEF ClosePending, ClosePaid, docs, ClosePcs, SessionOps
<1>1. \E pc \in {"unclaim", "closePaid", "closeSum", "list"} : Goto(a, pc)
  <2>1. CASE ClosePending(a)
    BY <2>1 DEF ClosePending
  <2>2. CASE ClosePaid(a)
    BY <2>2 DEF ClosePaid
  <2>. QED
    BY <2>1, <2>2
<1>2. {"unclaim", "closePaid", "closeSum", "list"} \subseteq PcsOf(act[a].op)
  BY <1>0 DEF PcsOf, ClosePcs, StockPcs
<1>. QED
  BY <1>0, <1>1, <1>2, Managing

LEMMA UnclaimBase == ASSUME Base, NEW a \in Requests, Unclaim(a) PROVE Base'
<1>0. /\ act[a].ses \in Sessions /\ End(a) /\ session \in [Sessions -> SessionDocs]
      /\ order' \in [Orders -> OrderDocs] /\ BenignStep /\ RestOK'
  BY Found, RestUnchanged, BenignUnchanged DEF Unclaim, ClosePcs, SessionOps
<1> DEFINE x == [session[act[a].ses] EXCEPT !.trans = NoTransition]
<1>1. x \in SessionDocs
  BY <1>0, NoneOK DEF SessionDocs
<1>2. session' = session \/ session' = [session EXCEPT ![act[a].ses] = x]
  BY DEF Unclaim
<1> HIDE DEF x
<1>. QED
  BY <1>0, <1>1, <1>2, SessionTo, Ending

LEMMA CloseSumBase == ASSUME Base, NEW a \in Requests, CloseSum(a) PROVE Base'
<1> DEFINE found == OrdersOf(act[a].ses, "PAID")
           r == [act[a] EXCEPT !.pc = "closeEnd", !.todo = found]
<1>0. /\ act[a] \in RequestStates /\ act[a].op = "close" /\ act[a].op \in SessionOps /\ act[a].tok \in Tokens
      /\ session' \in [Sessions -> SessionDocs] /\ order' \in [Orders -> OrderDocs] /\ BenignStep /\ RestOK'
  BY Found, RestUnchanged, BenignUnchanged DEF CloseSum, docs, ClosePcs, SessionOps, Fits
<1>1. found \subseteq Orders
  BY DEF OrdersOf
<1>2. act' = [act EXCEPT ![a] = r]
  BY DEF CloseSum
<1> HIDE DEF found
<1>3. r \in RequestStates /\ r.op = act[a].op /\ r.ord = act[a].ord /\ r.ses = act[a].ses
      /\ r.tok = act[a].tok /\ r.pc = "closeEnd"
  BY <1>0, <1>1 DEF RequestStates, Pcs, ClosePcs
<1> HIDE DEF r
<1>4. r.pc \in PcsOf(r.op) /\ r.pc \notin Terminal \cup PreWrite \cup StockPcs /\ r.pc # "move"
  BY <1>0, <1>3 DEF PcsOf, ClosePcs, Terminal, PreWrite, StockPcs
<1>. QED
  BY <1>0, <1>2, <1>3, <1>4, Stepping DEF Selling

LEMMA CloseEndBase == ASSUME Base, NEW a \in Requests, CloseEnd(a) PROVE Base'
<1>e. PICK e \in Effects : e = IF session[act[a].ses].isTest THEN "REVERTED" ELSE "APPLIED"
  BY DEF Effects
<1> DEFINE s == act[a].ses
           x == [session[s] EXCEPT !.status = "CLOSED", !.trans = NoTransition, !.effect = e]
<1>0. /\ s \in Sessions /\ End(a) /\ session[s] \in SessionDocs /\ act[a].todo \subseteq Orders
      /\ order' \in [Orders -> OrderDocs] /\ BenignStep
      /\ RestOK /\ UNCHANGED <<keys, faults, taken, paid, refunds>>
  BY Found, BenignUnchanged DEF CloseEnd, ClosePcs, SessionOps, RequestStates
<1>1. x \in SessionDocs
  BY <1>0, NoneOK DEF SessionDocs
<1>2. session' = session \/ session' = [session EXCEPT ![s] = x]
  BY <1>e DEF CloseEnd
<1>3. counted' = counted \/ counted' = [counted EXCEPT ![s] = act[a].todo]
  BY DEF CloseEnd
<1> HIDE DEF x
<1>4. RestOK'
  BY <1>0, <1>3 DEF RestOK
<1>. QED
  BY <1>0, <1>1, <1>2, <1>4, SessionTo, Ending

LEMMA TestingBase ==
    ASSUME Base, NEW a \in Requests, TestPaid(a) \/ TestPending(a)
    PROVE  Base'
<1>0. /\ act[a].op \in {"test", "normal"} /\ act[a].op \in SessionOps
      /\ session' \in [Sessions -> SessionDocs] /\ order' \in [Orders -> OrderDocs] /\ BenignStep /\ RestOK'
  BY Found, RestUnchanged, BenignUnchanged DEF TestPaid, TestPending, docs, TestPcs, SessionOps
<1>1. End(a) \/ \E pc \in {"testPending", "testClaim", "testSet"} : Goto(a, pc)
  <2>1. CASE TestPaid(a)
    BY <2>1 DEF TestPaid
  <2>2. CASE TestPending(a)
    BY <2>2 DEF TestPending
  <2>. QED
    BY <2>1, <2>2
<1>2. /\ {"testPending", "testClaim", "testSet"} \subseteq PcsOf(act[a].op)
      /\ {"testPending", "testClaim", "testSet"} \cap StockPcs = {}
  BY <1>0 DEF PcsOf, TestPcs, StockPcs
<1>. QED
  BY <1>0, <1>1, <1>2, Managing, Ending

LEMMA TestSetBase == ASSUME Base, NEW a \in Requests, TestSet(a) PROVE Base'
<1> DEFINE s == act[a].ses
           p == [session[s] EXCEPT !.pay = NoRequest, !.payFresh = FALSE]
           x == [p EXCEPT !.isTest = (act[a].op = "test")]
<1>0. /\ s \in Sessions /\ End(a) /\ session \in [Sessions -> SessionDocs]
      /\ order' \in [Orders -> OrderDocs] /\ BenignStep /\ RestOK'
  BY Found, RestUnchanged, BenignUnchanged DEF TestSet, TestPcs, SessionOps
<1>1. p \in SessionDocs
  BY <1>0, PayUpdate
<1>2. session' = session \/ session' = [session EXCEPT ![s] = x]
  BY <1>0 DEF TestSet, Unpaying
<1> HIDE DEF p
<1>3. x \in SessionDocs
  BY <1>1 DEF SessionDocs
<1> HIDE DEF x
<1>. QED
  BY <1>0, <1>2, <1>3, SessionTo, Ending

LEMMA TestEndBase == ASSUME Base, NEW a \in Requests, TestEnd(a) PROVE Base'
<1> DEFINE s == act[a].ses
           x == [session[s] EXCEPT !.isTest = (act[a].op = "test"), !.effect = Target(a),
                                   !.trans = NoTransition]
<1>0. /\ s \in Sessions /\ End(a) /\ session[s] \in SessionDocs
      /\ order' \in [Orders -> OrderDocs] /\ BenignStep /\ RestOK'
  BY Found, RestUnchanged, BenignUnchanged DEF TestEnd, TestPcs, SessionOps
<1>1. x \in SessionDocs
  BY <1>0, TargetEffect, NoneOK DEF SessionDocs
<1>2. session' = session \/ session' = [session EXCEPT ![s] = x]
  BY DEF TestEnd
<1> HIDE DEF x
<1>. QED
  BY <1>0, <1>1, <1>2, SessionTo, Ending

(* A claimed transition.                                                   *)
LEMMA ClaimDoc ==
    ASSUME NEW a \in Requests, NEW x \in SessionDocs, NEW t \in Tokens,
           NEW type \in {"close", "test", "normal", "delete"}
    PROVE  [x EXCEPT !.trans = ClaimedBy(a, type, t)] \in SessionDocs
<1>1. ClaimedBy(a, type, t) \in Transitions
  BY DEF ClaimedBy, Transitions
<1>. QED
  BY <1>1 DEF SessionDocs

LEMMA TestClaimBase == ASSUME Base, NEW a \in Requests, NEW t \in Tokens, TestClaim(a, t) PROVE Base'
<1> DEFINE s == act[a].ses
           x == [session[s] EXCEPT !.trans = ClaimedBy(a, act[a].op, t)]
           r == [act[a] EXCEPT !.pc = "list", !.tok = t]
<1>0. /\ act[a].op \in {"test", "normal"} /\ act[a].op \in SessionOps /\ s \in Sessions
      /\ act[a] \in RequestStates /\ session \in [Sessions -> SessionDocs]
      /\ order' \in [Orders -> OrderDocs] /\ BenignStep /\ RestOK'
  BY Found, RestUnchanged, BenignUnchanged DEF TestClaim, TestPcs, SessionOps
<1>1. x \in SessionDocs
  BY <1>0, ClaimDoc
<1>2. r \in RequestStates /\ r.op = act[a].op /\ r.ord = act[a].ord /\ r.ses = act[a].ses
      /\ r.tok = t /\ r.pc = "list"
  BY <1>0 DEF RequestStates, Pcs, StockPcs, Claims
<1>3. \/ End(a) /\ session' = session
      \/ act' = [act EXCEPT ![a] = r] /\ session' = [session EXCEPT ![s] = x]
  BY DEF TestClaim, ClaimTransition
<1> HIDE DEF x, r
<1>4. r.pc \in PcsOf(r.op) /\ r.op \notin {"none", "storno", "sale", "card"} /\ r.pc \notin Terminal /\ r.pc # "move"
  BY <1>0, <1>2 DEF PcsOf, StockPcs, Terminal
<1>5. session' \in [Sessions -> SessionDocs]
  BY <1>0, <1>1, <1>3, SessionTo
<1>. QED
  BY <1>0, <1>2, <1>3, <1>4, <1>5, Stepping, Ending DEF Selling

LEMMA DeletePaidBase == ASSUME Base, NEW a \in Requests, DeletePaid(a) PROVE Base'
<1>0. /\ act[a].op = "delete" /\ act[a].op \in SessionOps
      /\ session' \in [Sessions -> SessionDocs] /\ order' \in [Orders -> OrderDocs] /\ BenignStep /\ RestOK'
  BY Found, RestUnchanged, BenignUnchanged DEF DeletePaid, docs, DeletePcs, SessionOps
<1>1. "deleteClaim" \in PcsOf(act[a].op) /\ "deleteClaim" \notin StockPcs
  BY <1>0 DEF PcsOf, DeletePcs, StockPcs
<1>. QED
  BY <1>0, <1>1, Managing, Ending DEF DeletePaid

LEMMA DeleteClaimBase == ASSUME Base, NEW a \in Requests, NEW t \in Tokens, DeleteClaim(a, t) PROVE Base'
<1>1. PICK pc : pc = IF session[act[a].ses].effect = "REVERTED" THEN "deleteOrders" ELSE "list"
  OBVIOUS
<1> DEFINE s == act[a].ses
           x == [session[s] EXCEPT !.trans = ClaimedBy(a, "delete", t)]
           r == [act[a] EXCEPT !.tok = t, !.pc = pc]
<1>0. /\ act[a].op = "delete" /\ act[a].op \in SessionOps /\ s \in Sessions
      /\ act[a] \in RequestStates /\ session \in [Sessions -> SessionDocs]
      /\ order' \in [Orders -> OrderDocs] /\ BenignStep /\ RestOK'
  BY Found, RestUnchanged, BenignUnchanged DEF DeleteClaim, DeletePcs, SessionOps
<1>2. x \in SessionDocs
  BY <1>0, ClaimDoc
<1>3. pc \in PcsOf("delete") /\ pc \in Pcs /\ pc \notin Terminal /\ pc # "move"
  BY <1>1 DEF PcsOf, Pcs, DeletePcs, StockPcs, Terminal
<1>4. r \in RequestStates /\ r.op = act[a].op /\ r.ord = act[a].ord /\ r.ses = act[a].ses
      /\ r.tok = t /\ r.pc = pc
  BY <1>0, <1>3 DEF RequestStates, Claims
<1>5. \/ End(a) /\ session' = session
      \/ act' = [act EXCEPT ![a] = r] /\ session' = [session EXCEPT ![s] = x]
  BY <1>1 DEF DeleteClaim, ClaimTransition
<1> HIDE DEF x, r
<1>6. session' \in [Sessions -> SessionDocs]
  BY <1>0, <1>2, <1>5, SessionTo
<1>7. r.op \notin {"none", "storno", "sale", "card"}
  BY <1>0, <1>4
<1>. QED
  BY <1>0, <1>3, <1>4, <1>5, <1>6, <1>7, Stepping, Ending DEF Selling

LEMMA DeleteMarkBase == ASSUME Base, NEW a \in Requests, DeleteMark(a) PROVE Base'
<1>0. /\ act[a].op = "delete" /\ act[a].op \in SessionOps /\ act[a].ses \in Sessions
      /\ session \in [Sessions -> SessionDocs] /\ Goto(a, "deleteOrders")
      /\ order' \in [Orders -> OrderDocs] /\ BenignStep /\ RestOK'
  BY Found, RestUnchanged, BenignUnchanged DEF DeleteMark, DeletePcs, SessionOps
<1> DEFINE x == [session[act[a].ses] EXCEPT !.effect = "REVERTED"]
<1>1. x \in SessionDocs
  BY <1>0 DEF SessionDocs, Effects
<1>2. session' = session \/ session' = [session EXCEPT ![act[a].ses] = x]
  BY DEF DeleteMark
<1> HIDE DEF x
<1>3. "deleteOrders" \in PcsOf(act[a].op) /\ "deleteOrders" \notin StockPcs
  BY <1>0 DEF PcsOf, DeletePcs, StockPcs
<1>. QED
  BY <1>0, <1>1, <1>2, <1>3, SessionTo, Managing

LEMMA DeleteOrdersBase == ASSUME Base, NEW a \in Requests, DeleteOrders(a) PROVE Base'
<1> DEFINE d == [NewOrder EXCEPT !.status = "DELETED"]
<1>0. /\ act[a].op = "delete" /\ act[a].op \in SessionOps /\ act[a].ses \in Sessions
      /\ session' \in [Sessions -> SessionDocs] /\ Goto(a, "deleteEnd")
      /\ order \in [Orders -> OrderDocs] /\ RestOK'
  BY Found, RestUnchanged DEF DeleteOrders, DeletePcs, SessionOps
<1>1. d \in OrderDocs /\ d.status = "DELETED" /\ ~d.card /\ ~d.checkout
  BY Consts DEF OrderDocs, NewOrder, Effects, Claims
<1>2. order' = [o \in Orders |-> IF order[o].ses = act[a].ses THEN d ELSE order[o]]
  BY DEF DeleteOrders
<1> HIDE DEF d
<1>3. order' \in [Orders -> OrderDocs]
  BY <1>0, <1>1, <1>2
<1>4. ASSUME NEW o \in Orders PROVE Benign(order[o], order'[o])
  <2>1. CASE order[o].ses = act[a].ses
    <3>1. order[o].status # "NEW"
      BY <1>0, <2>1, Consts DEF Base, OrderOK, NewOrder
    <3>. QED
      BY <1>1, <1>2, <2>1, <3>1 DEF Benign
  <2>2. CASE order[o].ses # act[a].ses
    BY <1>2, <2>2, BenignSame DEF Base
  <2>. QED
    BY <2>1, <2>2
<1>5. "deleteEnd" \in PcsOf(act[a].op) /\ "deleteEnd" \notin StockPcs
  BY <1>0 DEF PcsOf, DeletePcs, StockPcs
<1>. QED
  BY <1>0, <1>3, <1>4, <1>5, Managing DEF BenignStep

LEMMA DeleteEndBase == ASSUME Base, NEW a \in Requests, DeleteEnd(a) PROVE Base'
<1>0. /\ act[a].ses \in Sessions /\ session \in [Sessions -> SessionDocs] /\ End(a)
      /\ order' \in [Orders -> OrderDocs] /\ BenignStep /\ RestOK'
  BY Found, RestUnchanged, BenignUnchanged DEF DeleteEnd, DeletePcs, SessionOps
<1> DEFINE x == [NewSession EXCEPT !.status = "DELETED"]
<1>1. x \in SessionDocs
  BY DEF NewSession, NoTransition, Transitions, SessionDocs, Effects
<1>2. session' = session \/ session' = [session EXCEPT ![act[a].ses] = x]
  BY DEF DeleteEnd
<1> HIDE DEF x
<1>. QED
  BY <1>0, <1>1, <1>2, SessionTo, Ending
-----------------------------------------------------------------------------
(* Stornos.                                                                *)
LEMMA StornoClaimBase == ASSUME Base, NEW a \in Requests, StornoClaim(a) PROVE Base'
<1>1. PICK o : o = act[a].ord
  OBVIOUS
<1>0. /\ act[a].op = "storno" /\ o \in Orders /\ act[a] \in RequestStates /\ act[a].tok = StornoToken
      /\ order \in [Orders -> OrderDocs] /\ order[o] \in OrderDocs /\ OrderOK(order[o])
      /\ order[o].status # "NEW" /\ act[a].plan \in [Orders -> SUBSET Items]
      /\ session' \in [Sessions -> SessionDocs] /\ RestOK'
  BY <1>1, Found, RestUnchanged DEF StornoClaim, StornoPcs, Fits, Base, RequestStates
<1>2. CASE /\ order' = [order EXCEPT ![o].claim = StornoToken, ![o].target = "REVERTED"]
           /\ act' = [act EXCEPT ![a].pc = IF order[o].card /\ ~order[o].refunded
                                          THEN "refund" ELSE "move",
                        ![a].flag = order[o].refunded, ![a].left = {o},
                        ![a].plan[o] = Effective(o), ![a].rest = Effective(o)]
  <2>1. PICK pc \in {"refund", "move"} : pc = IF order[o].card /\ ~order[o].refunded THEN "refund" ELSE "move"
    OBVIOUS
  <2>2. PICK S \in SUBSET Items : S = Effective(o)
    BY <1>0 DEF Effective, OrderDocs
  <2> DEFINE plan == [act[a].plan EXCEPT ![o] = S]
             r == [act[a] EXCEPT !.pc = pc, !.flag = order[o].refunded, !.left = {o},
                                 !.plan = plan, !.rest = S]
             d == [order[o] EXCEPT !.claim = StornoToken, !.target = "REVERTED"]
  <2>3. d \in OrderDocs /\ Kept(order[o], d)
    BY <1>0 DEF OrderDocs, Kept, Claims, Effects
  <2>a. act' = [act EXCEPT ![a].pc = pc, ![a].flag = order[o].refunded, ![a].left = {o},
                           ![a].plan[o] = S, ![a].rest = S]
    BY <1>2, <2>1, <2>2
  <2>4. act' = [act EXCEPT ![a] = r]
    BY <2>a, ZenonT(40)
  <2>b. order' = [order EXCEPT ![o] = d]
    BY <1>2
  <2> HIDE DEF d
  <2>5. BenignStep /\ order' \in [Orders -> OrderDocs]
    BY <1>0, <2>3, <2>b, KeptBenign, OrderSet
  <2>6. plan \in [Orders -> SUBSET Items]
    BY <1>0
  <2> HIDE DEF plan
  <2>7. pc \in Pcs
    BY DEF Pcs, StornoPcs, StockPcs
  <2>8. r \in RequestStates /\ r.op = act[a].op /\ r.ord = act[a].ord /\ r.ses = act[a].ses
        /\ r.tok = act[a].tok /\ r.pc = pc /\ r.left = {o}
    BY <1>0, <2>6, <2>7 DEF RequestStates, OrderDocs
  <2> HIDE DEF r
  <2>9. r.pc \in PcsOf(r.op) /\ r.op \notin SessionOps /\ r.op \notin {"none", "sale", "card"}
        /\ r.pc \notin Terminal /\ r.pc \notin {"list", "claim"} /\ r.left = {r.ord}
    BY <1>0, <1>1, <2>8 DEF PcsOf, StornoPcs, StockPcs, Terminal, SessionOps
  <2>. QED
    BY <1>0, <2>4, <2>5, <2>8, <2>9, Stepping DEF Selling
<1>3. CASE End(a) /\ order' = [order EXCEPT ![o].storno = IF @ = "IN_PROGRESS" THEN "FAILED" ELSE @]
  <2> DEFINE d == [order[o] EXCEPT !.storno = IF order[o].storno = "IN_PROGRESS" THEN "FAILED" ELSE order[o].storno]
  <2>1. d \in OrderDocs /\ Kept(order[o], d)
    BY <1>0 DEF OrderDocs, Kept
  <2>2. order' = [order EXCEPT ![o] = d]
    BY <1>3
  <2> HIDE DEF d
  <2>3. BenignStep /\ order' \in [Orders -> OrderDocs]
    BY <1>0, <2>1, <2>2, KeptBenign, OrderSet
  <2>. QED
    BY <1>0, <1>3, <2>3, Ending
<1>. QED
  BY <1>1, <1>2, <1>3 DEF StornoClaim

LEMMA RefundBase == ASSUME Base, NEW a \in Requests, Refund(a) PROVE Base'
<1>1. PICK o : o = act[a].ord
  OBVIOUS
<1>0. /\ act[a].op = "storno" /\ o \in Orders /\ act[a] \in RequestStates
      /\ order \in [Orders -> OrderDocs] /\ order[o] \in OrderDocs /\ OrderOK(order[o])
      /\ order[o].status # "NEW" /\ session' \in [Sessions -> SessionDocs] /\ RestOK
      /\ UNCHANGED <<session, keys, faults, taken, paid, counted>>
  BY <1>1, Found DEF Refund, StornoPcs, Fits, Base
<1>2. CASE /\ refunds' = [refunds EXCEPT ![o] = @ + 1]
           /\ act' = [act EXCEPT ![a].pc = "move", ![a].flag = TRUE]
           /\ UNCHANGED order
  <2> DEFINE r == [act[a] EXCEPT !.pc = "move", !.flag = TRUE]
  <2>1. act' = [act EXCEPT ![a] = r]
    BY <1>2
  <2>2. r \in RequestStates /\ r.op = act[a].op /\ r.ord = act[a].ord /\ r.ses = act[a].ses
        /\ r.tok = act[a].tok /\ r.pc = "move" /\ r.left = act[a].left
    BY <1>0 DEF RequestStates, Pcs, StockPcs
  <2> HIDE DEF r
  <2>3. refunds \in [Orders -> Nat]
    BY <1>0 DEF RestOK
  <2>4. refunds' \in [Orders -> Nat]
    BY <1>0, <1>2, <2>3
  <2>5. RestOK'
    BY <1>0, <2>4 DEF RestOK
  <2>6. r.pc \in PcsOf(r.op) /\ r.op \notin SessionOps /\ r.op \notin {"none", "sale", "card"}
        /\ r.pc \notin Terminal /\ r.pc \notin {"list", "claim"}
    BY <1>0, <2>2 DEF PcsOf, StornoPcs, StockPcs, Terminal, SessionOps
  <2>7. act[a].left = {act[a].ord}
    BY <1>0, Found DEF Fits, Refund
  <2>8. BenignStep /\ order' \in [Orders -> OrderDocs]
    BY <1>2, BenignUnchanged
  <2>. QED
    BY <1>0, <2>1, <2>2, <2>5, <2>6, <2>7, <2>8, Stepping DEF Selling
<1>3. CASE /\ End(a) /\ UNCHANGED refunds
           /\ order' = [order EXCEPT ![o].storno = IF order[o].status = "DELETED" THEN @ ELSE "FAILED"]
  <2> DEFINE d == [order[o] EXCEPT !.storno = IF order[o].status = "DELETED" THEN order[o].storno ELSE "FAILED"]
  <2>1. d \in OrderDocs /\ Kept(order[o], d)
    BY <1>0 DEF OrderDocs, Kept
  <2>2. order' = [order EXCEPT ![o] = d]
    BY <1>3
  <2> HIDE DEF d
  <2>3. BenignStep /\ order' \in [Orders -> OrderDocs]
    BY <1>0, <2>1, <2>2, KeptBenign, OrderSet
  <2>4. RestOK'
    BY <1>0, <1>3 DEF RestOK
  <2>. QED
    BY <1>0, <1>3, <2>3, <2>4, Ending
<1>. QED
  BY <1>1, <1>2, <1>3 DEF Refund

LEMMA StornoEndBase == ASSUME Base, NEW a \in Requests, StornoEnd(a) PROVE Base'
<1>1. PICK o : o = act[a].ord
  OBVIOUS
<1> DEFINE d == IF order[o].status = "DELETED" THEN order[o]
                ELSE [order[o] EXCEPT !.status = "CANCELLED", !.storno = "COMPLETED", !.refunded = act[a].flag,
                                      !.effect = "REVERTED", !.claim = NoToken]
<1>0. /\ act[a].op = "storno" /\ o \in Orders /\ act[a].flag \in BOOLEAN /\ End(a)
      /\ order[o] \in OrderDocs /\ OrderOK(order[o])
      /\ order[o].status # "NEW" /\ session' \in [Sessions -> SessionDocs] /\ RestOK'
  BY <1>1, Found, RestUnchanged DEF StornoEnd, StornoPcs, Fits, Base, RequestStates
<1>a. order[o].status \notin {"NEW", "PENDING"}
  BY <1>0, <1>1, Found DEF Fits
<1>2. d \in OrderDocs /\ d.status \notin {"NEW", "PENDING"} /\ d.ses = order[o].ses
      /\ d.card = order[o].card /\ d.checkout = order[o].checkout
  <2>1. CASE order[o].status = "DELETED"
    BY <1>0, <1>a, <2>1
  <2>2. CASE order[o].status # "DELETED"
    BY <1>0, <2>2 DEF OrderDocs, Claims, Effects
  <2>. QED
    BY <2>1, <2>2
<1>3. order' = [order EXCEPT ![o] = d]
  BY <1>1 DEF StornoEnd
<1> HIDE DEF d
<1>4. Benign(order[o], d)
  BY <1>0, <1>2 DEF Benign, OrderOK
<1>. QED
  BY <1>0, <1>2, <1>3, <1>4, OrderSet, Ending

LEMMA StornoThrowsBase == ASSUME Base, NEW a \in Requests, StornoThrows(a) PROVE Base'
<1>1. PICK o : o = act[a].ord
  OBVIOUS
<1> DEFINE d == [order[o] EXCEPT !.storno = IF order[o].storno = "IN_PROGRESS" THEN "FAILED" ELSE order[o].storno]
<1>0. /\ act[a].op = "storno" /\ o \in Orders /\ End(a)
      /\ order[o] \in OrderDocs /\ OrderOK(order[o])
      /\ order[o].status # "NEW" /\ session' \in [Sessions -> SessionDocs] /\ RestOK'
  BY <1>1, Found, FaultsRest DEF StornoThrows, StornoPcs, Fits, Base, history
<1>2. d \in OrderDocs /\ Kept(order[o], d)
  BY <1>0 DEF OrderDocs, Kept
<1>3. order' = [order EXCEPT ![o] = d]
  BY <1>1 DEF StornoThrows
<1> HIDE DEF d
<1>. QED
  BY <1>0, <1>2, <1>3, KeptBenign, OrderSet, Ending
-----------------------------------------------------------------------------
(* The beginning of a request.                                             *)
LEMMA RequestOK ==
    ASSUME NEW op \in AllOps, NEW pc \in Pcs, NEW s \in Sessions \cup {NoSession},
           NEW o \in Orders \cup {NoOrder}
    PROVE  /\ Request(op, pc, s, o) \in RequestStates
           /\ Request(op, pc, s, o).op = op /\ Request(op, pc, s, o).pc = pc
           /\ Request(op, pc, s, o).ses = s /\ Request(op, pc, s, o).ord = o
           /\ Request(op, pc, s, o).tok = NoToken
BY IdleOK DEF Request, RequestStates, Idle

LEMMA Beginning ==
    ASSUME Base, NEW a \in Requests, NEW r \in RequestStates, act' = [act EXCEPT ![a] = r],
           r.pc \in PcsOf(r.op), Fits(r, order'[r.ord]), r.op \notin {"sale", "card"},
           r.ord \in Orders => order[r.ord].status # "NEW",
           session' \in [Sessions -> SessionDocs], order' \in [Orders -> OrderDocs], BenignStep, RestOK'
    PROVE  Base'
<1>1. ASSUME NEW b \in Requests, Selling(act[b]) PROVE act[b].ord # r.ord
  BY <1>1 DEF Selling, Base, RequestsFit, Fits, PayOps
<1>. QED
  BY <1>1, Assemble DEF BenignStep, BenignBut, Selling

LEMMA SaleBeginBase ==
    ASSUME Base, NEW a \in Requests, NEW s \in Sessions, NEW o \in Orders, NEW op \in {"sale", "card"},
           SaleBegin(a, s, o, op)
    PROVE  Base'
<1> DEFINE r == Request(op, "payClaim", s, o)
<1>0. /\ r \in RequestStates /\ r.op = op /\ r.pc = "payClaim" /\ r.ses = s /\ r.ord = o /\ r.tok = NoToken
  BY RequestOK DEF AllOps, Pcs, PayPcs
<1>1. /\ act' = [act EXCEPT ![a] = r] /\ \A b \in Requests : act[b].ord # o
      /\ order[o].status = "NEW" /\ order' = order
      /\ session' \in [Sessions -> SessionDocs] /\ order' \in [Orders -> OrderDocs] /\ BenignStep /\ RestOK'
  BY Found, RestUnchanged, BenignUnchanged DEF SaleBegin, Begin, Unused, docs
<1> HIDE DEF r
<1>2. r.pc \in PcsOf(r.op)
  BY <1>0 DEF PcsOf, PayPcs
<1>3. Fits(r, order'[r.ord])
  BY <1>0, <1>1 DEF Fits, PayOps, SessionOps, Terminal
<1>. QED
  BY <1>0, <1>1, <1>2, <1>3, Assemble DEF BenignStep, BenignBut

LEMMA CompleteBeginBase ==
    ASSUME Base, NEW a \in Requests, NEW s \in Sessions, NEW o \in Orders, CompleteBegin(a, s, o)
    PROVE  Base'
<1> DEFINE q == Request("complete", "payClaim", s, o)
           r == [q EXCEPT !.ver = order[o].ver]
<1>0. /\ q \in RequestStates /\ q.op = "complete" /\ q.pc = "payClaim" /\ q.ses = s /\ q.ord = o
      /\ q.tok = NoToken
  BY RequestOK DEF AllOps, Pcs, PayPcs
<1>1. /\ act' = [act EXCEPT ![a] = r] /\ order[o].status = "PENDING" /\ order[o].ver \in Nat
      /\ order' = order /\ session' \in [Sessions -> SessionDocs]
      /\ order' \in [Orders -> OrderDocs] /\ BenignStep /\ RestOK'
  BY Found, RestUnchanged, BenignUnchanged DEF CompleteBegin, Begin, docs, OrderDocs
<1> HIDE DEF q
<1>2. /\ r \in RequestStates /\ r.op = "complete" /\ r.pc = "payClaim" /\ r.ses = s /\ r.ord = o
  BY <1>0, <1>1 DEF RequestStates
<1> HIDE DEF r
<1>3. r.pc \in PcsOf(r.op)
  BY <1>2 DEF PcsOf, PayPcs
<1>4. Fits(r, order'[r.ord])
  BY <1>1, <1>2 DEF Fits, PayOps, SessionOps, Terminal
<1>. QED
  BY <1>1, <1>2, <1>3, <1>4, Beginning

LEMMA WebhookBeginBase ==
    ASSUME Base, NEW a \in Requests, NEW o \in Orders, WebhookBegin(a, o)
    PROVE  Base'
<1> DEFINE d == [order[o] EXCEPT !.hook = a, !.hookFresh = TRUE]
           q == Request("webhook", "payClaim", order[o].ses, o)
<1>1. PICK strict \in BOOLEAN : act' = [act EXCEPT ![a] = [q EXCEPT !.flag = strict]]
  BY DEF WebhookBegin, Begin
<1> DEFINE r == [q EXCEPT !.flag = strict]
<1>0. /\ order[o] \in OrderDocs /\ OrderOK(order[o]) /\ order[o].status = "PENDING" /\ order[o].checkout
      /\ order[o].ses \in Sessions /\ session' \in [Sessions -> SessionDocs] /\ RestOK'
  BY Found, RestUnchanged DEF WebhookBegin, Base, OrderOK
<1>2. /\ q \in RequestStates /\ q.op = "webhook" /\ q.pc = "payClaim" /\ q.ses = order[o].ses /\ q.ord = o
  BY <1>0, RequestOK DEF AllOps, Pcs, PayPcs
<1>3. act' = [act EXCEPT ![a] = r]
  BY <1>1
<1> HIDE DEF q
<1>4. r \in RequestStates /\ r.op = "webhook" /\ r.pc = "payClaim" /\ r.ses = order[o].ses /\ r.ord = o
  BY <1>2 DEF RequestStates
<1> HIDE DEF r
<1>5. d \in OrderDocs /\ Kept(order[o], d) /\ d.status = "PENDING"
  BY <1>0 DEF OrderDocs, Kept
<1>6. order' = [order EXCEPT ![o] = d]
  BY DEF WebhookBegin
<1> HIDE DEF d
<1>7. BenignStep /\ order' \in [Orders -> OrderDocs] /\ order'[o] = d
  BY <1>0, <1>5, <1>6, KeptBenign, OrderSet
<1>8. r.pc \in PcsOf(r.op)
  BY <1>4 DEF PcsOf, PayPcs
<1>9. Fits(r, order'[r.ord])
  BY <1>0, <1>4, <1>5, <1>7 DEF Fits, PayOps, SessionOps, Terminal, PreWrite
<1>. QED
  BY <1>0, <1>3, <1>4, <1>7, <1>8, <1>9, Beginning

LEMMA ManageBegin ==
    ASSUME Base, NEW a \in Requests, NEW r \in RequestStates, act' = [act EXCEPT ![a] = r],
           r.op \in SessionOps, r.ord = NoOrder, r.ses \in Sessions, r.pc \in PcsOf(r.op) \ StockPcs,
           r.op = "close" => r.tok \in Tokens,
           session' \in [Sessions -> SessionDocs], UNCHANGED <<order, keys, faults, history>>
    PROVE  Base'
<1>1. r.op \notin PayOps /\ r.op # "storno" /\ r.op # "none"
  BY DEF SessionOps, PayOps
<1>2. r.pc \notin PayPcs
  BY <1>1, PcOps
<1>3. r.pc \notin Terminal /\ r.pc # "move"
  BY <1>2 DEF Terminal, PayPcs, StockPcs
<1>4. Fits(r, order'[r.ord])
  BY <1>1, <1>3 DEF Fits, PayOps
<1>5. RestOK' /\ BenignStep /\ order' \in [Orders -> OrderDocs]
  BY RestUnchanged, BenignUnchanged, Found
<1>6. r.ord \notin Orders
  BY Consts
<1>7. r.op \notin {"sale", "card"}
  BY <1>1 DEF PayOps
<1>. QED
  BY <1>4, <1>5, <1>6, <1>7, Beginning

LEMMA CloseBeginBase ==
    ASSUME Base, NEW a \in Requests, NEW s \in Sessions, NEW t \in Tokens, CloseBegin(a, s, t)
    PROVE  Base'
<1> DEFINE q == Request("close", "closePending", s, NoOrder)
           r == [q EXCEPT !.tok = t]
           p == [session[s] EXCEPT !.pay = NoRequest, !.payFresh = FALSE]
           x == [p EXCEPT !.trans = ClaimedBy(a, "close", t)]
<1>0. /\ q \in RequestStates /\ q.op = "close" /\ q.pc = "closePending" /\ q.ses = s /\ q.ord = NoOrder
  BY RequestOK DEF AllOps, Pcs, ClosePcs
<1>1. /\ act' = [act EXCEPT ![a] = r] /\ session \in [Sessions -> SessionDocs]
      /\ UNCHANGED <<order, keys, faults, history>>
  BY Found DEF CloseBegin, Begin
<1> HIDE DEF q
<1>2. r \in RequestStates /\ r.op = "close" /\ r.pc = "closePending" /\ r.ses = s /\ r.ord = NoOrder
      /\ r.tok = t
  BY <1>0 DEF RequestStates, Claims
<1> HIDE DEF r
<1>3. p \in SessionDocs
  BY PayUpdate
<1>4. session' = [session EXCEPT ![s] = x]
  BY <1>1 DEF CloseBegin, Unpaying
<1> HIDE DEF p
<1>5. x \in SessionDocs
  BY <1>3, ClaimDoc
<1> HIDE DEF x
<1>6. r.op \in SessionOps /\ r.pc \in PcsOf(r.op) \ StockPcs
  BY <1>2 DEF SessionOps, PcsOf, ClosePcs, StockPcs
<1>. QED
  BY <1>1, <1>2, <1>4, <1>5, <1>6, SessionTo, ManageBegin

LEMMA TestBeginBase ==
    ASSUME Base, NEW a \in Requests, NEW s \in Sessions, NEW isTest \in BOOLEAN, TestBegin(a, s, isTest)
    PROVE  Base'
<1>1. PICK op \in {"test", "normal"} : op = TestOp(isTest)
  BY DEF TestOp
<1>2. PICK open \in BOOLEAN : open = (session[s].status = "OPEN")
  OBVIOUS
<1>3. PICK pc \in {"testPaid", "testSet", "testClaim"} :
         pc = IF isTest THEN "testPaid" ELSE IF open THEN "testSet" ELSE "testClaim"
  OBVIOUS
<1> DEFINE q == Request(op, pc, s, NoOrder)
           r == [q EXCEPT !.flag = open]
<1>0. /\ q \in RequestStates /\ q.op = op /\ q.pc = pc /\ q.ses = s /\ q.ord = NoOrder
  <2>1. op \in AllOps /\ pc \in Pcs
    BY DEF AllOps, Pcs, TestPcs
  <2>. QED
    BY <2>1, RequestOK
<1>4. /\ act' = [act EXCEPT ![a] = r] /\ session' \in [Sessions -> SessionDocs]
      /\ UNCHANGED <<order, keys, faults, history>>
  BY <1>1, <1>2, <1>3, Found DEF TestBegin, Begin, docs
<1> HIDE DEF q
<1>5. r \in RequestStates /\ r.op = op /\ r.pc = pc /\ r.ses = s /\ r.ord = NoOrder
  BY <1>0 DEF RequestStates
<1> HIDE DEF r
<1>6. r.op \in SessionOps /\ r.pc \in PcsOf(r.op) \ StockPcs /\ r.op # "close"
  BY <1>5 DEF SessionOps, PcsOf, TestPcs, StockPcs
<1>. QED
  BY <1>4, <1>5, <1>6, ManageBegin

LEMMA DeleteBeginBase ==
    ASSUME Base, NEW a \in Requests, NEW s \in Sessions, DeleteBegin(a, s)
    PROVE  Base'
<1> DEFINE r == Request("delete", "deletePaid", s, NoOrder)
<1>0. /\ r \in RequestStates /\ r.op = "delete" /\ r.pc = "deletePaid" /\ r.ses = s /\ r.ord = NoOrder
  BY RequestOK DEF AllOps, Pcs, DeletePcs
<1>1. /\ act' = [act EXCEPT ![a] = r] /\ session' \in [Sessions -> SessionDocs]
      /\ UNCHANGED <<order, keys, faults, history>>
  BY Found DEF DeleteBegin, Begin, docs
<1> HIDE DEF r
<1>2. r.op \in SessionOps /\ r.pc \in PcsOf(r.op) \ StockPcs /\ r.op # "close"
  BY <1>0 DEF SessionOps, PcsOf, DeletePcs, StockPcs
<1>. QED
  BY <1>0, <1>1, <1>2, ManageBegin

LEMMA StornoBeginBase ==
    ASSUME Base, NEW a \in Requests, NEW o \in Orders, StornoBegin(a, o)
    PROVE  Base'
<1> DEFINE q == Request("storno", "stornoClaim", NoSession, o)
           r == [q EXCEPT !.tok = StornoToken]
           d == [order[o] EXCEPT !.storno = "IN_PROGRESS"]
<1>0. /\ q \in RequestStates /\ q.op = "storno" /\ q.pc = "stornoClaim" /\ q.ses = NoSession /\ q.ord = o
  BY RequestOK DEF AllOps, Pcs, StornoPcs
<1>1. /\ act' = [act EXCEPT ![a] = r] /\ session' \in [Sessions -> SessionDocs] /\ RestOK'
      /\ order[o] \in OrderDocs /\ OrderOK(order[o]) /\ order[o].status = "PAID"
  BY Found, RestUnchanged DEF StornoBegin, Begin, Lockable, Base
<1> HIDE DEF q
<1>2. r \in RequestStates /\ r.op = "storno" /\ r.pc = "stornoClaim" /\ r.ord = o /\ r.tok = StornoToken
  BY <1>0 DEF RequestStates, Claims
<1> HIDE DEF r
<1>3. d \in OrderDocs /\ Kept(order[o], d) /\ d.status = "PAID"
  BY <1>1 DEF OrderDocs, Kept
<1>4. order' = [order EXCEPT ![o] = d]
  BY DEF StornoBegin
<1> HIDE DEF d
<1>5. BenignStep /\ order' \in [Orders -> OrderDocs] /\ order'[o] = d
  BY <1>1, <1>3, <1>4, KeptBenign, OrderSet
<1>6. r.pc \in PcsOf(r.op)
  BY <1>2 DEF PcsOf, StornoPcs
<1>7. Fits(r, order'[r.ord])
  BY <1>2, <1>3, <1>5 DEF Fits, PayOps, SessionOps, Terminal, PreWrite
<1>. QED
  BY <1>1, <1>2, <1>5, <1>6, <1>7, Beginning
-----------------------------------------------------------------------------
(* What happens while no request steps.                                    *)
LEMMA Passing ==
    ASSUME Base, act' = act, session' \in [Sessions -> SessionDocs], order' \in [Orders -> OrderDocs],
           \A o \in Orders : \/ Benign(order[o], order'[o])
                             \/ OrderOK(order'[o]) /\ \A b \in Requests : act[b].ord # o,
           RestOK'
    PROVE  Base'
<1>1. TypeOK'
  BY TypeParts DEF Base, TypeOK, RestOK
<1>2. \A o \in Orders : OrderOK(order'[o])
  BY DEF Base, Benign, OrderOK
<1>3. ASSUME NEW b \in Requests PROVE Fits(act[b], order'[act[b].ord])
  <2>1. Fits(act[b], order[act[b].ord])
    BY DEF Base, RequestsFit
  <2>. QED
    BY <2>1, FitsOn
<1>. QED
  BY <1>1, <1>2, <1>3 DEF Base, RequestsFit, Reserved

LEMMA OpenSessionBase == ASSUME Base, NEW s \in Sessions, OpenSession(s) PROVE Base'
<1> DEFINE x == [session[s] EXCEPT !.status = "OPEN"]
<1>0. session \in [Sessions -> SessionDocs] /\ RestOK /\ act' = act /\ RestOK'
      /\ order' \in [Orders -> OrderDocs] /\ BenignStep
  BY TypeParts, RestUnchanged, BenignUnchanged DEF OpenSession, Base
<1>1. x \in SessionDocs
  BY <1>0 DEF SessionDocs
<1>2. session' = [session EXCEPT ![s] = x]
  BY DEF OpenSession
<1> HIDE DEF x
<1>. QED
  BY <1>0, <1>1, <1>2, SessionTo, Passing DEF BenignStep

LEMMA PublicOrderBase == ASSUME Base, NEW o \in Orders, PublicOrder(o) PROVE Base'
<1> DEFINE d == [order[o] EXCEPT !.status = "PENDING"]
<1>0. /\ order \in [Orders -> OrderDocs] /\ RestOK' /\ act' = act /\ session' \in [Sessions -> SessionDocs]
      /\ \A b \in Requests : act[b].ord # o /\ order[o] = NewOrder
  BY TypeParts, RestUnchanged DEF PublicOrder, Base, Unused, OrderOK
<1>1. d \in OrderDocs /\ OrderOK(d)
  <2>1. d \in OrderDocs /\ d.status = "PENDING" /\ d.card = order[o].card /\ d.checkout = order[o].checkout
        /\ d.ses = order[o].ses
    BY <1>0 DEF OrderDocs
  <2>. QED
    BY <2>1 DEF Base, OrderOK
<1>2. order' = [order EXCEPT ![o] = d]
  BY DEF PublicOrder
<1> HIDE DEF d
<1>3. order' \in [Orders -> OrderDocs] /\ order'[o] = d /\ \A p \in Orders \ {o} : order'[p] = order[p]
  BY <1>0, <1>1, <1>2
<1>4. \A p \in Orders : \/ Benign(order[p], order'[p])
                        \/ OrderOK(order'[p]) /\ \A b \in Requests : act[b].ord # p
  BY <1>0, <1>1, <1>3, BenignSame DEF Base
<1>. QED
  BY <1>0, <1>3, <1>4, Passing

LEMMA ExpirePayBase == ASSUME Base, NEW s \in Sessions, ExpirePay(s) PROVE Base'
<1> DEFINE x == [session[s] EXCEPT !.payFresh = FALSE]
<1>0. session \in [Sessions -> SessionDocs] /\ act' = act /\ RestOK'
      /\ order' \in [Orders -> OrderDocs] /\ BenignStep
  BY TypeParts, RestUnchanged, BenignUnchanged DEF ExpirePay, Base
<1>1. x \in SessionDocs
  BY <1>0 DEF SessionDocs
<1>2. session' = [session EXCEPT ![s] = x]
  BY DEF ExpirePay
<1> HIDE DEF x
<1>. QED
  BY <1>0, <1>1, <1>2, SessionTo, Passing DEF BenignStep

LEMMA ExpireTransitionBase == ASSUME Base, NEW s \in Sessions, ExpireTransition(s) PROVE Base'
<1> DEFINE tr == [session[s].trans EXCEPT !.fresh = FALSE]
           x == [session[s] EXCEPT !.trans = tr]
<1>0. session \in [Sessions -> SessionDocs] /\ session[s] \in SessionDocs /\ act' = act /\ RestOK'
      /\ order' \in [Orders -> OrderDocs] /\ BenignStep
  BY TypeParts, RestUnchanged, BenignUnchanged DEF ExpireTransition, Base
<1>1. session[s].trans \in Transitions
  BY <1>0 DEF SessionDocs
<1>2. tr \in Transitions
  BY <1>1 DEF Transitions
<1>3. session' = [session EXCEPT ![s] = x]
  BY DEF ExpireTransition
<1> HIDE DEF tr
<1>4. x \in SessionDocs
  BY <1>0, <1>2 DEF SessionDocs
<1> HIDE DEF x
<1>. QED
  BY <1>0, <1>3, <1>4, SessionTo, Passing DEF BenignStep

LEMMA ExpireHookBase == ASSUME Base, NEW o \in Orders, ExpireHook(o) PROVE Base'
<1> DEFINE d == [order[o] EXCEPT !.hookFresh = FALSE]
<1>0. /\ order[o] \in OrderDocs /\ OrderOK(order[o]) /\ order[o].hookFresh
      /\ RestOK' /\ act' = act /\ session' \in [Sessions -> SessionDocs]
  BY TypeParts, RestUnchanged DEF ExpireHook, Base
<1>1. order[o].status # "NEW"
  BY <1>0 DEF OrderOK, NewOrder
<1>2. d \in OrderDocs /\ Kept(order[o], d)
  BY <1>0 DEF OrderDocs, Kept
<1>3. order' = [order EXCEPT ![o] = d]
  BY DEF ExpireHook
<1> HIDE DEF d
<1>. QED
  BY <1>0, <1>1, <1>2, <1>3, KeptBenign, OrderSet, Passing DEF BenignStep

LEMMA CrashBase == ASSUME Base, NEW a \in Requests, Crash(a) PROVE Base'
<1>0. /\ RestOK /\ faults < MaxFaults /\ faults' = faults + 1 /\ UNCHANGED <<keys, paid, refunds, counted>>
      /\ End(a) /\ session' \in [Sessions -> SessionDocs] /\ order' \in [Orders -> OrderDocs] /\ BenignStep
  BY Found, BenignUnchanged DEF Crash, docs
<1>1. faults' \in 0 .. MaxFaults
  BY <1>0, BoundsAssumption DEF RestOK
<1>2. taken' \in [Orders -> [Items -> Int]]
  <2>0. taken \in [Orders -> [Items -> Int]]
    BY <1>0 DEF RestOK
  <2>1. CASE taken' = taken
    BY <2>0, <2>1
  <2>2. CASE act[a].pc \in PayPcs
    <3>1. PICK o \in Orders : o = act[a].ord
      BY <2>2, Found
    <3>2. PICK S : S = act[a].plan[o]
      OBVIOUS
    <3>3. taken' = [taken EXCEPT ![o] = [i \in Items |-> IF i \in S THEN taken[o][i] - 1 ELSE taken[o][i]]]
      BY <2>2, <3>1, <3>2 DEF Crash
    <3>4. [i \in Items |-> IF i \in S THEN taken[o][i] - 1 ELSE taken[o][i]] \in [Items -> Int]
      BY <1>0, TakenInt
    <3>. QED
      BY <2>0, <3>3, <3>4
  <2>. QED
    BY <2>1, <2>2 DEF Crash
<1>3. RestOK'
  BY <1>0, <1>1, <1>2 DEF RestOK
<1>. QED
  BY <1>0, <1>3, Ending
-----------------------------------------------------------------------------
LEMMA BaseInit == Init => Base
<1>1. SUFFICES ASSUME Init PROVE Base
  OBVIOUS
<1>2. NewSession \in SessionDocs
  BY NoneOK DEF NewSession, SessionDocs, Effects
<1>3. NewOrder \in OrderDocs /\ OrderOK(NewOrder)
  BY DEF NewOrder, OrderDocs, Effects, Claims, OrderOK
<1>4. TypeOK
  BY <1>1, <1>2, <1>3, IdleOK, BoundsAssumption DEF Init, TypeOK
<1>5. RequestsFit
  BY <1>1, IdleOK DEF Init, RequestsFit
<1>6. Reserved
  BY <1>1, IdleOK DEF Init, Reserved
<1>. QED
  BY <1>1, <1>3, <1>4, <1>5, <1>6 DEF Base, Init

LEMMA BaseStep == Base /\ [Next]_vars => Base'
<1>1. SUFFICES ASSUME Base, [Next]_vars PROVE Base'
  OBVIOUS
<1>2. CASE UNCHANGED vars
  BY <1>1, <1>2, Passing, TypeParts, RestUnchanged, BenignUnchanged DEF vars, history, Base, BenignStep
<1>3. ASSUME NEW s \in Sessions, OpenSession(s) \/ ExpirePay(s) \/ ExpireTransition(s) PROVE Base'
  BY <1>1, <1>3, OpenSessionBase, ExpirePayBase, ExpireTransitionBase
<1>4. ASSUME NEW o \in Orders, PublicOrder(o) \/ ExpireHook(o) PROVE Base'
  BY <1>1, <1>4, PublicOrderBase, ExpireHookBase
<1>5. ASSUME NEW a \in Requests, BeginPayment(a) PROVE Base'
  BY <1>1, <1>5, SaleBeginBase, CompleteBeginBase, WebhookBeginBase DEF BeginPayment
<1>6. ASSUME NEW a \in Requests, BeginManagement(a) PROVE Base'
  BY <1>1, <1>6, CloseBeginBase, TestBeginBase, DeleteBeginBase, StornoBeginBase DEF BeginManagement
<1>7. ASSUME NEW a \in Requests, PayStep(a) PROVE Base'
  BY <1>1, <1>7, PayClaimBase, ApplyBase, RollbackBase, RefreshBase, WriteSaleBase, WriteCardBase,
     WriteCompleteBase, WriteWebhookBase, WriteFailsBase, TerminalBase, PayReleaseBase, HookReleaseBase
     DEF PayStep
<1>8. ASSUME NEW a \in Requests, StockStep(a) PROVE Base'
  BY <1>1, <1>8, StockListBase, StockClaimBase, StockMoveBase, StockDoneBase, StockFailBase DEF StockStep
<1>9. ASSUME NEW a \in Requests, CloseStep(a) PROVE Base'
  BY <1>1, <1>9, ClosingBase, UnclaimBase, CloseSumBase, CloseEndBase DEF CloseStep
<1>10. ASSUME NEW a \in Requests, TestStep(a) PROVE Base'
  BY <1>1, <1>10, TestingBase, TestSetBase, TestEndBase, TestClaimBase DEF TestStep
<1>11. ASSUME NEW a \in Requests, DeleteStep(a) PROVE Base'
  BY <1>1, <1>11, DeletePaidBase, DeleteMarkBase, DeleteOrdersBase, DeleteEndBase, DeleteClaimBase
     DEF DeleteStep
<1>12. ASSUME NEW a \in Requests, StornoStep(a) PROVE Base'
  BY <1>1, <1>12, StornoClaimBase, RefundBase, StornoEndBase, StornoThrowsBase DEF StornoStep
<1>13. ASSUME NEW a \in Requests, Crash(a) PROVE Base'
  BY <1>1, <1>13, CrashBase
<1>. QED
  BY <1>1, <1>2, <1>3, <1>4, <1>5, <1>6, <1>7, <1>8, <1>9, <1>10, <1>11, <1>12, <1>13 DEF Next, Step

LEMMA BaseAlways == Spec => []Base
BY BaseInit, BaseStep, PTL DEF Spec

(* Every variable keeps its type, and no request is ever at a step that    *)
(* is not one of its own handler.                                          *)
THEOREM TypeCorrect == Spec => []TypeOK
<1>1. Base => TypeOK
  BY DEF Base
<1>. QED
  BY <1>1, BaseAlways, PTL
=============================================================================
