------------------------------ MODULE Register ------------------------------
(***************************************************************************)
(* The page of a register and the server it calls: the cashier fills a     *)
(* tray from the catalogue the page has read, or with an order that waits  *)
(* at the register, and presses; the answer may be lost after the server   *)
(* did what it was asked, or before. The catalogue is edited, the session  *)
(* closed and the order completed at another register meanwhile. The mode  *)
(* in which stocks are edited only makes every handler return.             *)
(* A ghost follows the patron the tray is for, and what he asked for.      *)
(***************************************************************************)
EXTENDS Sales

CONSTANTS
    Remarks,    \* notes for the kitchen
    NoRemark,   \* the line that has none
    MaxTaps,    \* bounds: on what the cashier taps,
    MaxPresses, \* on the requests
    MaxHitches  \* and on what disturbs them

ASSUME RegisterAssumption ==
    NoRemark \in Remarks /\ MaxTaps \in Nat /\ MaxPresses \in Nat /\ MaxHitches \in Nat

VARIABLES
    page,        \* the state of the page
    pressed,     \* the request the page waits for
    strayed,     \* one it has given up on, on its way or being served
    fetching,    \* the order being loaded, or 0
    orderBook,   \* the orders of the server
    sessionOpen, \* the session of the register
    ghost,       \* the patron, how many there were, what he asked for, and
                 \* whether an order was loaded while a request was served
    spent        \* taps, presses and hitches so far

requestVars == <<pressed, strayed, fetching>>
serverVars == <<orderBook, sessionOpen>>
pageVars == <<page, requestVars, serverVars, ghost, spent>>

NoRequest == [answer |-> "idle"]
NoneAsked == [w \in Goods \X Remarks |-> 0]

\* The units of a cart or a tray, by product and remark.
UnitsAsked(lines) ==
    [w \in Goods \X Remarks |->
        Cents([i \in DOMAIN lines |-> IF <<lines[i].good, lines[i].remark>> = w
                                      THEN lines[i].units ELSE 0])]

(* ------------------------------- prices -------------------------------- *)

\* getCartItemUnitPrice
PriceShown(p, line) ==
    IF p.volunteers /\ line.volunteer # NoVolunteerPrice THEN line.volunteer ELSE line.price

Subtotal(p) == Cents([i \in DOMAIN p.tray |-> PriceShown(p, p.tray[i]) * p.tray[i].units])

\* liveDiscountsByLineId: each discount on what the ones before it left.
LeftBy(base, cuts) ==
    LET left[n \in Nat] ==
            IF n = 0 THEN base
            ELSE left[n - 1] - Least(left[n - 1],
                     IF cuts[n].type = "PERCENT" THEN (left[n - 1] * cuts[n].value + 50) \div 100
                     ELSE cuts[n].value)
    IN  left[Len(cuts)]

\* effectiveTotal: the discounts do not count for volunteers.
Due(p) == IF p.volunteers THEN Subtotal(p) ELSE LeftBy(Subtotal(p), p.cuts)

\* orderDiscountsPayload: nothing when nothing is taken off.
DealOf(p) ==
    [mode |-> IF p.volunteers THEN "VOLUNTEER" ELSE "STANDARD", line |-> {},
     order |-> IF Due(p) = Subtotal(p) THEN <<>> ELSE p.cuts]

(* ------------------------------ the tray ------------------------------- *)

CartLine(id, g, units, price, volunteer, remark) ==
    [id |-> id, good |-> g, units |-> units, price |-> price,
     volunteer |-> volunteer, remark |-> remark]

\* What the server sends a register: the products on offer.
Offered(c) == [g \in {g \in Goods : c[g].listed} |-> c[g]]

FreshPage(c) ==
    [shown |-> Offered(c), tray |-> <<>>, cuts |-> <<>>, volunteers |-> FALSE, loaded |-> 0,
     sequence |-> 0, session |-> sessionOpen, short |-> FALSE, busy |-> FALSE, unknown |-> FALSE]

\* While a request is served the dialog of the payment is in the way.
Tapping ==
    /\ ~page.busy /\ spent.taps < MaxTaps
    /\ spent' = [spent EXCEPT !.taps = @ + 1]
    /\ UNCHANGED serverVars

\* Closing the dialog of the payment forgets the shortages.
TrayBecomes(tray) ==
    /\ page' = [page EXCEPT !.tray = tray, !.short = FALSE]
    /\ UNCHANGED requestVars

Asks(w, n) == ghost' = [ghost EXCEPT !.asked[w] = @ + n]

\* addToCart and addConfiguredToCart: a product has one line of its own.
Tap(g) ==
    LET id == <<g, "tap", 0>>
        at == {i \in DOMAIN page.tray : page.tray[i].id = id}
    IN  /\ Tapping /\ g \in DOMAIN page.shown
        /\ TrayBecomes(IF at = {} THEN Append(page.tray, CartLine(id, g, 1, page.shown[g].price,
                                                                  page.shown[g].volunteer, NoRemark))
                       ELSE [i \in DOMAIN page.tray |-> IF i \in at
                                THEN [page.tray[i] EXCEPT !.units = @ + 1] ELSE page.tray[i]])
        /\ Asks(<<g, NoRemark>>, 1)

\* buildCartLineMergeKey
MergeKey(line) == <<line.good, line.price, line.volunteer, line.remark>>

\* Lines with one key are merged into the first of them.
MergedLines(lines) ==
    LET Same(i, j) == MergeKey(lines[i]) = MergeKey(lines[j])
        Sum(i) == Cents([j \in DOMAIN lines |-> IF Same(i, j) THEN lines[j].units ELSE 0])
        firsts == SelectSeq([i \in DOMAIN lines |-> i],
                            LAMBDA i : \A j \in 1..i - 1 : ~Same(i, j))
    IN  [n \in DOMAIN firsts |-> [lines[firsts[n]] EXCEPT !.units = Sum(firsts[n])]]

\* applyCartItemContext and replaceSingleCartUnit: one unit gets the remark.
Remark(i, remark) ==
    LET line == page.tray[i]
        edited == [line EXCEPT !.id = <<line.good, "edit", page.sequence + 1>>,
                               !.units = 1, !.remark = remark]
        split == SubSeq(page.tray, 1, i - 1)
                 \o (IF line.units > 1 THEN <<[line EXCEPT !.units = @ - 1], edited>> ELSE <<edited>>)
                 \o SubSeq(page.tray, i + 1, Len(page.tray))
    IN  /\ Tapping
        /\ page' = [page EXCEPT !.tray = MergedLines(split), !.sequence = @ + 1, !.short = FALSE]
        /\ ghost' = [ghost EXCEPT !.asked[<<line.good, line.remark>>] = @ - 1,
                                  !.asked[<<line.good, remark>>] = @ + 1]
        /\ UNCHANGED requestVars

Without(i) == SubSeq(page.tray, 1, i - 1) \o SubSeq(page.tray, i + 1, Len(page.tray))

\* decrementProductQuantityInCart: the last line, of those without remark
\* if there is one.
TakeBack(g) ==
    LET of == {i \in DOMAIN page.tray : page.tray[i].good = g}
        plain == {i \in of : page.tray[i].remark = NoRemark}
        from == IF plain # {} THEN plain ELSE of
    IN  /\ Tapping
        /\ \E i \in from :
              /\ \A j \in from : j <= i
              /\ TrayBecomes(IF page.tray[i].units > 1 THEN [page.tray EXCEPT ![i].units = @ - 1]
                             ELSE Without(i))
              /\ Asks(<<g, IF ghost.asked[<<g, NoRemark>>] > 0 THEN NoRemark
                           ELSE page.tray[i].remark>>, -1)

\* increaseCartItemQuantity, decreaseCartItemQuantity and removeFromCart
ChangeLine(i, n) ==
    LET line == page.tray[i]
    IN  /\ Tapping
        /\ n = -1 => line.units > 1
        /\ TrayBecomes(IF n = 0 THEN Without(i) ELSE [page.tray EXCEPT ![i].units = @ + n])
        /\ Asks(<<line.good, line.remark>>, IF n = 0 THEN -line.units ELSE n)

\* addDiscountPresetToCart: once each, and while there is something to cut.
ApplyPreset(d) ==
    /\ Tapping
    /\ ~page.volunteers /\ page.tray # <<>> /\ Due(page) > 0
    /\ d \notin ToSet(page.cuts)
    /\ page' = [page EXCEPT !.cuts = Append(@, d), !.short = FALSE]
    /\ UNCHANGED <<requestVars, ghost>>

\* The switch of the volunteers drops the discounts.
SwitchVolunteers ==
    /\ Tapping
    /\ page' = [page EXCEPT !.volunteers = ~@, !.short = FALSE,
                            !.cuts = IF page.volunteers THEN @ ELSE <<>>]
    /\ UNCHANGED <<requestVars, ghost>>

(* ------------------------- orders that wait ---------------------------- *)

\* What the server lists, and what it finds by its number.
Waiting == {o \in DOMAIN orderBook : orderBook[o].status = "PENDING"}

NextPatron == [ghost EXCEPT !.serving = ghost.patrons + 1, !.patrons = @ + 1]
NewPatron == [NextPatron EXCEPT !.asked = NoneAsked]

(* handleLoadOrderByCode: a draft is replaced after a question, which the  *)
(* cashier answers with yes.                                               *)
AskOrder(o) ==
    /\ Tapping /\ fetching = 0
    /\ fetching' = o
    /\ UNCHANGED <<page, pressed, strayed, ghost>>

\* loadPendingOrderByCode: the volunteers' price is that of their orders.
StoredItem(o, i) ==
    LET line == orderBook[o].lines[i]
    IN  [good |-> line.good, units |-> line.units, remark |-> orderBook[o].cart[i].remark,
         price |-> (line.total + line.discount) \div line.units,
         volunteer |-> IF orderBook[o].mode = "VOLUNTEER" THEN line.total \div line.units
                       ELSE NoVolunteerPrice]

\* The prices are those of the page, but the volunteers' of the order.
LoadedLine(i, item) ==
    LET onOffer == item.good \in DOMAIN page.shown
        price == IF onOffer THEN page.shown[item.good].price ELSE item.price
        volunteer == IF item.volunteer # NoVolunteerPrice \/ ~onOffer THEN item.volunteer
                     ELSE page.shown[item.good].volunteer
    IN  CartLine(<<item.good, "order", i>>, item.good, item.units, price, volunteer, item.remark)

\* The answer comes when it comes: the page asks nothing of its own state.
OrderIsLoaded ==
    /\ fetching # 0
    /\ fetching' = 0
    /\ IF fetching \in Waiting
       THEN /\ page' = [page EXCEPT !.loaded = fetching, !.cuts = <<>>,
                                    !.volunteers = orderBook[fetching].mode = "VOLUNTEER",
                                    !.tray = [i \in DOMAIN orderBook[fetching].lines |->
                                        LoadedLine(i, StoredItem(fetching, i))]]
            /\ ghost' = [ghost EXCEPT !.serving = orderBook[fetching].patron,
                                      !.asked = UnitsAsked(orderBook[fetching].cart),
                                      !.overtaken = @ \/ page.busy]
       ELSE UNCHANGED <<page, ghost>>
    /\ UNCHANGED <<serverVars, pressed, strayed, spent>>

\* resetPendingOrder: the tray stays, and is a new order.
Unlink ==
    /\ Tapping /\ page.loaded # 0
    /\ page' = [page EXCEPT !.loaded = 0, !.short = FALSE]
    /\ ghost' = NextPatron
    /\ UNCHANGED requestVars

(* ------------------------------ payment -------------------------------- *)

CanPress == ~page.busy /\ ~page.unknown /\ page.session /\ page.tray # <<>>

(* handleCheckout: what is sent is what the page shows now. Shortages may  *)
(* be overridden once they are shown.                                      *)
Press(override) ==
    /\ CanPress /\ spent.presses < MaxPresses
    /\ override => page.short
    /\ page' = [page EXCEPT !.busy = TRUE]
    /\ pressed' =
          [answer |-> "none", order |-> page.loaded, override |-> override,
           declared |-> Due(page), deal |-> DealOf(page), patron |-> ghost.serving,
           asked |-> ghost.asked,
           cart |-> [i \in DOMAIN page.tray |->
                        [good |-> page.tray[i].good, units |-> page.tray[i].units,
                         variant |-> FALSE, remark |-> page.tray[i].remark]]]
    /\ spent' = [spent EXCEPT !.presses = @ + 1]
    /\ UNCHANGED <<serverVars, strayed, fetching, ghost>>

SameUnits(o, cart) ==
    /\ Len(cart) = Len(o.cart)
    /\ \A i \in DOMAIN cart : cart[i].good = o.cart[i].good /\ cart[i].units = o.cart[i].units

\* A volunteers' order completed unchanged is charged what it was created for.
ChargeOf(q) ==
    IF /\ q.order # 0 /\ q.deal.mode = "VOLUNTEER"
       /\ orderBook[q.order].mode = "VOLUNTEER" /\ SameUnits(orderBook[q.order], q.cart)
    THEN AsPersisted(orderBook[q.order]) ELSE PriceOf(priceList, q.cart, q.deal)

Acceptable(q, charge) ==
    /\ q.order # 0 => q.order \in Waiting
    /\ Sellable(priceList, q.cart, q.deal)
    /\ Equivalent(charge.total, q.declared)

Written(q, charge, status) ==
    [status |-> status, cart |-> q.cart, lines |-> charge.lines, components |-> charge.components,
     discount |-> charge.discount, total |-> charge.total, mode |-> q.deal.mode,
     patron |-> IF q.order = 0 THEN q.patron ELSE orderBook[q.order].patron,
     payments |-> (IF q.order = 0 THEN 0 ELSE orderBook[q.order].payments)
                  + (IF status = "PAID" THEN 1 ELSE 0),
     asker |-> q.patron, declared |-> q.declared, asked |-> q.asked]

\* What the server answers; by card an order waits for the terminal.
Verdicts(q) ==
    IF ~sessionOpen THEN {"session"}
    ELSE IF ~Acceptable(q, ChargeOf(q)) THEN {"refused"}
    ELSE {"paid"} \cup (IF q.order = 0 THEN {"waiting"} ELSE {})
                  \cup (IF q.override THEN {} ELSE {"short"})

BookAfter(q, verdict) ==
    LET written == Written(q, ChargeOf(q), IF verdict = "paid" THEN "PAID" ELSE "PENDING")
    IN  IF verdict \notin {"paid", "waiting"} THEN orderBook
        ELSE IF q.order = 0 THEN Append(orderBook, written)
        ELSE [orderBook EXCEPT ![q.order] = written]

\* createOrder and completePendingOrderPayment, without their inner steps.
PressIsServed ==
    /\ pressed.answer = "none"
    /\ \E verdict \in Verdicts(pressed) :
          /\ pressed' = [pressed EXCEPT !.answer = verdict]
          /\ orderBook' = BookAfter(pressed, verdict)
    /\ UNCHANGED <<page, strayed, fetching, sessionOpen, ghost, spent>>

\* resetCheckoutForm: what is not reset is the order that was loaded.
FormIsReset(p) == [p EXCEPT !.tray = <<>>, !.cuts = <<>>, !.volunteers = FALSE]

\* The answers to a completion and to a creation.
PressIsAnswered ==
    LET idle == [page EXCEPT !.busy = FALSE]
        done == pressed.answer \in {"paid", "waiting"}
    IN  /\ pressed.answer \notin {"idle", "none"}
        /\ page' = CASE done -> [FormIsReset(idle) EXCEPT
                                     !.loaded = IF pressed.order = 0 THEN @ ELSE 0, !.short = FALSE]
                     [] pressed.answer = "short" -> [idle EXCEPT !.short = TRUE]
                     [] pressed.answer = "session" -> [idle EXCEPT !.session = FALSE, !.short = FALSE]
                     [] OTHER -> idle
        /\ ghost' = IF done THEN NewPatron ELSE ghost
        /\ pressed' = NoRequest
        /\ UNCHANGED <<serverVars, strayed, fetching, spent>>

Hitch ==
    /\ spent.hitches < MaxHitches
    /\ spent' = [spent EXCEPT !.hitches = @ + 1]

\* Mutant: the page is ready for the same tray again.
AnswerIsMissed ==
    /\ Hitch /\ page.busy
    /\ page' = [page EXCEPT !.busy = FALSE]
    /\ strayed' = IF pressed.answer = "none" THEN pressed ELSE NoRequest
    /\ pressed' = NoRequest
    /\ UNCHANGED <<serverVars, fetching, ghost>>

(* handleCheckoutInterruption: the request may not have come, be on its    *)
(* way, or have been served.                                               *)
AnswerIsLost ==
    /\ Hitch /\ page.busy
    /\ page' = [page EXCEPT !.busy = FALSE, !.unknown = TRUE]
    /\ strayed' = IF pressed.answer = "none" THEN pressed ELSE NoRequest
    /\ pressed' = NoRequest
    /\ UNCHANGED <<serverVars, fetching, ghost>>

StrayIsServed ==
    /\ strayed # NoRequest
    /\ \E verdict \in Verdicts(strayed) : orderBook' = BookAfter(strayed, verdict)
    /\ strayed' = NoRequest
    /\ UNCHANGED <<page, pressed, fetching, sessionOpen, ghost, spent>>

\* discardUnknownCheckout, of a cashier who has looked the order up.
DiscardUnknown ==
    /\ page.unknown
    /\ page' = [FormIsReset(page) EXCEPT !.loaded = 0, !.short = FALSE, !.unknown = FALSE]
    /\ ghost' = NewPatron
    /\ UNCHANGED <<serverVars, requestVars, spent>>

(* ----------------------- the page, the session ------------------------- *)

\* The page is loaded again: loadInitialData and loadCashSessionStatusFor.
PageReloads ==
    /\ Hitch
    /\ page' = FreshPage(priceList)
    /\ strayed' = IF pressed.answer = "none" THEN pressed ELSE strayed
    /\ pressed' = NoRequest /\ fetching' = 0
    /\ ghost' = NewPatron
    /\ UNCHANGED serverVars

\* handleOpenCashSession: refused by the server when one is open.
OpensSession ==
    /\ ~page.session /\ ~page.busy
    /\ ~sessionOpen
    /\ sessionOpen' = TRUE
    /\ page' = [page EXCEPT !.session = TRUE]
    /\ UNCHANGED <<orderBook, requestVars, ghost, spent>>

\* handleCloseCashSession, here or at another page of the same register.
ClosesSession(here) ==
    /\ Hitch /\ sessionOpen
    /\ here => page.session /\ ~page.busy
    /\ sessionOpen' = FALSE
    /\ page' = IF here THEN [page EXCEPT !.session = FALSE] ELSE page
    /\ UNCHANGED <<orderBook, requestVars, ghost>>

\* Another register completes the order of a patron, as it was stored.
CompletedElsewhere(o) ==
    /\ Hitch /\ o \in Waiting
    /\ orderBook' = [orderBook EXCEPT ![o].status = "PAID", ![o].payments = @ + 1]
    /\ UNCHANGED <<sessionOpen, page, requestVars, ghost>>

CatalogueIsEdited(g, entry) ==
    /\ Hitch /\ Reprice(g, entry)
    /\ UNCHANGED <<serverVars, page, requestVars, ghost>>

\* An order a patron sent from the menu, or one a terminal has not paid.
RegisterInit(book) ==
    /\ orderBook = book /\ sessionOpen = TRUE
    /\ page = FreshPage(priceList)
    /\ pressed = NoRequest /\ strayed = NoRequest /\ fetching = 0
    /\ ghost = [serving |-> Len(book) + 1, patrons |-> Len(book) + 1, asked |-> NoneAsked,
                overtaken |-> FALSE]
    /\ spent = [taps |-> 0, presses |-> 0, hitches |-> 0]

\* The cashier taps, the cashier pays, or something goes on elsewhere.
TrayNext(presets) ==
    \/ \E g \in Goods : Tap(g) \/ TakeBack(g)
    \/ \E i \in DOMAIN page.tray : \/ \E remark \in Remarks : Remark(i, remark)
                                   \/ \E n \in {-1, 0, 1} : ChangeLine(i, n)
    \/ \E d \in presets : ApplyPreset(d)
    \/ \E o \in Waiting : AskOrder(o)
    \/ SwitchVolunteers \/ Unlink

PaymentNext ==
    \/ \E override \in BOOLEAN : Press(override)
    \/ PressIsServed \/ PressIsAnswered \/ StrayIsServed
    \/ AnswerIsLost \/ DiscardUnknown \/ OpensSession

ElsewhereNext ==
    \/ OrderIsLoaded \/ PageReloads
    \/ \E here \in BOOLEAN : ClosesSession(here)
    \/ \E o \in Waiting : CompletedElsewhere(o)

RegisterNext(presets, Entries(_)) ==
    \/ TrayNext(presets) /\ UNCHANGED salesVars
    \/ PaymentNext /\ UNCHANGED salesVars
    \/ ElsewhereNext /\ UNCHANGED salesVars
    \/ \E g \in Goods : \E entry \in Entries(g) : CatalogueIsEdited(g, entry)

(* ----------------------------- properties ------------------------------ *)

(* The register charges what was asked, once. The tray holds the units the *)
(* patron asked for, with their remarks, on lines of different ids; an     *)
(* order it had stored holds those of the press, at a total within a cent  *)
(* of what the page showed; while the catalogue is not edited the total is *)
(* never refused. Whatever answers are lost, no patron has paid twice, for *)
(* one order or for two, and no order was completed with the tray of       *)
(* another patron, unless one was loaded while a request was served.       *)
(* (replaceSingleCartUnit, decrementProductQuantityInCart, handleCheckout, *)
(* handleLoadOrderByCode, handleCheckoutInterruption)                      *)
ChargedOnceAsAsked ==
    LET paid == {o \in DOMAIN orderBook : orderBook[o].status = "PAID"}
    IN  /\ \A i, j \in DOMAIN page.tray : page.tray[i].id = page.tray[j].id => i = j
        /\ ghost.asked = UnitsAsked(page.tray)
        /\ \A o \in DOMAIN orderBook :
              /\ Equivalent(orderBook[o].total, orderBook[o].declared)
              /\ orderBook[o].asked = UnitsAsked(orderBook[o].cart)
        /\ pressed.answer = "refused" =>
              reprices > 0 \/ (pressed.order # 0 /\ pressed.order \notin Waiting)
        /\ ~ghost.overtaken =>
              /\ \A o \in paid : orderBook[o].payments = 1
              /\ \A o, q \in paid : orderBook[o].patron = orderBook[q].patron => o = q
              /\ \A o \in paid : orderBook[o].asker = orderBook[o].patron
=============================================================================
