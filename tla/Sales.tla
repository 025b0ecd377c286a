------------------------------- MODULE Sales -------------------------------
(***************************************************************************)
(* What an order costs and what the reports say was sold. The server       *)
(* prices every order from the catalogue of the moment; a register, or a   *)
(* customer's menu, declares the total of the catalogue it has read and is *)
(* refused when the two differ. The reports know only the orders: they     *)
(* divide the total of each among its lines, to the cent, and group the    *)
(* lines by category, product and discount. Amounts are integers: cents.   *)
(***************************************************************************)
EXTENDS Integers, FiniteSets, SequencesExt

CONSTANTS
    Goods,        \* products
    Tills,        \* registers, each with its cash session
    CashTills,    \* those with a cash box
    CardTills,    \* those with a card terminal, of SumUp
    TestTills,    \* those whose session is a test
    VariantPrice, \* price of the variant of a product
    MaxSales,     \* bound on the orders
    MaxReprices,  \* bound on the edits of the catalogue
    MaxEvenings   \* bound on the days

ASSUME SalesAssumption ==
    /\ CashTills \subseteq Tills /\ CardTills \subseteq Tills /\ TestTills \subseteq Tills
    /\ VariantPrice \in Nat
    /\ MaxSales \in Nat /\ MaxReprices \in Nat /\ MaxEvenings \in Nat \ {0}

VARIABLES
    priceList,    \* the catalogue
    oldPrices,    \* the one before its last edit, still on some screens
    reprices,
    ledger,       \* the orders
    closings,     \* what a register counted when its session was closed
    evening       \* the day

salesVars == <<priceList, oldPrices, reprices, ledger, closings, evening>>

NoVolunteerPrice == -1
NoTill == "none"
NotClosed == [cash |-> -1, card |-> -1]

Cents(amounts) ==
    LET sum[n \in Nat] == IF n = 0 THEN 0 ELSE amounts[n] + sum[n - 1] IN sum[Len(amounts)]
Least(m, n) == IF m <= n THEN m ELSE n

Column(rows, field) == [i \in DOMAIN rows |-> rows[i][field]]

(* ------------------------------- prices -------------------------------- *)

\* A line of a cart is a product, its units and whether it has the variant.
UnitPrice(c, line) == c[line.good].price + IF line.variant THEN VariantPrice ELSE 0

VolunteerPrice(c, line) ==
    IF c[line.good].volunteer = NoVolunteerPrice THEN UnitPrice(c, line)
    ELSE c[line.good].volunteer + IF line.variant THEN VariantPrice ELSE 0

\* A percentage is rounded half up; no discount exceeds what it applies to.
Cut(base, d) ==
    Least(base, IF d.type = "PERCENT" THEN (base * d.value + 50) \div 100 ELSE d.value)

Component(scope, good, d, applied) ==
    [scope |-> scope, good |-> good, discount |-> d, applied |-> applied]

Applied(components) == Cents(Column(components, "applied"))

\* The discounts of an order in their order, each on what is left.
OrderCuts(base, discounts) ==
    FoldLeft(LAMBDA cuts, d : Append(cuts, Component("ORDER", NoTill, d,
                                                     Cut(base - Applied(cuts), d))),
             <<>>, discounts)

Volunteers(value) == [type |-> "FIXED", value |-> value]

\* What a line is discounted by: a set of at most one component.
LineCuts(c, line, deal) ==
    LET gross == UnitPrice(c, line) * line.units
        off == UnitPrice(c, line) - VolunteerPrice(c, line)
    IN  IF deal.mode = "VOLUNTEER"
        THEN {Component("VOLUNTEER", line.good, Volunteers(off), off * line.units) :
                  n \in IF off > 0 THEN {off} ELSE {}}
        ELSE {Component("LINE", line.good, e.discount, Cut(gross, e.discount)) :
                  e \in {e \in deal.line : e.good = line.good}}

(* computePricingForCart. A deal is the mode, the discounts of the order   *)
(* and those of the lines, at most one for a product.                      *)
PriceOf(c, cart, deal) ==
    LET cuts == [i \in DOMAIN cart |-> SetToSeq(LineCuts(c, cart[i], deal))]
        gross == [i \in DOMAIN cart |-> UnitPrice(c, cart[i]) * cart[i].units]
        lines == [i \in DOMAIN cart |->
                     [good |-> cart[i].good, units |-> cart[i].units,
                      variant |-> cart[i].variant,
                      total |-> gross[i] - Applied(cuts[i]), discount |-> Applied(cuts[i])]]
        left == Cents(Column(lines, "total"))
        order == OrderCuts(left, deal.order)
    IN  [lines |-> lines,
         components |-> FlattenSeq(cuts) \o order,
         discount |-> Cents(gross) - left + Applied(order),
         total |-> left - Applied(order)]

GoodsOf(cart) == {cart[i].good : i \in DOMAIN cart}

\* What makes the server refuse a cart, whatever its total.
Sellable(c, cart, deal) ==
    /\ \A g \in GoodsOf(cart) : c[g].listed
    /\ deal.mode = "VOLUNTEER" =>
           /\ deal.order = <<>> /\ deal.line = {}
           /\ \A i \in DOMAIN cart : VolunteerPrice(c, cart[i]) <= UnitPrice(c, cart[i])
    /\ deal.order = <<>> \/ deal.line = {}
    /\ {e.good : e \in deal.line} \subseteq GoodsOf(cart)

\* amountsAreEquivalent
Equivalent(m, n) == m - n \in -1..1

(* ------------------------------- orders -------------------------------- *)

PlainDeal == [mode |-> "STANDARD", order |-> <<>>, line |-> {}]

Sale(status, priced, mode, method, till, declared) ==
    [status |-> status, lines |-> priced.lines, components |-> priced.components,
     discount |-> priced.discount, total |-> priced.total, mode |-> mode,
     method |-> method, till |-> till, declared |-> declared,
     day |-> evening, late |-> FALSE]

SalesInit(list, past) ==
    /\ priceList = list /\ oldPrices = list /\ reprices = 0
    /\ ledger = past
    /\ closings = [t \in Tills |-> NotClosed]
    /\ evening = 1

Open == {t \in Tills : closings[t] = NotClosed}

\* getPosPaymentCapabilities and validatePaymentMethodAvailability
Methods(till) == (IF till \in CashTills THEN {"CASH"} ELSE {})
                 \cup (IF till \in CardTills THEN {"CARD"} ELSE {})

(* createOrder: a card payment is pending until the terminal confirms it.  *)
Sell(till, method, cart, deal, seen) ==
    LET priced == PriceOf(priceList, cart, deal)
        declared == PriceOf(seen, cart, deal).total
    IN  /\ Len(ledger) < MaxSales
        /\ till \in Open /\ method \in Methods(till)
        /\ method = "CARD" => till \notin TestTills
        /\ Sellable(priceList, cart, deal)
        /\ Equivalent(priced.total, declared)
        /\ ledger' = Append(ledger, Sale(IF method = "CARD" THEN "PENDING" ELSE "PAID",
                                         priced, deal.mode, method, till, declared))
        /\ UNCHANGED <<priceList, oldPrices, reprices, closings, evening>>

(* createPublicOrder: no discounts, and the variants of a dish are left.   *)
SendFromMenu(cart, seen) ==
    LET plain == [i \in DOMAIN cart |-> [cart[i] EXCEPT !.variant = FALSE]]
        priced == PriceOf(priceList, plain, PlainDeal)
        declared == PriceOf(seen, plain, PlainDeal).total
    IN  /\ Len(ledger) < MaxSales
        /\ Sellable(priceList, plain, PlainDeal)
        /\ Equivalent(priced.total, declared)
        /\ ledger' = Append(ledger, Sale("PENDING", priced, "STANDARD", NoTill, NoTill, declared))
        /\ UNCHANGED <<priceList, oldPrices, reprices, closings, evening>>

\* What an order was created with.
AsPersisted(o) == [lines |-> o.lines, components |-> o.components,
                   discount |-> o.discount, total |-> o.total]

(* completePendingOrderPayment: the cart is priced again, but a volunteers'*)
(* order completed as one is charged what it was created for.              *)
CompleteAtTill(i, till, method, deal, seen) ==
    LET o == ledger[i]
        kept == deal.mode = "VOLUNTEER" /\ o.mode = "VOLUNTEER"
        priced == IF kept THEN AsPersisted(o) ELSE PriceOf(priceList, o.lines, deal)
        declared == PriceOf(seen, o.lines, deal).total
    IN  /\ o.status = "PENDING"
        /\ till \in Open /\ method \in Methods(till)
        /\ deal.mode = "VOLUNTEER" => deal.order = <<>> /\ deal.line = {}
        /\ ~kept => Sellable(priceList, o.lines, deal)
        /\ Equivalent(priced.total, declared)
        /\ ledger' = [ledger EXCEPT ![i] =
               Sale("PAID", priced, deal.mode, method, till, declared)]
        /\ UNCHANGED <<priceList, oldPrices, reprices, closings, evening>>

\* The webhook of the terminal, for the session the order was created in.
ConfirmCard(i) ==
    /\ ledger[i].status = "PENDING" /\ ledger[i].till \in Open
    /\ ledger' = [ledger EXCEPT ![i].status = "PAID", ![i].day = evening]
    /\ UNCHANGED <<priceList, oldPrices, reprices, closings, evening>>

\* stornoPaidOrderById, which asks nothing of the session.
CancelSale(i) ==
    /\ ledger[i].status = "PAID"
    /\ ledger' = [ledger EXCEPT ![i].status = "CANCELLED",
                                ![i].late = ledger[i].till \notin Open]
    /\ UNCHANGED <<priceList, oldPrices, reprices, closings, evening>>

\* updateProduct, or deleteProduct when the entry is not listed.
Reprice(g, entry) ==
    /\ reprices < MaxReprices
    /\ priceList[g].listed /\ entry # priceList[g]
    /\ priceList' = [priceList EXCEPT ![g] = entry]
    /\ oldPrices' = priceList
    /\ reprices' = reprices + 1
    /\ UNCHANGED <<ledger, closings, evening>>

NextEvening ==
    /\ evening < MaxEvenings
    /\ evening' = evening + 1
    /\ UNCHANGED <<priceList, oldPrices, reprices, ledger, closings>>

(* ------------------------------- reports ------------------------------- *)

\* Mutant: the cents the divisions leave are given to nobody.
AllocatedDown(total, weights) ==
    LET sum == Cents(weights)
    IN  [i \in DOMAIN weights |-> IF sum = 0 THEN total \div Len(weights)
                                  ELSE (total * weights[i]) \div sum]

(* allocateCentsByWeights: in proportion, rounded down; the cents left go  *)
(* one by one to the largest remainders, the first of equals first.        *)
Allocated(total, weights) ==
    LET w == IF Cents(weights) > 0 THEN weights ELSE [i \in DOMAIN weights |-> 1]
        sum == Cents(w)
        floor == [i \in DOMAIN w |-> (total * w[i]) \div sum]
        rest == [i \in DOMAIN w |-> (total * w[i]) % sum]
        left == total - Cents(floor)
        Before(i) == {j \in DOMAIN w : rest[j] > rest[i] \/ (rest[j] = rest[i] /\ j < i)}
    IN  [i \in DOMAIN w |-> floor[i] + IF Cardinality(Before(i)) < left THEN 1 ELSE 0]

(* allocateCentsWithinCapacities: what a full line cannot take is divided  *)
(* again among the lines that have room; the first takes a cent if nobody  *)
(* got one.                                                                *)
Within(total, weights, capacities) ==
    LET Usable(caps) == LET room == {i \in DOMAIN caps : caps[i] > 0}
                        IN  [i \in DOMAIN caps |->
                                IF i \notin room THEN 0
                                ELSE IF \E j \in room : weights[j] > 0 THEN weights[i] ELSE 1]
        Taken(caps, share) ==
            [i \in DOMAIN caps |->
                IF Cents(share) = 0 /\ caps[i] > 0 /\ \A j \in 1..i - 1 : caps[j] = 0 THEN 1
                ELSE Least(caps[i], share[i])]
        fill[due \in Nat, caps \in Seq(Nat)] ==
            LET taken == Taken(caps, Allocated(due, Usable(caps)))
                more == fill[due - Cents(taken), [i \in DOMAIN caps |-> caps[i] - taken[i]]]
            IN  IF due = 0 THEN [i \in DOMAIN caps |-> 0]
                ELSE [i \in DOMAIN caps |-> taken[i] + more[i]]
    IN  fill[Least(total, Cents(capacities)), capacities]

Modern(o) == SelectSeq(o.components, LAMBDA k : k.applied > 0)
DeclaredOff(o) == Cents(Column(o.lines, "discount"))

\* The discount of an order is the largest of three records of it.
OffOf(o) == LET of == {o.discount, DeclaredOff(o), Applied(o.components)}
            IN  CHOOSE n \in of : \A m \in of : m <= n

Label(k) == <<IF k.scope = "VOLUNTEER" THEN "volunteers" ELSE k.discount.type, k.discount.value>>
OwnLabel == <<"of the line", 0>>
OrderLabel == <<"of the order", 0>>
UnknownLabel == <<"unknown", 0>>

(* The names of the discounts a line shares in; an order stored before     *)
(* components were has one of its lines' and one of its own.               *)
GroupOf(o, line, off) ==
    LET shares == SelectSeq(Modern(o), LAMBDA k : k.scope = "ORDER" \/ k.good = line.good)
        own == IF shares = <<>> /\ line.discount > 0 THEN <<OwnLabel>>
               ELSE [n \in DOMAIN shares |-> Label(shares[n])]
        both == IF Modern(o) = <<>> /\ OffOf(o) > DeclaredOff(o) THEN Append(own, OrderLabel)
                ELSE own
    IN  IF both = <<>> /\ off > 0 THEN <<UnknownLabel>> ELSE both

CategoryOf(c, g) == IF c[g].listed THEN c[g].shelf ELSE NoTill

\* The lines of an order as the reports count them.
ReportLines(c, o) ==
    LET own == Column(o.lines, "discount")
        Weight(line) == IF line.total + line.discount > 0 THEN line.total + line.discount
                        ELSE line.units
        shared == Allocated(o.total + OffOf(o), [i \in DOMAIN o.lines |-> Weight(o.lines[i])])
        lineOff == Within(Least(OffOf(o), DeclaredOff(o)), own, shared)
        after == [i \in DOMAIN shared |-> shared[i] - lineOff[i]]
        orderOff == Within(OffOf(o) - Cents(lineOff), after, after)
        Row(i, off) ==
            [key |-> <<CategoryOf(c, o.lines[i].good), o.lines[i].good,
                       GroupOf(o, o.lines[i], off)>>,
             units |-> o.lines[i].units, gross |-> shared[i], discount |-> off,
             net |-> shared[i] - off]
    IN  [i \in DOMAIN shared |-> Row(i, lineOff[i] + orderOff[i])]

\* What an order adds to the summary of the discounts: <<name, cents>>.
DiscountsOf(o) ==
    LET modern == Modern(o)
        own == SelectSeq(o.lines, LAMBDA l : l.discount > 0)
        known == IF modern # <<>> THEN [n \in DOMAIN modern |-> <<Label(modern[n]), modern[n].applied>>]
                 ELSE [n \in DOMAIN own |-> <<OwnLabel, own[n].discount>>]
                      \o (IF OffOf(o) > DeclaredOff(o)
                          THEN << <<OrderLabel, OffOf(o) - DeclaredOff(o)>> >> ELSE <<>>)
        missing == OffOf(o) - Cents(Column(known, 2))
    IN  IF missing > 0 THEN Append(known, <<UnknownLabel, missing>>) ELSE known

SumOf(lines, field) == Cents(Column(lines, field))

\* The lines that agree in a key, as one row.
RowsOf(lines, keys) ==
    [k \in ToSet(keys) |->
        LET of == [n \in DOMAIN lines |-> IF keys[n] = k THEN 1 ELSE 0]
            Sum(field) == Cents([n \in DOMAIN lines |-> of[n] * lines[n][field]])
        IN  [units |-> Sum("units"), gross |-> Sum("gross"),
             discount |-> Sum("discount"), net |-> Sum("net")]]

TotalOf(rows, field) ==
    LET keys == SetToSeq(DOMAIN rows) IN Cents([n \in DOMAIN keys |-> rows[keys[n]][field]])

Keys(lines, n) == [i \in DOMAIN lines |-> lines[i].key[n]]
ByCategory(lines) == RowsOf(lines, Keys(lines, 1))
ByProduct(lines) == RowsOf(lines, Keys(lines, 2))

\* aggregateOrderProductSales: rows by category, product and discounts.
SalesReport(c, orders) ==
    LET Tables(lines) == [rows |-> RowsOf(lines, Column(lines, "key")),
                          categories |-> ByCategory(lines), products |-> ByProduct(lines),
                          discounts |-> FlattenSeq([i \in DOMAIN orders |-> DiscountsOf(orders[i])])]
    IN  Tables(FlattenSeq([i \in DOMAIN orders |-> ReportLines(c, orders[i])]))

Paid(o) == o.status = "PAID"

\* computeCashSessionSummary and the revenues of computeDashboardStats
Takings(orders) ==
    LET By(method) == SumOf(SelectSeq(orders, LAMBDA o : Paid(o) /\ o.method = method), "total")
    IN  [cash |-> By("CASH"), card |-> By("CARD")]

\* The units of a product the dashboard counts.
UnitsSold(orders, g) ==
    SumOf(SelectSeq(FlattenSeq(Column(orders, "lines")), LAMBDA l : l.good = g), "units")

(* The orders of a report: paid, in no test, and of the days asked for.    *)
Reported(days) ==
    SelectSeq(ledger, LAMBDA o : Paid(o) /\ o.till \notin TestTills /\ o.day \in days)

\* Of resolveDashboardTimeRange: a day, a span of days, the whole event.
Spans == {{evening}, 1..MaxEvenings}
         \cup {from..to - 1 : from \in 1..MaxEvenings, to \in 2..MaxEvenings}

\* The orders of the report of a session, which also prints at its closing.
OrdersOf(t) == SelectSeq(ledger, LAMBDA o : Paid(o) /\ o.till = t)

\* The closing keeps what computeSummaryForCashSession counted.
CloseTill(t) ==
    /\ t \in Open
    /\ closings' = [closings EXCEPT ![t] = Takings(OrdersOf(t))]
    /\ UNCHANGED <<priceList, oldPrices, reprices, ledger, evening>>

SalesNext(carts, deals, Entries(_)) ==
    \/ \E t \in Tills, m \in {"CASH", "CARD"}, cart \in carts, d \in deals,
          seen \in {priceList, oldPrices} : Sell(t, m, cart, d, seen)
    \/ \E cart \in carts, seen \in {priceList, oldPrices} : SendFromMenu(cart, seen)
    \/ \E i \in DOMAIN ledger :
        \/ \E t \in Tills, m \in {"CASH", "CARD"}, d \in deals,
              seen \in {priceList, oldPrices} : CompleteAtTill(i, t, m, d, seen)
        \/ ConfirmCard(i) \/ CancelSale(i)
    \/ \E g \in Goods : \E entry \in Entries(g) : Reprice(g, entry)
    \/ \E t \in Tills : CloseTill(t)
    \/ NextEvening

(* ----------------------------- properties ------------------------------ *)

Balances(table, orders) ==
    /\ TotalOf(table, "net") = Takings(orders).cash + Takings(orders).card
    /\ TotalOf(table, "discount") = SumOf(orders, "discount")
    /\ \A k \in DOMAIN table : /\ table[k].net >= 0 /\ table[k].discount >= 0
                               /\ table[k].gross = table[k].net + table[k].discount

Agrees(report, orders) ==
    /\ \A name \in {"rows", "categories", "products"} :
          \A table \in {report[name]} : Balances(table, orders)
    /\ Cents(Column(report.discounts, 2)) = SumOf(orders, "discount")
    /\ \A g \in DOMAIN report.products : report.products[g].units = UnitsSold(orders, g)

\* Rows are exact unless something was free.
IsExact(rows, o) ==
    (\A n \in DOMAIN o.lines : o.lines[n].total + o.lines[n].discount > 0) =>
        \A n \in DOMAIN rows :
            /\ rows[n].gross = o.lines[n].total + o.lines[n].discount
            /\ o.discount = DeclaredOff(o) => rows[n].discount = o.lines[n].discount

(* The reports add up: of any days and of a session, the rows, categories  *)
(* and products come to what the orders were charged, as do the sums by    *)
(* payment method of the dashboard and of the closing; gross less discount *)
(* is net in every row and nothing is negative; the summary of discounts   *)
(* comes to the discounts; every unit is counted. A row is exact unless a  *)
(* product was given away in the order: it gets cents of the others. What  *)
(* was counted when a session closed is what its orders come to, with      *)
(* those cancelled since; nobody pays more than a cent off the total shown *)
(* to him. (aggregateOrderProductSales, computeDashboardStats,             *)
(* computeCashSessionSummary, computePricingForCart)                       *)
BooksBalance ==
    /\ \A orders \in {Reported(days) : days \in Spans} \cup {OrdersOf(t) : t \in Tills} :
          \A report \in {SalesReport(priceList, orders)} : Agrees(report, orders)
    /\ \A i \in DOMAIN ledger :
          /\ Equivalent(ledger[i].total, ledger[i].declared)
          /\ \A rows \in {ReportLines(priceList, ledger[i])} : IsExact(rows, ledger[i])
    /\ \A t \in Tills \ Open :
        LET of == SelectSeq(ledger, LAMBDA o : o.till = t /\ (Paid(o) \/ o.late))
        IN  closings[t].cash + closings[t].card = SumOf(of, "total")
=============================================================================
