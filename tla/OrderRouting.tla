---------------------------- MODULE OrderRouting ----------------------------
(***************************************************************************)
(* From a paid order to paper. The tickets of an order are laid out from   *)
(* the catalogue as routeOrderToPrinters finds it: a summary and copies    *)
(* for the customer at the register, copies for the kitchen at the printer *)
(* of each section. The tickets wait in a chain of promises per address,   *)
(* so that two orders do not mix on paper. The numbers on them were given  *)
(* to the order before, from the catalogue of that moment. A printer that  *)
(* does not answer in time may still bring the sheet out, and an outcome   *)
(* may fail to be written. What the kitchen waits for in the queue goes    *)
(* out in the same chains; how a queue is drained is PrintQueue's matter,  *)
(* here it takes what it holds in any order.                               *)
(***************************************************************************)
EXTENDS Naturals, FiniteSets, Sequences, FiniteSetsExt, SequencesExt

CONSTANTS
    Dishes,     \* products
    Sections,   \* categories
    Presses,    \* addresses of printers
    MaxRoutes,  \* bound on the requests that print an order
    MaxMoves,   \* bound on the edits of the catalogue
    MaxJams,    \* bound on the sends and writes that fail and on busy leases
    NoPress

ASSUME RoutingAssumption ==
    /\ IsFiniteSet(Dishes) /\ IsFiniteSet(Sections) /\ NoPress \notin Presses
    /\ MaxRoutes \in Nat \ {0} /\ MaxMoves \in Nat /\ MaxJams \in Nat

VARIABLES
    layout,   \* products, categories and the printer of the register
    moves,
    meals,    \* orders
    given,    \* numbers handed out
    routes,   \* requests that print an order
    waiting,  \* destinationExecutionChains: the tasks of an address
    paper,    \* what an address has printed
    adrift,   \* what it may still print of the sends given up
    jams

routingVars == <<layout, moves, meals, given, routes, waiting, paper, adrift, jams>>

(* ------------------------ the numbers of an order ---------------------- *)

\* The products to prepare: a menu stands for its parts.
PartsOf(line) ==
    IF line.parts = <<>> THEN << [dish |-> line.dish, units |-> line.units, each |-> line.each] >>
    ELSE [i \in DOMAIN line.parts |-> [dish |-> line.parts[i].dish, each |-> line.each,
                                       units |-> line.parts[i].units * line.units]]

Expanded(cart) == FlattenSeq([i \in DOMAIN cart |-> PartsOf(cart[i])])

UnitsIn(parts) == FoldLeft(LAMBDA sum, part : sum + part.units, 0, parts)
UnitsOf(parts, d) == UnitsIn(SelectSeq(parts, LAMBDA part : part.dish = d))

SectionOf(c, d) == c.section[c.food[d].section]
IsNumbered(c, d) == c.food[d].sold /\ SectionOf(c, d).numbered

\* How many numbers resolveDishTicketsForCart wants for a product.
NumbersWanted(c, cart, d) ==
    LET of == SelectSeq(Expanded(cart), LAMBDA part : part.dish = d)
        alone == SelectSeq(of, LAMBDA part : part.each \/ c.food[d].each)
    IN  IF ~IsNumbered(c, d) THEN 0
        ELSE UnitsIn(alone) + IF Len(alone) < Len(of) THEN 1 ELSE 0

\* It keeps those the order has, and numbers the rest in one sequence.
NumbersFor(c, cart, has) ==
    LET order == SetToSeq(Dishes)
        Kept(d) == Min({Len(has[d]), NumbersWanted(c, cart, d)})
        Lacking(d) == NumbersWanted(c, cart, d) - Kept(d)
        Before(d) == {order[i] : i \in {i \in DOMAIN order :
                                           \E j \in DOMAIN order : i < j /\ order[j] = d}}
        last(d) == given + MapThenSumSet(Lacking, Before(d))
    IN  [d \in Dishes |-> SubSeq(has[d], 1, Kept(d))
                          \o [n \in 1..Lacking(d) |-> last(d) + n]]

NewlyGiven(numbers) ==
    LET newest == UNION {ToSet(numbers[d]) : d \in Dishes}
    IN  Max(newest \cup {given})

(* ---------------------------- the sheets ------------------------------- *)

Once(s) == FoldLeft(LAMBDA seen, x : IF x \in ToSet(seen) THEN seen ELSE Append(seen, x), <<>>, s)

(* What the kitchen is told to prepare: one entry per product, or one per  *)
(* unit. A product deleted since is passed over.                           *)
Servings(c, cart) ==
    LET parts == Expanded(cart)
        Of(i) == LET part == parts[i] IN
                 IF ~c.food[part.dish].sold \/ SectionOf(c, part.dish).skip THEN <<>>
                 ELSE IF part.each \/ c.food[part.dish].each
                 THEN [k \in 1..part.units |-> [dish |-> part.dish, units |-> 1, unit |-> <<i, k>>]]
                 ELSE << [dish |-> part.dish, units |-> part.units, unit |-> <<>>] >>
    IN  FlattenSeq([i \in DOMAIN parts |-> Of(i)])

(* Entries on one sheet: those of a printer, or of a category without one; *)
(* a numbered product, and a unit on its own, have theirs.                 *)
SheetGroup(c, s) ==
    LET section == SectionOf(c, s.dish)
    IN  [at |-> IF section.press # NoPress THEN section.press ELSE c.food[s.dish].section,
         unit |-> s.unit, dish |-> IF section.numbered THEN s.dish ELSE NoPress]

\* Where the kitchen's copies of an entry go.
KitchenCopies(c, s) ==
    LET section == SectionOf(c, s.dish)
        To(press, atDesk) == [group |-> SheetGroup(c, s), to |-> press, atDesk |-> atDesk]
    IN  (IF section.press # NoPress THEN <<To(section.press, FALSE)>> ELSE <<>>)
        \o (IF section.atDesk /\ c.desk # NoPress THEN <<To(c.desk, TRUE)>> ELSE <<>>)

NoGroup == [at |-> NoPress, unit |-> <<>>, dish |-> NoPress]

Sheet(kind, to, group, items) ==
    [kind |-> kind, to |-> to, group |-> group, items |-> items, number |-> 0,
     barcode |-> FALSE, recoverable |-> FALSE]

\* Mutant: the cursor of a product stays where it is.
FirstNumberOf(groups, numbers, g) ==
    IF g.dish \in Dishes /\ numbers[g.dish] # <<>> THEN Head(numbers[g.dish]) ELSE 0

\* A product's n-th group has its n-th number, while there are any.
NumberOf(groups, numbers, g) ==
    LET of == SelectSeq(groups, LAMBDA h : h.dish = g.dish)
        rank == CHOOSE n \in DOMAIN of : of[n] = g
    IN  IF g.dish \in Dishes /\ rank \in DOMAIN numbers[g.dish] THEN numbers[g.dish][rank] ELSE 0

\* The sheets of an order, in the order they are handed to the printers.
SheetsOf(c, meal) ==
    LET servings == Servings(c, meal.cart)
        groups == Once([i \in DOMAIN servings |-> SheetGroup(c, servings[i])])
        copies == Once(FlattenSeq([i \in DOMAIN servings |-> KitchenCopies(c, servings[i])]))
        Barcode(g) == /\ NumberOf(groups, meal.numbers, g) # 0
                      /\ SectionOf(c, g.dish).barcode
        Kitchen(k) ==
            [Sheet("kitchen", k.to, k.group,
                   SelectSeq(servings, LAMBDA s : k \in ToSet(KitchenCopies(c, s))))
             EXCEPT !.number = NumberOf(groups, meal.numbers, k.group),
                    !.barcode = Barcode(k.group), !.recoverable = ~k.atDesk]
        Customer(g) ==
            [Sheet("customer", c.desk, g, SelectSeq(servings, LAMBDA s : SheetGroup(c, s) = g))
             EXCEPT !.number = NumberOf(groups, meal.numbers, g),
                    !.barcode = Barcode(g) /\ \A i \in DOMAIN copies : copies[i].group # g]
        kitchen == [i \in DOMAIN copies |-> Kitchen(copies[i])]
    IN  IF c.desk = NoPress THEN kitchen
        ELSE <<Sheet("summary", c.desk, NoGroup, meal.cart)>> \o kitchen
             \o [i \in DOMAIN groups |-> Customer(groups[i])]

(* ------------------------------ orders --------------------------------- *)

NoNumbers == [d \in Dishes |-> <<>>]

RoutingInit(first) ==
    /\ layout = first
    /\ moves = 0 /\ given = 0 /\ jams = 0
    /\ meals = <<>> /\ routes = <<>>
    /\ waiting = [p \in Presses |-> <<>>]
    /\ paper = [p \in Presses |-> <<>>]
    /\ adrift = [p \in Presses |-> <<>>]

Read == [food |-> layout.food, section |-> layout.section, desk |-> layout.desk]

Route(o) ==
    [meal |-> o, order |-> <<>>, setup |-> layout, pc |-> "order", sheets |-> <<>>,
     results |-> <<>>, joined |-> {}, again |-> <<>>, stops |-> FALSE]

\* Another request that prints an order.
Started(route) ==
    /\ Len(routes) < MaxRoutes
    /\ routes' = Append(routes, route)

(* An order is stored with its numbers; basis is the catalogue they are    *)
(* of.                                                                     *)
MealOrdered(cart, photo) ==
    /\ Len(meals) < MaxRoutes
    /\ LET numbers == NumbersFor(layout, cart, NoNumbers) IN
        /\ meals' = Append(meals, [cart |-> cart, numbers |-> numbers, basis |-> Read,
                                   paid |-> FALSE, photo |-> photo])
        /\ given' = NewlyGiven(numbers)
    /\ UNCHANGED <<layout, moves, routes, waiting, paper, adrift, jams>>

\* A sale at the register, or a payment the terminal confirms.
MealPaid(o) ==
    /\ ~meals[o].paid
    /\ meals' = [meals EXCEPT ![o].paid = TRUE]
    /\ Started(Route(o))
    /\ UNCHANGED <<layout, moves, given, waiting, paper, adrift, jams>>

\* The register completes a pending order, whose cart it may have changed.
MealCompleted(o, cart) ==
    /\ ~meals[o].paid
    /\ LET numbers == NumbersFor(layout, cart, meals[o].numbers) IN
        /\ meals' = [meals EXCEPT ![o] = [@ EXCEPT !.cart = cart, !.numbers = numbers,
                                                   !.basis = Read, !.paid = TRUE]]
        /\ given' = NewlyGiven(numbers)
    /\ Started(Route(o))
    /\ UNCHANGED <<layout, moves, waiting, paper, adrift, jams>>

\* The logs of an order with some result, oldest first.
LogsOf(o, results) ==
    LET Of(r) == SelectSeq([i \in DOMAIN routes[r].sheets |-> <<r, i>>],
                           LAMBDA log : routes[r].results[log[2]] \in results)
    IN  FlattenSeq([r \in DOMAIN routes |-> IF routes[r].meal = o THEN Of(r) ELSE <<>>])

(* reprintOrderById: nothing while a sheet is on its way; those that       *)
(* failed, if any did; or else the whole order again.                      *)
Reprinted(o) ==
    /\ meals[o].paid
    /\ LogsOf(o, {"queued", "held", "drained", "retried"}) = <<>>
    /\ LET failed == LogsOf(o, {"failed"}) IN
        Started(IF failed = <<>> THEN Route(o)
                ELSE [Route(o) EXCEPT !.pc = "again", !.again = failed])
    /\ UNCHANGED <<layout, moves, meals, given, waiting, paper, adrift, jams>>

\* retryFailedOrderPrintJobs: the sheets of one printer, up to a failure.
RetriedAtTill(o, p) ==
    LET failed == SelectSeq(LogsOf(o, {"failed"}),
                            LAMBDA log : routes[log[1]].sheets[log[2]].to = p)
    IN
    /\ meals[o].paid /\ failed # <<>>
    /\ Started([Route(o) EXCEPT !.pc = "again", !.stops = TRUE, !.again = failed])
    /\ UNCHANGED <<layout, moves, meals, given, waiting, paper, adrift, jams>>

\* The form of a category refuses numbers on what is not printed.
CatalogueMoves(next) ==
    /\ moves < MaxMoves
    /\ next # layout
    /\ \A s \in Sections : next.section[s].numbered => ~next.section[s].skip
    /\ layout' = next /\ moves' = moves + 1
    /\ UNCHANGED <<meals, given, routes, waiting, paper, adrift, jams>>

(* ------------------------------ routing -------------------------------- *)

At(r, pc) == r \in DOMAIN routes /\ routes[r].pc = pc
NowAt(r, pc) == routes' = [routes EXCEPT ![r].pc = pc]

OrderIsRead(r) ==
    /\ At(r, "order")
    /\ routes' = [routes EXCEPT ![r].order = meals[routes[r].meal],
                                ![r].setup.desk = layout.desk, ![r].pc = "food"]
    /\ UNCHANGED <<layout, moves, meals, given, waiting, paper, adrift, jams>>

FoodIsRead(r) ==
    /\ At(r, "food")
    /\ routes' = [routes EXCEPT ![r].setup.food = layout.food, ![r].pc = "sections"]
    /\ UNCHANGED <<layout, moves, meals, given, waiting, paper, adrift, jams>>

\* Who sends a sheet that the queue holds.
TheQueue == 0

TaskFor(r, sheets, p) ==
    [route |-> r, by |-> r, broken |-> FALSE,
     todo |-> SelectSeq([i \in DOMAIN sheets |-> i], LAMBDA i : sheets[i].to = p)]

(* The categories are read, the sheets made and each address given its     *)
(* own, behind what waits there.                                           *)
SectionsAreRead(r) ==
    LET setup == [routes[r].setup EXCEPT !.section = layout.section]
        sheets == SheetsOf(setup, routes[r].order)
    IN  /\ At(r, "sections")
        /\ routes' = [routes EXCEPT
                        ![r] = [@ EXCEPT !.setup = setup, !.sheets = sheets, !.pc = "printing",
                                         !.results = [i \in DOMAIN sheets |-> "none"]]]
        /\ waiting' = [p \in Presses |->
                         IF TaskFor(r, sheets, p).todo = <<>> THEN waiting[p]
                         ELSE Append(waiting[p], TaskFor(r, sheets, p))]
        /\ UNCHANGED <<layout, moves, meals, given, paper, adrift, jams>>

Current(p) == Head(Head(waiting[p]).todo)
Sender(p) == Head(waiting[p]).route
IsDraining(p) == waiting[p] # <<>> /\ Head(waiting[p]).by = TheQueue
UnderWay(p) ==
    /\ waiting[p] # <<>>
    /\ routes[Sender(p)].results[Current(p)] = IF IsDraining(p) THEN "drained" ELSE "queued"

SheetAt(log) == routes[log[1]].sheets[log[2]]
ResultOf(log) == routes[log[1]].results[log[2]]
Logs == UNION {{<<r, i>> : i \in DOMAIN routes[r].results} : r \in DOMAIN routes}

\* What a kitchen's printer has in its queue, claimed for a send or not.
HeldFor(p) == {log \in Logs : /\ SheetAt(log).recoverable /\ SheetAt(log).to = p
                              /\ ResultOf(log) \in {"held", "drained"}}

\* The sheet under way is for a kitchen's printer and finds a backlog.
Behind(p) == /\ ~IsDraining(p) /\ HeldFor(p) # {}
             /\ SheetAt(<<Sender(p), Current(p)>>).recoverable

\* Someone sends a kitchen's sheet: the lease of the printer is theirs.
Leased(p) ==
    \/ \E task \in ToSet(waiting[p]) : task.by = TheQueue
    \/ UnderWay(p) /\ SheetAt(<<Sender(p), Current(p)>>).recoverable

\* A sheet gets its log, QUEUED.
SheetBegins(p) ==
    /\ waiting[p] # <<>>
    /\ routes[Sender(p)].results[Current(p)] = "none"
    /\ routes' = [routes EXCEPT ![Sender(p)].results[Current(p)] = "queued"]
    /\ UNCHANGED <<layout, moves, meals, given, waiting, paper, adrift, jams>>

\* Mutant: a failure is forgotten.
ShiftedAnyway(queue, failed) ==
    LET task == Head(queue)
    IN  IF Len(task.todo) = 1 THEN Tail(queue)
        ELSE << [task EXCEPT !.todo = Tail(@)] >> \o Tail(queue)

(* The chain goes on with the next sheet, or the next task. After a        *)
(* failure the printer is not asked again for the task.                    *)
Shifted(queue, failed) ==
    LET task == Head(queue)
    IN  IF Len(task.todo) = 1 THEN Tail(queue)
        ELSE << [task EXCEPT !.todo = Tail(@), !.broken = @ \/ failed] >> \o Tail(queue)

SheetEnds(p, result, failed) ==
    /\ UnderWay(p)
    /\ routes' = [routes EXCEPT ![Sender(p)].results[Current(p)] = result,
                                ![Sender(p)].joined = @ \cup IF result = "held" THEN {Current(p)} ELSE {}]
    /\ waiting' = [waiting EXCEPT ![p] = Shifted(@, failed)]
    /\ UNCHANGED <<layout, moves, meals, given>>

\* The lease and the queue are no obstacle, and the printer was not given up.
IsSendable(p) == UnderWay(p) /\ ~Behind(p) /\ ~Head(waiting[p]).broken

Jams == jams < MaxJams /\ jams' = jams + 1

OnPaper(by, log, told) == [route |-> log[1], sheet |-> log[2], by |-> by, told |-> told]
Printed(p, told) == OnPaper(Head(waiting[p]).by, <<Sender(p), Current(p)>>, told)

SheetIsSent(p) ==
    /\ IsSendable(p) /\ SheetEnds(p, "sent", FALSE)
    /\ paper' = [paper EXCEPT ![p] = Append(@, Printed(p, "sent"))]
    /\ UNCHANGED <<adrift, jams>>

\* An error, or no answer in time: then the sheet may still come out.
MayComeLate(p, entry) ==
    \/ UNCHANGED adrift
    \/ adrift' = [adrift EXCEPT ![p] = Append(@, entry)]

\* What the queue sends it holds again, unless it cannot be sent at all.
SheetFails(p) ==
    /\ IsSendable(p) /\ Jams
    /\ \/ /\ SheetEnds(p, IF IsDraining(p) THEN "held" ELSE "failed", TRUE)
          /\ MayComeLate(p, Printed(p, "late"))
       \/ IsDraining(p) /\ SheetEnds(p, "failed", TRUE) /\ UNCHANGED adrift
    /\ UNCHANGED paper

\* What became of the sheet, sent or not, is not written: its log stays QUEUED.
SheetIsLost(p) ==
    LET still == IF IsDraining(p) THEN "drained" ELSE "queued" IN
    /\ Jams
    /\ \/ /\ IsSendable(p) /\ SheetEnds(p, still, FALSE)
          /\ paper' = [paper EXCEPT ![p] = Append(@, Printed(p, "lost"))]
          /\ UNCHANGED adrift
       \/ /\ SheetEnds(p, still, TRUE)
          /\ IF IsSendable(p) THEN MayComeLate(p, Printed(p, "late")) ELSE UNCHANGED adrift
          /\ UNCHANGED paper

SheetComesLate(p) ==
    /\ adrift[p] # <<>>
    /\ paper' = [paper EXCEPT ![p] = Append(@, Head(adrift[p]))]
    /\ adrift' = [adrift EXCEPT ![p] = Tail(@)]
    /\ UNCHANGED <<layout, moves, meals, given, routes, waiting, jams>>

SheetIsSkipped(p) ==
    /\ UnderWay(p) /\ ~Behind(p) /\ Head(waiting[p]).broken
    /\ SheetEnds(p, "failed", TRUE)
    /\ UNCHANGED <<paper, adrift, jams>>

\* The kitchen's printer has a backlog, or another has its lease: the sheet
\* joins the queue.
SheetIsHeld(p) ==
    /\ UnderWay(p) /\ ~IsDraining(p) /\ SheetAt(<<Sender(p), Current(p)>>).recoverable
    /\ SheetEnds(p, "held", FALSE)
    /\ IF Behind(p) THEN UNCHANGED jams ELSE Jams
    /\ UNCHANGED <<paper, adrift>>

(* ----------------------- the queue of the kitchen ---------------------- *)

\* The clerk lets the queue have what failed at a printer of the kitchen.
HeldAtTill(o, p) ==
    LET failed == {log \in Logs : /\ routes[log[1]].meal = o /\ ResultOf(log) = "failed"
                                  /\ SheetAt(log).recoverable /\ SheetAt(log).to = p}
    IN
    /\ meals[o].paid /\ failed # {} /\ ~Leased(p)
    /\ routes' = [r \in DOMAIN routes |->
                    [routes[r] EXCEPT !.results = [i \in DOMAIN @ |->
                                          IF <<r, i>> \in failed THEN "held" ELSE @[i]]]]
    /\ UNCHANGED <<layout, moves, meals, given, waiting, paper, adrift, jams>>

\* With the lease, the queue claims a sheet, which waits in the chain.
DrainBegins(p) ==
    /\ ~Leased(p)
    /\ \E log \in HeldFor(p) :
        /\ ResultOf(log) = "held"
        /\ routes' = [routes EXCEPT ![log[1]].results[log[2]] = "drained"]
        /\ waiting' = [waiting EXCEPT ![p] = Append(@, [route |-> log[1], by |-> TheQueue,
                                                       broken |-> FALSE, todo |-> <<log[2]>>])]
    /\ UNCHANGED <<layout, moves, meals, given, paper, adrift, jams>>

\* A claim whose holder is gone expires: the queue holds its sheet again, a
\* live send or a retry has failed.
SheetIsRecovered(r, i) ==
    LET sheet == routes[r].sheets[i]
        result == routes[r].results[i]
        isWaiting == \E p \in Presses : \E task \in ToSet(waiting[p]) :
                         task.route = r /\ i \in ToSet(task.todo)
    IN
    /\ ~isWaiting
    /\ \/ result = "retried"
       \/ sheet.recoverable /\ result \in {"queued", "drained"}
    /\ routes' = [routes EXCEPT ![r].results[i] = IF result = "drained" THEN "held" ELSE "failed"]
    /\ UNCHANGED <<layout, moves, meals, given, waiting, paper, adrift, jams>>

\* Every address is done with what a request gave it.
Dispatched(r) == \A p \in Presses : \A task \in ToSet(waiting[p]) : task.by # r

(* When every address is done with the sheets, the photo of a paid order   *)
(* waits its turn at the register's printer.                               *)
PhotoIsDue(r) ==
    LET photo == routes[r].order.photo = "stored" /\ routes[r].order.paid
        till == routes[r].setup.desk
        n == Len(routes[r].sheets) + 1
    IN  /\ At(r, "printing") /\ Dispatched(r)
        /\ routes' = [routes EXCEPT ![r] =
                IF ~photo THEN [@ EXCEPT !.pc = "done"]
                ELSE [@ EXCEPT !.sheets = Append(@, Sheet("photo", till, NoGroup, <<>>)),
                               !.results = Append(@, IF till = NoPress THEN "failed" ELSE "none"),
                               !.pc = IF till = NoPress THEN "done" ELSE "photo"]]
        /\ waiting' = IF photo /\ till # NoPress
                      THEN [waiting EXCEPT ![till] = Append(@, [route |-> r, by |-> r, broken |-> FALSE, todo |-> <<n>>])]
                      ELSE waiting
        /\ UNCHANGED <<layout, moves, meals, given, paper, adrift, jams>>

\* printedAt, and the image is dropped.
PhotoIsDone(r) ==
    /\ At(r, "photo") /\ Dispatched(r)
    /\ NowAt(r, "done")
    /\ meals' = IF \E p \in Presses : \E s \in ToSet(paper[p]) :
                       s.by = r /\ s.sheet = Len(routes[r].sheets) /\ s.told # "late"
                THEN [meals EXCEPT ![routes[r].meal].photo = "printed"] ELSE meals
    /\ UNCHANGED <<layout, moves, given, waiting, paper, adrift, jams>>

(* ------------------------------ retries -------------------------------- *)

\* Still failed, and with a printer and, for a photo, its image.
Retriable(log) ==
    LET sheet == routes[log[1]].sheets[log[2]]
    IN  /\ routes[log[1]].results[log[2]] = "failed" /\ sheet.to # NoPress
        /\ sheet.kind = "photo" => meals[routes[log[1]].meal].photo = "stored"

\* For a kitchen's printer a retry needs the lease, and no backlog.
IsBlocked(log) ==
    LET p == SheetAt(log).to IN SheetAt(log).recoverable /\ (Leased(p) \/ HeldFor(p) # {})

\* A sheet that failed is sent again, past the chain of its address; its log
\* may be left QUEUED.
RetryIsSent(r) ==
    LET log == Head(routes[r].again)
        Sends(result, told) ==
            /\ routes' = [routes EXCEPT ![log[1]].results[log[2]] = result, ![r].again = Tail(@)]
            /\ paper' = [paper EXCEPT ![SheetAt(log).to] = Append(@, OnPaper(r, log, told))]
    IN  /\ At(r, "again") /\ routes[r].again # <<>>
        /\ Retriable(log) /\ ~IsBlocked(log)
        /\ \/ Sends("sent", "sent") /\ UNCHANGED jams
           \/ Sends("retried", "lost") /\ Jams
        /\ UNCHANGED <<layout, moves, meals, given, waiting, adrift>>

\* It fails again, or cannot be sent, now or any more.
RetryFails(r) ==
    LET log == Head(routes[r].again)
        Leaves(result) ==
            routes' = [routes EXCEPT ![log[1]].results[log[2]] = result,
                                     ![r].again = IF routes[r].stops THEN <<>> ELSE Tail(@)]
    IN  /\ At(r, "again") /\ routes[r].again # <<>>
        /\ IF Retriable(log) /\ ~IsBlocked(log)
           THEN /\ Jams
                /\ MayComeLate(SheetAt(log).to, OnPaper(r, log, "late"))
                /\ Leaves("failed") \/ Leaves("retried")
           ELSE Leaves(ResultOf(log)) /\ UNCHANGED <<adrift, jams>>
        /\ UNCHANGED <<layout, moves, meals, given, waiting, paper>>

RetryEnds(r) ==
    /\ At(r, "again") /\ routes[r].again = <<>>
    /\ NowAt(r, "done")
    /\ UNCHANGED <<layout, moves, meals, given, waiting, paper, adrift, jams>>

RoutingNext(Trays(_), Layoutings(_)) ==
    \/ \E cart \in Trays(Len(meals) + 1), photo \in {"none", "stored"} : MealOrdered(cart, photo)
    \/ \E o \in DOMAIN meals :
        \/ MealPaid(o) \/ Reprinted(o)
        \/ \E cart \in Trays(o) : MealCompleted(o, cart)
        \/ \E p \in Presses : RetriedAtTill(o, p) \/ HeldAtTill(o, p)
    \/ \E next \in Layoutings(layout) : CatalogueMoves(next)
    \/ \E r \in DOMAIN routes :
        \/ OrderIsRead(r) \/ FoodIsRead(r) \/ SectionsAreRead(r)
        \/ PhotoIsDue(r) \/ PhotoIsDone(r)
        \/ RetryIsSent(r) \/ RetryFails(r) \/ RetryEnds(r)
        \/ \E i \in DOMAIN routes[r].results : SheetIsRecovered(r, i)
    \/ \E p \in Presses :
        \/ SheetBegins(p) \/ SheetIsSent(p) \/ SheetFails(p) \/ SheetIsLost(p)
        \/ SheetComesLate(p) \/ SheetIsSkipped(p) \/ SheetIsHeld(p) \/ DrainBegins(p)

(* ----------------------------- properties ------------------------------ *)

SheetsWith(r, Test(_)) == SelectSeq(routes[r].sheets, Test)
UnitsOn(sheets, d) == UnitsOf(FlattenSeq([i \in DOMAIN sheets |-> sheets[i].items]), d)
DishesOn(sheet) == {sheet.items[i].dish : i \in DOMAIN sheet.items}

(* What was ordered is what is on the copies of the kitchen, and on those  *)
(* of the customer.                                                        *)
CoversTheOrder(r) ==
    LET c == routes[r].setup
        Ordered(d) == IF c.food[d].sold /\ ~SectionOf(c, d).skip
                      THEN UnitsOf(Expanded(routes[r].order.cart), d) ELSE 0
        kitchen == SheetsWith(r, LAMBDA s : s.kind = "kitchen" /\ s.recoverable)
        atDesk == SheetsWith(r, LAMBDA s : s.kind = "kitchen" /\ ~s.recoverable)
        customer == SheetsWith(r, LAMBDA s : s.kind = "customer")
    IN  \A d \in Dishes :
        LET section == SectionOf(c, d) IN
        /\ UnitsOn(kitchen, d) = IF section.press # NoPress THEN Ordered(d) ELSE 0
        /\ UnitsOn(atDesk, d) = IF section.atDesk /\ c.desk # NoPress THEN Ordered(d) ELSE 0
        /\ UnitsOn(customer, d) = IF c.desk # NoPress THEN Ordered(d) ELSE 0
        /\ \A i \in DOMAIN kitchen : d \in DishesOn(kitchen[i]) => kitchen[i].to = section.press
        /\ c.food[d].each => \A sheets \in {kitchen, atDesk, customer} : \A i \in DOMAIN sheets :
               d \in DishesOn(sheets[i]) => UnitsIn(sheets[i].items) = 1

(* A number stands for the same entries on every sheet, and no two sheets  *)
(* of a kind have it; with the catalogue the order was numbered from, the  *)
(* numbers and the sheets are as many. A number has one barcode's bearer.  *)
CarriesTheNumbers(r) ==
    LET sheets == routes[r].sheets
        c == routes[r].setup
        meal == routes[r].order
        numbered == {i \in DOMAIN sheets : sheets[i].number # 0}
        bearers == {i \in numbered : sheets[i].barcode}
        printable(d) == ~SectionOf(c, d).skip /\ (c.desk # NoPress \/ SectionOf(c, d).press # NoPress)
    IN  /\ \A i \in numbered, j \in numbered :
              sheets[i].number = sheets[j].number =>
                  /\ sheets[i].items = sheets[j].items
                  /\ i # j => <<sheets[i].kind, sheets[i].recoverable>>
                              # <<sheets[j].kind, sheets[j].recoverable>>
        /\ \A i \in numbered : \E d \in Dishes : /\ DishesOn(sheets[i]) = {d}
                                                 /\ sheets[i].number \in ToSet(meal.numbers[d])
        /\ (meal.basis.food = c.food /\ meal.basis.section = c.section) =>
              \A d \in Dishes :
                  /\ printable(d) => ToSet(meal.numbers[d]) \subseteq {sheets[i].number : i \in numbered}
                  /\ IsNumbered(c, d) =>
                        \A i \in DOMAIN sheets : sheets[i].kind \in {"kitchen", "customer"}
                            /\ d \in DishesOn(sheets[i]) => i \in numbered
        /\ \A i \in numbered : (\A d \in DishesOn(sheets[i]) : SectionOf(c, d).barcode) =>
              /\ \E j \in bearers : sheets[j].number = sheets[i].number
              /\ sheets[i].barcode = (sheets[i].kind = "kitchen"
                    \/ \A j \in numbered : sheets[j].number = sheets[i].number => sheets[j].kind # "kitchen")

(* Every unit of an order that its catalogue lets be prepared is on one    *)
(* sheet of the kitchen, one at the register if its section wants it, and  *)
(* one of the customer, however menus, units on their own, categories,     *)
(* printers and numbers divide them; the numbers the order was given fit.  *)
(* (routeOrderToPrinters, resolveDishTicketsForCart)                       *)
EveryDishHasItsTicket ==
    \A r \in DOMAIN routes :
        routes[r].pc = "printing" /\ ToSet(routes[r].results) \subseteq {"none"} =>
            CoversTheOrder(r) /\ CarriesTheNumbers(r)

(* The sheets of an order come out of a printer together and in their      *)
(* order, whatever else waits for its address: what comes in between is a  *)
(* retry, a sheet of the queue or one the printer brings out late, and one *)
(* is missing only if it joined the queue. A sheet comes out again only    *)
(* after a send that was given up or whose outcome was not written; the    *)
(* retries, the reprints and the queue never take one another's sheets.    *)
(* (dispatchJobsSequentiallyPerDestination, enqueueJobForDestination)      *)
SheetsStayTogether ==
    \A p \in Presses :
        LET out == paper[p]
            own == SelectSeq(out, LAMBDA s : /\ s.by = s.route /\ s.told # "late"
                                             /\ routes[s.route].sheets[s.sheet].kind # "photo")
        IN  /\ \A i, j \in DOMAIN out : i # j /\ out[i].told = "sent" /\ out[j].told = "sent" =>
                   <<out[i].route, out[i].sheet>> # <<out[j].route, out[j].sheet>>
            /\ \A i, j \in DOMAIN own : i < j /\ own[i].route = own[j].route =>
                   /\ own[i].sheet < own[j].sheet
                   /\ \A k \in i..j : own[k].route = own[i].route
            /\ \A i \in DOMAIN own : LET route == routes[own[i].route] IN
                   \A n \in 1..own[i].sheet - 1 :
                       route.sheets[n].to = p /\ n \notin route.joined =>
                           \E k \in 1..i - 1 : own[k].route = own[i].route /\ own[k].sheet = n

=============================================================================
