---------------------------- MODULE PublicMenu ----------------------------
(***************************************************************************)
(* Customers' orders. A customer fills the cart his phone stores, which    *)
(* every tab of the menu shows, and sends it; the server resolves the      *)
(* menus in it, prices it and creates an order that waits for a register,  *)
(* with a plan of the ingredients it needs. The catalogue is edited, the   *)
(* event changed and answers are lost meanwhile. The registers show the    *)
(* ingredients of all the orders that wait. Prices are in cents.           *)
(***************************************************************************)
EXTENDS Integers, FiniteSets, SequencesExt

CONSTANTS
    Plates,     \* products, of all the events
    Foods,      \* ingredients
    Feasts,     \* events
    NoFeast,
    Tabs,       \* of the browser of a phone
    MaxTouches, \* bounds: on the edits of the cart,
    MaxLetters, \* on what is sent,
    MaxVisits,  \* on the pages loaded,
    MaxChanges, \* on the edits of the catalogue and the events
    MaxLosses   \* and on the answers lost

ASSUME PublicMenuAssumption ==
    /\ NoFeast \notin Feasts
    /\ {MaxTouches, MaxLetters, MaxVisits, MaxChanges, MaxLosses} \subseteq Nat

VARIABLES
    menu,     \* the products and the ingredients that exist
    feast,    \* the active event and those archived
    phone,    \* the cart in the storage of the phone
    tabs,     \* the page of each tab
    letters,  \* what was sent
    awaited,  \* the orders
    tally     \* touches, visits, changes, losses and carts so far; and the
              \* carts another tab showed when their order was confirmed

menuVars == <<menu, feast, phone, tabs, letters, awaited, tally>>

EmptyPhone == [feast |-> NoFeast, items |-> <<>>, wish |-> 0]
ClosedTab == [feast |-> NoFeast, shown |-> <<>>, cart |-> <<>>, wish |-> 0, busy |-> FALSE, visit |-> 0]

Together(amounts) ==
    LET sum[n \in Nat] == IF n = 0 THEN 0 ELSE amounts[n] + sum[n - 1] IN sum[Len(amounts)]

(* -------------------------------- menus -------------------------------- *)

\* normalizeMenuChoiceGroups: a group without options asks for nothing.
Groups(entry) == {g \in entry.groups : g.options # {}}

\* A choice is a product for a group.
PickedIn(group, picks) == {p[2] : p \in {p \in picks : p[1] = group.id}}

\* FixedMenuConfigDialog: what it lets a customer confirm.
Choosable(entry) ==
    {picks \in SUBSET {<<g.id, o.plate>> : <<g, o>> \in
                          {<<g, o>> \in entry.groups \X UNION {g.options : g \in entry.groups} :
                              o \in g.options}} :
        \A g \in entry.groups : Cardinality(PickedIn(g, picks)) \in g.min..g.max}

\* productRequiresMenuConfiguration
NeedsChoice(entry) == entry.kind = "FIXED_MENU" /\ Groups(entry) # {}

\* resolveFixedMenuSelection: the parts of a menu, with the choices.
Included(entry, picks) ==
    {[plate |-> p.plate, units |-> p.units, of |-> "menu"] : p \in entry.parts}
    \cup UNION {{[plate |-> o.plate, units |-> o.units, of |-> g.id] :
                    o \in {o \in g.options : o.plate \in PickedIn(g, picks)}} : g \in Groups(entry)}

Resolvable(entry, picks, sold) ==
    /\ {p.plate : p \in entry.parts} \subseteq sold
    /\ \A g \in Groups(entry) :
          /\ Cardinality(PickedIn(g, picks)) \in g.min..g.max
          /\ PickedIn(g, picks) \subseteq {o.plate : o \in g.options} \cap sold
    /\ Included(entry, picks) # {}

(* ------------------------------- the plan ------------------------------ *)

Source(plate, units) == [plate |-> plate, units |-> units]
Entry(food, source) == [food |-> food, plate |-> source.plate, units |-> source.units]
NoFood == "itself"

SourcesOfOne(line) ==                                                  \* mutant
    LET parts == SetToSeq(line.parts)
    IN  IF line.parts = {} THEN <<Source(line.plate, line.units)>>
        ELSE [n \in DOMAIN parts |-> Source(parts[n].plate, parts[n].units)]

\* The dishes of a line: the parts of a menu, or the product.
Sources(line) ==
    IF line.parts = {} THEN <<Source(line.plate, line.units)>>
    ELSE LET parts == SetToSeq(line.parts)
         IN  [n \in DOMAIN parts |-> Source(parts[n].plate, parts[n].units * line.units)]

\* A dish with a recipe stands for its ingredients, if all of them exist.
Recipe(m, plate) == {f \in Foods : m.plate[plate].recipe[f] > 0}

EntriesOf(m, source) ==
    LET recipe == Recipe(m, source.plate)
        foods == SetToSeq(recipe)
        Needed(f) == Source(source.plate, m.plate[source.plate].recipe[f] * source.units)
    IN  IF m.plate[source.plate].sold /\ recipe # {} /\ recipe \subseteq m.food
        THEN [n \in DOMAIN foods |-> Entry(foods[n], Needed(foods[n]))]
        ELSE <<Entry(NoFood, source)>>

\* normalizeIngredientPlanEntries: the entries that agree, as one.
Merged(entries) ==
    LET Key(e) == <<e.food, e.plate>>
    IN  [k \in {Key(entries[n]) : n \in DOMAIN entries} |->
            Together([n \in DOMAIN entries |-> IF Key(entries[n]) = k THEN entries[n].units ELSE 0])]

\* Every element of a sequence of sequences of sources, as entries.
PlanOf(lines, Entries(_)) ==
    LET sources == FlattenSeq([i \in DOMAIN lines |-> Sources(lines[i])])
    IN  Merged(FlattenSeq([n \in DOMAIN sources |-> Entries(sources[n])]))

\* buildPersistedIngredientPlan and buildIngredientPlanForCart
IngredientPlan(m, lines) == PlanOf(lines, LAMBDA s : EntriesOf(m, s))

\* buildLegacyIngredientPlanFromOrderCart, for orders stored without a plan
LegacyPlan(lines) == PlanOf(lines, LAMBDA s : <<Entry(NoFood, s)>>)

Waits(o, f) == o.status = "PENDING" /\ o.feast = f
Plan(o) == IF DOMAIN o.plan = {} THEN LegacyPlan(o.lines) ELSE o.plan

\* The row of an entry: its ingredient, or its dish.
RowOf(k) == IF k[1] = NoFood THEN <<"dish", k[2]>> ELSE <<"food", k[1]>>

(* aggregatePendingIngredientQueue over the orders listPendingIngredient-  *)
(* Queue reads.                                                            *)
IngredientQueue(f) ==
    LET waiting == SelectSeq(awaited, LAMBDA o : Waits(o, f))
        plans == [n \in DOMAIN waiting |-> Plan(waiting[n])]
        Of(n, row) == {k \in DOMAIN plans[n] : RowOf(k) = row}
        Units(n, row) == LET keys == SetToSeq(Of(n, row))
                         IN  Together([i \in DOMAIN keys |-> plans[n][keys[i]]])
    IN  [row \in UNION {{RowOf(k) : k \in DOMAIN plans[n]} : n \in DOMAIN plans} |->
            [units |-> Together([n \in DOMAIN plans |-> Units(n, row)]),
             orders |-> Cardinality({n \in DOMAIN plans : Of(n, row) # {}})]]

(* ------------------------------- the page ------------------------------ *)

\* getStoredMenuCartItemsForEvent
Visible(stored, f) == IF stored.feast = f THEN stored ELSE EmptyPhone

Displays(t, stored) ==
    LET seen == Visible(stored, tabs[t].feast)
    IN  [tabs EXCEPT ![t].cart = seen.items, ![t].wish = seen.wish]

\* What the server sends: the products of the event on offer.
Offer(f) == [g \in {g \in Plates : menu.plate[g].feast = f /\ menu.plate[g].sold /\ menu.plate[g].offered} |->
                menu.plate[g]]

\* A page that is loaded forgets what its tab had sent.
Opens(t) ==
    /\ tally.visits < MaxVisits
    /\ tally' = [tally EXCEPT !.visits = @ + 1]
    /\ tabs' = [tabs EXCEPT ![t] =
           [feast |-> feast.active, shown |-> Offer(feast.active),
            cart |-> Visible(phone, feast.active).items, wish |-> Visible(phone, feast.active).wish,
            busy |-> FALSE, visit |-> tally.visits + 1]]
    /\ UNCHANGED <<menu, feast, phone, letters, awaited>>

Shows(t) == tabs[t].feast # NoFeast

\* Whatever renders a page reads the storage; another tab's writes do later.
Renders(t) ==
    /\ Shows(t) /\ tabs' = Displays(t, phone) /\ tabs' # tabs
    /\ UNCHANGED <<menu, feast, phone, letters, awaited, tally>>

(* writeStoredMenuCart: the cart of the page replaces what is stored. A    *)
(* cart that was empty is a new wish.                                      *)
Writes(t, items) ==
    LET fresh == tabs[t].cart = <<>>
        stored == [feast |-> tabs[t].feast, items |-> items,
                   wish |-> IF fresh THEN tally.wishes + 1 ELSE tabs[t].wish]
        written == IF items = <<>> THEN EmptyPhone ELSE stored
    IN  /\ Shows(t) /\ tally.touches < MaxTouches
        /\ tally' = [tally EXCEPT !.touches = @ + 1, !.wishes = @ + IF fresh THEN 1 ELSE 0]
        /\ phone' = written /\ tabs' = Displays(t, written)
        /\ UNCHANGED <<menu, feast, letters, awaited>>

LinesOf(t, id) == {i \in DOMAIN tabs[t].cart : tabs[t].cart[i].id = id}

\* addConfiguredToCart: a line that exists keeps the price it has.
Add(t, g, picks) ==
    LET cart == tabs[t].cart
        at == LinesOf(t, <<g, picks>>)
    IN  /\ g \in DOMAIN tabs[t].shown
        /\ picks \in IF NeedsChoice(tabs[t].shown[g]) THEN Choosable(tabs[t].shown[g]) ELSE {{}}
        /\ Writes(t, IF at = {} THEN Append(cart, [id |-> <<g, picks>>, units |-> 1,
                                                   price |-> tabs[t].shown[g].price])
                     ELSE [i \in DOMAIN cart |-> IF i \in at THEN [cart[i] EXCEPT !.units = @ + 1]
                                                 ELSE cart[i]])

\* The + of a line in the cart, on sale or not
More(t, i) == Writes(t, [tabs[t].cart EXCEPT ![i].units = @ + 1])

\* removeFromCart, and deleteFromCart
Less(t, i, all) ==
    LET cart == tabs[t].cart
    IN  Writes(t, IF cart[i].units > 1 /\ ~all THEN [cart EXCEPT ![i].units = @ - 1]
                  ELSE SubSeq(cart, 1, i - 1) \o SubSeq(cart, i + 1, Len(cart)))

TotalShown(t) == Together([i \in DOMAIN tabs[t].cart |-> tabs[t].cart[i].price * tabs[t].cart[i].units])

\* handleSubmitOrder
Sends(t) ==
    /\ ~tabs[t].busy /\ tabs[t].cart # <<>>
    /\ Len(letters) < MaxLetters
    /\ tabs' = [tabs EXCEPT ![t].busy = TRUE]
    /\ letters' = Append(letters,
           [tab |-> t, visit |-> tabs[t].visit, wish |-> tabs[t].wish, feast |-> tabs[t].feast,
            cart |-> tabs[t].cart, declared |-> TotalShown(t),
            stage |-> "sent", lines |-> <<>>, card |-> <<>>, fate |-> "awaited",
            again |-> \E l \in Range(letters) : l.fate = "shown" /\ l.stage = "created"
                                                /\ l.wish = tabs[t].wish])
    /\ UNCHANGED <<menu, feast, phone, awaited, tally>>

(* ------------------------------ the server ----------------------------- *)

Sold(f) == {g \in Plates : menu.plate[g].feast = f /\ menu.plate[g].sold}

\* The lines of an order, in which a product that is no menu has no parts.
Resolved(item) ==
    LET entry == menu.plate[item.id[1]]
    IN  [plate |-> item.id[1], units |-> item.units, price |-> entry.price,
         parts |-> IF entry.kind = "FIXED_MENU" THEN Included(entry, item.id[2]) ELSE {}]

TotalOfLines(lines) == Together([i \in DOMAIN lines |-> lines[i].price * lines[i].units])

Orderable(l) ==
    /\ l.feast \notin feast.archived
    /\ \A i \in DOMAIN l.cart :
          \A g \in {l.cart[i].id[1]} :
              /\ g \in Sold(l.feast) /\ menu.plate[g].offered
              /\ menu.plate[g].kind = "FIXED_MENU" =>
                    Resolvable(menu.plate[g], l.cart[i].id[2], Sold(l.feast))
    /\ TotalOfLines([i \in DOMAIN l.cart |-> Resolved(l.cart[i])]) - l.declared \in -1..1

\* createPublicOrder as far as the total; or it has too many customers.
Checks(n) ==
    /\ letters[n].stage = "sent"
    /\ \/ /\ Orderable(letters[n])
          /\ letters' = [letters EXCEPT ![n].stage = "priced", ![n].card = menu.plate,
                ![n].lines = [i \in DOMAIN letters[n].cart |-> Resolved(letters[n].cart[i])]]
       \/ letters' = [letters EXCEPT ![n].stage = "refused"]
    /\ UNCHANGED <<menu, feast, phone, tabs, awaited, tally>>

PublicOrder(l, n, m) ==
    [status |-> "PENDING", feast |-> l.feast, lines |-> l.lines, total |-> TotalOfLines(l.lines),
     plan |-> IngredientPlan(m, l.lines), letter |-> n, kitchen |-> m]

\* The rest of it: the plan, then the stocks, then the order.
Creates(n) ==
    /\ letters[n].stage = "priced"
    /\ \/ /\ letters' = [letters EXCEPT ![n].stage = "created"]
          /\ awaited' = Append(awaited, PublicOrder(letters[n], n, menu))
       \/ /\ letters' = [letters EXCEPT ![n].stage = "refused"]
          /\ UNCHANGED awaited
    /\ UNCHANGED <<menu, feast, phone, tabs, tally>>

ClearedNever == phone                                                  \* mutant
\* clearStoredMenuCart, whatever is stored by then
Cleared == EmptyPhone

\* The answer finds the page that waits for it, which forgets the cart and
\* shows the number; or an error.
Answers(n) ==
    LET t == letters[n].tab
    IN  /\ letters[n].stage \in {"created", "refused"} /\ letters[n].fate = "awaited"
        /\ tabs[t].visit = letters[n].visit
        /\ letters' = [letters EXCEPT ![n].fate = "shown"]
        /\ IF letters[n].stage = "created"
           THEN /\ phone' = Cleared /\ tabs' = [tabs EXCEPT ![t] = ClosedTab]
                /\ tally' = [tally EXCEPT !.echoes = @ \cup
                        {w \in {letters[n].wish} : \E u \in Tabs \ {t} : tabs[u].wish = w}]
           ELSE tabs' = [tabs EXCEPT ![t].busy = FALSE] /\ UNCHANGED <<phone, tally>>
        /\ UNCHANGED <<menu, feast, awaited>>

\* An answer is lost, or the request was: the page waits for ever.
Loses(n) ==
    /\ tally.losses < MaxLosses
    /\ tally' = [tally EXCEPT !.losses = @ + 1]
    /\ letters[n].fate = "awaited"
    /\ letters' = [letters EXCEPT ![n].fate = "lost",
                                  ![n].stage = IF @ = "sent" THEN "lost" ELSE @]
    /\ UNCHANGED <<menu, feast, phone, tabs, awaited>>

\* A register completes the order, or it is cancelled.
Leaves(o) ==
    /\ awaited[o].status = "PENDING"
    /\ awaited' = [awaited EXCEPT ![o].status = "PAID"]
    /\ UNCHANGED <<menu, feast, phone, tabs, letters, tally>>

Changing ==
    /\ tally.changes < MaxChanges
    /\ tally' = [tally EXCEPT !.changes = @ + 1]
    /\ UNCHANGED <<phone, tabs, letters, awaited>>

\* updateProduct and deleteProduct
EditsPlate(g, entry) ==
    Changing /\ menu' = [menu EXCEPT !.plate[g] = entry] /\ menu' # menu /\ UNCHANGED feast

\* deleteIngredient: the ingredient, then the recipes
DropsFood(f) ==
    Changing /\ f \in menu.food /\ menu' = [menu EXCEPT !.food = @ \ {f}] /\ UNCHANGED feast
PullsFood(f) ==
    /\ f \notin menu.food
    /\ menu' = [menu EXCEPT !.plate = [g \in Plates |-> [menu.plate[g] EXCEPT !.recipe[f] = 0]]]
    /\ menu' # menu
    /\ UNCHANGED <<feast, phone, tabs, letters, awaited, tally>>

\* setActiveEvent; archiveEvent, after which a page is sent another event
Activates(f) ==
    /\ Changing /\ f \notin feast.archived \cup {feast.active}
    /\ feast' = [feast EXCEPT !.active = f] /\ UNCHANGED menu
Archives(f) ==
    /\ Changing /\ \E g \in Feasts \ (feast.archived \cup {f}) :
          feast' = [active |-> IF f = feast.active THEN g ELSE feast.active,
                    archived |-> feast.archived \cup {f}]
    /\ f \notin feast.archived /\ UNCHANGED menu

MenuInit(stock, book) ==
    /\ menu = stock /\ feast \in {[active |-> f, archived |-> {}] : f \in Feasts}
    /\ phone = EmptyPhone /\ tabs = [t \in Tabs |-> ClosedTab]
    /\ letters = <<>> /\ awaited = book
    /\ tally = [touches |-> 0, visits |-> 0, changes |-> 0, losses |-> 0, wishes |-> 0,
                echoes |-> {}]

MenuNext(Entries(_)) ==
    \/ \E t \in Tabs :
        \/ Opens(t) \/ Renders(t) \/ Sends(t)
        \/ \E g \in DOMAIN tabs[t].shown : \E picks \in {{}} \cup Choosable(tabs[t].shown[g]) :
              Add(t, g, picks)
        \/ \E i \in DOMAIN tabs[t].cart : More(t, i) \/ \E all \in BOOLEAN : Less(t, i, all)
    \/ \E n \in DOMAIN letters : Checks(n) \/ Creates(n) \/ Answers(n) \/ Loses(n)
    \/ \E o \in DOMAIN awaited : Leaves(o)
    \/ \E g \in Plates : \E entry \in Entries(g) : EditsPlate(g, entry)
    \/ \E f \in Foods : DropsFood(f) \/ PullsFood(f)
    \/ \E f \in Feasts : Activates(f) \/ Archives(f)

(* ----------------------------- properties ------------------------------ *)

SentOrders == {o \in DOMAIN awaited : awaited[o].letter # 0}
LetterOf(o) == letters[awaited[o].letter]

\* A line has parts the customer chose, and enough of each group.
PartsAreChosen(line, picks, entry) ==
    /\ \A p \in line.parts : p.of = "menu" \/ <<p.of, p.plate>> \in picks
    /\ entry.kind = "FIXED_MENU" =>
          /\ \A g \in Groups(entry) : Cardinality({p \in line.parts : p.of = g.id}) \in g.min..g.max
          /\ Cardinality({p \in line.parts : p.of = "menu"}) = Cardinality(entry.parts)

(* What a customer sends is what his page shows: the server charges, to    *)
(* the cent, the total of his cart, though its prices may be older than    *)
(* the page; the menus hold what he chose, and what the catalogue asks for *)
(* when it is read, though he chose from another; the products and the     *)
(* order are of the event of his page. Whatever answers are lost and tabs  *)
(* are open, a page is never the sender of two orders, and an order that   *)
(* was confirmed is not sent again, unless another tab still showed its    *)
(* cart then.                                                              *)
(* (createPublicOrder, handleSubmitOrder, cart-storage)                    *)
SentAsShown ==
    \A o \in SentOrders : \A l \in {LetterOf(o)} :
        /\ awaited[o].total - l.declared \in -1..1
        /\ \A i \in DOMAIN awaited[o].lines : \A line \in {awaited[o].lines[i]} :
              /\ menu.plate[line.plate].feast = l.feast
              /\ PartsAreChosen(line, l.cart[i].id[2], l.card[line.plate])
        /\ l.again => l.wish \in tally.echoes
        /\ \A q \in SentOrders : o # q => LetterOf(q).visit # l.visit

(* What an order needs, from its lines: the units of a dish, and whether   *)
(* it had a recipe, and all its ingredients, when the plan was made.       *)
DishUnits(o, g) ==
    LET Of(line) == IF line.parts = {} THEN IF line.plate = g THEN 1 ELSE 0
                    ELSE LET parts == SetToSeq({p \in line.parts : p.plate = g})
                         IN  Together([n \in DOMAIN parts |-> parts[n].units])
    IN  Together([i \in DOMAIN o.lines |-> Of(o.lines[i]) * o.lines[i].units])

Needs(o, row) ==
    LET Cooked(g) == o.letter # 0 /\ o.kitchen.plate[g].sold /\ Recipe(o.kitchen, g) # {}
                     /\ Recipe(o.kitchen, g) \subseteq o.kitchen.food
        plates == SetToSeq(Plates)
    IN  IF row[1] = "dish" THEN IF Cooked(row[2]) THEN 0 ELSE DishUnits(o, row[2])
        ELSE Together([n \in DOMAIN plates |-> IF ~Cooked(plates[n]) THEN 0
                  ELSE DishUnits(o, plates[n]) * o.kitchen.plate[plates[n]].recipe[row[2]]])

(* The registers' list of ingredients covers the orders that wait for one, *)
(* whatever was edited since: every dish, alone or in a menu, counts with  *)
(* the ingredients of its recipe or, when it had none or not all existed,  *)
(* as itself; nothing counts twice, and each row counts its orders.        *)
(* (aggregatePendingIngredientQueue, buildIngredientPlanForCart)           *)
QueueCoversOrders ==
    \A f \in Feasts : \A queue \in {IngredientQueue(f)} :
        \A row \in ({"dish"} \X Plates) \cup ({"food"} \X Foods) :
            LET needing == {o \in DOMAIN awaited : Waits(awaited[o], f) /\ Needs(awaited[o], row) > 0}
                all == [o \in DOMAIN awaited |-> IF o \in needing THEN Needs(awaited[o], row) ELSE 0]
            IN  /\ row \in DOMAIN queue <=> needing # {}
                /\ row \in DOMAIN queue => queue[row] =
                        [units |-> Together(all), orders |-> Cardinality(needing)]
=============================================================================
