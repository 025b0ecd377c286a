---------------------------- MODULE MCBackOffice ----------------------------
(* Components that share no state, in one instance: a behaviour is one of  *)
(* one component, which part names.                                        *)
(*   "numbers"     DishTickets without marks and screens                   *)
(*   "backup"      RuntimeBackup: a policy is saved before the first backup *)
(*                 or while the settings are away                           *)
(*   "documents"   EventDocuments, without export and clone                *)
(*   "copies"      EventDocuments, with one edit                           *)
(*   "settings"    EventSettings                                           *)
(*   "sales"       Sales, with one edit, closing or evening after the first *)
(*   "register"    Register: a behaviour with a hitch has a tap less        *)
(*   "printing"    OrderRouting: the catalogue is edited while one order is *)
(*                 laid out; the printers jam in one kitchen that stays, and *)
(*                 what a second request does there is seen for an order of *)
(*                 one dish; of two jams one strikes a send of the queue or *)
(*                 a retry                                                  *)
(*   "menu"        PublicMenu: an order sent before there were plans waits, *)
(*                 and the catalogue changes once after a page is opened;   *)
(*                 or two tabs are used of chips only, and an answer is lost *)
(*   "failures"    FailedPrints: three of the asks and faults the bounds    *)
(*                 leave                                                    *)
EXTENDS DishTickets, RuntimeBackup, EventDocuments, EventSettings, Register, OrderRouting, PublicMenu,
        FailedPrints

CONSTANTS
    Parts,        \* the components of this instance
    grill, desk,  \* printers: of the kitchen, of the register
    roast,        \* a product
    pasta, water, \* the products of the sales
    bar,          \* a register
    spicy,        \* a remark for the kitchen
    pizza, fries, \* dishes, of the categories hot and cold
    hot, cold,
    oven, counter, \* the printers of the kitchen and of the register
    burger, chips, combo, crepe, \* what customers order: a menu of two, and
                  \* a dish of another event
    beef, potato, \* ingredients
    summer, winter, side, \* events; a group of choices
    stove, booth  \* the printers of the kitchen and of the register

VARIABLE part

eventVars == <<documentVars, settingsVars, salesVars, pageVars, routingVars, menuVars, printsVars>>
vars == <<dishVars, backupVars, eventVars, part>>

(* An event with one document of each kind, but two printers; a second     *)
(* product is still to be created.                                         *)
Furnished ==
    LET To(field, ids) == {Ref(field, id) : id \in ids}
        Doc(role, refs) == [role |-> role, refs |-> refs]
        Of(id) == CASE id = grill -> Doc("KITCHEN", {})
                    [] id = desk -> Doc("CASHIER", {})
                    [] id \in PeripheralIds -> Doc("CASH_BOX", {})
                    [] id \in CategoryIds -> Doc("NONE", {Ref("kitchen", grill)})
                    [] id \in IngredientIds -> Doc("NONE", {})
                    [] id = roast -> Doc("STANDARD", To("category", CategoryIds)
                                        \cup To("recipe", IngredientIds))
                    [] id \in PosDeviceIds -> Doc("NONE", To("till", {desk})
                                               \cup To("box", PeripheralIds))
                    [] OTHER -> NoDocument
    IN  [id \in Documents |-> Of(id)]

ASSUME FurnishedAssumption == Intact(Furnished)

(* A dish and a product that is free; a cart with the dish twice, and one  *)
(* with the variant of the free product; an order stored before the        *)
(* components of its discounts were.                                       *)
Menu ==
    [g \in Goods |-> IF g = pasta
        THEN [price |-> 100, volunteer |-> 40, shelf |-> "food", listed |-> TRUE]
        ELSE [price |-> 0, volunteer |-> NoVolunteerPrice, shelf |-> "drinks", listed |-> TRUE]]

Ordered(g, units, variant) == [good |-> g, units |-> units, variant |-> variant]

Carts ==
    IF ledger # <<>> THEN {<<Ordered(water, 1, TRUE)>>}
    ELSE {<<Ordered(pasta, 2, FALSE), Ordered(water, 1, FALSE), Ordered(pasta, 1, TRUE)>>}

Deals ==
    {PlainDeal, [PlainDeal EXCEPT !.mode = "VOLUNTEER"]}
    \cup IF ledger # <<>> THEN {}
         ELSE {[PlainDeal EXCEPT !.order = <<[type |-> "PERCENT", value |-> 15],
                                             [type |-> "FIXED", value |-> 33]>>],
               [PlainDeal EXCEPT !.line = {[good |-> pasta,
                                            discount |-> [type |-> "FIXED", value |-> 33]]}]}

Entries(g) ==
    {[priceList[g] EXCEPT !.listed = FALSE], [priceList[g] EXCEPT !.price = 101],
     [priceList[g] EXCEPT !.shelf = "other", !.volunteer = 30]}

Former ==
    [status |-> "PAID", components |-> <<>>, discount |-> 17, total |-> 113,
     lines |-> <<[good |-> pasta, units |-> 1, variant |-> FALSE, total |-> 90, discount |-> 10],
                 [good |-> water, units |-> 3, variant |-> FALSE, total |-> 30, discount |-> 0]>>,
     mode |-> "STANDARD", method |-> "CASH", till |-> bar, declared |-> 113,
     day |-> 1, late |-> FALSE]

(* What waits at the register: nothing; an order of a patron's phone, of   *)
(* the dish twice and with a remark; one of a volunteer.                   *)
Sought ==
    LET Wish(units, remark) == [good |-> pasta, units |-> units, variant |-> FALSE, remark |-> remark]
        Sent(cart, deal, priced) ==
            [status |-> "PENDING", cart |-> cart, lines |-> priced.lines,
             components |-> priced.components, discount |-> priced.discount, total |-> priced.total,
             mode |-> deal.mode, payments |-> 0, patron |-> 1, asker |-> 1, declared |-> priced.total,
             asked |-> UnitsAsked(cart)]
        Of(cart, deal) == <<Sent(cart, deal, PriceOf(Menu, cart, deal))>>
    IN  {<<>>, Of(<<Wish(2, NoRemark), Wish(1, spicy)>>, PlainDeal),
         Of(<<Wish(2, NoRemark)>>, [PlainDeal EXCEPT !.mode = "VOLUNTEER"])}

Presets == {[type |-> "PERCENT", value |-> 15], [type |-> "FIXED", value |-> 90]}

(* A dish that is numbered and one that is not, both of one printer; a     *)
(* menu of the two; or the other dish numbered, too, or no printer at the  *)
(* register, or none for the numbered dish.                                *)
Line(d, n, each, parts) == [dish |-> d, units |-> n, each |-> each, parts |-> parts]
OneDish == <<Line(pizza, 1, FALSE, <<>>)>>

Trays(n) ==
    IF n > 1 THEN {<<Line(fries, 1, FALSE, <<>>)>>}
    ELSE {OneDish,
          <<Line(pizza, 2, FALSE, <<>>), Line(fries, 1, FALSE, <<>>), Line(pizza, 2, TRUE, <<>>)>>,
          <<Line(fries, 2, FALSE, <<[dish |-> pizza, units |-> 1], [dish |-> fries, units |-> 2]>>),
            Line(pizza, 1, FALSE, <<>>)>>}

Kitchen ==
    LET Of(numbered) == [press |-> oven, skip |-> FALSE, atDesk |-> numbered,
                         numbered |-> numbered, barcode |-> numbered]
    IN  [food |-> [d \in Dishes |-> [section |-> IF d = pizza THEN hot ELSE cold,
                                     each |-> FALSE, sold |-> TRUE]],
         section |-> [s \in Sections |-> Of(s = hot)], desk |-> counter]

Kitchens == {Kitchen, [Kitchen EXCEPT !.section[cold].numbered = TRUE],
             [Kitchen EXCEPT !.desk = NoPress], [Kitchen EXCEPT !.section[hot].press = NoPress]}

Rearranged(l) ==
    {[l EXCEPT !.food[pizza].sold = FALSE], [l EXCEPT !.food[fries].each = TRUE],
     [l EXCEPT !.food[pizza].section = cold], [l EXCEPT !.section[cold].numbered = TRUE],
     [l EXCEPT !.section[cold].skip = TRUE], [l EXCEPT !.section[hot].press = NoPress],
     [l EXCEPT !.desk = NoPress]}

(* A burger with a side, chips twice or a second burger; burgers are not    *)
(* sold alone. An order sent before there were plans may wait.             *)
Plate(price, kind, parts, groups, recipe) ==
    [feast |-> summer, price |-> price, sold |-> TRUE, offered |-> TRUE, kind |-> kind,
     parts |-> parts, groups |-> groups,
     recipe |-> [f \in Foods |-> IF f \in DOMAIN recipe THEN recipe[f] ELSE 0]]

Dish(plate, units) == [plate |-> plate, units |-> units]
Sides(options) == {[id |-> side, min |-> 1, max |-> 2, options |-> options]}
NoRecipe == [f \in {} |-> 0]

Card ==
    [g \in Plates |->
        CASE g = burger -> [Plate(0, "STANDARD", {}, {}, [f \in {beef} |-> 1]) EXCEPT !.offered = FALSE]
          [] g = chips -> Plate(50, "STANDARD", {}, {}, [f \in {potato} |-> 2])
          [] g = combo -> Plate(100, "FIXED_MENU", {Dish(burger, 1)},
                                Sides({Dish(chips, 2), Dish(burger, 1)}), NoRecipe)
          [] OTHER -> [Plate(70, "STANDARD", {}, {}, NoRecipe) EXCEPT !.feast = winter]]

Edited(g) ==
    {[menu.plate[g] EXCEPT !.sold = FALSE]} \cup
    CASE g = combo -> {[menu.plate[g] EXCEPT !.price = p] : p \in {101, 102}}
                      \cup {[menu.plate[g] EXCEPT !.groups = s] : s \in {{}, Sides({Dish(burger, 1)})}}
                      \cup {[menu.plate[g] EXCEPT !.kind = "STANDARD"]}
      [] g = burger -> {[menu.plate[g] EXCEPT !.recipe[beef] = 3]}
      [] g = chips -> {[menu.plate[g] EXCEPT !.offered = FALSE]}
      [] OTHER -> {}

Unplanned ==
    [status |-> "PENDING", feast |-> summer, total |-> 50, plan |-> [k \in {} |-> 0],
     letter |-> 0, kitchen |-> [plate |-> Card, food |-> Foods],
     lines |-> <<[plate |-> chips, units |-> 1, price |-> 50, parts |-> {}]>>]

\* A summary, two sheets for the kitchen and a photo.
Batch ==
    [s \in Slips |-> IF s \in {2, 3} THEN NewSlip(stove, "kitchen")
                     ELSE NewSlip(booth, IF s = 4 THEN "photo" ELSE "customer")]

ASSUME BatchAssumption == Batch \in Batches

(* Bundles of the shop's own backup, taken while it was RUNNING, and one    *)
(* downloaded after a backup and a restore.                                *)
BundledSettings ==
    {[Default EXCEPT !.periodic = TRUE, !.target = TRUE, !.status = "RUNNING", !.due = FALSE],
     [Default EXCEPT !.target = TRUE, !.status = "SUCCESS", !.bundle = 1, !.restore = "SUCCESS"]}

(* What a component is given to work with; the others are given nothing.  *)
Init ==
    /\ part \in Parts
    /\ DishInit /\ BackupInit /\ SettingsInit
    /\ DocumentsInit(IF part \in {"documents", "copies"} THEN Furnished ELSE [id \in Documents |-> NoDocument])
    /\ \E past \in IF part = "sales" THEN {<<>>, <<Former>>} ELSE {<<>>},
          book \in IF part = "register" THEN Sought ELSE {<<>>} :
             SalesInit(Menu, past) /\ RegisterInit(book)
    /\ \E l \in IF part = "printing" THEN Kitchens ELSE {<<>>} : RoutingInit(l)
    /\ \E stock \in IF part = "menu" THEN {[plate |-> Card, food |-> Foods]}
                     ELSE {[plate |-> <<>>, food |-> {}]},
          book \in IF part = "menu" THEN {<<>>, <<Unplanned>>} ELSE {<<>>} : MenuInit(stock, book)
    /\ \E dark \in IF part = "failures" THEN SUBSET Trestles ELSE {{}} : PrintsInit(Batch, dark)
    /\ feast.active = summer
    /\ part # "backup" => made = Names

\* A request is served in the first place that is free, and one order is
\* created first, the other with one ticket.
Numbering ==
    /\ part = "numbers" /\ NumberingNext
    /\ \A r \in DishRequests, q \in DishRequests :
        call[r] = NoCall /\ call'[r] # NoCall /\ q < r => call[q] # NoCall
    /\ LET first == CHOOSE o \in DishOrders : TRUE IN
        (\E r \in DishRequests : call'[r] # call[r] /\ call'[r].order \notin {first, NoDish}) =>
            /\ dish[first].status # "none" \/ \E r \in DishRequests : call[r].order = first
            /\ \A r \in DishRequests : call'[r].op = "create" /\ call'[r].order # first =>
                    Len(call'[r].tickets) = 1
    /\ UNCHANGED <<backupVars, eventVars, part>>

\* A policy is saved before the first backup, or makes new settings.
Backups ==
    /\ part = "backup" /\ BackupNext
    /\ settings'.due /\ ~settings.due => settings'.periodic
    /\ <<settings.periodic, settings.target>> # <<settings'.periodic, settings'.target>> =>
          begun = 0 \/ live'[1] # live[1]
    /\ UNCHANGED <<dishVars, eventVars, part>>

Editing ==
    /\ part \in {"documents", "copies"} /\ EditNext
    /\ part = "copies" => edits' <= 1
    /\ UNCHANGED <<dishVars, backupVars, settingsVars, salesVars, pageVars, routingVars, menuVars, printsVars, part>>

Copies ==
    /\ part = "copies"
    /\ ExportNext \/ CopyNext
    /\ UNCHANGED <<dishVars, backupVars, settingsVars, salesVars, pageVars, routingVars, menuVars, printsVars, part>>

Settings ==
    /\ part = "settings" /\ SettingsNext
    /\ UNCHANGED <<dishVars, backupVars, documentVars, salesVars, pageVars, routingVars, menuVars, printsVars, part>>

Trade ==
    /\ part = "sales" /\ SalesNext(Carts, Deals, Entries)
    /\ reprices' + evening' + Cardinality(Tills \ Open)' <= 2
    /\ UNCHANGED <<dishVars, backupVars, documentVars, settingsVars, pageVars, routingVars, menuVars, printsVars, part>>

Service ==
    /\ part = "register" /\ RegisterNext(Presets, Entries)
    /\ spent'.hitches > 0 => spent'.taps < MaxTaps
    /\ UNCHANGED <<dishVars, backupVars, documentVars, settingsVars, routingVars, menuVars, printsVars, part>>

Printing ==
    /\ part = "printing" /\ RoutingNext(Trays, Rearranged)
    /\ moves' > moves => Len(meals) = 1 /\ \A r \in DOMAIN routes :
                             routes[r].pc \in {"order", "food", "sections"}
    /\ Len(meals') > 1 \/ Len(routes') > 1 =>
          /\ meals'[1].cart = OneDish /\ moves' = 0
          /\ \A o \in DOMAIN meals : meals'[o].cart = meals[o].cart
    /\ Len(meals') > 1 =>
          /\ \A o \in DOMAIN meals' : meals'[o].photo = "none"
          /\ IF routes = <<>> THEN ~meals'[2].paid ELSE Len(meals) > 1
    /\ waiting' # waiting => meals[1].cart = OneDish \/ At(1, "sections")
    /\ jams' > 0 => layout = Kitchen
    /\ jams' > 0 /\ Len(routes') > 1 =>
          /\ meals[1].photo = "stored" => jams = jams' /\ At(1, "done")
    /\ LET reading == {r \in DOMAIN routes : routes[r].pc \in {"order", "food"}} IN
          Len(routes) > 1 /\ reading # {} => \E r \in reading : routes'[r].pc # routes[r].pc
    /\ jams' > 1 =>
          /\ Len(meals') = 1 /\ moves' = 0 /\ meals'[1].photo # "stored"
          /\ jams' > jams =>
               \/ Len(routes) = 1 /\ \E p \in Presses : IsDraining(p) /\ ~IsDraining(p)'
               \/ \E r \in DOMAIN routes : Len(routes'[r].again) < Len(routes[r].again)
    /\ UNCHANGED <<dishVars, backupVars, documentVars, settingsVars, salesVars, pageVars, menuVars, printsVars, part>>

Ordering ==
    /\ part = "menu" /\ MenuNext(Edited)
    /\ tally.visits = 0 => tally'.changes = 0 /\ tabs'[CHOOSE t \in Tabs : TRUE] = ClosedTab
    /\ tally'.visits > tally.visits => tally.visits = 0 \/ tally.touches > 0
    /\ tally'.touches <= 2
    /\ IF awaited # <<>> /\ awaited[1].letter = 0
       THEN /\ Len(letters') <= 1 /\ tally'.losses = 0 /\ tally'.visits <= 2
            /\ tabs'[CHOOSE t \in Tabs : TRUE] = ClosedTab
            /\ awaited'[1] # awaited[1] => Len(awaited) > 1
            /\ tally'.touches > tally.touches => \A t \in Tabs : Len(tabs[t].cart) <= Len(tabs'[t].cart)
       ELSE /\ tally'.changes = 0 /\ awaited = SubSeq(awaited', 1, Len(awaited))
            /\ \A t \in Tabs : \A i \in DOMAIN tabs'[t].cart : tabs'[t].cart[i].id = <<chips, {}>>
    /\ UNCHANGED <<dishVars, backupVars, documentVars, settingsVars, salesVars, pageVars, routingVars, printsVars, part>>

Failing ==
    /\ part = "failures" /\ PrintsNext
    /\ spree'.asks + spree'.looks + spree'.switches + spree'.faults
          >= MaxAsks + MaxLooks + MaxSwitches + MaxFaults - 3
    /\ UNCHANGED <<dishVars, backupVars, documentVars, settingsVars, salesVars, pageVars, routingVars, menuVars, part>>

Next == Failing \/ Ordering \/ Printing \/ Service \/ Trade \/ Numbering \/ Backups \/ Editing \/ Copies \/ Settings

Spec == Init /\ [][Next]_vars
=============================================================================
