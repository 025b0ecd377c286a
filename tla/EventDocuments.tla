--------------------------- MODULE EventDocuments ---------------------------
(***************************************************************************)
(* The documents of an event: printers, peripherals, registers, categories,*)
(* ingredients and products, each with an id and the ids it refers to.     *)
(* Nothing but the handlers keeps these references: a handler checks what  *)
(* the form refers to and writes later; a deletion takes the document and  *)
(* then, write by write, what refers to it. An event is exported into a    *)
(* bundle, imported from one, or cloned, document by document, each new id *)
(* taken from a map of the old ones.                                       *)
(* Names, prices and stock are left out.                                   *)
(***************************************************************************)
EXTENDS Integers, FiniteSets, Sequences

CONSTANTS
    PrinterIds, PeripheralIds, CategoryIds, IngredientIds, ProductIds, PosDeviceIds,
    Home,        \* the event
    Copy,        \* the event a clone or an import makes
    Assets,      \* images of a bundle
    Editors,     \* requests of administrators
    MaxEdits,    \* bound on what they save and delete
    MaxMishaps,  \* bound on the writes that fail and the processes that die
    NoDocument

VARIABLES
    events,      \* those whose own document exists
    record,      \* the documents of an event
    born,        \* ids given so far
    edit,        \* requests under way
    edits,
    stale,       \* history: references written by a request that had
                 \* found the document they are to, after it was deleted
    export,      \* the export, and the bundle it made
    copying,     \* the clone or the import
    files,       \* images the import has written to the disk
    mishaps

documentVars == <<events, record, born, edit, edits, stale, export, copying, files, mishaps>>

Documents == PrinterIds \cup PeripheralIds \cup CategoryIds \cup IngredientIds \cup ProductIds
             \cup PosDeviceIds

Collection ==
    [printers |-> PrinterIds, peripherals |-> PeripheralIds, posDevices |-> PosDeviceIds,
     categories |-> CategoryIds, ingredients |-> IngredientIds, products |-> ProductIds,
     menus |-> ProductIds]

Collections == DOMAIN Collection \ {"menus"}

ASSUME IdsAssumption ==
    /\ Home # Copy
    /\ \A c, d \in Collections : c # d => Collection[c] \cap Collection[d] = {}

Ref(field, id) == [field |-> field, event |-> Home, id |-> id]

Found(ref) == record[ref.event][ref.id] # NoDocument

\* What the query of the check asks of the document a field refers to.
Role == [kitchen |-> "KITCHEN", till |-> "CASHIER", terminal |-> "SUMUP", box |-> "CASH_BOX",
         category |-> "NONE", recipe |-> "NONE", part |-> "STANDARD"]

ASSUME NoDocumentAssumption ==
    NoDocument \notin [role : {"KITCHEN", "CASHIER", "SUMUP", "CASH_BOX", "NONE", "STANDARD", "FIXED_MENU"},
                       refs : SUBSET [field : DOMAIN Role, event : {Home, Copy}, id : Documents]]

Valid(ref) == Found(ref) /\ record[ref.event][ref.id].role = Role[ref.field]

AtMostOne(field, ids) == {{}} \cup {{Ref(field, id)} : id \in ids}
One(field, ids) == {{Ref(field, id)} : id \in ids}

(* What a form may hold.                                                   *)
PrinterForms == [role : {"KITCHEN", "CASHIER"}, refs : {{}}]

PeripheralForms == [role : {"SUMUP", "CASH_BOX"}, refs : {{}}]

CategoryForms == [role : {"NONE"}, refs : AtMostOne("kitchen", PrinterIds)]

IngredientForms == [role : {"NONE"}, refs : {{}}]

ProductForms(id) ==
    [role : {"STANDARD"},
     refs : {k \cup i : k \in One("category", CategoryIds), i \in AtMostOne("recipe", IngredientIds)}]
    \cup
    [role : {"FIXED_MENU"},
     refs : {k \cup {Ref("part", p) : p \in parts} :
             k \in One("category", CategoryIds), parts \in SUBSET (ProductIds \ {id}) \ {{}}}]

PosDeviceForms ==
    [role : {"NONE"},
     refs : {p \cup t \cup b : p \in One("till", PrinterIds), t \in AtMostOne("terminal", PeripheralIds),
                               b \in AtMostOne("box", PeripheralIds)}]

Forms(id) ==
    CASE id \in PrinterIds -> PrinterForms
      [] id \in PeripheralIds -> PeripheralForms
      [] id \in CategoryIds -> CategoryForms
      [] id \in IngredientIds -> IngredientForms
      [] id \in ProductIds -> ProductForms(id)
      [] id \in PosDeviceIds -> PosDeviceForms

NoEdit == [op |-> "none"]
NoBundle == [id \in Documents |-> NoDocument]
NoExport == [pc |-> "none", unread |-> {}, docs |-> NoBundle]
NoCopying == [by |-> "none", pc |-> "none", stage |-> 1, left |-> {}, from |-> NoBundle,
              made |-> {}, fault |-> FALSE, spoiled |-> FALSE]

(* An event as its administrators leave it: every document as a form makes *)
(* it, every reference to a document that is there.                        *)
Intact(docs) ==
    /\ docs = [id \in Documents |-> docs[id]]
    /\ \A id \in Documents : docs[id] # NoDocument =>
          docs[id] \in Forms(id) /\ \A ref \in docs[id].refs : docs[ref.id] # NoDocument

DocumentsInit(opening) ==
    /\ events = {Home}
    /\ record = [e \in {Home, Copy} |-> IF e = Home THEN opening ELSE NoBundle]
    /\ born = {id \in Documents : opening[id] # NoDocument}
    /\ edit = [r \in Editors |-> NoEdit]
    /\ edits = 0 /\ stale = {} /\ files = {} /\ mishaps = 0
    /\ export = NoExport /\ copying = NoCopying

unedited == <<export, copying, files, mishaps>>

EditBegins(r, e) ==
    /\ edit[r] = NoEdit /\ edits < MaxEdits /\ Home \in events
    /\ edit' = [edit EXCEPT ![r] = e]
    /\ edits' = edits + 1
    /\ UNCHANGED <<events, unedited>>

EditEnds(r) == edit' = [edit EXCEPT ![r] = NoEdit]

(***************************************************************************)
(* Saving a document.                                                      *)
(***************************************************************************)

(* create...: the form refers to documents that exist in the event, with   *)
(* the role the field asks for; otherwise the answer is an error.          *)
CreateChecks(r, id, form) ==
    /\ id \in Documents \ born /\ \A ref \in form.refs : Valid(ref)
    /\ born' = born \cup {id}
    /\ EditBegins(r, [op |-> "create", id |-> id, form |-> form])
    /\ UNCHANGED <<record, stale>>

(* update...: the same checks; only a product is looked up before.         *)
UpdateChecks(r, id, form) ==
    /\ id \in born /\ \A ref \in form.refs : Valid(ref)
    /\ id \in ProductIds => record[Home][id] # NoDocument
    /\ EditBegins(r, [op |-> "update", id |-> id, form |-> form])
    /\ UNCHANGED <<record, born, stale>>

(* The write. An update of a document that is gone matches nothing.        *)
SaveWrites(r) ==
    LET id == edit[r].id
        form == edit[r].form
        matches == edit[r].op = "create" \/ record[Home][id] # NoDocument
    IN  /\ edit[r].op \in {"create", "update"}
        /\ EditEnds(r)
        /\ IF matches
           THEN /\ record' = [record EXCEPT ![Home][id] = form]
                /\ stale' = {s \in stale : s[1] # id}
                            \cup {<<id, ref>> : ref \in {x \in form.refs : ~Found(x)}}
           ELSE UNCHANGED <<record, stale>>
        /\ UNCHANGED <<events, born, edits, unedited>>

(***************************************************************************)
(* Deleting one.                                                           *)
(***************************************************************************)

\* Mutant: a terminal is taken from the registers, a cash box is not.
ReferringTerminal(id) ==
    CASE id \in PrinterIds -> <<"kitchen", "till">>
      [] id \in PeripheralIds -> <<"terminal">>
      [] id \in CategoryIds -> <<"category">>
      [] id \in IngredientIds -> <<"recipe">>
      [] OTHER -> <<>>

(* The fields that refer to a document, in the order in which its deletion *)
(* goes through them; the parts of menus are not among them.               *)
Referring(id) ==
    CASE id \in PrinterIds -> <<"kitchen", "till">>
      [] id \in PeripheralIds -> <<"terminal", "box">>
      [] id \in CategoryIds -> <<"category">>
      [] id \in IngredientIds -> <<"recipe">>
      [] OTHER -> <<>>

DeleteTakes(r, id) ==
    /\ record[Home][id] # NoDocument
    /\ record' = [record EXCEPT ![Home][id] = NoDocument]
    /\ IF Referring(id) = <<>>
       THEN edits < MaxEdits /\ edit[r] = NoEdit /\ edits' = edits + 1
            /\ UNCHANGED <<events, unedited, edit>>
       ELSE EditBegins(r, [op |-> "clean", id |-> id, todo |-> Referring(id)])
    /\ UNCHANGED <<born, stale>>

(* One write of the rest: a required field takes its document with it, an  *)
(* optional one is unset.                                                  *)
DeleteCleans(r) ==
    LET ref == Ref(Head(edit[r].todo), edit[r].id)
        Cleaned1(doc) ==
            IF doc = NoDocument \/ ref \notin doc.refs THEN doc
            ELSE IF ref.field \in {"till", "category"} THEN NoDocument
            ELSE [doc EXCEPT !.refs = @ \ {ref}]
        rest == Tail(edit[r].todo)
    IN  /\ edit[r].op = "clean"
        /\ record' = [record EXCEPT ![Home] = [id \in Documents |-> Cleaned1(@[id])]]
        /\ edit' = [edit EXCEPT ![r] = IF rest = <<>> THEN NoEdit ELSE [@ EXCEPT !.todo = rest]]
        /\ UNCHANGED <<events, born, edits, stale, unedited>>

(* deleteEventAction: one collection after the other, the event last.      *)
DeleteEvent(r) ==
    /\ EditBegins(r, [op |-> "ruin", todo |-> <<"posDevices", "peripherals", "printers",
                                                "products", "ingredients", "categories">>])
    /\ UNCHANGED <<record, born, stale>>

DeleteEventGoesOn(r) ==
    /\ edit[r].op = "ruin"
    /\ IF edit[r].todo = <<>>
       THEN events' = events \ {Home} /\ EditEnds(r) /\ UNCHANGED record
       ELSE /\ record' = [record EXCEPT ![Home] = [id \in Documents |->
                    IF id \in Collection[Head(edit[r].todo)] THEN NoDocument ELSE @[id]]]
            /\ edit' = [edit EXCEPT ![r].todo = Tail(@)]
            /\ UNCHANGED events
    /\ UNCHANGED <<born, edits, stale, unedited>>

(***************************************************************************)
(* Export.                                                                 *)
(***************************************************************************)

edited == <<events, record, born, edit, edits, stale>>

ExportBegins ==
    /\ export.pc = "none" /\ copying.pc = "none" /\ Home \in events
    /\ export' = [NoExport EXCEPT !.pc = "read", !.unread = Collections]
    /\ UNCHANGED <<edited, copying, files, mishaps>>

(* Six queries run side by side: each answers at its own moment.           *)
ExportReads(c) ==
    /\ export.pc = "read" /\ c \in export.unread
    /\ export' = [pc |-> IF export.unread = {c} THEN "done" ELSE "read",
                  unread |-> export.unread \ {c},
                  docs |-> [id \in Documents |-> IF id \in Collection[c] THEN record[Home][id]
                                                 ELSE export.docs[id]]]
    /\ UNCHANGED <<edited, copying, files, mishaps>>

(***************************************************************************)
(* Clone and import.                                                       *)
(***************************************************************************)

uncopied == <<born, edit, edits, stale, export>>

Stages ==
    IF copying.by = "clone"
    THEN <<"printers", "peripherals", "posDevices", "categories", "products">>
    ELSE <<"printers", "peripherals", "categories", "ingredients", "products", "menus",
           "posDevices">>

CloneBegins ==
    /\ copying.pc = "none" /\ Home \in events /\ export.pc = "none"
    /\ copying' = [NoCopying EXCEPT !.by = "clone", !.pc = "run"]
    /\ events' = events \cup {Copy}
    /\ UNCHANGED <<uncopied, record, files, mishaps>>

ImportBegins ==
    /\ copying.pc = "none" /\ export.pc = "done"
    /\ copying' = [NoCopying EXCEPT !.by = "import", !.pc = "assets", !.from = export.docs,
                                    !.left = Assets]
    /\ export' = NoExport
    /\ UNCHANGED <<edited, files, mishaps>>

(* restoreManagedAssetFromBundle, image by image, then the event. Until    *)
(* all are there, none is on the list of what to remove after a failure.   *)
ImportRestores ==
    /\ copying.pc = "assets"
    /\ IF copying.left = {}
       THEN copying' = [copying EXCEPT !.pc = "run"] /\ events' = events \cup {Copy}
            /\ UNCHANGED files
       ELSE \E a \in copying.left :
            /\ files' = files \cup {a}
            /\ copying' = [copying EXCEPT !.left = @ \ {a}]
            /\ UNCHANGED events
    /\ UNCHANGED <<uncopied, record, mishaps>>

\* Mutant: the second pass over the products is forgotten.
CarriedOnce(refs) ==
    IF copying.by = "clone" THEN {x \in refs : x.field \notin {"recipe", "part"}}
    ELSE {x \in refs : x.field # "part"}

\* Fields an import writes at a stage, and those a clone ever does.
Carried(refs) ==
    IF copying.by = "clone" THEN {x \in refs : x.field \notin {"recipe", "part"}}
    ELSE IF Stages[copying.stage] = "products" THEN {x \in refs : x.field # "part"}
    ELSE refs

Mapped(refs) == {[x EXCEPT !.event = Copy] : x \in refs}

(* The next collection, which a clone reads when it comes to it. A         *)
(* reference to what was not copied: an import throws, a clone does without*)
(* it, unless the schema requires it. The event is in nobody's hands yet:  *)
(* the documents of a collection are created in one step.                  *)
CopyCreates ==
    LET from == IF copying.by = "clone" THEN record[Home] ELSE copying.from
        ids == {id \in Collection[Stages[copying.stage]] : from[id] # NoDocument}
        Lost(id) == {x \in Carried(from[id].refs) : x.id \notin copying.made}
        throws == \E id \in ids : \E x \in Lost(id) :
                      copying.by = "import" \/ x.field \in {"till", "category"}
        RoleOf(id) == IF copying.by = "clone" /\ id \in ProductIds THEN "STANDARD"
                      ELSE from[id].role
    IN  /\ copying.pc = "run" /\ copying.stage <= Len(Stages)
        /\ IF throws
           THEN /\ copying' = [copying EXCEPT !.pc = IF copying.by = "clone" THEN "failed"
                                                     ELSE "undo"]
                /\ UNCHANGED record
           ELSE /\ record' = [record EXCEPT ![Copy] = [id \in Documents |->
                        IF id \notin ids THEN @[id]
                        ELSE [role |-> RoleOf(id),
                              refs |-> Mapped(Carried(from[id].refs) \ Lost(id))]]]
                /\ copying' = [copying EXCEPT !.stage = @ + 1, !.made = @ \cup ids]
        /\ UNCHANGED <<events, uncopied, files, mishaps>>

CopyEnds ==
    /\ copying.pc = "run" /\ copying.stage > Len(Stages)
    /\ copying' = [copying EXCEPT !.pc = "done"]
    /\ UNCHANGED <<events, uncopied, record, files, mishaps>>

(* A write fails, or the disk is full: the catch of an import undoes it.   *)
CopyFails ==
    /\ copying.pc \in {"assets", "run"} /\ mishaps < MaxMishaps
    /\ mishaps' = mishaps + 1
    /\ copying' = [copying EXCEPT !.fault = TRUE, !.spoiled = @ \/ copying.pc = "assets",
                       !.pc = IF copying.by = "import" /\ @ = "run" THEN "undo" ELSE "failed"]
    /\ UNCHANGED <<events, uncopied, record, files>>

(* deleteImportedEventCascade and the removal of the images: the failure   *)
(* of one write leaves the others, and is swallowed.                       *)
ImportUndone(kept) ==
    /\ copying.pc = "undo"
    /\ kept # {} => mishaps < MaxMishaps
    /\ mishaps' = IF kept = {} THEN mishaps ELSE mishaps + 1
    /\ record' = [record EXCEPT ![Copy] = [id \in Documents |->
            IF \E c \in kept \ {"event", "files"} : id \in Collection[c] THEN @[id]
            ELSE NoDocument]]
    /\ events' = IF "event" \in kept THEN events ELSE events \ {Copy}
    /\ files' = IF "files" \in kept THEN files ELSE {}
    /\ copying' = [copying EXCEPT !.pc = "failed", !.spoiled = kept # {}]
    /\ UNCHANGED uncopied

(* The process dies: nothing is undone.                                    *)
CopyDies ==
    /\ copying.pc \in {"assets", "run", "undo"} /\ mishaps < MaxMishaps
    /\ mishaps' = mishaps + 1
    /\ copying' = [copying EXCEPT !.pc = "failed", !.fault = TRUE, !.spoiled = TRUE]
    /\ UNCHANGED <<events, uncopied, record, files>>

(* An import reads its bundle and writes its event, an edit the other: the *)
(* two commute, and no edit is interleaved with an import.                 *)
EditNext ==
    /\ copying.by # "import"
    /\ \E r \in Editors :
        \/ \E id \in Documents :
            \/ \E form \in Forms(id) : CreateChecks(r, id, form) \/ UpdateChecks(r, id, form)
            \/ DeleteTakes(r, id)
        \/ SaveWrites(r) \/ DeleteCleans(r) \/ DeleteEvent(r) \/ DeleteEventGoesOn(r)

ExportNext == ExportBegins \/ \E c \in Collections : ExportReads(c)

CopyNext ==
    \/ CloneBegins \/ ImportBegins \/ ImportRestores
    \/ CopyCreates \/ CopyEnds
    \/ CopyFails \/ CopyDies
    \/ \E kept \in {{}, {"event"}, {"files"}, Collections} : ImportUndone(kept)

DocumentsNext == EditNext \/ ExportNext \/ CopyNext

(***************************************************************************)
(* Properties.                                                             *)
(***************************************************************************)

Ruined == Home \notin events \/ \E r \in Editors : edit[r].op = "ruin"

BeingCleaned(id) == \E r \in Editors : edit[r].op = "clean" /\ edit[r].id = id

(* A reference to a document that is gone is the part of a menu, or its    *)
(* deletion has not gone through the others yet, or a request that had     *)
(* checked it wrote it after the deletion; a clone and an import refer to  *)
(* their own documents only, whatever is edited and deleted meanwhile.     *)
(* (deletePrinterAction, deletePeripheralAction, deleteCategory,           *)
(* deleteIngredient, cloneEventAction, importEventTransferBundle)          *)
ReferencesResolve ==
    /\ ~Ruined => \A id \in Documents : record[Home][id] # NoDocument =>
        \A ref \in record[Home][id].refs :
            Found(ref) \/ ref.field = "part" \/ <<id, ref>> \in stale \/ BeingCleaned(ref.id)
    /\ copying.pc # "failed" => \A id \in Documents : record[Copy][id] # NoDocument =>
        \A ref \in record[Copy][id].refs : ref.event = Copy /\ Found(ref)

(* An import makes the event the bundle holds, every reference within it,  *)
(* or leaves nothing; it fails only when a write does, or when the bundle  *)
(* refers to what it does not hold. What stays after a failure is due to a *)
(* second one, or to a failure among the images.                           *)
(* (importEventTransferBundle, deleteImportedEventCascade)                 *)
ImportsAreWhole ==
    LET bundle == copying.from
        held == {id \in Documents : bundle[id] # NoDocument}
    IN  copying.by = "import" =>
        /\ copying.pc = "done" =>
            /\ Copy \in events /\ files = Assets
            /\ \A id \in Documents :
                record[Copy][id] = IF id \notin held THEN NoDocument
                    ELSE [bundle[id] EXCEPT !.refs = {[x EXCEPT !.event = Copy] : x \in @}]
        /\ copying.pc = "failed" =>
            /\ copying.fault \/ \E id \in held : \E x \in bundle[id].refs : x.id \notin held
            /\ ~copying.spoiled => Copy \notin events /\ files = {} /\ record[Copy] = NoBundle
=============================================================================
