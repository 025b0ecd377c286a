--------------------------- MODULE EventSettings ---------------------------
(***************************************************************************)
(* Which event is the active one, and the logo an event prints. The form   *)
(* of the settings is saved by several writes: the image goes to the disk, *)
(* the other events are deactivated, the event is written, the image it    *)
(* had before is deleted. An event may be archived, deleted or cloned in   *)
(* between; a clone takes the address of the logo, not a file of its own.  *)
(***************************************************************************)
EXTENDS Naturals, FiniteSets

CONSTANTS
    Festas,       \* events
    FirstFesta,   \* the one there is at first, active, with logo 1
    MaxLogos,     \* bound on the images
    MaxSaves      \* bound on the requests that save settings

ASSUME SettingsAssumption == FirstFesta \in Festas /\ MaxLogos \in Nat \ {0} /\ MaxSaves \in Nat

VARIABLES
    festas,       \* events, also those deleted since
    deletedFestas, activeFestas, archivedFestas,
    logo,         \* address of an event's logo, 0 for none
    disk,         \* files of the upload directory
    logos,        \* images so far
    save,         \* requests that save the settings of an event
    saves,
    overlap,      \* history: one activation began within another
    shared,       \* history: logos that went into a clone
    late          \* history: events archived during a save

settingsVars == <<festas, deletedFestas, activeFestas, archivedFestas, logo, disk, logos, save,
                  saves, overlap, shared, late>>

Existing == festas \ deletedFestas
OpenFestas == Existing \ archivedFestas

Savers == 1..MaxSaves

NoSave == [pc |-> "none", e |-> FirstFesta, active |-> "leave", old |-> 0, new |-> 0,
           keep |-> TRUE]

SettingsInit ==
    /\ festas = {FirstFesta} /\ activeFestas = {FirstFesta}
    /\ archivedFestas = {} /\ deletedFestas = {}
    /\ logo = [e \in Festas |-> IF e = FirstFesta THEN 1 ELSE 0]
    /\ disk = {1} /\ logos = 1
    /\ save = [r \in Savers |-> NoSave] /\ saves = 0
    /\ overlap = FALSE /\ shared = {} /\ late = {}

unsaved == <<festas, deletedFestas, archivedFestas, shared, late>>

\* The address of an image of the form, and the directory without one.
Stored(change) == IF change = "upload" THEN logos + 1 ELSE 0
Unlinked(address) == disk \ {address}

(* A save reads the event, which is not archived, and stores the image of  *)
(* the form, if there is one. updateEventSettingsAction sets active;       *)
(* savePortalEasterEggSettingsAction leaves it, and has an image of its    *)
(* own: logo is the address of either.                                     *)
SettingsReads(r, e, active, change) ==
    /\ r = saves + 1
    /\ e \in OpenFestas
    /\ change = "upload" => logos < MaxLogos
    /\ active = "leave" => change # "keep"
    /\ saves' = saves + 1
    /\ logos' = IF change = "upload" THEN logos + 1 ELSE logos
    /\ disk' = disk \cup ({Stored(change)} \ {0})
    /\ save' = [save EXCEPT ![r] =
            [pc |-> "read", e |-> e, active |-> active, old |-> logo[e],
             new |-> Stored(change), keep |-> change = "keep"]]
    /\ UNCHANGED <<unsaved, activeFestas, logo, overlap>>

(* The others first: for a moment there is no active event.                *)
SettingsDeactivates(r) ==
    /\ save[r].pc = "read"
    /\ activeFestas' = IF save[r].active = "on" THEN activeFestas \cap {save[r].e} ELSE activeFestas
    /\ overlap' = \/ overlap
                   \/ /\ save[r].active = "on"
                      /\ \E q \in Savers : save[q].pc = "write" /\ save[q].active = "on"
    /\ save' = [save EXCEPT ![r].pc = "write"]
    /\ UNCHANGED <<unsaved, logo, disk, logos, saves>>

\* Mutant: the write goes by the id alone.
MatchedById(e) == e \in Existing

\* What the write asks of the event: it may be gone or archived by now.
Matched(e) == e \in OpenFestas

SettingsWrites(r) ==
    LET s == save[r]
    IN  /\ s.pc = "write"
        /\ IF Matched(s.e)
           THEN /\ activeFestas' = CASE s.active = "on" -> activeFestas \cup {s.e}
                                   [] s.active = "off" -> activeFestas \ {s.e}
                                   [] OTHER -> activeFestas
                /\ logo' = IF s.keep THEN logo ELSE [logo EXCEPT ![s.e] = s.new]
           ELSE UNCHANGED <<activeFestas, logo>>
        /\ save' = [save EXCEPT ![r].pc = "drop"]
        /\ UNCHANGED <<unsaved, disk, logos, saves, overlap>>

(* The write throws: the image just stored is deleted.                     *)
SettingsThrows(r) ==
    /\ save[r].pc = "write"
    /\ disk' = Unlinked(save[r].new)
    /\ save' = [save EXCEPT ![r] = NoSave]
    /\ UNCHANGED <<unsaved, activeFestas, logo, logos, saves, overlap>>

(* The image the event had is deleted, whether the write matched or not.   *)
SettingsDrops(r) ==
    LET s == save[r]
    IN  /\ s.pc = "drop"
        /\ disk' = IF s.keep \/ s.old = s.new THEN disk ELSE Unlinked(s.old)
        /\ save' = [save EXCEPT ![r] = NoSave]
        /\ UNCHANGED <<unsaved, activeFestas, logo, logos, saves, overlap>>

unmanaged == <<disk, logos, save, saves, overlap>>

CreateFesta(e) ==
    /\ e \in Festas \ festas
    /\ festas' = festas \cup {e}
    /\ logo' = [logo EXCEPT ![e] = 0]
    /\ UNCHANGED <<unmanaged, deletedFestas, activeFestas, archivedFestas, shared, late>>

\* The event of cloneEventAction: inactive, with the logo of the other.
CloneFesta(source, e) ==
    /\ source \in Existing /\ e \in Festas \ festas
    /\ festas' = festas \cup {e}
    /\ logo' = [logo EXCEPT ![e] = logo[source]]
    /\ shared' = shared \cup ({logo[source]} \ {0})
    /\ UNCHANGED <<unmanaged, deletedFestas, activeFestas, archivedFestas, late>>

ArchiveFesta(e) ==
    /\ e \in OpenFestas
    /\ archivedFestas' = archivedFestas \cup {e}
    /\ activeFestas' = activeFestas \ {e}
    /\ late' = IF \E r \in Savers : save[r].pc # "none" /\ save[r].e = e THEN late \cup {e}
               ELSE late
    /\ UNCHANGED <<unmanaged, festas, deletedFestas, logo, shared>>

\* The last write of deleteEventAction.
DeleteFesta(e) ==
    /\ e \in Existing
    /\ deletedFestas' = deletedFestas \cup {e}
    /\ activeFestas' = activeFestas \ {e}
    /\ UNCHANGED <<unmanaged, festas, archivedFestas, logo, shared, late>>

SettingsNext ==
    \/ \E r \in Savers :
        \/ \E e \in Festas, active \in {"on", "off", "leave"},
           change \in {"keep", "upload", "remove"} : SettingsReads(r, e, active, change)
        \/ SettingsDeactivates(r) \/ SettingsWrites(r) \/ SettingsThrows(r) \/ SettingsDrops(r)
    \/ \E e \in Festas :
        \/ CreateFesta(e) \/ ArchiveFesta(e) \/ DeleteFesta(e)
        \/ \E source \in Festas : CloneFesta(source, e)

SettingsSpec == SettingsInit /\ [][SettingsNext]_settingsVars

(* There is one active event, unless two activations ran into each other,  *)
(* and an archived one never is, not even by a save that had read it       *)
(* before; the logo of an event is on the disk, unless the event is a      *)
(* clone or was cloned with it, or was archived while it was being saved.  *)
(* (updateEventSettingsAction, archiveEventAction, cloneEventAction)       *)
EventsAreUsable ==
    /\ Cardinality(activeFestas) > 1 => overlap
    /\ activeFestas \cap archivedFestas = {}
    /\ \A e \in Existing : logo[e] \in disk \cup {0} \cup shared \/ e \in late
=============================================================================
