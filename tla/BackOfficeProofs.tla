--------------------------- MODULE BackOfficeProofs ---------------------------
(***************************************************************************)
(* The theorems of EventSettings, of EventDocuments, of RuntimeBackup and  *)
(* of DishTickets, the components the BackOffice run composes, for any     *)
(* number of events, images, documents, requests, collections, archives,   *)
(* upsets, orders and screens.                                             *)
(* EventsAreUsable needs to know what a request in the middle of a save    *)
(* can still do: which event it will activate (OneActive), that its image  *)
(* is on the disk and nobody's logo yet (NewImages), and that the image it *)
(* will delete is nobody's any more (OldImages).                           *)
(* ReferencesResolve needs to know which fields a deletion in the middle   *)
(* has still to go through (Awaits), and what a copy has made so far       *)
(* (CopyHolds); ImportsAreWhole, which documents have arrived and with     *)
(* which references at each stage of an import (ImportHolds), and that a   *)
(* collection comes after those it refers to (Precedes).                   *)
(* A restore implements AtomicRestore when one thing goes wrong at most: a *)
(* step of it fails, a write of the shop comes in between, or the process  *)
(* dies. The invariant says, at every step of a restore and for every      *)
(* name, where what the name held before is to be found (Had, Swapped).    *)
(* Of the numbers of the dishes: an order and the requests at work on it   *)
(* hold lists of numbers. Lists of different orders have no number in      *)
(* common, and none has a number the counter has not handed out yet        *)
(* (NumbersOK). A request that completes an order may save it only if the  *)
(* numbers it read are still the order's (ReadsOK).                        *)
(***************************************************************************)
EXTENDS EventSettings, EventDocuments, RuntimeBackup, DishTickets, FiniteSetTheorems, SequenceTheorems, TLAPS

-----------------------------------------------------------------------------
(* Events, their activation and their images.                              *)
SaveStates ==
    [pc : {"none", "read", "write", "drop"}, e : Festas, active : {"on", "off", "leave"},
     old : Nat, new : Nat, keep : BOOLEAN]

(* Types, what an event may be at a time, and what a request knows of its  *)
(* event: that it exists or existed, and was open when it read it.         *)
SettingsTypeOK ==
    /\ festas \subseteq Festas /\ FirstFesta \in festas
    /\ activeFestas \subseteq OpenFestas /\ archivedFestas \subseteq festas
    /\ logo \in [Festas -> Nat] /\ disk \subseteq Nat /\ logos \in Nat /\ saves \in Nat
    /\ save \in [Savers -> SaveStates] /\ overlap \in BOOLEAN
    /\ \A r \in Savers : r > saves => save[r].pc = "none"
    /\ \A r \in Savers :
        save[r].pc # "none" => /\ save[r].e \in festas
                               /\ save[r].e \in archivedFestas => save[r].e \in late

(* Until two activations overlap, one event is active at most, and it is   *)
(* the one the activation under way will write.                            *)
Activates(r) == save[r].pc = "write" /\ save[r].active = "on"

OneActive ==
    ~overlap =>
        /\ \A e, f \in activeFestas : e = f
        /\ \A r \in Savers : Activates(r) => activeFestas \subseteq {save[r].e}
        /\ \A q, r \in Savers : Activates(q) /\ Activates(r) => q = r

(* Logos are on the disk; two events have the same one only after a clone. *)
Logos ==
    /\ \A e \in festas : logo[e] <= logos
    /\ \A e \in Existing : logo[e] \in disk \cup {0} \cup shared \/ e \in late
    /\ \A e, f \in festas : e # f /\ logo[e] = logo[f] => logo[e] \in shared \cup {0}

(* The image of a save that is not written yet is its own.                 *)
Brings(r) == save[r].pc \in {"read", "write"} /\ save[r].new # 0

NewImages ==
    /\ \A r \in Savers : save[r].new <= logos /\ save[r].old <= logos
    /\ \A r \in Savers : Brings(r) =>
        /\ save[r].new \in disk
        /\ \A e \in festas : logo[e] # save[r].new
        /\ \A q \in Savers : Brings(q) /\ save[q].new = save[r].new => q = r
        /\ \A q \in Savers : save[q].pc # "none" => save[q].old # save[r].new

(* The image a save found is no other event's, unless by a clone; and once *)
(* the save is written, it is not its event's either.                      *)
OldImages ==
    \A r \in Savers : save[r].pc # "none" =>
        /\ \A e \in festas \ {save[r].e} : logo[e] = save[r].old => logo[e] \in shared \cup {0}
        /\ save[r].pc = "drop" /\ ~save[r].keep /\ save[r].old # save[r].new =>
            \/ save[r].e \notin Existing \/ save[r].e \in late
            \/ logo[save[r].e] # save[r].old \/ save[r].old = 0

SettingsInv == SettingsTypeOK /\ OneActive /\ Logos /\ NewImages /\ OldImages-----------------------------------------------------------------------------
LEMMA Maps ==
    ASSUME NEW S, NEW T, NEW f \in [S -> T], NEW x \in S, NEW v \in T
    PROVE  /\ [f EXCEPT ![x] = v] \in [S -> T]
           /\ [f EXCEPT ![x] = v][x] = v
           /\ \A y \in S \ {x} : [f EXCEPT ![x] = v][y] = f[y]
OBVIOUS

LEMMA NoSaveType == NoSave \in SaveStates /\ NoSave.pc = "none" /\ NoSave.new = 0 /\ NoSave.old = 0
BY SettingsAssumption DEF NoSave, SaveStates

LEMMA SettingsInvInit == SettingsInit => SettingsInv
<1> SUFFICES ASSUME SettingsInit PROVE SettingsInv
  OBVIOUS
<1>1. SettingsTypeOK
  <2>1. \A r \in Savers : save[r] = NoSave
    BY DEF SettingsInit
  <2>2. save \in [Savers -> SaveStates] /\ logo \in [Festas -> Nat]
    BY NoSaveType DEF SettingsInit
  <2>. QED
    BY <2>1, <2>2, NoSaveType, SettingsAssumption
    DEF SettingsInit, SettingsTypeOK, OpenFestas, Existing
<1>2. OneActive /\ Logos /\ NewImages /\ OldImages
  BY NoSaveType, SettingsAssumption
  DEF SettingsInit, OneActive, Activates, Logos, NewImages, Brings, OldImages, Existing
<1>. QED
  BY <1>1, <1>2 DEF SettingsInv

(* What one request does to its own record leaves those of the others.     *)
LEMMA Alone ==
    ASSUME SettingsTypeOK, NEW r \in Savers, NEW x \in SaveStates, save' = [save EXCEPT ![r] = x]
    PROVE  /\ save' \in [Savers -> SaveStates] /\ save'[r] = x
           /\ \A q \in Savers \ {r} : save'[q] = save[q]
BY Maps DEF SettingsTypeOK

LEMMA Saved ==
    ASSUME SettingsTypeOK, NEW r \in Savers
    PROVE  /\ save[r] \in SaveStates /\ save[r].e \in Festas
           /\ save[r].old \in Nat /\ save[r].new \in Nat
<1>1. save[r] \in SaveStates
  BY DEF SettingsTypeOK
<1>. QED
  BY <1>1 DEF SaveStates

LEMMA ReadsKeeps ==
    ASSUME SettingsInv, NEW r \in Savers, NEW e \in Festas, NEW active \in {"on", "off", "leave"},
           NEW change \in {"keep", "upload", "remove"}, SettingsReads(r, e, active, change)
    PROVE  SettingsInv'
<1> DEFINE x == [pc |-> "read", e |-> e, active |-> active, old |-> logo[e],
                 new |-> Stored(change), keep |-> change = "keep"]
<1>0. SettingsTypeOK /\ logos \in Nat /\ logo[e] \in Nat /\ e \in OpenFestas /\ e \in festas
  BY DEF SettingsInv, SettingsTypeOK, SettingsReads, OpenFestas, Existing
<1>1. x \in SaveStates /\ Stored(change) \in Nat
  BY <1>0 DEF SaveStates, Stored
<1>2. save' \in [Savers -> SaveStates] /\ save'[r] = x /\ \A q \in Savers \ {r} : save'[q] = save[q]
  BY <1>0, <1>1, Alone DEF SettingsReads
<1>3. save[r].pc = "none" /\ saves' = saves + 1 /\ r = saves + 1
  BY <1>0 DEF SettingsTypeOK, SettingsReads, Savers
<1>4. UNCHANGED <<festas, deletedFestas, archivedFestas, shared, late, activeFestas, logo, overlap>>
  BY DEF SettingsReads, unsaved
<1>5. /\ logos' \in Nat /\ logos <= logos' /\ disk \subseteq disk' /\ disk' \subseteq Nat
      /\ Stored(change) # 0 => Stored(change) > logos /\ Stored(change) = logos' /\ Stored(change) \in disk'
      /\ Stored(change) <= logos'
  BY <1>0, <1>1 DEF SettingsReads, Stored, SettingsTypeOK
<1>6. SettingsTypeOK'
  BY <1>0, <1>1, <1>2, <1>3, <1>4, <1>5 DEF SettingsTypeOK, OpenFestas, Existing, Savers
<1>7. OneActive'
  BY <1>2, <1>3, <1>4 DEF SettingsInv, OneActive, Activates
<1>8. Logos'
  BY <1>0, <1>4, <1>5 DEF SettingsInv, Logos, Existing, SettingsTypeOK
<1>9. NewImages'
  BY <1>0, <1>1, <1>2, <1>3, <1>4, <1>5, Saved DEF SettingsInv, Logos, NewImages, Brings, SettingsTypeOK
<1>10. OldImages'
  BY <1>0, <1>2, <1>4 DEF SettingsInv, Logos, OldImages, Existing
<1>. QED
  BY <1>6, <1>7, <1>8, <1>9, <1>10 DEF SettingsInv

LEMMA DeactivatesKeeps ==
    ASSUME SettingsInv, NEW r \in Savers, SettingsDeactivates(r)
    PROVE  SettingsInv'
<1> DEFINE x == [save[r] EXCEPT !.pc = "write"]
<1>0. SettingsTypeOK /\ save[r] \in SaveStates
  BY Saved DEF SettingsInv
<1>1. x \in SaveStates /\ x.e = save[r].e /\ x.old = save[r].old /\ x.new = save[r].new
      /\ x.active = save[r].active /\ x.pc = "write" /\ save[r].pc = "read"
  BY <1>0 DEF SaveStates, SettingsDeactivates
<1>2. save' \in [Savers -> SaveStates] /\ save'[r] = x /\ \A q \in Savers \ {r} : save'[q] = save[q]
  BY <1>0, <1>1, Alone DEF SettingsDeactivates
<1>20. \A q \in Savers :
        /\ save'[q].e = save[q].e /\ save'[q].old = save[q].old /\ save'[q].new = save[q].new
        /\ save'[q].keep = save[q].keep /\ save'[q].active = save[q].active
        /\ save'[q].pc = IF q = r THEN "write" ELSE save[q].pc
  BY <1>0, <1>1, <1>2 DEF SaveStates
<1>3. UNCHANGED <<festas, deletedFestas, archivedFestas, shared, late, logo, disk, logos, saves>>
      /\ activeFestas' \subseteq activeFestas
  BY DEF SettingsDeactivates, unsaved
<1>4. SettingsTypeOK'
  <2>1. overlap' \in BOOLEAN
    BY <1>0 DEF SettingsDeactivates, SettingsTypeOK
  <2>. QED
    BY <1>0, <1>1, <1>2, <1>3, <2>1, ZenonT(40) DEF SettingsTypeOK, OpenFestas, Existing
<1>5. OneActive'
  <2> SUFFICES ASSUME ~overlap' PROVE OneActive'
    BY DEF OneActive
  <2>1. ~overlap /\ (save[r].active = "on" => \A q \in Savers : ~Activates(q))
    BY DEF SettingsDeactivates, Activates
  <2>2. save[r].active = "on" => activeFestas' \subseteq {save[r].e}
    BY DEF SettingsDeactivates
  <2>. QED
    BY <1>1, <1>20, <1>3, <2>1, <2>2 DEF SettingsInv, OneActive, Activates
<1>6. Logos'
  BY <1>3 DEF SettingsInv, Logos, Existing
<1>7. NewImages'
  BY <1>1, <1>20, <1>3 DEF SettingsInv, NewImages, Brings
<1>8. OldImages'
  BY <1>1, <1>20, <1>3 DEF SettingsInv, OldImages, Existing
<1>. QED
  BY <1>4, <1>5, <1>6, <1>7, <1>8 DEF SettingsInv

LEMMA WritesKeeps ==
    ASSUME SettingsInv, NEW r \in Savers, SettingsWrites(r)
    PROVE  SettingsInv'
<1> DEFINE s == save[r]
           x == [s EXCEPT !.pc = "drop"]
<1>0. SettingsTypeOK /\ s \in SaveStates /\ s.e \in Festas /\ s.new \in Nat
  BY Saved DEF SettingsInv
<1>1. x \in SaveStates /\ x.e = s.e /\ x.old = s.old /\ x.new = s.new /\ x.keep = s.keep
      /\ x.pc = "drop" /\ s.pc = "write"
  BY <1>0 DEF SaveStates, SettingsWrites
<1>2. save' \in [Savers -> SaveStates] /\ save'[r] = x /\ \A q \in Savers \ {r} : save'[q] = save[q]
  BY <1>0, <1>1, Alone DEF SettingsWrites
<1>20. \A q \in Savers :
        /\ save'[q].e = save[q].e /\ save'[q].old = save[q].old /\ save'[q].new = save[q].new
        /\ save'[q].keep = save[q].keep /\ save'[q].active = save[q].active
        /\ save'[q].pc = IF q = r THEN "drop" ELSE save[q].pc
  BY <1>0, <1>1, <1>2 DEF SaveStates
<1>3. UNCHANGED <<festas, deletedFestas, archivedFestas, shared, late, disk, logos, saves, overlap>>
  BY DEF SettingsWrites, unsaved
<1>4. s.e \in festas /\ (s.e \in archivedFestas => s.e \in late)
  BY <1>0, <1>1 DEF SettingsTypeOK
<1>5. activeFestas' \subseteq activeFestas \/
      (s.active = "on" /\ s.e \in OpenFestas /\ activeFestas' = activeFestas \cup {s.e})
  BY DEF SettingsWrites, Matched
<1>6. \/ logo' = logo /\ (s.keep \/ s.e \notin Existing \/ s.e \in late)
      \/ ~s.keep /\ logo' = [logo EXCEPT ![s.e] = s.new]
  BY <1>4 DEF SettingsWrites, Matched, OpenFestas, Existing
<1>7. /\ logo' \in [Festas -> Nat] /\ \A e \in Festas \ {s.e} : logo'[e] = logo[e]
      /\ logo'[s.e] \in {logo[s.e], s.new}
  BY <1>0, <1>6, Maps DEF SettingsTypeOK
<1>8. SettingsTypeOK'
  BY <1>0, <1>1, <1>2, <1>3, <1>5, <1>7, ZenonT(40) DEF SettingsTypeOK, OpenFestas, Existing
<1>9. OneActive'
  BY <1>1, <1>20, <1>3, <1>5 DEF SettingsInv, OneActive, Activates
<1>10. s.new # 0 => Brings(r)
  BY <1>1 DEF Brings
<1>11. Logos'
  BY <1>0, <1>3, <1>4, <1>7, <1>10 DEF SettingsInv, SettingsTypeOK, Logos, NewImages, Existing
<1>12. NewImages'
  BY <1>0, <1>1, <1>20, <1>3, <1>4, <1>7, <1>10 DEF SettingsInv, SettingsTypeOK, NewImages, Brings
<1>13. OldImages'
  <2> SUFFICES ASSUME NEW q \in Savers, save'[q].pc # "none"
      PROVE /\ \A e \in festas \ {save'[q].e} : logo'[e] = save'[q].old => logo'[e] \in shared \cup {0}
            /\ save'[q].pc = "drop" /\ ~save'[q].keep /\ save'[q].old # save'[q].new =>
                \/ save'[q].e \notin Existing \/ save'[q].e \in late
                \/ logo'[save'[q].e] # save'[q].old \/ save'[q].old = 0
    BY <1>3 DEF OldImages, Existing
  <2>1. save'[q].e = save[q].e /\ save'[q].old = save[q].old /\ save'[q].new = save[q].new
        /\ save'[q].keep = save[q].keep /\ save[q].pc # "none" /\ save[q].e \in festas
    BY <1>0, <1>1, <1>2 DEF SettingsTypeOK
  <2>2. s.new # 0 => save[q].old # s.new
    BY <1>10, <2>1 DEF SettingsInv, NewImages
  <2>3. \A e \in festas : logo'[e] = save[q].old => logo[e] = save[q].old \/ logo'[e] = 0
    BY <1>0, <1>7, <2>2 DEF SettingsTypeOK
  <2>4. \A e \in festas \ {save[q].e} : logo'[e] = save[q].old => logo'[e] \in shared \cup {0}
    BY <2>1, <2>3 DEF SettingsInv, OldImages
  <2>5. CASE q = r
    BY <1>0, <1>4, <1>6, <1>7, <2>1, <2>4, <2>5 DEF SettingsTypeOK
  <2>6. CASE q # r
    BY <1>2, <2>1, <2>3, <2>4, <2>6 DEF SettingsInv, OldImages
  <2>. QED
    BY <2>5, <2>6
<1>. QED
  BY <1>8, <1>9, <1>11, <1>12, <1>13 DEF SettingsInv

(* A request that is over knows nothing.                                   *)
LEMMA Over ==
    ASSUME SettingsTypeOK, NEW r \in Savers, save' = [save EXCEPT ![r] = NoSave]
    PROVE  /\ save' \in [Savers -> SaveStates]
           /\ \A q \in Savers : save'[q].pc # "none" => q # r
           /\ \A q \in Savers : save'[q] = save[q] \/ (save'[q] = NoSave /\ q = r)
<1>1. save' \in [Savers -> SaveStates] /\ save'[r] = NoSave /\ \A q \in Savers \ {r} : save'[q] = save[q]
  BY NoSaveType, Alone
<1>. QED
  BY <1>1, NoSaveType

LEMMA ThrowsKeeps ==
    ASSUME SettingsInv, NEW r \in Savers, SettingsThrows(r)
    PROVE  SettingsInv'
<1>0. SettingsTypeOK /\ save[r] \in SaveStates /\ save[r].pc = "write"
  BY Saved DEF SettingsInv, SettingsThrows
<1>1. /\ save' \in [Savers -> SaveStates]
      /\ \A q \in Savers : save'[q].pc # "none" => q # r
      /\ \A q \in Savers : save'[q] = save[q] \/ (save'[q] = NoSave /\ q = r)
  BY <1>0, Over DEF SettingsThrows
<1>2. UNCHANGED <<festas, deletedFestas, archivedFestas, shared, late, activeFestas, logo, logos,
                  saves, overlap>>
      /\ disk' = disk \ {save[r].new}
  BY DEF SettingsThrows, unsaved, Unlinked
<1>3. SettingsTypeOK'
  BY <1>0, <1>1, <1>2, NoSaveType DEF SettingsTypeOK, OpenFestas, Existing
<1>4. OneActive'
  BY <1>1, <1>2, NoSaveType DEF SettingsInv, OneActive, Activates
<1>5. save[r].new # 0 => Brings(r)
  BY <1>0 DEF Brings
<1>6. Logos'
  BY <1>2, <1>5 DEF SettingsInv, SettingsTypeOK, Logos, NewImages, Existing
<1>7. NewImages'
  BY <1>0, <1>1, <1>2, <1>5, NoSaveType DEF SettingsInv, SettingsTypeOK, NewImages, Brings
<1>8. OldImages'
  BY <1>1, <1>2, NoSaveType DEF SettingsInv, OldImages, Existing
<1>. QED
  BY <1>3, <1>4, <1>6, <1>7, <1>8 DEF SettingsInv

LEMMA DropsKeeps ==
    ASSUME SettingsInv, NEW r \in Savers, SettingsDrops(r)
    PROVE  SettingsInv'
<1> DEFINE s == save[r]
<1>0. SettingsTypeOK /\ s \in SaveStates /\ s.pc = "drop" /\ s.e \in festas
  BY Saved DEF SettingsInv, SettingsDrops, SettingsTypeOK
<1>1. /\ save' \in [Savers -> SaveStates]
      /\ \A q \in Savers : save'[q].pc # "none" => q # r
      /\ \A q \in Savers : save'[q] = save[q] \/ (save'[q] = NoSave /\ q = r)
  BY <1>0, Over DEF SettingsDrops
<1>2. UNCHANGED <<festas, deletedFestas, archivedFestas, shared, late, activeFestas, logo, logos,
                  saves, overlap>>
      /\ disk' = IF s.keep \/ s.old = s.new THEN disk ELSE disk \ {s.old}
  BY DEF SettingsDrops, unsaved, Unlinked
<1>3. SettingsTypeOK'
  BY <1>0, <1>1, <1>2, NoSaveType DEF SettingsTypeOK, OpenFestas, Existing
<1>4. OneActive'
  BY <1>1, <1>2, NoSaveType DEF SettingsInv, OneActive, Activates
<1>5. Logos'
  <2>1. ASSUME NEW e \in Existing, e \notin late, logo[e] \notin shared \cup {0}
        PROVE  logo[e] \in disk'
    <3>1. e \in festas /\ logo[e] \in disk
      BY <2>1 DEF Existing, SettingsInv, Logos
    <3>2. ~s.keep /\ s.old # s.new => logo[e] # s.old
      BY <1>0, <2>1, <3>1 DEF SettingsInv, OldImages
    <3>. QED
      BY <1>2, <3>1, <3>2
  <2>. QED
    BY <1>2, <2>1 DEF SettingsInv, Logos, Existing
<1>6. \A q \in Savers : Brings(q) => s.old # save[q].new
  BY <1>0 DEF SettingsInv, NewImages
<1>7. NewImages'
  BY <1>0, <1>1, <1>2, <1>6, NoSaveType DEF SettingsInv, SettingsTypeOK, NewImages, Brings
<1>8. OldImages'
  BY <1>1, <1>2, NoSaveType DEF SettingsInv, OldImages, Existing
<1>. QED
  BY <1>3, <1>4, <1>5, <1>7, <1>8 DEF SettingsInv

-----------------------------------------------------------------------------
(* The actions on events leave the requests alone.                         *)

LEMMA CreateKeeps ==
    ASSUME SettingsInv, NEW e \in Festas, CreateFesta(e)
    PROVE  SettingsInv'
<1>0. SettingsTypeOK /\ e \notin festas /\ festas' = festas \cup {e}
  BY DEF SettingsInv, CreateFesta
<1>1. logo' \in [Festas -> Nat] /\ logo'[e] = 0 /\ \A f \in Festas \ {e} : logo'[f] = logo[f]
  BY <1>0, Maps DEF CreateFesta, SettingsTypeOK
<1>2. UNCHANGED <<deletedFestas, archivedFestas, shared, late, activeFestas, disk, save, saves,
                  overlap, logos>>
  BY DEF CreateFesta, unmanaged
<1>3. SettingsTypeOK'
  BY <1>0, <1>1, <1>2 DEF SettingsTypeOK, OpenFestas, Existing
<1>4. OneActive'
  BY <1>2 DEF SettingsInv, OneActive, Activates
<1>5. Logos'
  BY <1>0, <1>1, <1>2 DEF SettingsInv, SettingsTypeOK, Logos, Existing
<1>6. NewImages'
  BY <1>0, <1>1, <1>2, Saved DEF SettingsInv, SettingsTypeOK, NewImages, Brings
<1>7. OldImages'
  BY <1>0, <1>1, <1>2, Saved DEF SettingsInv, SettingsTypeOK, OldImages, Existing
<1>. QED
  BY <1>3, <1>4, <1>5, <1>6, <1>7 DEF SettingsInv

LEMMA CloneKeeps ==
    ASSUME SettingsInv, NEW source \in Festas, NEW e \in Festas, CloneFesta(source, e)
    PROVE  SettingsInv'
<1>0. /\ SettingsTypeOK /\ e \notin festas /\ festas' = festas \cup {e}
      /\ source \in festas /\ source # e /\ logo[source] \in Nat
  BY DEF SettingsInv, CloneFesta, SettingsTypeOK, Existing
<1>1. /\ logo' \in [Festas -> Nat] /\ logo'[e] = logo[source]
      /\ \A f \in Festas \ {e} : logo'[f] = logo[f]
  BY <1>0, Maps DEF CloneFesta, SettingsTypeOK
<1>2. UNCHANGED <<deletedFestas, archivedFestas, late, activeFestas, disk, save, saves, overlap, logos>>
      /\ shared \subseteq shared' /\ logo[source] \in shared' \cup {0}
  BY DEF CloneFesta, unmanaged
<1>3. SettingsTypeOK'
  BY <1>0, <1>1, <1>2 DEF SettingsTypeOK, OpenFestas, Existing
<1>4. OneActive'
  BY <1>2 DEF SettingsInv, OneActive, Activates
<1>5. Logos'
  <2>1. \A f \in festas' : logo'[f] <= logos
    BY <1>0, <1>1 DEF SettingsInv, SettingsTypeOK, Logos
  <2>2. \A f \in Existing' : logo'[f] \in disk \cup {0} \cup shared' \/ f \in late
    BY <1>0, <1>1, <1>2 DEF SettingsInv, SettingsTypeOK, Logos, Existing
  <2>3. \A f, g \in festas' : f # g /\ logo'[f] = logo'[g] => logo'[f] \in shared' \cup {0}
    BY <1>0, <1>1, <1>2 DEF SettingsInv, SettingsTypeOK, Logos
  <2>. QED
    BY <1>2, <2>1, <2>2, <2>3 DEF Logos
<1>6. NewImages'
  BY <1>0, <1>1, <1>2 DEF SettingsInv, SettingsTypeOK, NewImages, Brings
<1>7. OldImages'
  BY <1>0, <1>1, <1>2, Saved DEF SettingsInv, SettingsTypeOK, OldImages, Existing
<1>. QED
  BY <1>3, <1>4, <1>5, <1>6, <1>7 DEF SettingsInv

LEMMA ArchiveKeeps ==
    ASSUME SettingsInv, NEW e \in Festas, ArchiveFesta(e)
    PROVE  SettingsInv'
<1>1. /\ SettingsTypeOK /\ e \in festas /\ archivedFestas' = archivedFestas \cup {e}
      /\ activeFestas' = activeFestas \ {e} /\ late \subseteq late'
      /\ \A r \in Savers : save[r].pc # "none" /\ save[r].e = e => e \in late'
      /\ UNCHANGED <<disk, logos, save, saves, overlap, festas, deletedFestas, logo, shared>>
  BY DEF ArchiveFesta, unmanaged, OpenFestas, Existing, SettingsInv
<1>2. SettingsTypeOK'
  BY <1>1 DEF SettingsTypeOK, OpenFestas, Existing
<1>3. OneActive' /\ Logos' /\ NewImages' /\ OldImages'
  BY <1>1 DEF SettingsInv, OneActive, Activates, Logos, NewImages, Brings, OldImages, Existing
<1>. QED
  BY <1>2, <1>3 DEF SettingsInv

LEMMA DeleteKeeps ==
    ASSUME SettingsInv, NEW e \in Festas, DeleteFesta(e)
    PROVE  SettingsInv'
<1>1. /\ SettingsTypeOK /\ deletedFestas' = deletedFestas \cup {e}
      /\ activeFestas' = activeFestas \ {e}
      /\ UNCHANGED <<disk, logos, save, saves, overlap, festas, archivedFestas, logo, shared, late>>
  BY DEF DeleteFesta, unmanaged, SettingsInv
<1>2. SettingsTypeOK'
  BY <1>1 DEF SettingsTypeOK, OpenFestas, Existing
<1>3. OneActive' /\ Logos' /\ NewImages' /\ OldImages'
  BY <1>1 DEF SettingsInv, OneActive, Activates, Logos, NewImages, Brings, OldImages, Existing
<1>. QED
  BY <1>2, <1>3 DEF SettingsInv

LEMMA SettingsInvStep == SettingsInv /\ [SettingsNext]_settingsVars => SettingsInv'
<1> SUFFICES ASSUME SettingsInv, [SettingsNext]_settingsVars PROVE SettingsInv'
  OBVIOUS
<1>1. ASSUME NEW r \in Savers, NEW e \in Festas, NEW active \in {"on", "off", "leave"},
             NEW change \in {"keep", "upload", "remove"}, SettingsReads(r, e, active, change)
      PROVE  SettingsInv'
  BY <1>1, ReadsKeeps
<1>2. ASSUME NEW r \in Savers,
             SettingsDeactivates(r) \/ SettingsWrites(r) \/ SettingsThrows(r) \/ SettingsDrops(r)
      PROVE  SettingsInv'
  BY <1>2, DeactivatesKeeps, WritesKeeps, ThrowsKeeps, DropsKeeps
<1>3. ASSUME NEW e \in Festas, CreateFesta(e) \/ ArchiveFesta(e) \/ DeleteFesta(e)
      PROVE  SettingsInv'
  BY <1>3, CreateKeeps, ArchiveKeeps, DeleteKeeps
<1>4. ASSUME NEW e \in Festas, NEW source \in Festas, CloneFesta(source, e)
      PROVE  SettingsInv'
  BY <1>4, CloneKeeps
<1>5. CASE UNCHANGED settingsVars
  BY <1>5 DEF settingsVars, SettingsInv, SettingsTypeOK, OneActive, Activates, Logos, NewImages,
              Brings, OldImages, OpenFestas, Existing
<1>. QED
  BY <1>1, <1>2, <1>3, <1>4, <1>5 DEF SettingsNext

(* At most one element: at most one.                                       *)
LEMMA AtMostOneMember ==
    ASSUME NEW S, \A e, f \in S : e = f
    PROVE  ~(Cardinality(S) > 1)
<1>1. CASE S = {}
  BY <1>1, FS_EmptySet
<1>2. CASE S # {}
  <2>1. PICK e \in S : S = {e}
    BY <1>2
  <2>. QED
    BY <2>1, FS_Singleton, SMTT(30)
<1>. QED
  BY <1>1, <1>2

(* Whatever saves, clones, archives and deletions run into each other,     *)
(* there is one active event unless two activations overlap, it is not     *)
(* archived, and every event has the logo it names.                        *)
THEOREM EventsStayUsable == SettingsSpec => []EventsAreUsable
<1>1. SettingsInv => EventsAreUsable
  <2> SUFFICES ASSUME SettingsInv PROVE EventsAreUsable
    OBVIOUS
  <2>1. Cardinality(activeFestas) > 1 => overlap
    BY AtMostOneMember DEF SettingsInv, OneActive
  <2>2. activeFestas \cap archivedFestas = {}
    BY DEF SettingsInv, SettingsTypeOK, OpenFestas
  <2>3. \A e \in Existing : logo[e] \in disk \cup {0} \cup shared \/ e \in late
    BY DEF SettingsInv, Logos
  <2>. QED
    BY <2>1, <2>2, <2>3 DEF EventsAreUsable
<1>. QED
  BY <1>1, SettingsInvInit, SettingsInvStep, PTL DEF SettingsSpec

-----------------------------------------------------------------------------
(* What a document is: its fields are those of its collection, and each    *)
(* refers to a collection of its own.                                      *)
Fields == {"kitchen", "till", "terminal", "box", "category", "recipe", "part"}
Roles  == {"KITCHEN", "CASHIER", "SUMUP", "CASH_BOX", "NONE", "STANDARD", "FIXED_MENU"}
TargetOf(f) == CASE f \in {"kitchen", "till"} -> PrinterIds
                 [] f \in {"terminal", "box"} -> PeripheralIds
                 [] f = "category"            -> CategoryIds
                 [] f = "recipe"              -> IngredientIds
                 [] f = "part"                -> ProductIds
HolderOf(f) == CASE f = "kitchen"                        -> CategoryIds
                 [] f \in {"till", "terminal", "box"}    -> PosDeviceIds
                 [] f \in {"category", "recipe", "part"} -> ProductIds
Refs(e) == [field : Fields, event : {e}, id : Documents]
RefsFrom(e, id) == {x \in Refs(e) : x.id \in TargetOf(x.field) /\ id \in HolderOf(x.field)}
DocsOf(e, id) == [role : Roles, refs : SUBSET RefsFrom(e, id)]
AnyDoc == [role : Roles, refs : SUBSET (Refs(Home) \cup Refs(Copy))]
Contents == [Documents -> AnyDoc \cup {NoDocument}]
Fit(e, docs) == \A id \in Documents : docs[id] = NoDocument \/ docs[id] \in DocsOf(e, id)

(* Types; what a request has left to do; what a copy is at.                *)
Todos == {<<"kitchen", "till">>, <<"till">>, <<"terminal", "box">>, <<"box">>, <<"category">>, <<"recipe">>}
Remains == {"posDevices", "peripherals", "printers", "products", "ingredients", "categories"}
EditStates == {NoEdit} \cup [op : {"create", "update"}, id : Documents, form : AnyDoc]
                \cup [op : {"clean"}, id : Documents, todo : Todos] \cup [op : {"ruin"}, todo : Seq(Remains)]
EditOK(x) == x.op \in {"create", "update"} => x.form \in DocsOf(Home, x.id)
Copyings == [by : {"none", "clone", "import"}, pc : {"none", "assets", "run", "undo", "done", "failed"},
             stage : Nat, left : SUBSET Assets, from : Contents, made : SUBSET Documents,
             fault : BOOLEAN, spoiled : BOOLEAN]
CopyingOK ==
    /\ copying.by = "none" <=> copying.pc = "none"
    /\ copying.pc \in {"assets", "undo"} => copying.by = "import"
    /\ copying.stage \in 1 .. (Len(Stages) + 1)
    /\ Fit(Home, copying.from)
DocumentsOK ==
    /\ record \in [{Home, Copy} -> Contents] /\ Fit(Home, record[Home]) /\ Fit(Copy, record[Copy])
    /\ export \in [pc : {"none", "read", "done"}, unread : SUBSET Collections, docs : Contents]
    /\ Fit(Home, export.docs)
    /\ edit \in [Editors -> EditStates] /\ \A r \in Editors : EditOK(edit[r])
    /\ copying \in Copyings /\ CopyingOK

(* A reference to a document that is gone is going to be seen to.          *)
Awaits(x, ref) == x.op = "clean" /\ x.id = ref.id /\ \E i \in 1 .. Len(x.todo) : x.todo[i] = ref.field
Excused(id, ref) == \/ Found(ref) \/ ref.field = "part" \/ <<id, ref>> \in stale
                    \/ \E r \in Editors : Awaits(edit[r], ref)
HomeHolds == Ruined \/ \A id \in Documents : record[Home][id] # NoDocument =>
                          \A ref \in record[Home][id].refs : Excused(id, ref)

(* What has been copied is there, and refers to what was before it.        *)
CopyHolds ==
    /\ copying.pc \in {"none", "assets"} => copying.made = {} /\ copying.stage = 1
    /\ copying.pc # "failed" =>
        \A id \in Documents :
            /\ id \in copying.made <=> record[Copy][id] # NoDocument
            /\ record[Copy][id] # NoDocument => \A ref \in record[Copy][id].refs : ref.id \in copying.made

(* The collections an import has come to, and what it makes of them.       *)
Arrived(id) == /\ copying.from[id] # NoDocument
               /\ \E k \in 1 .. (copying.stage - 1) : id \in Collection[Stages[k]]
SoFar(id) == IF id \in ProductIds /\ copying.stage = 6
             THEN {x \in copying.from[id].refs : x.field # "part"} ELSE copying.from[id].refs
Dangling == \E id \in Documents : /\ copying.from[id] # NoDocument
                                  /\ \E x \in copying.from[id].refs : copying.from[x.id] = NoDocument
ImportHolds ==
    copying.by = "import" =>
        /\ copying.pc \in {"run", "done"} =>
            /\ Copy \in events /\ files = Assets
            /\ \A id \in Documents :
                 record[Copy][id] = IF Arrived(id) THEN [role |-> copying.from[id].role, refs |-> Mapped(SoFar(id))]
                                    ELSE NoDocument
        /\ copying.pc = "assets" => files = Assets \ copying.left
        /\ copying.pc = "done" => copying.stage = 8
        /\ copying.pc \in {"undo", "failed"} => copying.fault \/ Dangling
        /\ copying.pc = "failed" /\ ~copying.spoiled =>
               Copy \notin events /\ files = {} /\ record[Copy] = NoBundle
FilesOK == copying.pc = "none" => files = {}

DocumentsInv == DocumentsOK /\ HomeHolds /\ CopyHolds /\ ImportHolds /\ FilesOK

-----------------------------------------------------------------------------
LEMMA Apart ==
    /\ Home # Copy
    /\ PrinterIds \cap PeripheralIds = {} /\ PrinterIds \cap CategoryIds = {}
    /\ PrinterIds \cap IngredientIds = {} /\ PrinterIds \cap ProductIds = {} /\ PrinterIds \cap PosDeviceIds = {}
    /\ PeripheralIds \cap CategoryIds = {} /\ PeripheralIds \cap IngredientIds = {}
    /\ PeripheralIds \cap ProductIds = {} /\ PeripheralIds \cap PosDeviceIds = {}
    /\ CategoryIds \cap IngredientIds = {} /\ CategoryIds \cap ProductIds = {} /\ CategoryIds \cap PosDeviceIds = {}
    /\ IngredientIds \cap ProductIds = {} /\ IngredientIds \cap PosDeviceIds = {}
    /\ ProductIds \cap PosDeviceIds = {}
<1>1. Collections = {"printers", "peripherals", "posDevices", "categories", "ingredients", "products"}
  BY DEF Collections, Collection
<1>2. /\ Collection["printers"] = PrinterIds /\ Collection["peripherals"] = PeripheralIds
      /\ Collection["posDevices"] = PosDeviceIds /\ Collection["categories"] = CategoryIds
      /\ Collection["ingredients"] = IngredientIds /\ Collection["products"] = ProductIds
  BY DEF Collection
<1>. QED
  BY <1>1, <1>2, IdsAssumption

LEMMA NoDoc == \A id, e : NoDocument \notin DocsOf(e, id) \/ e \notin {Home, Copy}
<1>1. NoDocument \notin AnyDoc
  <2>1. Fields = DOMAIN Role
    BY DEF Fields, Role
  <2>2. AnyDoc \subseteq [role : Roles, refs : SUBSET [field : DOMAIN Role, event : {Home, Copy}, id : Documents]]
    <3>1. Refs(Home) \cup Refs(Copy) \subseteq [field : DOMAIN Role, event : {Home, Copy}, id : Documents]
      BY <2>1 DEF Refs
    <3>. QED
      BY <3>1 DEF AnyDoc
  <2>. QED
    BY <2>2, NoDocumentAssumption DEF Roles
<1>2. \A id, e : e \in {Home, Copy} => DocsOf(e, id) \subseteq AnyDoc
  BY DEF DocsOf, AnyDoc, RefsFrom
<1>. QED
  BY <1>1, <1>2

LEMMA DocFields ==
    ASSUME NEW e \in {Home, Copy}, NEW id, NEW doc \in DocsOf(e, id)
    PROVE  /\ doc \in AnyDoc /\ doc # NoDocument /\ doc.role \in Roles
           /\ doc = [role |-> doc.role, refs |-> doc.refs]
           /\ \A x \in doc.refs : /\ x \in Refs(e) /\ x.id \in TargetOf(x.field) /\ id \in HolderOf(x.field)
                                  /\ x.field \in Fields /\ x.event = e /\ x.id \in Documents
<1>1. doc \in AnyDoc /\ doc # NoDocument
  BY NoDoc DEF DocsOf, AnyDoc, RefsFrom
<1>. QED
  BY <1>1 DEF DocsOf, RefsFrom, Refs

(* What may refer to a document of a collection, by the field.             *)
LEMMA Targets ==
    ASSUME NEW f \in Fields, NEW id \in Documents
    PROVE  /\ id \in TargetOf(f) /\ f # "part" =>
                 \E i \in 1 .. Len(Referring(id)) : Referring(id)[i] = f
           /\ id \in HolderOf(f) /\ f \in {"till", "category"} => Referring(id) = <<>>
           /\ Referring(id) = <<>> \/ Referring(id) \in Todos
<1> USE Apart
<1>1. CASE id \in PrinterIds
  <2>1. Referring(id) = <<"kitchen", "till">>
    BY <1>1 DEF Referring
  <2>2. id \in TargetOf(f) => f \in {"kitchen", "till"}
    BY <1>1 DEF TargetOf, Fields
  <2>3. ~(id \in HolderOf(f))
    BY <1>1 DEF HolderOf, Fields
  <2>. QED
    BY <2>1, <2>2, <2>3 DEF Todos
<1>2. CASE id \in PeripheralIds
  <2>1. Referring(id) = <<"terminal", "box">>
    BY <1>2 DEF Referring
  <2>2. id \in TargetOf(f) => f \in {"terminal", "box"}
    BY <1>2 DEF TargetOf, Fields
  <2>3. ~(id \in HolderOf(f))
    BY <1>2 DEF HolderOf, Fields
  <2>. QED
    BY <2>1, <2>2, <2>3 DEF Todos
<1>3. CASE id \in CategoryIds
  <2>1. Referring(id) = <<"category">>
    BY <1>3 DEF Referring
  <2>2. id \in TargetOf(f) => f = "category"
    BY <1>3 DEF TargetOf, Fields
  <2>3. id \in HolderOf(f) => f = "kitchen"
    BY <1>3 DEF HolderOf, Fields
  <2>. QED
    BY <2>1, <2>2, <2>3 DEF Todos
<1>4. CASE id \in IngredientIds
  <2>1. Referring(id) = <<"recipe">>
    BY <1>4 DEF Referring
  <2>2. id \in TargetOf(f) => f = "recipe"
    BY <1>4 DEF TargetOf, Fields
  <2>3. ~(id \in HolderOf(f))
    BY <1>4 DEF HolderOf, Fields
  <2>. QED
    BY <2>1, <2>2, <2>3 DEF Todos
<1>5. CASE id \in ProductIds \cup PosDeviceIds
  <2>1. Referring(id) = <<>>
    BY <1>5 DEF Referring
  <2>2. id \in TargetOf(f) => f = "part"
    BY <1>5 DEF TargetOf, Fields
  <2>. QED
    BY <2>1, <2>2
<1>. QED
  BY <1>1, <1>2, <1>3, <1>4, <1>5 DEF Documents

LEMMA FormsFit ==
    ASSUME NEW id \in Documents, NEW form \in Forms(id)
    PROVE  form \in DocsOf(Home, id)
<1> USE Apart
<1>0. form \in [role : Roles, refs : SUBSET Refs(Home)] /\ \A x \in form.refs : x.id \in TargetOf(x.field) /\ id \in HolderOf(x.field)
  <2>1. CASE id \in PrinterIds
    BY <2>1 DEF Forms, PrinterForms, Roles
  <2>2. CASE id \in PeripheralIds
    BY <2>2 DEF Forms, PeripheralForms, Roles
  <2>3. CASE id \in CategoryIds
    <3>1. form \in [role : {"NONE"}, refs : AtMostOne("kitchen", PrinterIds)]
      BY <2>3 DEF Forms, CategoryForms
    <3>2. \A x \in form.refs : \E p \in PrinterIds : x = Ref("kitchen", p)
      BY <3>1 DEF AtMostOne
    <3>3. \A x \in form.refs : x \in Refs(Home) /\ x.field = "kitchen" /\ x.id \in PrinterIds
      BY <3>2 DEF Ref, Refs, Fields, Documents
    <3>. QED
      BY <2>3, <3>1, <3>3 DEF Roles, TargetOf, HolderOf
  <2>4. CASE id \in IngredientIds
    BY <2>4 DEF Forms, IngredientForms, Roles
  <2>5. CASE id \in ProductIds
    <3>1. form \in ProductForms(id)
      BY <2>5 DEF Forms
    <3>2. form.role \in Roles /\ form = [role |-> form.role, refs |-> form.refs]
      BY <3>1 DEF ProductForms, Roles
    <3>3. \A x \in form.refs : \/ \E c \in CategoryIds : x = Ref("category", c)
                               \/ \E i \in IngredientIds : x = Ref("recipe", i)
                               \/ \E p \in ProductIds : x = Ref("part", p)
      BY <3>1 DEF ProductForms, One, AtMostOne
    <3>4. \A x \in form.refs : /\ x \in Refs(Home)
                               /\ \/ x.field = "category" /\ x.id \in CategoryIds
                                  \/ x.field = "recipe" /\ x.id \in IngredientIds
                                  \/ x.field = "part" /\ x.id \in ProductIds
      BY <3>3 DEF Ref, Refs, Fields, Documents
    <3>. QED
      BY <2>5, <3>2, <3>4 DEF TargetOf, HolderOf
  <2>6. CASE id \in PosDeviceIds
    <3>1. form \in PosDeviceForms
      BY <2>6 DEF Forms
    <3>2. form.role \in Roles /\ form = [role |-> form.role, refs |-> form.refs]
      BY <3>1 DEF PosDeviceForms, Roles
    <3>3. \A x \in form.refs : \/ \E p \in PrinterIds : x = Ref("till", p)
                               \/ \E t \in PeripheralIds : x = Ref("terminal", t)
                               \/ \E b \in PeripheralIds : x = Ref("box", b)
      BY <3>1 DEF PosDeviceForms, One, AtMostOne
    <3>4. \A x \in form.refs : /\ x \in Refs(Home)
                               /\ \/ x.field = "till" /\ x.id \in PrinterIds
                                  \/ x.field \in {"terminal", "box"} /\ x.id \in PeripheralIds
      BY <3>3 DEF Ref, Refs, Fields, Documents
    <3>. QED
      BY <2>6, <3>2, <3>4 DEF TargetOf, HolderOf
  <2>. QED
    BY <2>1, <2>2, <2>3, <2>4, <2>5, <2>6 DEF Documents
<1>. QED
  BY <1>0 DEF DocsOf, RefsFrom

-----------------------------------------------------------------------------
(* Records with one field changed; lists of fields and what is left of them. *)
LEMMA WithTodo ==
    ASSUME NEW e \in [op : {"clean"}, id : Documents, todo : Todos], NEW t
    PROVE  [e EXCEPT !.todo = t] = [op |-> "clean", id |-> e.id, todo |-> t]
OBVIOUS

LEMMA WithRest ==
    ASSUME NEW e \in [op : {"ruin"}, todo : Seq(Remains)], NEW t
    PROVE  [e EXCEPT !.todo = t] = [op |-> "ruin", todo |-> t]
OBVIOUS

LEMMA WithRefs ==
    ASSUME NEW e, NEW id, NEW doc \in DocsOf(e, id), NEW t
    PROVE  [doc EXCEPT !.refs = t] = [role |-> doc.role, refs |-> t]
BY DEF DocsOf

LEMMA Todo ==
    ASSUME NEW t \in Todos
    PROVE  /\ Len(t) = 1 => Head(t) = t[1] /\ Tail(t) = <<>>
           /\ Len(t) # 1 => /\ Head(t) = t[1] /\ Tail(t) \in Todos /\ Len(t) = 2
                            /\ Len(Tail(t)) = 1 /\ Tail(t)[1] = t[2]
<1>1. CASE t = <<"kitchen", "till">>
  BY <1>1 DEF Todos
<1>2. CASE t = <<"terminal", "box">>
  BY <1>2 DEF Todos
<1>3. CASE \E f \in Fields : t = <<f>>
  <2>1. PICK f \in Fields : t = <<f>>
    BY <1>3
  <2>. QED
    BY <2>1
<1>. QED
  BY <1>1, <1>2, <1>3 DEF Todos, Fields

-----------------------------------------------------------------------------
(* Edits of the event.                                                     *)
Untouched == UNCHANGED <<export, copying, files>> /\ record'[Copy] = record[Copy]

(* A request of an editor changes its own state and the event's documents. *)
LEMMA EditKeeps ==
    ASSUME DocumentsInv, Untouched, copying.by # "import", events' \in {events, events \ {Home}},
           record' \in [{Home, Copy} -> Contents], Fit(Home, record'[Home]),
           NEW r \in Editors, NEW x \in EditStates, EditOK(x), edit' = [edit EXCEPT ![r] = x] \/ edit' = edit,
           HomeHolds'
    PROVE  DocumentsInv'
<1>1. edit' \in [Editors -> EditStates] /\ \A q \in Editors : EditOK(edit'[q])
  BY DEF DocumentsInv, DocumentsOK
<1>2. DocumentsOK'
  BY <1>1 DEF DocumentsInv, DocumentsOK, Untouched, CopyingOK, Fit, Stages, EditOK
<1>3. CopyHolds'
  BY DEF DocumentsInv, CopyHolds, Untouched
<1>4. ImportHolds' /\ FilesOK'
  BY DEF DocumentsInv, ImportHolds, FilesOK, Untouched
<1>. QED
  BY <1>2, <1>3, <1>4 DEF DocumentsInv

(* An event that is being deleted stays so, and so does what waits.        *)
LEMMA RuinStays ==
    ASSUME Ruined, events' \subseteq events, NEW r \in Editors, NEW x, edit' = [edit EXCEPT ![r] = x],
           edit \in [Editors -> EditStates], edit[r].op = "ruin" => Home \notin events' \/ x.op = "ruin"
    PROVE  Ruined'
  BY DEF Ruined

LEMMA AwaitStays ==
    ASSUME NEW r \in Editors, NEW x, edit' = [edit EXCEPT ![r] = x] \/ edit' = edit,
           edit \in [Editors -> EditStates], NEW ref, edit[r].op = "clean" /\ Awaits(edit[r], ref) => Awaits(x, ref),
           \E q \in Editors : Awaits(edit[q], ref)
    PROVE  \E q \in Editors : Awaits(edit'[q], ref)
<1>1. PICK q \in Editors : Awaits(edit[q], ref)
  OBVIOUS
<1>2. edit'[q] = edit[q] \/ (q = r /\ edit'[q] = x)
  OBVIOUS
<1>. QED
  BY <1>1, <1>2 DEF Awaits

(* A request begins: it leaves the documents for later.                    *)
LEMMA BeginHolds ==
    ASSUME DocumentsInv, NEW r \in Editors, NEW x \in EditStates, EditOK(x), EditBegins(r, x),
           UNCHANGED <<record, stale>>, copying.by # "import"
    PROVE  DocumentsInv'
<1>1. /\ edit' = [edit EXCEPT ![r] = x] /\ edit[r] = NoEdit /\ edit \in [Editors -> EditStates]
      /\ UNCHANGED <<events, record, stale>> /\ Untouched
  BY DEF EditBegins, DocumentsInv, DocumentsOK, unedited, Untouched
<1>2. edit[r].op = "none"
  BY <1>1 DEF NoEdit
<1>3. Ruined => Ruined'
  BY <1>1, <1>2, RuinStays
<1>4. \A ref : (\E q \in Editors : Awaits(edit[q], ref)) => (\E q \in Editors : Awaits(edit'[q], ref))
  BY <1>1, <1>2, AwaitStays
<1>5. HomeHolds'
  BY <1>1, <1>3, <1>4 DEF DocumentsInv, HomeHolds, Excused, Found
<1>. QED
  BY <1>1, <1>5, EditKeeps DEF DocumentsInv, DocumentsOK

LEMMA ChecksHold ==
    ASSUME DocumentsInv, copying.by # "import", NEW r \in Editors, NEW id \in Documents, NEW form \in Forms(id),
           CreateChecks(r, id, form) \/ UpdateChecks(r, id, form)
    PROVE  DocumentsInv'
<1>0. form \in DocsOf(Home, id) /\ form \in AnyDoc
  BY FormsFit, DocFields
<1>1. PICK op \in {"create", "update"} : EditBegins(r, [op |-> op, id |-> id, form |-> form])
  BY DEF CreateChecks, UpdateChecks
<1>2. [op |-> op, id |-> id, form |-> form] \in EditStates /\ EditOK([op |-> op, id |-> id, form |-> form])
  BY <1>0 DEF EditStates, EditOK
<1>3. UNCHANGED <<record, stale>>
  BY DEF CreateChecks, UpdateChecks
<1>. QED
  BY <1>1, <1>2, <1>3, BeginHolds

LEMMA DeleteEventHolds ==
    ASSUME DocumentsInv, copying.by # "import", NEW r \in Editors, DeleteEvent(r)
    PROVE  DocumentsInv'
<1> DEFINE x == [op |-> "ruin", todo |-> <<"posDevices", "peripherals", "printers", "products", "ingredients", "categories">>]
<1>1. x.todo \in Seq(Remains) /\ x.op = "ruin" /\ x = [op |-> "ruin", todo |-> x.todo]
  BY DEF Remains
<1>2. EditBegins(r, x) /\ UNCHANGED <<record, stale>>
  BY DEF DeleteEvent
<1> HIDE DEF x
<1>3. x \in EditStates /\ EditOK(x)
  BY <1>1 DEF EditStates, EditOK
<1>. QED
  BY <1>2, <1>3, BeginHolds

(* One write changes a document: the others refer to what they did.        *)
LEMMA SaveHolds ==
    ASSUME DocumentsInv, copying.by # "import", NEW r \in Editors, SaveWrites(r)
    PROVE  DocumentsInv'
<1> DEFINE id == edit[r].id
           form == edit[r].form
<1>0. /\ edit[r].op \in {"create", "update"} /\ edit \in [Editors -> EditStates] /\ edit[r] \in EditStates
      /\ edit' = [edit EXCEPT ![r] = NoEdit] /\ UNCHANGED <<events, copying, export, files>>
      /\ record \in [{Home, Copy} -> Contents] /\ Fit(Home, record[Home])
  BY DEF SaveWrites, EditEnds, DocumentsInv, DocumentsOK, unedited
<1>1. id \in Documents /\ form \in DocsOf(Home, id) /\ form \in AnyDoc /\ form # NoDocument
  <2>1. id \in Documents /\ form \in DocsOf(Home, id)
    BY <1>0 DEF EditStates, NoEdit, DocumentsInv, DocumentsOK, EditOK
  <2>. QED
    BY <2>1, DocFields
<1>2. NoEdit \in EditStates /\ EditOK(NoEdit)
  BY DEF EditStates, EditOK, NoEdit
<1>3. Ruined => Ruined'
  BY <1>0, RuinStays
<1>4. \A ref : (\E q \in Editors : Awaits(edit[q], ref)) => (\E q \in Editors : Awaits(edit'[q], ref))
  BY <1>0, AwaitStays
<1>5. CASE UNCHANGED <<record, stale>>
  <2>1. HomeHolds'
    BY <1>0, <1>3, <1>4, <1>5 DEF DocumentsInv, HomeHolds, Excused, Found
  <2>. QED
    BY <1>0, <1>2, <1>5, <2>1, EditKeeps DEF Untouched, DocumentsInv, DocumentsOK
<1>6. CASE /\ record' = [record EXCEPT ![Home][id] = form]
           /\ stale' = {s \in stale : s[1] # id} \cup {<<id, ref>> : ref \in {x \in form.refs : ~Found(x)}}
  <2> HIDE DEF id, form
  <2>1. /\ record'[Home][id] = form /\ record'[Copy] = record[Copy]
        /\ \A y \in Documents \ {id} : record'[Home][y] = record[Home][y]
    BY <1>0, <1>1, <1>6, Apart DEF Contents
  <2>2. record' \in [{Home, Copy} -> Contents] /\ Fit(Home, record'[Home])
    <3>1. [record[Home] EXCEPT ![id] = form] \in Contents
      BY <1>0, <1>1 DEF Contents
    <3>2. record' \in [{Home, Copy} -> Contents]
      BY <1>0, <1>6, <3>1
    <3>. QED
      BY <1>0, <1>1, <2>1, <3>2 DEF Fit
  <2>3. HomeHolds'
    <3> SUFFICES ASSUME ~Ruined', NEW y \in Documents, record'[Home][y] # NoDocument,
                        NEW ref \in record'[Home][y].refs, ~(ref.field = "part")
                 PROVE  Excused(y, ref)'
      BY DEF HomeHolds, Excused
    <3>0. ref.event = Home /\ ref.id \in Documents
      BY <2>2, DocFields DEF Fit
    <3>1. Found(ref) => Found(ref)'
      BY <1>1, <2>1, <3>0 DEF Found
    <3>2. CASE y = id
      BY <1>6, <2>1, <3>1, <3>2 DEF Excused
    <3>3. CASE y # id
      <4>1. Excused(y, ref)
        BY <1>3, <2>1, <3>3 DEF DocumentsInv, HomeHolds
      <4>2. <<y, ref>> \in stale => <<y, ref>> \in stale'
        BY <1>6, <3>3
      <4>. QED
        BY <1>4, <3>1, <4>1, <4>2 DEF Excused
    <3>. QED
      BY <3>2, <3>3
  <2>. QED
    BY <1>0, <1>2, <2>1, <2>2, <2>3, EditKeeps DEF Untouched
<1>. QED
  BY <1>5, <1>6 DEF SaveWrites

(* A deletion takes the document: what refers to it is on its list.        *)
LEMMA DeleteHolds ==
    ASSUME DocumentsInv, copying.by # "import", NEW r \in Editors, NEW id \in Documents, DeleteTakes(r, id)
    PROVE  DocumentsInv'
<1> DEFINE x == IF Referring(id) = <<>> THEN NoEdit ELSE [op |-> "clean", id |-> id, todo |-> Referring(id)]
<1>0. /\ edit \in [Editors -> EditStates] /\ edit[r] = NoEdit
      /\ edit' = [edit EXCEPT ![r] = x] \/ (edit' = edit /\ x = edit[r])
      /\ UNCHANGED <<events, copying, export, files, stale>>
      /\ record \in [{Home, Copy} -> Contents] /\ Fit(Home, record[Home])
      /\ record' = [record EXCEPT ![Home][id] = NoDocument]
  BY DEF DeleteTakes, EditBegins, DocumentsInv, DocumentsOK, unedited
<1>1. x \in EditStates /\ EditOK(x)
  <2>1. Referring(id) = <<>> \/ Referring(id) \in Todos
    BY Targets DEF Fields
  <2>. QED
    BY <2>1 DEF EditStates, EditOK, NoEdit
<1>2. edit'[r] = x /\ edit[r].op = "none"
  BY <1>0 DEF NoEdit
<1>3. Referring(id) # <<>> => x = [op |-> "clean", id |-> id, todo |-> Referring(id)]
  OBVIOUS
<1> HIDE DEF x
<1>4. /\ record'[Home][id] = NoDocument /\ record'[Copy] = record[Copy]
      /\ \A y \in Documents \ {id} : record'[Home][y] = record[Home][y]
      /\ record' \in [{Home, Copy} -> Contents]
  <2>1. [record[Home] EXCEPT ![id] = NoDocument] \in Contents
    BY <1>0 DEF Contents
  <2>. QED
    BY <1>0, <2>1, Apart DEF Contents
<1>5. Fit(Home, record'[Home])
  BY <1>0, <1>4 DEF Fit
<1>6. Ruined => Ruined'
  BY <1>0, <1>2, RuinStays
<1>7. \A ref : (\E q \in Editors : Awaits(edit[q], ref)) => (\E q \in Editors : Awaits(edit'[q], ref))
  BY <1>0, <1>2, AwaitStays
<1>8. HomeHolds'
  <2> SUFFICES ASSUME ~Ruined', NEW y \in Documents, record'[Home][y] # NoDocument,
                      NEW ref \in record'[Home][y].refs, ref.field # "part"
               PROVE  Excused(y, ref)'
    BY DEF HomeHolds, Excused
  <2>0. /\ ref.event = Home /\ ref.id \in Documents /\ ref.field \in Fields /\ ref.id \in TargetOf(ref.field)
        /\ y # id
    BY <1>4, <1>5, DocFields DEF Fit
  <2>1. CASE ref.id = id
    <3>1. \E i \in 1 .. Len(Referring(id)) : Referring(id)[i] = ref.field
      BY <2>0, <2>1, Targets
    <3>2. Referring(id) # <<>>
      BY <3>1
    <3>3. Awaits(edit'[r], ref)
      BY <1>2, <1>3, <2>1, <3>1, <3>2 DEF Awaits
    <3>. QED
      BY <3>3 DEF Excused
  <2>2. CASE ref.id # id
    <3>1. Excused(y, ref)
      BY <1>4, <1>6, <2>0 DEF DocumentsInv, HomeHolds
    <3>2. Found(ref) => Found(ref)'
      BY <1>4, <2>0, <2>2 DEF Found
    <3>. QED
      BY <1>0, <1>7, <3>1, <3>2 DEF Excused
  <2>. QED
    BY <2>1, <2>2
<1>. QED
  BY <1>0, <1>1, <1>4, <1>5, <1>8, EditKeeps DEF Untouched

(* The next field on its list: no document refers to the deleted one by it *)
(* any more, and nothing refers to the documents that go with it.          *)
LEMMA CleanHolds ==
    ASSUME DocumentsInv, copying.by # "import", NEW r \in Editors, DeleteCleans(r)
    PROVE  DocumentsInv'
<1> DEFINE f == Head(edit[r].todo)
           gone == edit[r].id
           ref0 == Ref(f, gone)
           Cleaned(doc) == IF doc = NoDocument \/ ref0 \notin doc.refs THEN doc
                           ELSE IF f \in {"till", "category"} THEN NoDocument
                           ELSE [doc EXCEPT !.refs = @ \ {ref0}]
           x == IF Tail(edit[r].todo) = <<>> THEN NoEdit
                ELSE [op |-> "clean", id |-> gone, todo |-> Tail(edit[r].todo)]
<1>0. /\ edit \in [Editors -> EditStates] /\ edit[r] \in EditStates /\ edit[r].op = "clean"
      /\ UNCHANGED <<events, copying, export, files, stale>>
      /\ record \in [{Home, Copy} -> Contents] /\ Fit(Home, record[Home])
  BY DEF DeleteCleans, DocumentsInv, DocumentsOK, unedited
<1>3. /\ edit[r] \in [op : {"clean"}, id : Documents, todo : Todos]
      /\ f \in Fields /\ gone \in Documents
  BY <1>0 DEF EditStates, NoEdit, Todos, Fields
<1>1. edit' = [edit EXCEPT ![r] = x]
  <2>1. [edit[r] EXCEPT !.todo = Tail(edit[r].todo)] = [op |-> "clean", id |-> gone, todo |-> Tail(edit[r].todo)]
    BY <1>3, WithTodo
  <2>2. edit' = [edit EXCEPT ![r] = IF Tail(edit[r].todo) = <<>> THEN NoEdit
                                    ELSE [edit[r] EXCEPT !.todo = Tail(edit[r].todo)]]
    BY Zenon DEF DeleteCleans
  <2>. QED
    BY <2>1, <2>2, Zenon
<1>2. record' = [record EXCEPT ![Home] = [id \in Documents |-> Cleaned(record[Home][id])]]
  BY DEF DeleteCleans, Ref
<1>4. /\ x \in EditStates /\ EditOK(x)
      /\ \A ref : Awaits(edit[r], ref) => Awaits(x, ref) \/ (ref.id = gone /\ ref.field = f)
  <2>1. PICK todo \in Todos : edit[r].todo = todo
    BY <1>3
  <2>2. CASE Len(todo) = 1
    <3>1. x = NoEdit /\ f = todo[1]
      BY <2>1, <2>2, Todo
    <3>. QED
      BY <2>1, <2>2, <3>1 DEF EditStates, EditOK, NoEdit, Awaits
  <2>3. CASE Len(todo) # 1
    <3>1. /\ x = [op |-> "clean", id |-> gone, todo |-> Tail(todo)] /\ f = todo[1]
          /\ Tail(todo) \in Todos /\ Len(todo) = 2 /\ Len(Tail(todo)) = 1 /\ Tail(todo)[1] = todo[2]
      BY <2>1, <2>3, Todo
    <3> HIDE DEF x
    <3>2. \A ref : Awaits(edit[r], ref) => Awaits(x, ref) \/ (ref.id = gone /\ ref.field = f)
      <4> SUFFICES ASSUME NEW ref, Awaits(edit[r], ref), ref.field # f PROVE Awaits(x, ref)
        BY <2>1 DEF Awaits
      <4>1. edit[r].id = ref.id /\ ref.field = todo[2]
        BY <2>1, <3>1 DEF Awaits
      <4>2. x.op = "clean" /\ x.id = ref.id /\ x.todo = Tail(todo)
        BY <3>1, <4>1
      <4>3. Len(x.todo) = 1 /\ x.todo[1] = ref.field
        BY <3>1, <4>1, <4>2, Zenon
      <4>4. 1 \in 1 .. Len(x.todo)
        BY <4>3
      <4>. QED
        BY <4>2, <4>3, <4>4, Zenon DEF Awaits
    <3>3. x \in [op : {"clean"}, id : Documents, todo : Todos]
      BY <1>3, <3>1
    <3>. QED
      BY <3>2, <3>3 DEF EditStates, EditOK
  <2>. QED
    BY <2>2, <2>3
<1> HIDE DEF x
<1>5. /\ record'[Copy] = record[Copy]
      /\ \A y \in Documents : record'[Home][y] = Cleaned(record[Home][y])
  BY <1>0, <1>2, Apart
<1>6. ASSUME NEW y \in Documents, record[Home][y] # NoDocument
      PROVE  /\ \/ record'[Home][y] = NoDocument /\ f \in {"till", "category"} /\ y \in HolderOf(f)
                \/ /\ record'[Home][y] # NoDocument /\ record'[Home][y] \in DocsOf(Home, y)
                   /\ ref0 \notin record'[Home][y].refs /\ record'[Home][y].refs \subseteq record[Home][y].refs
  <2> DEFINE doc == record[Home][y]
  <2>1. doc \in DocsOf(Home, y)
    BY <1>0, <1>6 DEF Fit
  <2>2. /\ doc = [role |-> doc.role, refs |-> doc.refs]
        /\ \A z \in doc.refs : y \in HolderOf(z.field)
    BY <2>1, DocFields
  <2> HIDE DEF doc
  <2>3. [doc EXCEPT !.refs = @ \ {ref0}] = [role |-> doc.role, refs |-> doc.refs \ {ref0}]
    BY <2>1, WithRefs
  <2>4. [role |-> doc.role, refs |-> doc.refs \ {ref0}] \in DocsOf(Home, y)
    BY <2>1 DEF DocsOf
  <2>5. \A z \in DocsOf(Home, y) : z # NoDocument
    BY DocFields
  <2>6. ref0.field = f
    BY DEF Ref
  <2> HIDE DEF ref0
  <2>7. CASE ref0 \notin doc.refs
    BY <1>5, <2>1, <2>5, <2>7 DEF doc
  <2>8. CASE ref0 \in doc.refs /\ f \in {"till", "category"}
    BY <1>5, <1>6, <2>2, <2>6, <2>8 DEF doc
  <2>9. CASE ref0 \in doc.refs /\ f \notin {"till", "category"}
    <3>1. record'[Home][y] = [role |-> doc.role, refs |-> doc.refs \ {ref0}]
      BY <1>5, <1>6, <2>3, <2>9 DEF doc
    <3>. QED
      BY <2>4, <2>5, <3>1 DEF doc
  <2>. QED
    BY <2>7, <2>8, <2>9
<1>7. record' \in [{Home, Copy} -> Contents] /\ Fit(Home, record'[Home])
  <2>1. \A y \in Documents : record[Home][y] = NoDocument => record'[Home][y] = NoDocument
    BY <1>5
  <2>2. Fit(Home, record'[Home])
    BY <1>6, <2>1 DEF Fit
  <2>3. [id \in Documents |-> Cleaned(record[Home][id])] \in Contents
    BY <1>5, <2>2, DocFields DEF Fit, Contents
  <2>. QED
    BY <1>0, <1>2, <2>2, <2>3
<1>8. Ruined => Ruined'
  BY <1>0, <1>1, RuinStays
<1>9. HomeHolds'
  <2> SUFFICES ASSUME ~Ruined', NEW y \in Documents, record'[Home][y] # NoDocument,
                      NEW ref \in record'[Home][y].refs, ref.field # "part"
               PROVE  Excused(y, ref)'
    BY DEF HomeHolds, Excused
  <2>0. /\ ref \in Refs(Home) /\ ref.event = Home /\ ref.id \in Documents /\ ref.field \in Fields
        /\ ref.id \in TargetOf(ref.field)
    BY <1>7, DocFields DEF Fit
  <2>1. /\ record[Home][y] # NoDocument /\ ref \in record[Home][y].refs /\ ref # ref0
    <3>1. record[Home][y] # NoDocument
      BY <1>5
    <3>. QED
      BY <1>6, <3>1
  <2>2. Excused(y, ref)
    BY <1>8, <2>1 DEF DocumentsInv, HomeHolds
  <2>3. ~(ref.id = gone /\ ref.field = f)
    BY <2>0, <2>1 DEF Ref, Refs
  <2>4. Found(ref) => Found(ref)'
    <3> SUFFICES ASSUME Found(ref), ~Found(ref)' PROVE FALSE
      OBVIOUS
    <3>1. record[Home][ref.id] # NoDocument /\ record'[Home][ref.id] = NoDocument
      BY <2>0 DEF Found
    <3>2. f \in {"till", "category"} /\ ref.id \in HolderOf(f)
      BY <1>6, <2>0, <3>1
    <3>3. Referring(ref.id) = <<>>
      BY <1>3, <2>0, <3>2, Targets
    <3>4. \E i \in 1 .. Len(Referring(ref.id)) : Referring(ref.id)[i] = ref.field
      BY <2>0, Targets
    <3>. QED
      BY <3>3, <3>4
  <2>5. ASSUME \E q \in Editors : Awaits(edit[q], ref) PROVE \E q \in Editors : Awaits(edit'[q], ref)
    BY <1>0, <1>1, <1>4, <2>3, <2>5, AwaitStays
  <2>. QED
    BY <1>0, <2>2, <2>4, <2>5 DEF Excused
<1>. QED
  BY <1>0, <1>1, <1>4, <1>5, <1>7, <1>9, EditKeeps DEF Untouched

(* The deletion of the event.                                              *)
LEMMA RuinHolds ==
    ASSUME DocumentsInv, copying.by # "import", NEW r \in Editors, DeleteEventGoesOn(r)
    PROVE  DocumentsInv'
<1>0. /\ edit \in [Editors -> EditStates] /\ edit[r] \in EditStates /\ edit[r].op = "ruin"
      /\ UNCHANGED <<copying, export, files, stale>>
      /\ record \in [{Home, Copy} -> Contents] /\ Fit(Home, record[Home])
  BY DEF DeleteEventGoesOn, DocumentsInv, DocumentsOK, unedited
<1>1. edit[r] \in [op : {"ruin"}, todo : Seq(Remains)]
  BY <1>0 DEF EditStates, NoEdit
<1>2. CASE events' = events \ {Home} /\ edit' = [edit EXCEPT ![r] = NoEdit] /\ record' = record
  <2>1. Ruined'
    BY <1>2 DEF Ruined
  <2>2. NoEdit \in EditStates /\ EditOK(NoEdit)
    BY DEF EditStates, EditOK, NoEdit
  <2>. QED
    BY <1>0, <1>2, <2>1, <2>2, EditKeeps DEF Untouched, HomeHolds
<1>3. CASE /\ edit[r].todo # <<>>
           /\ record' = [record EXCEPT ![Home] = [id \in Documents |->
                    IF id \in Collection[Head(edit[r].todo)] THEN NoDocument ELSE @[id]]]
           /\ edit' = [edit EXCEPT ![r].todo = Tail(@)]
           /\ events' = events
  <2> DEFINE x == [op |-> "ruin", todo |-> Tail(edit[r].todo)]
  <2>1. x \in EditStates /\ EditOK(x) /\ x.op = "ruin"
    BY <1>1, <1>3 DEF EditStates, EditOK
  <2>2. edit' = [edit EXCEPT ![r] = x]
    <3>1. [edit[r] EXCEPT !.todo = Tail(@)] = x
      BY <1>1, WithRest
    <3>. QED
      BY <1>0, <1>3, <3>1
  <2> HIDE DEF x
  <2>3. Ruined'
    BY <1>0, <2>1, <2>2 DEF Ruined
  <2>4. record'[Copy] = record[Copy] /\ \A y \in Documents : record'[Home][y] \in {record[Home][y], NoDocument}
    BY <1>0, <1>3, Apart
  <2>5. Fit(Home, record'[Home])
    BY <1>0, <2>4 DEF Fit
  <2>6. record' \in [{Home, Copy} -> Contents]
    <3>1. [id \in Documents |-> IF id \in Collection[Head(edit[r].todo)] THEN NoDocument ELSE record[Home][id]] \in Contents
      BY <1>0 DEF Contents
    <3>. QED
      BY <1>0, <1>3, <3>1
  <2>. QED
    BY <1>0, <1>3, <2>1, <2>2, <2>3, <2>4, <2>5, <2>6, EditKeeps DEF Untouched, HomeHolds
<1>. QED
  BY <1>2, <1>3 DEF DeleteEventGoesOn, EditEnds

LEMMA EditHolds == ASSUME DocumentsInv, EditNext PROVE DocumentsInv'
<1>1. copying.by # "import"
  BY DEF EditNext
<1>. QED
  BY <1>1, ChecksHold, SaveHolds, DeleteHolds, CleanHolds, DeleteEventHolds, RuinHolds DEF EditNext

-----------------------------------------------------------------------------
(* The export, the clone and the import.                                   *)

(* They change the copy, and leave the event and its editors alone.        *)
LEMMA CopyKeeps ==
    ASSUME DocumentsInv, UNCHANGED <<edit, stale>>, Home \in events' <=> Home \in events,
           record' \in [{Home, Copy} -> Contents], record'[Home] = record[Home], Fit(Copy, record'[Copy]),
           export' \in [pc : {"none", "read", "done"}, unread : SUBSET Collections, docs : Contents],
           Fit(Home, export'.docs), copying' \in Copyings, CopyingOK',
           CopyHolds', ImportHolds', FilesOK'
    PROVE  DocumentsInv'
<1>1. DocumentsOK'
  BY DEF DocumentsInv, DocumentsOK, EditOK, Fit
<1>2. Ruined' <=> Ruined
  BY DEF Ruined
<1>3. HomeHolds'
  <2> SUFFICES ASSUME ~Ruined', NEW id \in Documents, record'[Home][id] # NoDocument,
                      NEW ref \in record'[Home][id].refs
               PROVE  Excused(id, ref)'
    BY DEF HomeHolds
  <2>1. record[Home][id] \in DocsOf(Home, id) /\ ref \in record[Home][id].refs
    BY DEF DocumentsInv, DocumentsOK, Fit
  <2>2. ref.event = Home
    BY <2>1, DocFields
  <2>3. Excused(id, ref)
    BY <1>2, <2>1 DEF DocumentsInv, HomeHolds
  <2>4. Found(ref) => Found(ref)'
    BY <2>2 DEF Found
  <2>. QED
    BY <2>3, <2>4 DEF Excused, Awaits
<1>. QED
  BY <1>1, <1>3 DEF DocumentsInv

LEMMA Empty == NoBundle \in Contents /\ Fit(Home, NoBundle) /\ Fit(Copy, NoBundle)
BY DEF NoBundle, Contents, Fit

LEMMA ExportHolds == ASSUME DocumentsInv, ExportNext PROVE DocumentsInv'
<1>0. UNCHANGED <<edited, copying, files>>
  BY DEF ExportNext, ExportBegins, ExportReads
<1>1. /\ UNCHANGED <<events, record, edit, stale, copying, files>> /\ Stages' = Stages
      /\ export \in [pc : {"none", "read", "done"}, unread : SUBSET Collections, docs : Contents]
      /\ record \in [{Home, Copy} -> Contents] /\ Fit(Home, record[Home]) /\ Fit(Copy, record[Copy])
      /\ Fit(Home, export.docs) /\ copying \in Copyings
  BY <1>0 DEF DocumentsInv, DocumentsOK, edited, Stages
<1>2. /\ export' \in [pc : {"none", "read", "done"}, unread : SUBSET Collections, docs : Contents]
      /\ Fit(Home, export'.docs)
  <2>1. CASE ExportBegins
    BY <2>1, Empty DEF ExportBegins, NoExport
  <2>2. CASE \E c \in Collections : ExportReads(c)
    <3>1. PICK c \in Collections : ExportReads(c)
      BY <2>2
    <3> DEFINE docs == [id \in Documents |-> IF id \in Collection[c] THEN record[Home][id] ELSE export.docs[id]]
    <3>2. docs \in Contents /\ Fit(Home, docs)
      BY <1>1 DEF Contents, Fit
    <3>3. export' = [pc |-> IF export.unread = {c} THEN "done" ELSE "read", unread |-> export.unread \ {c}, docs |-> docs]
      BY <3>1 DEF ExportReads
    <3> HIDE DEF docs
    <3>. QED
      BY <1>1, <3>2, <3>3
  <2>. QED
    BY <2>1, <2>2 DEF ExportNext
<1>3. CopyingOK' /\ FilesOK'
  BY <1>1 DEF DocumentsInv, DocumentsOK, CopyingOK, FilesOK, Fit, Arrived, SoFar, Dangling, Mapped
<1>4. CopyHolds'
  BY <1>1 DEF DocumentsInv, DocumentsOK, CopyHolds, Fit, Arrived, SoFar, Dangling, Mapped
<1>5. ImportHolds'
  BY <1>1 DEF DocumentsInv, DocumentsOK, ImportHolds, Fit, Arrived, SoFar, Dangling, Mapped
<1>. QED
  BY <1>1, <1>2, <1>3, <1>4, <1>5, CopyKeeps

(* The order of the collections.                                           *)
LEMMA Order ==
    /\ copying.by = "clone" => Stages = <<"printers", "peripherals", "posDevices", "categories", "products">> /\ Len(Stages) = 5
    /\ copying.by # "clone" =>
          /\ Len(Stages) = 7
          /\ Stages[1] = "printers" /\ Stages[2] = "peripherals" /\ Stages[3] = "categories"
          /\ Stages[4] = "ingredients" /\ Stages[5] = "products" /\ Stages[6] = "menus" /\ Stages[7] = "posDevices"
BY DEF Stages

LEMMA Members ==
    /\ Collection["printers"] = PrinterIds /\ Collection["peripherals"] = PeripheralIds
    /\ Collection["posDevices"] = PosDeviceIds /\ Collection["categories"] = CategoryIds
    /\ Collection["ingredients"] = IngredientIds /\ Collection["products"] = ProductIds
    /\ Collection["menus"] = ProductIds
BY DEF Collection

(* What is written of a document is one of the copy.                       *)
LEMMA MappedFits ==
    ASSUME NEW id \in Documents, NEW doc \in DocsOf(Home, id), NEW role \in Roles, NEW refs \in SUBSET doc.refs
    PROVE  /\ [role |-> role, refs |-> Mapped(refs)] \in DocsOf(Copy, id)
           /\ \A y \in Mapped(refs) : \E x \in refs : y.id = x.id
<1>1. \A x \in refs : /\ [x EXCEPT !.event = Copy] \in RefsFrom(Copy, id) /\ [x EXCEPT !.event = Copy].id = x.id
  <2> SUFFICES ASSUME NEW x \in refs PROVE [x EXCEPT !.event = Copy] \in RefsFrom(Copy, id) /\ [x EXCEPT !.event = Copy].id = x.id
    OBVIOUS
  <2>1. x \in Refs(Home) /\ x.id \in TargetOf(x.field) /\ id \in HolderOf(x.field)
    BY DocFields
  <2> DEFINE y == [x EXCEPT !.event = Copy]
  <2>2. y \in Refs(Copy) /\ y.id = x.id /\ y.field = x.field
    BY <2>1 DEF Refs
  <2> HIDE DEF y
  <2>3. y \in RefsFrom(Copy, id)
    BY <2>1, <2>2 DEF RefsFrom
  <2>. QED
    BY <2>2, <2>3 DEF y
<1>2. Mapped(refs) \in SUBSET RefsFrom(Copy, id)
  BY <1>1 DEF Mapped
<1>. QED
  BY <1>1, <1>2 DEF DocsOf, Mapped

(* The facts the steps of a copy start from.                               *)
LEMMA CopyFacts ==
    ASSUME DocumentsInv
    PROVE  /\ copying \in Copyings /\ CopyingOK /\ CopyHolds /\ ImportHolds /\ FilesOK
           /\ record \in [{Home, Copy} -> Contents] /\ Fit(Copy, record[Copy]) /\ Fit(Home, record[Home])
           /\ export \in [pc : {"none", "read", "done"}, unread : SUBSET Collections, docs : Contents]
           /\ Fit(Home, export.docs) /\ Home # Copy
BY Apart DEF DocumentsInv, DocumentsOK

LEMMA CloneBeginsHolds == ASSUME DocumentsInv, CloneBegins PROVE DocumentsInv'
<1>0. /\ copying.pc = "none" /\ UNCHANGED <<edit, stale, export, record, files>> /\ events' = events \cup {Copy}
      /\ copying' = [NoCopying EXCEPT !.by = "clone", !.pc = "run"]
  BY DEF CloneBegins, uncopied
<1>1. /\ copying' \in Copyings /\ copying'.by = "clone" /\ copying'.pc = "run" /\ copying'.stage = 1
      /\ copying'.made = {} /\ copying'.from = NoBundle
  BY <1>0, Empty DEF NoCopying, Copyings
<1>2. CopyingOK'
  <2>1. Len(Stages') = 5
    BY <1>1 DEF Stages
  <2>. QED
    BY <1>1, <2>1, Empty DEF CopyingOK, Fit
<1>3. CopyHolds'
  BY <1>0, <1>1, CopyFacts DEF CopyHolds
<1>4. ImportHolds' /\ FilesOK'
  BY <1>1 DEF ImportHolds, FilesOK
<1>. QED
  BY <1>0, <1>1, <1>2, <1>3, <1>4, CopyFacts, CopyKeeps

LEMMA ImportBeginsHolds == ASSUME DocumentsInv, ImportBegins PROVE DocumentsInv'
<1>0. /\ copying.pc = "none" /\ UNCHANGED <<events, edit, stale, record, files>> /\ export' = NoExport
      /\ copying' = [NoCopying EXCEPT !.by = "import", !.pc = "assets", !.from = export.docs, !.left = Assets]
  BY DEF ImportBegins, edited
<1>1. /\ copying' \in Copyings /\ copying'.by = "import" /\ copying'.pc = "assets" /\ copying'.stage = 1
      /\ copying'.made = {} /\ copying'.from = export.docs /\ copying'.left = Assets
  BY <1>0, CopyFacts DEF NoCopying, Copyings
<1>2. CopyingOK'
  <2>1. Len(Stages') = 7
    BY <1>1 DEF Stages
  <2>. QED
    BY <1>1, <2>1, CopyFacts DEF CopyingOK, Fit
<1>3. CopyHolds'
  BY <1>0, <1>1, CopyFacts DEF CopyHolds
<1>4. ImportHolds' /\ FilesOK'
  BY <1>0, <1>1, CopyFacts DEF ImportHolds, FilesOK
<1>5. /\ export' \in [pc : {"none", "read", "done"}, unread : SUBSET Collections, docs : Contents]
      /\ Fit(Home, export'.docs)
  BY <1>0, Empty DEF NoExport
<1>. QED
  BY <1>0, <1>1, <1>2, <1>3, <1>4, <1>5, CopyFacts, CopyKeeps

(* The images, and then the event, still empty.                            *)
LEMMA ImportRestoresHolds == ASSUME DocumentsInv, ImportRestores PROVE DocumentsInv'
<1>0. /\ copying.pc = "assets" /\ UNCHANGED <<edit, stale, export, record>> /\ copying.by = "import"
  BY CopyFacts DEF ImportRestores, uncopied, CopyingOK
<1>1. /\ copying \in Copyings /\ copying.made = {} /\ copying.stage = 1 /\ files = Assets \ copying.left
      /\ copying.left \subseteq Assets /\ \A id \in Documents : record[Copy][id] = NoDocument
  BY <1>0, CopyFacts DEF CopyHolds, ImportHolds, Copyings
<1>2. CASE copying.left = {} /\ copying' = [copying EXCEPT !.pc = "run"] /\ events' = events \cup {Copy} /\ files' = files
  <2>1. /\ copying' \in Copyings /\ copying'.by = "import" /\ copying'.pc = "run" /\ copying'.stage = 1
        /\ copying'.made = {} /\ copying'.from = copying.from
    BY <1>0, <1>1, <1>2 DEF Copyings
  <2>2. CopyingOK'
    <3>1. Len(Stages') = 7
      BY <2>1 DEF Stages
    <3>. QED
      BY <2>1, <3>1, CopyFacts DEF CopyingOK, Fit
  <2>3. CopyHolds' /\ FilesOK'
    BY <1>0, <1>1, <2>1 DEF CopyHolds, FilesOK
  <2>4. ImportHolds'
    <3>1. \A id \in Documents : ~Arrived(id)'
      BY <2>1 DEF Arrived
    <3>. QED
      BY <1>0, <1>1, <1>2, <2>1, <3>1 DEF ImportHolds
  <2>. QED
    BY <1>0, <1>2, <2>1, <2>2, <2>3, <2>4, CopyFacts, CopyKeeps
<1>3. CASE /\ events' = events
           /\ \E a \in copying.left : files' = files \cup {a} /\ copying' = [copying EXCEPT !.left = @ \ {a}]
  <2>0. PICK a \in copying.left : files' = files \cup {a} /\ copying' = [copying EXCEPT !.left = copying.left \ {a}]
    BY <1>3
  <2>1. /\ copying' \in Copyings /\ copying'.by = "import" /\ copying'.pc = "assets" /\ copying'.stage = 1
        /\ copying'.made = {} /\ copying'.from = copying.from /\ copying'.left = copying.left \ {a}
    BY <1>0, <1>1, <2>0 DEF Copyings
  <2>2. CopyingOK'
    <3>1. Len(Stages') = 7
      BY <2>1 DEF Stages
    <3>. QED
      BY <2>1, <3>1, CopyFacts DEF CopyingOK, Fit
  <2>3. CopyHolds' /\ FilesOK'
    BY <1>0, <1>1, <2>1 DEF CopyHolds, FilesOK
  <2>4. ImportHolds'
    <3>1. files' = Assets \ copying'.left
      BY <1>1, <2>0, <2>1
    <3>. QED
      BY <2>1, <3>1 DEF ImportHolds
  <2>. QED
    BY <1>0, <1>3, <2>1, <2>2, <2>3, <2>4, CopyFacts, CopyKeeps
<1>. QED
  BY <1>2, <1>3 DEF ImportRestores

LEMMA CopyEndsHolds == ASSUME DocumentsInv, CopyEnds PROVE DocumentsInv'
<1>0. /\ copying.pc = "run" /\ copying.stage > Len(Stages) /\ copying' = [copying EXCEPT !.pc = "done"]
      /\ UNCHANGED <<events, edit, stale, export, record, files>>
  BY DEF CopyEnds, uncopied
<1>1. /\ copying' \in Copyings /\ copying'.by = copying.by /\ copying'.pc = "done" /\ copying'.stage = copying.stage
      /\ copying'.made = copying.made /\ copying'.from = copying.from /\ Stages' = Stages
  BY <1>0, CopyFacts DEF Copyings, Stages
<1>2. copying.by = "import" => copying.stage = 8
  <2> SUFFICES ASSUME copying.by = "import" PROVE copying.stage = 8
    OBVIOUS
  <2>1. Len(Stages) = 7
    BY Order
  <2>2. copying.stage \in 1 .. 8 /\ copying.stage > 7
    BY <1>0, <2>1, CopyFacts DEF CopyingOK
  <2>. QED
    BY <2>2
<1>3. CopyingOK' /\ CopyHolds' /\ FilesOK'
  BY <1>0, <1>1, CopyFacts DEF CopyingOK, CopyHolds, FilesOK, Fit
<1>4. ImportHolds'
  <2>1. \A id \in Documents : (Arrived(id)' <=> Arrived(id)) /\ SoFar(id)' = SoFar(id)
    BY <1>1 DEF Arrived, SoFar
  <2>2. \A refs : Mapped(refs)' = Mapped(refs)
    BY DEF Mapped
  <2>. QED
    BY <1>0, <1>1, <1>2, <2>1, <2>2, CopyFacts DEF ImportHolds
<1>. QED
  BY <1>0, <1>1, <1>3, <1>4, CopyFacts, CopyKeeps

(* Failures.                                                               *)
LEMMA CopyFailsHolds == ASSUME DocumentsInv, CopyFails \/ CopyDies PROVE DocumentsInv'
<1>0. UNCHANGED <<events, edit, stale, export, record, files>>
  BY DEF CopyFails, CopyDies, uncopied
<1>1. /\ copying' \in Copyings /\ copying'.by = copying.by /\ copying'.stage = copying.stage /\ copying'.made = copying.made
      /\ copying'.from = copying.from /\ copying'.fault /\ Stages' = Stages
      /\ \/ /\ copying'.pc = "failed" /\ copying.pc \in {"assets", "run", "undo"}
            /\ copying.by = "import" => copying'.spoiled
         \/ copying'.pc = "undo" /\ copying.pc = "run" /\ copying.by = "import"
  <2>1. CASE CopyDies
    BY <2>1, CopyFacts DEF CopyDies, Copyings, Stages
  <2>2. CASE CopyFails
    <3>1. /\ copying.pc \in {"assets", "run"}
          /\ copying' = [copying EXCEPT !.fault = TRUE, !.spoiled = copying.spoiled \/ copying.pc = "assets",
                         !.pc = IF copying.by = "import" /\ copying.pc = "run" THEN "undo" ELSE "failed"]
      BY <2>2 DEF CopyFails
    <3>2. (copying.spoiled \/ copying.pc = "assets") \in BOOLEAN
      OBVIOUS
    <3>3. /\ copying' \in Copyings /\ copying'.by = copying.by /\ copying'.stage = copying.stage /\ copying'.made = copying.made
          /\ copying'.from = copying.from /\ copying'.fault = TRUE
          /\ copying'.pc = IF copying.by = "import" /\ copying.pc = "run" THEN "undo" ELSE "failed"
          /\ copying'.spoiled = (copying.spoiled \/ copying.pc = "assets")
      BY <3>1, <3>2, CopyFacts DEF Copyings
    <3>. QED
      BY <3>1, <3>3 DEF Stages
  <2>. QED
    BY <2>1, <2>2
<1>2. CopyingOK' /\ CopyHolds' /\ FilesOK'
  BY <1>0, <1>1, CopyFacts DEF CopyingOK, CopyHolds, FilesOK, Fit
<1>3. ImportHolds'
  BY <1>1 DEF ImportHolds
<1>. QED
  BY <1>0, <1>1, <1>2, <1>3, CopyFacts, CopyKeeps

LEMMA UndoneHolds ==
    ASSUME DocumentsInv, NEW kept, ImportUndone(kept)
    PROVE  DocumentsInv'
<1>0. /\ copying.pc = "undo" /\ copying.by = "import" /\ UNCHANGED <<edit, stale, export>>
      /\ copying' = [copying EXCEPT !.pc = "failed", !.spoiled = kept # {}]
      /\ Home \in events' <=> Home \in events
  BY CopyFacts DEF ImportUndone, uncopied, CopyingOK
<1>1. /\ copying' \in Copyings /\ copying'.by = "import" /\ copying'.stage = copying.stage /\ copying'.pc = "failed"
      /\ copying'.from = copying.from /\ copying'.fault = copying.fault /\ Stages' = Stages
      /\ copying'.spoiled = (kept # {})
  BY <1>0, CopyFacts DEF Copyings, Stages
<1>2. CopyingOK' /\ CopyHolds' /\ FilesOK'
  BY <1>0, <1>1, CopyFacts DEF CopyingOK, CopyHolds, FilesOK, Fit
<1>3. /\ record'[Home] = record[Home] /\ record' \in [{Home, Copy} -> Contents]
      /\ record'[Copy] = [id \in Documents |-> IF \E c \in kept \ {"event", "files"} : id \in Collection[c]
                                               THEN record[Copy][id] ELSE NoDocument]
  <2> DEFINE docs == [id \in Documents |-> IF \E c \in kept \ {"event", "files"} : id \in Collection[c]
                                           THEN record[Copy][id] ELSE NoDocument]
  <2>1. docs \in Contents
    BY CopyFacts DEF Contents
  <2>2. record' = [record EXCEPT ![Copy] = docs]
    BY DEF ImportUndone
  <2> HIDE DEF docs
  <2>3. record'[Home] = record[Home] /\ record' \in [{Home, Copy} -> Contents] /\ record'[Copy] = docs
    BY <2>1, <2>2, CopyFacts
  <2>. QED
    BY <2>3 DEF docs
<1>4. Fit(Copy, record'[Copy])
  BY <1>3, CopyFacts DEF Fit
<1>5. ImportHolds'
  <2>1. copying.fault \/ Dangling
    BY <1>0, CopyFacts DEF ImportHolds
  <2>2. Dangling' <=> Dangling
    BY <1>1 DEF Dangling
  <2>3. kept = {} => Copy \notin events' /\ files' = {} /\ record'[Copy] = NoBundle
    <3>1. kept = {} => events' = events \ {Copy} /\ files' = {}
      BY DEF ImportUndone
    <3>2. kept = {} => record'[Copy] = NoBundle
      BY <1>3 DEF NoBundle
    <3>. QED
      BY <3>1, <3>2
  <2>. QED
    BY <1>1, <2>1, <2>2, <2>3 DEF ImportHolds
<1>. QED
  BY <1>0, <1>1, <1>2, <1>3, <1>4, <1>5, CopyFacts, CopyKeeps

(* A collection is copied.                                                 *)
LEMMA Schedule ==
    ASSUME copying.by # "clone", NEW k \in 1 .. 7
    PROVE  /\ Collection[Stages[k]] \subseteq Documents
           /\ Stages[k] = "products" <=> k = 5
           /\ k \in {5, 6} => Collection[Stages[k]] = ProductIds
           /\ k \notin {5, 6} => Collection[Stages[k]] \cap ProductIds = {}
<1> USE Apart
<1>0. /\ Collection[Stages[1]] = PrinterIds /\ Collection[Stages[2]] = PeripheralIds /\ Collection[Stages[3]] = CategoryIds
      /\ Collection[Stages[4]] = IngredientIds /\ Collection[Stages[5]] = ProductIds /\ Collection[Stages[6]] = ProductIds
      /\ Collection[Stages[7]] = PosDeviceIds
  BY Order, Members
<1>. QED
  BY <1>0, Order DEF Documents

LEMMA Holders ==
    ASSUME copying.by # "clone", NEW k \in 1 .. 7, NEW id \in Collection[Stages[k]], NEW f \in Fields, id \in HolderOf(f)
    PROVE  \/ k = 3 /\ f = "kitchen"
           \/ k \in {5, 6} /\ f \in {"category", "recipe", "part"}
           \/ k = 7 /\ f \in {"till", "terminal", "box"}
<1> USE Apart
<1>0. /\ Collection[Stages[1]] = PrinterIds /\ Collection[Stages[2]] = PeripheralIds /\ Collection[Stages[3]] = CategoryIds
      /\ Collection[Stages[4]] = IngredientIds /\ Collection[Stages[5]] = ProductIds /\ Collection[Stages[6]] = ProductIds
      /\ Collection[Stages[7]] = PosDeviceIds
  BY Order, Members
<1>1. CASE f = "kitchen"
  <2>1. id \in CategoryIds
    BY <1>1 DEF HolderOf
  <2>. QED
    BY <1>0, <1>1, <2>1
<1>2. CASE f \in {"till", "terminal", "box"}
  <2>1. id \in PosDeviceIds
    BY <1>2 DEF HolderOf
  <2>. QED
    BY <1>0, <1>2, <2>1
<1>3. CASE f \in {"category", "recipe", "part"}
  <2>1. id \in ProductIds
    BY <1>3 DEF HolderOf
  <2>. QED
    BY <1>0, <1>3, <2>1
<1>. QED
  BY <1>1, <1>2, <1>3 DEF Fields

(* What a document refers to comes before it, the parts of menus at least  *)
(* before the second pass.                                                 *)
LEMMA Precedes ==
    ASSUME copying.by = "import", NEW k \in 1 .. 7, NEW id \in Collection[Stages[k]], NEW f \in Fields,
           id \in HolderOf(f), NEW to \in TargetOf(f), f # "part" \/ Stages[k] # "products"
    PROVE  \E l \in 1 .. (k - 1) : to \in Collection[Stages[l]]
<1>0. /\ Collection[Stages[1]] = PrinterIds /\ Collection[Stages[2]] = PeripheralIds /\ Collection[Stages[3]] = CategoryIds
      /\ Collection[Stages[4]] = IngredientIds /\ Collection[Stages[5]] = ProductIds
  BY Order, Members
<1>1. \/ k = 3 /\ f = "kitchen"
      \/ k \in {5, 6} /\ f \in {"category", "recipe"}
      \/ k = 6 /\ f = "part"
      \/ k = 7 /\ f \in {"till", "terminal", "box"}
  BY Holders, Schedule
<1>2. CASE k = 3 /\ f = "kitchen"
  <2>1. to \in PrinterIds /\ 1 \in 1 .. (k - 1)
    BY <1>2 DEF TargetOf
  <2>. QED
    BY <1>0, <2>1
<1>3. CASE k \in {5, 6} /\ f = "category"
  <2>1. to \in CategoryIds /\ 3 \in 1 .. (k - 1)
    BY <1>3 DEF TargetOf
  <2>. QED
    BY <1>0, <2>1
<1>4. CASE k \in {5, 6} /\ f = "recipe"
  <2>1. to \in IngredientIds /\ 4 \in 1 .. (k - 1)
    BY <1>4 DEF TargetOf
  <2>. QED
    BY <1>0, <2>1
<1>5. CASE k = 6 /\ f = "part"
  <2>1. to \in ProductIds /\ 5 \in 1 .. (k - 1)
    BY <1>5 DEF TargetOf
  <2>. QED
    BY <1>0, <2>1
<1>6. CASE k = 7 /\ f = "till"
  <2>1. to \in PrinterIds /\ 1 \in 1 .. (k - 1)
    BY <1>6 DEF TargetOf
  <2>. QED
    BY <1>0, <2>1
<1>7. CASE k = 7 /\ f \in {"terminal", "box"}
  <2>1. to \in PeripheralIds /\ 2 \in 1 .. (k - 1)
    BY <1>7 DEF TargetOf
  <2>. QED
    BY <1>0, <2>1
<1>. QED
  BY <1>1, <1>2, <1>3, <1>4, <1>5, <1>6, <1>7

LEMMA CreatesHolds == ASSUME DocumentsInv, CopyCreates PROVE DocumentsInv'
<1> DEFINE from == IF copying.by = "clone" THEN record[Home] ELSE copying.from
           ids == {id \in Collection[Stages[copying.stage]] : from[id] # NoDocument}
           Lost(id) == {x \in Carried(from[id].refs) : x.id \notin copying.made}
           throws == \E id \in ids : \E x \in Lost(id) : copying.by = "import" \/ x.field \in {"till", "category"}
           RoleOf(id) == IF copying.by = "clone" /\ id \in ProductIds THEN "STANDARD" ELSE from[id].role
           NewDoc(id) == [role |-> RoleOf(id), refs |-> Mapped(Carried(from[id].refs) \ Lost(id))]
           docs == [id \in Documents |-> IF id \notin ids THEN record[Copy][id] ELSE NewDoc(id)]
<1>0. /\ copying.pc = "run" /\ copying.stage \in 1 .. Len(Stages) /\ copying.by \in {"clone", "import"}
      /\ UNCHANGED <<events, edit, stale, export, files>>
      /\ copying.stage \in Nat /\ copying.made \subseteq Documents
  <2>1. copying.pc = "run" /\ copying.stage <= Len(Stages) /\ UNCHANGED <<events, edit, stale, export, files>>
    BY DEF CopyCreates, uncopied
  <2>2. /\ copying.stage \in 1 .. (Len(Stages) + 1) /\ copying.by \in {"none", "clone", "import"} /\ copying.by # "none"
        /\ copying.stage \in Nat /\ copying.made \subseteq Documents
    BY <2>1, CopyFacts DEF CopyingOK, Copyings
  <2>3. Len(Stages) \in Nat
    BY Order
  <2>. QED
    BY <2>1, <2>2, <2>3
<1>1. /\ from \in Contents /\ Fit(Home, from) /\ copying.by = "import" => from = copying.from
      /\ ids \subseteq Documents /\ \A id \in ids : from[id] \in DocsOf(Home, id)
  <2>1. from \in Contents /\ Fit(Home, from) /\ (copying.by = "import" => from = copying.from)
    BY CopyFacts DEF CopyingOK, Copyings
  <2> HIDE DEF from
  <2>2. Collection[Stages[copying.stage]] \subseteq Documents
    <3>1. CASE copying.by = "clone"
      <4>1. copying.stage \in 1 .. 5
        BY <1>0, <3>1, Order
      <4>. QED
        BY <3>1, <4>1, Order, Members DEF Documents
    <3>2. CASE copying.by = "import"
      <4>1. copying.stage \in 1 .. 7
        BY <1>0, <3>2, Order
      <4>. QED
        BY <3>2, <4>1, Schedule
    <3>. QED
      BY <1>0, <3>1, <3>2
  <2>. QED
    BY <2>1, <2>2 DEF Fit
<1>2. CASE /\ throws /\ record' = record
           /\ copying' = [copying EXCEPT !.pc = IF copying.by = "clone" THEN "failed" ELSE "undo"]
  <2>1. /\ copying' \in Copyings /\ copying'.by = copying.by /\ copying'.stage = copying.stage /\ copying'.made = copying.made
        /\ copying'.from = copying.from /\ Stages' = Stages
        /\ copying.by = "clone" => copying'.pc = "failed"
        /\ copying.by = "import" => copying'.pc = "undo"
    BY <1>0, <1>2, CopyFacts DEF Copyings, Stages
  <2>2. CopyingOK' /\ CopyHolds' /\ FilesOK'
    BY <1>0, <1>2, <2>1, CopyFacts DEF CopyingOK, CopyHolds, FilesOK, Fit
  <2>3. ASSUME copying.by = "import" PROVE Dangling
    <3>0. copying.stage \in 1 .. 7
      BY <1>0, <2>3, Order
    <3>9. PICK id \in ids : \E x \in Carried(from[id].refs) : x.id \notin copying.made
      BY <1>2
    <3>1. PICK x \in Carried(from[id].refs) : x.id \notin copying.made
      BY <3>9
    <3>2. /\ id \in Documents /\ copying.from[id] \in DocsOf(Home, id) /\ copying.from[id] # NoDocument
          /\ id \in Collection[Stages[copying.stage]]
          /\ x \in copying.from[id].refs /\ (x.field # "part" \/ Stages[copying.stage] # "products")
      BY <1>1, <2>3, <3>1 DEF Carried
    <3>3. x.field \in Fields /\ x.id \in TargetOf(x.field) /\ id \in HolderOf(x.field) /\ x.id \in Documents
      BY <3>2, DocFields
    <3>4. PICK l \in 1 .. (copying.stage - 1) : x.id \in Collection[Stages[l]]
      BY <2>3, <3>0, <3>2, <3>3, Precedes
    <3>5. record[Copy][x.id] = NoDocument
      BY <1>0, <3>1, <3>3, CopyFacts DEF CopyHolds
    <3>6. ~Arrived(x.id)
      <4> SUFFICES ASSUME Arrived(x.id) PROVE FALSE
        OBVIOUS
      <4>1. record[Copy][x.id] = [role |-> copying.from[x.id].role, refs |-> Mapped(SoFar(x.id))]
        BY <1>0, <2>3, <3>3, CopyFacts DEF ImportHolds
      <4>2. copying.from[x.id] \in DocsOf(Home, x.id)
        BY <3>3, CopyFacts DEF Arrived, CopyingOK, Fit
      <4>3. SoFar(x.id) \in SUBSET copying.from[x.id].refs /\ copying.from[x.id].role \in Roles
        BY <4>2, DocFields DEF SoFar
      <4>4. record[Copy][x.id] \in DocsOf(Copy, x.id)
        BY <3>3, <4>1, <4>2, <4>3, MappedFits
      <4>. QED
        BY <3>5, <4>4, NoDoc
    <3>7. copying.from[x.id] = NoDocument
      BY <3>4, <3>6 DEF Arrived
    <3>. QED
      BY <3>2, <3>7 DEF Dangling
  <2>4. ImportHolds'
    <3>1. Dangling => Dangling'
      BY <2>1 DEF Dangling
    <3>. QED
      BY <2>1, <2>3, <3>1 DEF ImportHolds
  <2>. QED
    BY <1>0, <1>2, <2>1, <2>2, <2>4, CopyFacts, CopyKeeps
<1>3. CASE /\ ~throws /\ record' = [record EXCEPT ![Copy] = docs]
           /\ copying' = [copying EXCEPT !.stage = copying.stage + 1, !.made = copying.made \cup ids]
  <2>1. /\ copying' \in Copyings /\ copying'.by = copying.by /\ copying'.stage = copying.stage + 1
        /\ copying'.made = copying.made \cup ids /\ copying'.pc = "run"
        /\ copying'.from = copying.from /\ Stages' = Stages
    <3> HIDE DEF from, ids, NewDoc, docs, throws
    <3>1. copying.made \cup ids \subseteq Documents /\ copying.stage + 1 \in Nat
      BY <1>0, <1>1
    <3>2. copying' = [copying EXCEPT !.stage = copying.stage + 1, !.made = copying.made \cup ids]
      BY <1>3
    <3>3. copying \in Copyings
      BY CopyFacts
    <3>4. /\ copying' \in Copyings /\ copying'.by = copying.by /\ copying'.stage = copying.stage + 1
          /\ copying'.made = copying.made \cup ids /\ copying'.pc = copying.pc /\ copying'.from = copying.from
      BY <3>1, <3>2, <3>3 DEF Copyings
    <3>. QED
      BY <1>0, <3>4 DEF Stages
  <2>2. \A id \in ids : NewDoc(id) \in DocsOf(Copy, id) /\ \A y \in NewDoc(id).refs : y.id \in copying.made
    <3> SUFFICES ASSUME NEW id \in ids PROVE NewDoc(id) \in DocsOf(Copy, id) /\ \A y \in NewDoc(id).refs : y.id \in copying.made
      OBVIOUS
    <3>1. id \in Documents /\ from[id] \in DocsOf(Home, id)
      BY <1>1
    <3>2. RoleOf(id) \in Roles /\ Carried(from[id].refs) \ Lost(id) \in SUBSET from[id].refs
      <4> HIDE DEF from
      <4>. QED
        BY <3>1, DocFields DEF Carried, Roles
    <3> DEFINE refs == Carried(from[id].refs) \ Lost(id)
    <3>3. \A x \in refs : x.id \in copying.made
      OBVIOUS
    <3>4. NewDoc(id) = [role |-> RoleOf(id), refs |-> Mapped(refs)]
      OBVIOUS
    <3> HIDE DEF from, Lost, RoleOf, NewDoc, refs
    <3>5. /\ NewDoc(id) \in DocsOf(Copy, id)
          /\ \A y \in Mapped(refs) : \E x \in refs : y.id = x.id
      BY <3>1, <3>2, <3>4, MappedFits DEF refs
    <3>. QED
      BY <3>3, <3>4, <3>5
  <2>3. \A id \in Documents : docs[id] = IF id \in ids THEN NewDoc(id) ELSE record[Copy][id]
    OBVIOUS
  <2>4. docs \in Contents /\ Fit(Copy, docs)
    <3> HIDE DEF ids, NewDoc
    <3>1. \A id \in Documents : docs[id] \in AnyDoc \cup {NoDocument}
      BY <2>2, <2>3, DocFields, CopyFacts DEF Contents
    <3>. QED
      BY <2>2, <2>3, <3>1, CopyFacts DEF Contents, Fit
  <2>5. record' \in [{Home, Copy} -> Contents] /\ record'[Home] = record[Home] /\ record'[Copy] = docs
    <3> HIDE DEF docs
    <3>. QED
      BY <1>3, <2>4, CopyFacts
  <2>6. CopyingOK' /\ FilesOK'
    <3>1. Len(Stages) \in Nat /\ copying.stage + 1 \in 1 .. (Len(Stages) + 1)
      BY <1>0, Order
    <3>. QED
      BY <1>0, <2>1, <3>1, CopyFacts DEF CopyingOK, FilesOK, Fit
  <2>7. CopyHolds'
    <3> HIDE DEF ids, NewDoc, docs
    <3>1. \A id \in ids : NewDoc(id) # NoDocument
      BY <2>2, DocFields
    <3>. QED
      BY <1>0, <2>1, <2>2, <2>3, <2>5, <3>1, CopyFacts DEF CopyHolds
  <2>8. ImportHolds'
    <3> SUFFICES ASSUME copying.by = "import" PROVE ImportHolds'
      BY <2>1 DEF ImportHolds
    <3>0. copying.stage \in 1 .. 7 /\ from = copying.from
      BY <1>0, <1>1, Order
    <3>1. ASSUME NEW id \in ids
          PROVE  /\ NewDoc(id) = [role |-> copying.from[id].role, refs |-> Mapped(SoFar(id)')] /\ Arrived(id)'
      <4>1. Lost(id) = {}
        BY <1>3, <3>1
      <4>2. NewDoc(id) = [role |-> copying.from[id].role, refs |-> Mapped(Carried(copying.from[id].refs))]
        BY <3>0, <4>1
      <4>3. Carried(copying.from[id].refs) = SoFar(id)'
        <5>1. id \in ProductIds <=> copying.stage \in {5, 6}
          BY <3>0, <3>1, Schedule
        <5>2. Stages[copying.stage] = "products" <=> copying.stage = 5
          BY <3>0, Schedule
        <5>3. copying.stage + 1 = 6 <=> copying.stage = 5
          BY <3>0
        <5> HIDE DEF ids
        <5>. QED
          BY <2>1, <5>1, <5>2, <5>3 DEF Carried, SoFar
      <4>4. Arrived(id)'
        <5>1. copying.stage \in 1 .. (copying'.stage - 1)
          BY <2>1, <3>0
        <5>. QED
          BY <2>1, <3>0, <3>1, <5>1 DEF Arrived
      <4>. QED
        BY <4>2, <4>3, <4>4
    <3>2. ASSUME NEW id \in Documents, id \notin ids
          PROVE  (Arrived(id)' <=> Arrived(id)) /\ (Arrived(id) => SoFar(id)' = SoFar(id))
      <4>1. copying.from[id] = NoDocument \/ id \notin Collection[Stages[copying.stage]]
        BY <3>0, <3>2
      <4>2. Arrived(id)' <=> Arrived(id)
        <5>1. 1 .. (copying'.stage - 1) = 1 .. (copying.stage - 1) \cup {copying.stage}
          BY <2>1, <3>0
        <5>. QED
          BY <2>1, <4>1, <5>1 DEF Arrived
      <4>3. ASSUME Arrived(id) PROVE SoFar(id)' = SoFar(id)
        <5>1. copying.from[id] # NoDocument /\ (id \in ProductIds => copying.stage \notin {5, 6})
          BY <3>0, <4>1, <4>3, Schedule DEF Arrived
        <5>2. id \in ProductIds => copying.stage # 6 /\ copying'.stage # 6
          BY <2>1, <3>0, <5>1
        <5>. QED
          BY <2>1, <5>2 DEF SoFar
      <4>. QED
        BY <4>2, <4>3
    <3>3. \A refs : Mapped(refs)' = Mapped(refs)
      BY DEF Mapped
    <3>4. \A id \in Documents :
             record'[Copy][id] = IF Arrived(id)' THEN [role |-> copying'.from[id].role, refs |-> Mapped(SoFar(id)')]
                                 ELSE NoDocument
      <4> SUFFICES ASSUME NEW id \in Documents
                   PROVE  record'[Copy][id] = IF Arrived(id)' THEN [role |-> copying'.from[id].role, refs |-> Mapped(SoFar(id)')]
                                              ELSE NoDocument
        OBVIOUS
      <4> HIDE DEF ids, NewDoc, docs
      <4>1. CASE id \in ids
        BY <2>1, <2>3, <2>5, <3>1, <4>1
      <4>2. CASE id \notin ids
        <5>1. record[Copy][id] = IF Arrived(id) THEN [role |-> copying.from[id].role, refs |-> Mapped(SoFar(id))] ELSE NoDocument
          BY <1>0, CopyFacts DEF ImportHolds
        <5>2. record'[Copy][id] = record[Copy][id]
          BY <2>3, <2>5, <4>2
        <5>. QED
          BY <2>1, <3>2, <4>2, <5>1, <5>2
      <4>. QED
        BY <4>1, <4>2
    <3>5. Copy \in events' /\ files' = Assets
      BY <1>0, CopyFacts DEF ImportHolds
    <3>. QED
      BY <2>1, <3>3, <3>4, <3>5 DEF ImportHolds
  <2>. QED
    BY <1>0, <2>1, <2>5, <2>4, <2>6, <2>7, <2>8, CopyFacts, CopyKeeps
<1>. QED
  BY <1>2, <1>3 DEF CopyCreates

LEMMA CopyNextHolds == ASSUME DocumentsInv, CopyNext PROVE DocumentsInv'
BY CloneBeginsHolds, ImportBeginsHolds, ImportRestoresHolds, CreatesHolds, CopyEndsHolds, CopyFailsHolds, UndoneHolds
   DEF CopyNext

-----------------------------------------------------------------------------
(* At the beginning nothing is under way, and the event has what its       *)
(* documents refer to.                                                     *)
LEMMA OpeningHolds ==
    ASSUME NEW opening, Intact(opening), DocumentsInit(opening)
    PROVE  DocumentsInv
<1> USE Apart
<1>0. opening \in Contents /\ Fit(Home, opening)
  <2>1. \A id \in Documents : opening[id] = NoDocument \/ opening[id] \in DocsOf(Home, id)
    BY FormsFit DEF Intact
  <2>2. \A id \in Documents : opening[id] \in AnyDoc \cup {NoDocument}
    BY <2>1, DocFields
  <2>3. opening = [id \in Documents |-> opening[id]]
    BY DEF Intact
  <2>. QED
    BY <2>1, <2>2, <2>3 DEF Contents, Fit
<1>1. record[Home] = opening /\ record[Copy] = NoBundle /\ record \in [{Home, Copy} -> Contents]
  BY <1>0, Empty DEF DocumentsInit
<1>2. DocumentsOK
  <2>1. /\ Fit(Home, record[Home]) /\ Fit(Copy, record[Copy])
    BY <1>0, <1>1, Empty
  <2>2. /\ export \in [pc : {"none", "read", "done"}, unread : SUBSET Collections, docs : Contents]
        /\ Fit(Home, export.docs)
    BY Empty DEF DocumentsInit, NoExport
  <2>3. edit \in [Editors -> EditStates] /\ \A r \in Editors : EditOK(edit[r])
    BY DEF DocumentsInit, NoEdit, EditStates, EditOK
  <2>4. /\ copying \in Copyings /\ copying.by = "none" /\ copying.pc = "none" /\ copying.stage = 1
        /\ copying.from = NoBundle
    BY Empty DEF DocumentsInit, NoCopying, Copyings
  <2>5. CopyingOK
    <3>1. Len(Stages) = 7
      BY <2>4, Order
    <3>. QED
      BY <2>4, <3>1, Empty DEF CopyingOK
  <2>. QED
    BY <1>1, <2>1, <2>2, <2>3, <2>4, <2>5 DEF DocumentsOK
<1>3. HomeHolds
  <2>1. \A id \in Documents : opening[id] # NoDocument => \A ref \in opening[id].refs : Found(ref)
    <3> SUFFICES ASSUME NEW id \in Documents, opening[id] # NoDocument, NEW ref \in opening[id].refs PROVE Found(ref)
      OBVIOUS
    <3>1. opening[id] \in DocsOf(Home, id)
      BY <1>0 DEF Fit
    <3>2. ref.event = Home
      BY <3>1, DocFields
    <3>. QED
      BY <1>1, <3>2 DEF Found, Intact
  <2>. QED
    BY <1>1, <2>1 DEF HomeHolds, Excused
<1>4. CopyHolds /\ ImportHolds /\ FilesOK
  BY <1>1 DEF CopyHolds, ImportHolds, FilesOK, DocumentsInit, NoCopying, NoBundle
<1>. QED
  BY <1>2, <1>3, <1>4 DEF DocumentsInv

LEMMA DocumentsStep == ASSUME DocumentsInv, [DocumentsNext]_documentVars PROVE DocumentsInv'
<1>1. CASE UNCHANGED documentVars
  <2>1. UNCHANGED <<events, record, edit, stale, export, copying, files>> /\ Stages' = Stages
    BY <1>1 DEF documentVars, Stages
  <2>2. DocumentsOK'
    BY <2>1 DEF DocumentsInv, DocumentsOK, CopyingOK, EditOK, Fit
  <2>3. HomeHolds'
    BY <2>1 DEF DocumentsInv, HomeHolds, Ruined, Excused, Found, Awaits
  <2>4. CopyHolds' /\ FilesOK'
    BY <2>1 DEF DocumentsInv, CopyHolds, FilesOK
  <2>5. ImportHolds'
    BY <2>1 DEF DocumentsInv, ImportHolds, Arrived, SoFar, Dangling, Mapped
  <2>. QED
    BY <2>2, <2>3, <2>4, <2>5 DEF DocumentsInv
<1>2. CASE DocumentsNext
  BY <1>2, EditHolds, ExportHolds, CopyNextHolds DEF DocumentsNext
<1>. QED
  BY <1>1, <1>2

-----------------------------------------------------------------------------
(* An event that starts with references that resolve keeps them: what is   *)
(* left dangling is the part of a menu, awaited by its deletion, or was    *)
(* written by a request that had checked it; a copy refers to itself.      *)
(* (deletePrinterAction, deletePeripheralAction, deleteCategory,           *)
(* deleteIngredient, cloneEventAction, importEventTransferBundle)          *)
THEOREM ReferencesStay ==
    \A opening : Intact(opening) =>
        (DocumentsInit(opening) /\ [][DocumentsNext]_documentVars => []ReferencesResolve)
<1> SUFFICES ASSUME NEW CONSTANT opening, Intact(opening)
             PROVE  DocumentsInit(opening) /\ [][DocumentsNext]_documentVars => []ReferencesResolve
  OBVIOUS
<1>1. DocumentsInit(opening) => DocumentsInv
  BY OpeningHolds
<1>2. DocumentsInv /\ [DocumentsNext]_documentVars => DocumentsInv'
  BY DocumentsStep
<1>3. DocumentsInv => ReferencesResolve
  <2> SUFFICES ASSUME DocumentsInv PROVE ReferencesResolve
    OBVIOUS
  <2>1. ASSUME ~Ruined, NEW id \in Documents, record[Home][id] # NoDocument, NEW ref \in record[Home][id].refs
        PROVE  Found(ref) \/ ref.field = "part" \/ <<id, ref>> \in stale \/ BeingCleaned(ref.id)
    BY <2>1 DEF DocumentsInv, HomeHolds, Excused, Awaits, BeingCleaned
  <2>2. ASSUME copying.pc # "failed", NEW id \in Documents, record[Copy][id] # NoDocument, NEW ref \in record[Copy][id].refs
        PROVE  ref.event = Copy /\ Found(ref)
    <3>1. record[Copy][id] \in DocsOf(Copy, id)
      BY <2>2, CopyFacts DEF Fit
    <3>2. ref.event = Copy /\ ref.id \in Documents
      BY <3>1, DocFields
    <3>3. ref.id \in copying.made
      BY <2>2, CopyFacts DEF CopyHolds
    <3>. QED
      BY <2>2, <3>2, <3>3, CopyFacts DEF CopyHolds, Found
  <2>. QED
    BY <2>1, <2>2 DEF ReferencesResolve
<1>. QED
  BY <1>1, <1>2, <1>3, PTL

(* An import makes what its bundle holds or leaves nothing behind, unless  *)
(* the undoing fails too: whatever fails, and at whatever document.        *)
(* (importEventTransferBundle, deleteImportedEventCascade)                 *)
THEOREM ImportsStayWhole ==
    \A opening : Intact(opening) =>
        (DocumentsInit(opening) /\ [][DocumentsNext]_documentVars => []ImportsAreWhole)
<1> SUFFICES ASSUME NEW CONSTANT opening, Intact(opening)
             PROVE  DocumentsInit(opening) /\ [][DocumentsNext]_documentVars => []ImportsAreWhole
  OBVIOUS
<1>1. DocumentsInit(opening) => DocumentsInv
  BY OpeningHolds
<1>2. DocumentsInv /\ [DocumentsNext]_documentVars => DocumentsInv'
  BY DocumentsStep
<1>3. DocumentsInv => ImportsAreWhole
  <2> SUFFICES ASSUME DocumentsInv, copying.by = "import" PROVE ImportsAreWhole
    BY DEF ImportsAreWhole
  <2>0. Fit(Home, copying.from) /\ copying.from \in Contents
    BY CopyFacts DEF CopyingOK, Copyings
  <2>1. ASSUME copying.pc = "done", NEW id \in Documents
        PROVE  record[Copy][id] = IF copying.from[id] = NoDocument THEN NoDocument
                                  ELSE [copying.from[id] EXCEPT !.refs = {[x EXCEPT !.event = Copy] : x \in @}]
    <3>1. copying.stage = 8
      BY <2>1, CopyFacts DEF ImportHolds
    <3>2. copying.from[id] # NoDocument => Arrived(id)
      <4>1. \E k \in 1 .. 7 : id \in Collection[Stages[k]]
        BY Order, Members DEF Documents
      <4>. QED
        BY <3>1, <4>1 DEF Arrived
    <3>3. SoFar(id) = copying.from[id].refs
      BY <3>1 DEF SoFar
    <3>4. record[Copy][id] = IF copying.from[id] = NoDocument THEN NoDocument
                             ELSE [role |-> copying.from[id].role, refs |-> Mapped(copying.from[id].refs)]
      BY <2>1, <3>2, <3>3, CopyFacts DEF ImportHolds, Arrived
    <3>5. ASSUME copying.from[id] # NoDocument
          PROVE  [copying.from[id] EXCEPT !.refs = {[x EXCEPT !.event = Copy] : x \in @}] =
                     [role |-> copying.from[id].role, refs |-> Mapped(copying.from[id].refs)]
      <4>1. copying.from[id] \in DocsOf(Home, id)
        BY <2>0, <3>5 DEF Fit
      <4>2. [copying.from[id] EXCEPT !.refs = Mapped(copying.from[id].refs)] =
                 [role |-> copying.from[id].role, refs |-> Mapped(copying.from[id].refs)]
        BY <4>1, WithRefs
      <4>. QED
        BY <4>2, Zenon DEF Mapped
    <3>. QED
      BY <3>4, <3>5
  <2>2. copying.pc = "done" => Copy \in events /\ files = Assets
    BY CopyFacts DEF ImportHolds
  <2>3. ASSUME copying.pc = "failed"
        PROVE  \/ copying.fault
               \/ \E id \in Documents : copying.from[id] # NoDocument /\ \E x \in copying.from[id].refs :
                      ~(x.id \in Documents /\ copying.from[x.id] # NoDocument)
    BY <2>3, CopyFacts DEF ImportHolds, Dangling
  <2>4. copying.pc = "failed" /\ ~copying.spoiled => Copy \notin events /\ files = {} /\ record[Copy] = NoBundle
    BY CopyFacts DEF ImportHolds
  <2>. QED
    BY <2>1, <2>2, <2>3, <2>4 DEF ImportsAreWhole
<1>. QED
  BY <1>1, <1>2, <1>3, PTL

-----------------------------------------------------------------------------
(* Archives, and a restore at work.                                        *)
Values == {"none", "shop", "bundle", "stray"}

JobPcs == {"idle", "stage", "aside", "swap", "undo", "drop", "back", "cleanup", "report"}
JobStates == [pc : JobPcs, at : 0..Uploads, existed : SUBSET Tables, error : BOOLEAN, died : BOOLEAN,
              before : Promise!Stores]

DataOK ==
    /\ live \in [Names -> Values] /\ temp \in [Names -> Values] /\ aside \in [Names -> Values]
    /\ made \subseteq Names /\ 1 \in made /\ Uploads \in made
    /\ upsets \in 0..MaxUpsets
    /\ job \in JobStates

(* No upset is left, and the restore began with everything in its place.   *)
Used == upsets = MaxUpsets
Broken(was) == was.data = "mixed" \/ was.files = "lost"
Hit == Used /\ ~Broken(job.before)
Failing == Hit /\ job.error

(* The value v is what the name k held when the restore began, or what the *)
(* shop has since made of a name it had never written to.                  *)
FilesOf(v) == IF v \in {"bundle", "shop"} THEN v ELSE "lost"

Had(k, v) ==
    IF k = Uploads THEN FilesOf(v) = job.before.files
    ELSE /\ job.before.data = "bundle" => v = "bundle"
         /\ job.before.data = "shop" => v = IF k \in made THEN "shop" ELSE "none"

(* The uploads that would not move aside are gone.                         *)
Spared(k, v) == Had(k, v) \/ (k = Uploads /\ v = "none")

(* A name is as it was; or swapped, with what it held set aside; or away.  *)
Unmoved(k) == Had(k, live[k])
Left(k) == Spared(k, live[k])
Stowed(k) == Had(k, aside[k]) /\ (aside[k] # "none" => k \in job.existed \cup {Uploads})
Swapped(k) == live[k] = "bundle" /\ Stowed(k)
Gone(k) == live[k] = "none" /\ Stowed(k)

(* Staged, and its existence noted.                                        *)
Noted(k) ==
    /\ temp[k] = "bundle"
    /\ k \in job.existed => live[k] # "none"
    /\ k \in Tables \ job.existed => live[k] = "none" \/ Hit

Pending(k) == Unmoved(k) /\ aside[k] = "none" /\ Noted(k)

(* What the swap of a name finds: it was moved aside, or there was nothing *)
(* to move; and nothing has come in its place but by an upset.             *)
Moved(k) ==
    /\ temp[k] = "bundle"
    /\ IF aside[k] # "none" THEN Stowed(k) ELSE Unmoved(k) /\ (k = Uploads => live[k] = "none")
    /\ live[k] = "none" \/ Hit

Staging ==
    \A k \in Names : /\ Unmoved(k) /\ aside[k] = "none"
                     /\ k < job.at => Noted(k)
                     /\ k >= job.at => k \notin job.existed

Swapping(n) == (\A k \in Names : k < n => Swapped(k)) /\ (\A k \in Names : k > n => Pending(k))
Undoing(n) == (\A k \in Names : k < n => Swapped(k)) /\ (\A k \in Names : k > n => Left(k))

RestoreOK ==
    CASE job.pc = "idle"   -> Broken([data |-> Data, files |-> Files]) => Used
      [] job.pc = "stage"  -> job.at \in Names /\ Staging
      [] job.pc = "aside"  -> job.at \in Names /\ Swapping(job.at) /\ Pending(job.at)
      [] job.pc = "swap"   -> job.at \in Names /\ Swapping(job.at) /\ Moved(job.at)
      [] job.pc = "undo"   -> /\ job.at \in Names /\ Failing /\ Undoing(job.at)
                              /\ Gone(job.at) /\ aside[job.at] # "none"
      [] job.pc = "drop"   -> job.at \in Tables /\ Failing /\ Undoing(job.at) /\ Swapped(job.at)
      [] job.pc = "back"   -> job.at \in Tables /\ Failing /\ Undoing(job.at) /\ Gone(job.at)
      [] OTHER             -> \/ \A k \in Names : live[k] = "bundle"
                              \/ Failing /\ \A k \in Names : Left(k)

RestoreInv == DataOK /\ (job.pc # "idle" /\ Broken(job.before) => Used) /\ RestoreOK

(* While a backup reads, no restore is at work; what it has read is of the *)
(* origin of the data, if that is one.                                     *)
BackupStates == [pc : {"idle", "read", "pack"}, at : Nat, seen : SUBSET Values,
                 archived : BOOLEAN, mixed : BOOLEAN, n : Nat, keep : Nat \ {0}]

ReadingOK ==
    /\ backup \in BackupStates
    /\ backup.pc # "idle" =>
        /\ job.pc = "idle"
        /\ ~backup.mixed => ~Mixed /\ backup.seen \subseteq {Data}

(* The bundle that these settings say a backup of theirs has written.      *)
Named(document) ==
    document.own /\ document.status = "SUCCESS" => \E a \in archives : a.n = document.bundle

(* Archives are numbered in the order in which their backups began, and a  *)
(* newer one drops none but older ones.                                    *)
ArchivesOK ==
    /\ begun \in Nat
    /\ \A a \in archives : a.n \in Nat /\ a.n <= begun
    /\ \A a \in archives : a.mixed \/ \E origin \in {"shop", "bundle"} : a.seen \subseteq {origin}
    /\ backup.pc # "idle" /\ backup.archived =>
        /\ backup.n <= begun /\ \A a \in archives : a.n < backup.n
        /\ settings.status = "RUNNING"
    /\ Named(settings) /\ (job.pc # "idle" => Named(shelved))

Shapes ==
    /\ live \in [Names -> Values] /\ temp \in [Names -> Values] /\ aside \in [Names -> Values]
    /\ made \subseteq Names /\ 1 \in made /\ Uploads \in made
    /\ settings \in SettingsDocuments /\ shelved \in SettingsDocuments

BackupInv == Shapes /\ ReadingOK /\ ArchivesOK

OneUpset == MaxUpsets <= 1

-----------------------------------------------------------------------------
LEMMA NamesFacts ==
    /\ TableCount \in Nat \ {0, 1} /\ Uploads \in Names /\ Tables \subseteq Names
    /\ Uploads = TableCount + 1 /\ Uploads \notin Tables
    /\ \A k \in Names : k \in Nat /\ k >= 1 /\ k <= Uploads /\ (k # Uploads => k \in Tables)
    /\ 1 \in Names /\ 1 \in Tables
    /\ 0 \in 0..Uploads /\ \A k \in Names : k \in 0..Uploads
    /\ \A k \in Tables : k + 1 \in Names
BY BackupAssumption DEF Names, Tables, Uploads

LEMMA SetOne ==
    ASSUME NEW S, NEW T, NEW f \in [S -> T], NEW x \in S, NEW v \in T
    PROVE  /\ [f EXCEPT ![x] = v] \in [S -> T]
           /\ [f EXCEPT ![x] = v][x] = v
           /\ \A y \in S \ {x} : [f EXCEPT ![x] = v][y] = f[y]
OBVIOUS

LEMMA JobType ==
    ASSUME DataOK
    PROVE  /\ job.pc \in JobPcs
           /\ job.at \in 0..Uploads /\ job.existed \in SUBSET Tables /\ job.error \in BOOLEAN
           /\ job.before \in Promise!Stores
           /\ job.before.data \in {"shop", "bundle", "mixed"}
           /\ job.before.files \in {"shop", "bundle", "lost"}
BY DEF DataOK, JobStates, Promise!Stores

(* What Goes and Throws do, and that the next state of the job is one.     *)
LEMMA GoesType ==
    ASSUME DataOK, NEW at \in 0..Uploads,
           NEW pc \in JobPcs,
           Goes(pc, at) \/ Throws(pc, at)
    PROVE  /\ job'.pc = pc /\ job'.at = at /\ job'.existed = job.existed /\ job'.before = job.before
           /\ job'.died = job.died
           /\ Goes(pc, at) => job'.error = job.error
           /\ Throws(pc, at) => job'.error
           /\ job' \in JobStates
BY DEF DataOK, Goes, Throws, JobStates

LEMMA NothingType == Nothing \in [Names -> Values] /\ \A k \in Names : Nothing[k] = "none"
BY DEF Nothing, Values

LEMMA NoJobType ==
    /\ NoJob.pc = "idle" /\ NoJob.error = FALSE /\ NoJob.died = FALSE
    /\ NoJob \in JobStates
BY NamesFacts DEF NoJob, JobStates, JobPcs, Promise!Stores, Promise!Outcomes

(* What a restore leaves whose process dies.                               *)
DeadJob == [NoJob EXCEPT !.died = TRUE]

LEMMA DeadJobType == DeadJob.pc = "idle" /\ DeadJob.died /\ DeadJob \in JobStates
BY NoJobType DEF DeadJob, NoJob, JobStates

LEMMA Origins ==
    /\ Data \in {"shop", "bundle", "mixed"} /\ Files \in {"shop", "bundle", "lost"}
    /\ Data = "bundle" <=> \A k \in Tables : live[k] = "bundle"
    /\ Data = "shop" <=> \A k \in Tables : live[k] = IF k \in made THEN "shop" ELSE "none"
    /\ Files = FilesOf(live[Uploads])
<1>1. (\A k \in Tables : live[k] = "bundle")
      => ~ \A k \in Tables : live[k] = IF k \in made THEN "shop" ELSE "none"
  BY NamesFacts
<1>. QED
  BY <1>1 DEF Data, Files, FilesOf

LEMMA StandingType == settings \in SettingsDocuments => Standing \in Promise!Stores
BY Origins DEF Standing, SettingsDocuments, Promise!Stores, Promise!Outcomes

LEMMA DefaultType == Default \in SettingsDocuments /\ ~Default.own /\ Default.keep \in Nat \ {0}
<1>1. Max(Keeps) \in Nat \ {0}
  BY BackupAssumption DEF Max
<1>. QED
  BY <1>1 DEF Default, SettingsDocuments

(* An upset is the last one, when there is one at most.                    *)
LEMMA UpsetUses ==
    ASSUME OneUpset, DataOK, NEW kind, Upset(kind)
    PROVE  upsets' \in 0..MaxUpsets /\ Used' /\ ~Used
BY BackupAssumption DEF OneUpset, DataOK, Upset, Used

LEMMA UpsetCounts ==
    ASSUME DataOK, NEW kind, Upset(kind)
    PROVE  upsets' \in 0..MaxUpsets
BY BackupAssumption DEF DataOK, Upset

-----------------------------------------------------------------------------
LEMMA RestoreInit == BackupInit => RestoreInv
<1> SUFFICES ASSUME BackupInit PROVE RestoreInv
  OBVIOUS
<1>1. DataOK
  <2>1. Uploads \in made /\ 1 \in made /\ made \subseteq Names
    BY NamesFacts DEF BackupInit
  <2>2. live \in [Names -> Values]
    BY DEF BackupInit, Values
  <2>. QED
    BY <2>1, <2>2, NothingType, NoJobType, BackupAssumption DEF BackupInit, DataOK
<1>2. Data = "shop" /\ Files = "shop"
  BY <1>1, Origins, NamesFacts DEF BackupInit, DataOK, FilesOf
<1>. QED
  BY <1>1, <1>2, NoJobType DEF BackupInit, RestoreInv, RestoreOK, Broken

(* Steps that leave the restore and the names alone.                       *)
LEMMA Elsewhere ==
    ASSUME RestoreInv, UNCHANGED <<live, temp, aside, made, job>>,
           upsets' \in 0..MaxUpsets, upsets <= upsets'
    PROVE  RestoreInv'
<1>1. DataOK'
  BY DEF RestoreInv, DataOK
<1>2. Used => Used'
  BY BackupAssumption DEF Used, RestoreInv, DataOK
<1>. QED
  BY <1>1, <1>2 DEF RestoreInv, RestoreOK, Staging, Swapping, Undoing, Pending, Swapped, Gone, Moved,
        Stowed, Unmoved, Left, Spared, Noted, Had, Failing, Hit, Broken, Data, Files

-----------------------------------------------------------------------------
(* The steps of a restore.                                                 *)

LEMMA RestoreBeginsKeeps ==
    ASSUME RestoreInv, settings \in SettingsDocuments, RestoreBegins
    PROVE  RestoreInv'
<1> DEFINE j == [NoJob EXCEPT !.pc = "stage", !.at = 1, !.before = Standing]
<1>1. job.pc = "idle" /\ job' = j /\ UNCHANGED <<live, made, upsets>>
      /\ temp' = Nothing /\ aside' = Nothing
  BY DEF RestoreBegins, MayRestore, Free, Others
<1>2. j.pc = "stage" /\ j.at = 1 /\ j.existed = {} /\ j.before = Standing
      /\ j \in JobStates
  BY NamesFacts, StandingType DEF NoJob, JobStates, JobPcs
<1>3. DataOK'
  BY <1>1, <1>2, NothingType DEF RestoreInv, DataOK
<1>4. Broken(Standing) => Used'
  BY <1>1 DEF RestoreInv, RestoreOK, Used, Broken, Standing
<1>5. Staging'
  BY <1>1, <1>2, Origins, NothingType, NamesFacts DEF Staging, Unmoved, Had, Standing
<1>. QED
  BY <1>1, <1>2, <1>3, <1>4, <1>5, NamesFacts DEF RestoreInv, RestoreOK

LEMMA StageTableKeeps == ASSUME RestoreInv, StageTable PROVE RestoreInv'
<1> DEFINE n == job.at
           j == [job EXCEPT !.existed = IF live[n] # "none" THEN @ \cup {n} ELSE @, !.at = @ + 1]
<1>0. DataOK /\ job.pc = "stage" /\ n \in Tables /\ Staging
  BY DEF RestoreInv, RestoreOK, StageTable
<1>1. job' = j /\ temp' = [temp EXCEPT ![n] = "bundle"] /\ UNCHANGED <<live, aside, made, upsets>>
  BY DEF StageTable, Staged, SameSettings, Others
<1>2. /\ j.pc = "stage" /\ j.at = n + 1 /\ j.before = job.before /\ j.error = job.error
      /\ j.existed = IF live[n] # "none" THEN job.existed \cup {n} ELSE job.existed
      /\ j \in JobStates
  BY <1>0, NamesFacts DEF DataOK, JobStates
<1>3. n \in Names /\ n + 1 \in Names
  BY <1>0, NamesFacts DEF Names, Tables
<1>4. /\ temp' \in [Names -> Values] /\ temp'[n] = "bundle"
      /\ \A k \in Names \ {n} : temp'[k] = temp[k]
  BY <1>0, <1>1, <1>3, SetOne DEF DataOK, Values
<1>5. DataOK'
  BY <1>0, <1>1, <1>2, <1>4 DEF DataOK
<1>6. Staging'
  <2> SUFFICES ASSUME NEW k \in Names
      PROVE /\ Unmoved(k)' /\ aside'[k] = "none"
            /\ k < n + 1 => Noted(k)'
            /\ k >= n + 1 => k \notin j.existed
    BY <1>1, <1>2 DEF Staging
  <2>1. Unmoved(k)' /\ aside'[k] = "none"
    BY <1>0, <1>1, <1>2 DEF Staging, Unmoved, Had
  <2>2. k < n => Noted(k)'
    BY <1>0, <1>1, <1>2, <1>4, NamesFacts DEF Staging, Noted, Hit, Used
  <2>3. k = n => Noted(k)'
    <3>1. n \notin job.existed
      <4>1. n \in Nat
        BY <1>3, NamesFacts
      <4>2. n >= job.at
        BY <4>1
      <4>. QED
        BY <1>0, <1>3, <4>2 DEF Staging
    <3>2. n \in j.existed <=> live[n] # "none"
      BY <1>2, <3>1
    <3>. QED
      BY <1>1, <1>4, <3>2 DEF Noted
  <2>4. k >= n + 1 => k \notin j.existed
    BY <1>0, <1>2, NamesFacts DEF Staging
  <2>5. k < n + 1 => k < n \/ k = n
    BY <1>3, NamesFacts DEF Names
  <2>. QED
    BY <2>1, <2>2, <2>3, <2>4, <2>5
<1>. QED
  BY <1>0, <1>1, <1>2, <1>3, <1>5, <1>6 DEF RestoreInv, RestoreOK, Used

LEMMA StageUploadsKeeps == ASSUME RestoreInv, StageUploads PROVE RestoreInv'
<1>0. DataOK /\ job.pc = "stage" /\ job.at = Uploads /\ Staging
  BY DEF RestoreInv, RestoreOK, StageUploads
<1>1. Goes("aside", 1) /\ temp' = [temp EXCEPT ![Uploads] = "bundle"]
      /\ UNCHANGED <<live, aside, made, upsets>>
  BY DEF StageUploads, Staged, SameSettings, Others
<1>2. /\ job'.pc = "aside" /\ job'.at = 1 /\ job'.existed = job.existed /\ job'.before = job.before
      /\ DataOK'
  <2>1. temp' \in [Names -> Values]
    BY <1>0, <1>1 DEF DataOK, Values
  <2>. QED
    BY <1>0, <1>1, <2>1, NamesFacts, GoesType DEF DataOK, JobPcs
<1>3. temp'[Uploads] = "bundle" /\ \A k \in Names \ {Uploads} : temp'[k] = temp[k]
  BY <1>0, <1>1, NamesFacts DEF DataOK
<1>4. ASSUME NEW k \in Names PROVE Pending(k)'
  <2>1. Unmoved(k)' /\ aside'[k] = "none"
    BY <1>0, <1>1, <1>2 DEF Staging, Unmoved, Had
  <2>2. CASE k = Uploads
    BY <1>0, <1>1, <1>2, <1>3, <2>1, <2>2, NamesFacts, JobType DEF Pending, Noted
  <2>3. CASE k < Uploads
    BY <1>0, <1>1, <1>2, <1>3, <2>1, <2>3, NamesFacts DEF Staging, Pending, Noted, Hit, Used
  <2>. QED
    BY <2>2, <2>3, NamesFacts
<1>5. (Swapping(1) /\ Pending(1))'
  BY <1>4, NamesFacts DEF Swapping
<1>. QED
  BY <1>0, <1>1, <1>2, <1>5, NamesFacts DEF RestoreInv, RestoreOK, Used

(* A step of the restore that fails before anything is moved, or where all *)
(* that was moved is back.                                                 *)
LEMMA FailsWhole ==
    ASSUME RestoreInv, job.pc # "idle", \A k \in Names : Unmoved(k),
           Throws("cleanup", 0), Used', upsets' \in 0..MaxUpsets, ~Broken(job.before),
           UNCHANGED <<live, temp, aside, made>>
    PROVE  RestoreInv'
<1>1. /\ job'.pc = "cleanup" /\ job'.before = job.before /\ job'.error
      /\ DataOK'
  BY GoesType, NamesFacts DEF RestoreInv, DataOK, JobPcs
<1>2. Failing' /\ \A k \in Names : Left(k)'
  BY <1>1 DEF Failing, Hit, Left, Spared, Unmoved, Had
<1>. QED
  BY <1>1, <1>2 DEF RestoreInv, RestoreOK

LEMMA StageFailsKeeps == ASSUME OneUpset, RestoreInv, StageFails PROVE RestoreInv'
<1>1. /\ DataOK /\ Staging /\ Throws("cleanup", 0) /\ UNCHANGED <<live, temp, aside, made>>
      /\ job.pc = "stage" /\ Upset("fault")
  BY DEF RestoreInv, RestoreOK, StageFails, OnlyJob, SameSettings, Others
<1>2. Used' /\ ~Used /\ upsets' \in 0..MaxUpsets
  BY <1>1, UpsetUses
<1>. QED
  BY <1>1, <1>2, FailsWhole DEF Staging, RestoreInv

LEMMA MoveAsideKeeps == ASSUME RestoreInv, MoveAside PROVE RestoreInv'
<1> DEFINE n == job.at
<1>0. DataOK /\ job.pc = "aside" /\ n \in Names /\ Swapping(n) /\ Pending(n)
  BY DEF RestoreInv, RestoreOK, MoveAside
<1>1. Goes("swap", n) /\ UNCHANGED <<temp, made, upsets>>
      /\ IF Moves(n) THEN /\ aside' = [aside EXCEPT ![n] = live[n]]
                          /\ live' = [live EXCEPT ![n] = "none"]
         ELSE UNCHANGED <<aside, live>>
  BY DEF MoveAside, Others
<1>2. /\ job'.pc = "swap" /\ job'.at = n /\ job'.existed = job.existed /\ job'.before = job.before
      /\ job' \in JobStates
  BY <1>0, <1>1, NamesFacts, GoesType DEF JobPcs
<1>3. /\ aside' \in [Names -> Values] /\ live' \in [Names -> Values]
      /\ \A k \in Names \ {n} : aside'[k] = aside[k] /\ live'[k] = live[k]
      /\ IF Moves(n) THEN aside'[n] = live[n] /\ live'[n] = "none"
         ELSE aside'[n] = aside[n] /\ live'[n] = live[n]
  BY <1>0, <1>1 DEF DataOK, Values
<1>4. DataOK'
  BY <1>0, <1>1, <1>2, <1>3 DEF DataOK
<1>5. Swapping(n)'
  <2>1. \A k \in Names : k < n => live'[k] = "bundle" /\ Stowed(k)'
    <3>1. \A k \in Names : k < n => live[k] = "bundle" /\ Stowed(k) /\ k # n
      BY <1>0, NamesFacts DEF Swapping, Swapped
    <3>. QED
      BY <1>1, <1>2, <1>3, <3>1 DEF Stowed, Had
  <2>2. \A k \in Names : k > n => Pending(k)'
    <3>1. \A k \in Names : k > n => Pending(k) /\ k # n
      BY <1>0, NamesFacts DEF Swapping
    <3>. QED
      BY <1>1, <1>2, <1>3, <3>1 DEF Pending, Unmoved, Had, Noted, Hit, Used
  <2>. QED
    BY <1>2, <2>1, <2>2 DEF Swapping, Swapped
<1>6. Moved(n)'
  BY <1>0, <1>1, <1>2, <1>3, NamesFacts
  DEF Moves, Moved, Pending, Stowed, Unmoved, Had, Noted, Hit, Used
<1>. QED
  BY <1>0, <1>1, <1>2, <1>4, <1>5, <1>6 DEF RestoreInv, RestoreOK, Used

(* The rollback goes on with the names up to the last one swapped.         *)
LEMMA RollsBack ==
    ASSUME DataOK, job.pc # "idle", NEW last \in 0..TableCount, Rollback(last),
           live' \in [Names -> Values], temp' \in [Names -> Values], aside' \in [Names -> Values],
           made' = made, upsets' \in 0..MaxUpsets, Used', ~Broken(job.before),
           \A k \in Names : k <= last =>
               /\ live'[k] = "bundle" /\ Had(k, aside'[k])
               /\ aside'[k] # "none" => k \in job.existed \cup {Uploads},
           \A k \in Names : k > last => Spared(k, live'[k])
    PROVE  RestoreInv'
<1>1. CASE last = 0
  <2>1. job'.pc = "cleanup" /\ job'.before = job.before /\ job'.error /\ job' \in JobStates
    BY <1>1, GoesType, NamesFacts DEF Rollback, JobPcs
  <2>2. \A k \in Names : Left(k)'
    BY <1>1, <2>1, NamesFacts DEF Left, Spared, Had
  <2>3. DataOK'
    BY <2>1 DEF DataOK
  <2>. QED
    BY <2>1, <2>2, <2>3 DEF RestoreInv, RestoreOK, Failing, Hit
<1>2. CASE last # 0
  <2>0. last \in Tables /\ last \in Names /\ last \in 0..Uploads
    BY <1>2, NamesFacts DEF Tables
  <2>1. /\ job'.pc = "drop" /\ job'.at = last /\ job'.before = job.before /\ job'.error
        /\ job'.existed = job.existed /\ job' \in JobStates
    BY <1>2, <2>0, GoesType DEF Rollback, JobPcs
  <2>2. \A k \in Names : k <= last => Swapped(k)'
    BY <2>1 DEF Swapped, Stowed, Had
  <2>3. \A k \in Names : k > last => Left(k)'
    BY <2>1 DEF Left, Spared, Had
  <2>4. DataOK'
    BY <2>1 DEF DataOK
  <2>5. Undoing(last)' /\ Swapped(last)'
    BY <2>0, <2>2, <2>3, NamesFacts DEF Undoing
  <2>. QED
    BY <2>0, <2>1, <2>4, <2>5 DEF RestoreInv, RestoreOK, Failing, Hit
<1>. QED
  BY <1>1, <1>2

(* How many names come before one.                                         *)
LEMMA Before ==
    ASSUME NEW n \in Names
    PROVE  /\ n - 1 \in 0..TableCount
           /\ \A k \in Names : (k <= n - 1 => k < n /\ k # n) /\ (k > n - 1 => k = n \/ k > n)
BY NamesFacts DEF Names

LEMMA MoveAsideFailsKeeps == ASSUME OneUpset, RestoreInv, MoveAsideFails PROVE RestoreInv'
<1>at. PICK n : n = job.at
  OBVIOUS
<1>1. /\ n = job.at /\ DataOK /\ n \in Names /\ Swapping(n) /\ Pending(n)
      /\ Rollback(n - 1) /\ UNCHANGED <<temp, aside, made>>
      /\ live' = [live EXCEPT ![Uploads] = IF n = Uploads THEN "none" ELSE @]
      /\ job.pc = "aside" /\ Upset("fault")
  BY <1>at DEF RestoreInv, RestoreOK, MoveAsideFails, SameSettings, Others
<1>2. Used' /\ ~Used /\ upsets' \in 0..MaxUpsets
  BY <1>1, UpsetUses
<1>3. ~Broken(job.before) /\ n - 1 \in 0..TableCount
  BY <1>1, <1>2, Before DEF RestoreInv
<1>4. /\ live' \in [Names -> Values] /\ temp' \in [Names -> Values] /\ aside' \in [Names -> Values]
      /\ \A k \in Names : live'[k] = live[k] \/ (k = Uploads /\ n = Uploads /\ live'[k] = "none")
  BY <1>1, NamesFacts DEF DataOK, Values
<1>5. ASSUME NEW k \in Names, k <= n - 1
      PROVE  /\ live'[k] = "bundle" /\ Had(k, aside'[k])
             /\ aside'[k] # "none" => k \in job.existed \cup {Uploads}
  <2>1. k < n /\ k # n
    BY <1>1, <1>5, Before, Zenon
  <2>. QED
    BY <1>1, <1>4, <2>1 DEF Swapping, Swapped, Stowed
<1>6. ASSUME NEW k \in Names, k > n - 1 PROVE Spared(k, live'[k])
  <2>1. Had(k, live[k])
    <3>1. k = n \/ k > n
      BY <1>1, <1>6, Before
    <3>. QED
      BY <1>1, <3>1 DEF Swapping, Pending, Unmoved
  <2>. QED
    BY <1>4, <2>1 DEF Spared
<1>. QED
  BY <1>1, <1>2, <1>3, <1>4, <1>5, <1>6, RollsBack

LEMMA SwapKeeps == ASSUME RestoreInv, Swap PROVE RestoreInv'
<1>at. PICK n : n = job.at
  OBVIOUS
<1>0. n = job.at /\ DataOK /\ job.pc = "swap" /\ n \in Names /\ Swapping(n) /\ Moved(n) /\ live[n] = "none"
  BY <1>at DEF RestoreInv, RestoreOK, Swap
<1>1. /\ IF n = Uploads THEN Goes("cleanup", 0) ELSE Goes("aside", n + 1)
      /\ live' = [live EXCEPT ![n] = temp[n]] /\ temp' = [temp EXCEPT ![n] = "none"]
      /\ UNCHANGED <<aside, made, upsets>>
  BY <1>at DEF Swap, Others
<1>2. /\ job'.pc = (IF n = Uploads THEN "cleanup" ELSE "aside")
      /\ job'.at = (IF n = Uploads THEN 0 ELSE n + 1)
      /\ job'.existed = job.existed /\ job'.before = job.before /\ job' \in JobStates
  <2>1. CASE n = Uploads
    BY <1>0, <1>1, <2>1, NamesFacts, GoesType DEF JobPcs
  <2>2. CASE n # Uploads
    BY <1>0, <1>1, <2>2, NamesFacts, GoesType DEF JobPcs
  <2>. QED
    BY <2>1, <2>2
<1>3. /\ live' \in [Names -> Values] /\ temp' \in [Names -> Values]
      /\ \A k \in Names \ {n} : temp'[k] = temp[k] /\ live'[k] = live[k]
      /\ live'[n] = "bundle"
  BY <1>0, <1>1 DEF DataOK, Values, Moved
<1>4. DataOK'
  BY <1>0, <1>1, <1>2, <1>3 DEF DataOK
<1>5. Swapped(n)'
  BY <1>0, <1>1, <1>2, <1>3 DEF Swapped, Moved, Stowed, Unmoved, Had
<1>6. ASSUME NEW k \in Names, k < n PROVE Swapped(k)'
  BY <1>0, <1>1, <1>2, <1>3, <1>6, NamesFacts DEF Swapping, Swapped, Stowed, Had
<1>7. ASSUME NEW k \in Names, k > n PROVE Pending(k)'
  BY <1>0, <1>1, <1>2, <1>3, <1>7, NamesFacts DEF Swapping, Pending, Unmoved, Noted, Had, Hit, Used
<1>8. CASE n = Uploads
  <2>1. \A k \in Names : live'[k] = "bundle"
    BY <1>5, <1>6, <1>8, NamesFacts DEF Swapped
  <2>. QED
    BY <1>0, <1>1, <1>2, <1>4, <1>8, <2>1 DEF RestoreInv, RestoreOK, Used
<1>9. CASE n # Uploads
  <2>1. n + 1 \in Names /\ n \in Nat
    BY <1>0, <1>9, NamesFacts
  <2>2. Swapping(n + 1)' /\ Pending(n + 1)'
    BY <1>5, <1>6, <1>7, <2>1, NamesFacts DEF Swapping
  <2>. QED
    BY <1>0, <1>1, <1>2, <1>4, <1>9, <2>1, <2>2 DEF RestoreInv, RestoreOK, Used
<1>. QED
  BY <1>8, <1>9

LEMMA SwapFailsKeeps == ASSUME OneUpset, RestoreInv, SwapFails PROVE RestoreInv'
<1>at. PICK n : n = job.at
  OBVIOUS
<1>0. n = job.at /\ DataOK /\ job.pc = "swap" /\ n \in Names /\ Swapping(n) /\ Moved(n)
  BY <1>at DEF RestoreInv, RestoreOK, SwapFails
<1>1. /\ (live[n] # "none" /\ upsets' = upsets) \/ Upset("fault")
      /\ live' = [live EXCEPT ![n] = IF aside[n] # "none" \/ n = Uploads THEN "none" ELSE @]
      /\ IF aside[n] # "none" THEN Throws("undo", n) ELSE AfterUndo(n)
      /\ UNCHANGED <<temp, aside, made>>
  BY <1>at DEF SwapFails, Others
<1>2. Used' /\ upsets' \in 0..MaxUpsets /\ ~Broken(job.before)
  <2>1. CASE Upset("fault")
    BY <1>0, <2>1, UpsetUses DEF RestoreInv
  <2>2. CASE live[n] # "none" /\ upsets' = upsets
    BY <1>0, <2>2 DEF Moved, Hit, Used, DataOK
  <2>. QED
    BY <1>1, <2>1, <2>2
<1>3. /\ live' \in [Names -> Values]
      /\ \A k \in Names \ {n} : live'[k] = live[k]
      /\ live'[n] = IF aside[n] # "none" \/ n = Uploads THEN "none" ELSE live[n]
  BY <1>0, <1>1 DEF DataOK, Values
<1>4. CASE aside[n] # "none"
  <2>1. /\ job'.pc = "undo" /\ job'.at = n /\ job'.existed = job.existed /\ job'.error
        /\ job'.before = job.before /\ job' \in JobStates
    BY <1>0, <1>1, <1>4, NamesFacts, GoesType DEF JobPcs
  <2>2. DataOK'
    BY <1>0, <1>1, <1>2, <1>3, <2>1 DEF DataOK
  <2>3. Undoing(n)'
    BY <1>0, <1>1, <1>3, <2>1, NamesFacts DEF Swapping, Undoing, Swapped, Stowed, Pending, Unmoved, Left, Spared, Had
  <2>4. Gone(n)' /\ aside'[n] # "none"
    BY <1>0, <1>1, <1>3, <1>4, <2>1 DEF Gone, Moved, Stowed, Had
  <2>. QED
    BY <1>0, <1>2, <2>1, <2>2, <2>3, <2>4 DEF RestoreInv, RestoreOK, Failing, Hit
<1>5. CASE aside[n] = "none"
  <2>1. Rollback(n - 1)
    BY <1>1, <1>5 DEF AfterUndo
  <2>2. Spared(n, live'[n])
    BY <1>0, <1>3, <1>5 DEF Moved, Unmoved, Spared
  <2>3. ASSUME NEW k \in Names, k < n
        PROVE  /\ live'[k] = "bundle" /\ Had(k, aside'[k])
               /\ aside'[k] # "none" => k \in job.existed \cup {Uploads}
    BY <1>0, <1>1, <1>3, <2>3, NamesFacts DEF Swapping, Swapped, Stowed
  <2>4. \A k \in Names : k > n => Spared(k, live'[k])
    BY <1>0, <1>1, <1>3, NamesFacts DEF Swapping, Pending, Unmoved, Spared
  <2>. QED
    <3>1. n - 1 \in 0..TableCount
      BY <1>0, Before
    <3>2. ASSUME NEW k \in Names, k <= n - 1
          PROVE  /\ live'[k] = "bundle" /\ Had(k, aside'[k])
                 /\ aside'[k] # "none" => k \in job.existed \cup {Uploads}
      <4>1. k < n /\ k # n
        BY <1>0, <3>2, Before
      <4>. QED
        BY <2>3, <4>1
    <3>3. \A k \in Names : k > n - 1 => Spared(k, live'[k])
      BY <1>0, <2>2, <2>4, Before
    <3>4. /\ DataOK /\ job.pc # "idle" /\ live' \in [Names -> Values] /\ temp' \in [Names -> Values]
          /\ aside' \in [Names -> Values] /\ made' = made
      BY <1>0, <1>1, <1>3 DEF DataOK
    <3>. QED
      BY <1>2, <2>1, <3>1, <3>2, <3>3, <3>4, RollsBack
<1>. QED
  BY <1>4, <1>5

LEMMA UndoKeeps == ASSUME RestoreInv, Undo PROVE RestoreInv'
<1>at. PICK n : n = job.at
  OBVIOUS
<1>0. /\ n = job.at /\ DataOK /\ job.pc = "undo" /\ n \in Names /\ Failing /\ Undoing(n)
      /\ Gone(n) /\ aside[n] # "none"
  BY <1>at DEF RestoreInv, RestoreOK, Undo
<1>1. /\ Rollback(n - 1) /\ UNCHANGED <<temp, made, upsets>>
      /\ live' = [live EXCEPT ![n] = aside[n]] /\ aside' = [aside EXCEPT ![n] = "none"]
  BY <1>at DEF Undo, AfterUndo, Others
<1>2. /\ live' \in [Names -> Values] /\ aside' \in [Names -> Values] /\ temp' \in [Names -> Values]
      /\ \A k \in Names \ {n} : aside'[k] = aside[k] /\ live'[k] = live[k]
      /\ live'[n] = aside[n]
  BY <1>0, <1>1 DEF DataOK, Values
<1>3. Used' /\ upsets' \in 0..MaxUpsets /\ ~Broken(job.before) /\ n - 1 \in 0..TableCount
  BY <1>0, <1>1, Before DEF Failing, Hit, Used, DataOK
<1>4. ASSUME NEW k \in Names, k <= n - 1
      PROVE  /\ live'[k] = "bundle" /\ Had(k, aside'[k])
             /\ aside'[k] # "none" => k \in job.existed \cup {Uploads}
  <2>1. k < n /\ k # n
    BY <1>0, <1>4, Before, Zenon
  <2>. QED
    BY <1>0, <1>2, <2>1 DEF Undoing, Swapped, Stowed
<1>5. ASSUME NEW k \in Names, k > n - 1 PROVE Spared(k, live'[k])
  <2>1. k = n \/ k > n
    BY <1>0, <1>5, Before
  <2>. QED
    BY <1>0, <1>2, <2>1 DEF Undoing, Gone, Stowed, Left, Spared
<1>. QED
  BY <1>0, <1>1, <1>2, <1>3, <1>4, <1>5, RollsBack

LEMMA UndoFailsNever == ASSUME OneUpset, RestoreInv PROVE ~UndoFails
<1>1. job.pc = "undo" => Used /\ live[job.at] = "none"
  BY DEF RestoreInv, RestoreOK, Failing, Hit, Gone
<1>. QED
  BY <1>1, UpsetUses DEF UndoFails, RestoreInv

LEMMA RollbackDropsKeeps == ASSUME RestoreInv, RollbackDrops PROVE RestoreInv'
<1>at. PICK n : n = job.at
  OBVIOUS
<1>0. /\ n = job.at /\ DataOK /\ job.pc = "drop" /\ n \in Tables /\ n \in Names /\ Failing
      /\ Undoing(n) /\ Swapped(n)
  BY <1>at, NamesFacts DEF RestoreInv, RestoreOK, RollbackDrops
<1>1. /\ Goes("back", n) /\ UNCHANGED <<temp, aside, made, upsets>>
      /\ live' = [live EXCEPT ![n] = "none"]
  BY <1>at DEF RollbackDrops, Others
<1>2. /\ job'.pc = "back" /\ job'.at = n /\ job'.existed = job.existed /\ job'.error = job.error
      /\ job'.before = job.before /\ job' \in JobStates
  BY <1>0, <1>1, NamesFacts, GoesType DEF JobPcs
<1>3. /\ live' \in [Names -> Values] /\ live'[n] = "none"
      /\ \A k \in Names \ {n} : live'[k] = live[k]
  BY <1>0, <1>1 DEF DataOK, Values
<1>4. DataOK'
  BY <1>0, <1>1, <1>2, <1>3 DEF DataOK
<1>5. Undoing(n)'
  BY <1>0, <1>1, <1>2, <1>3, NamesFacts DEF Undoing, Swapped, Stowed, Left, Spared, Had
<1>6. Gone(n)'
  BY <1>0, <1>1, <1>2, <1>3 DEF Gone, Swapped, Stowed, Had
<1>. QED
  BY <1>0, <1>1, <1>2, <1>4, <1>5, <1>6 DEF RestoreInv, RestoreOK, Failing, Hit, Used

LEMMA RollbackRenamesKeeps == ASSUME RestoreInv, RollbackRenames PROVE RestoreInv'
<1>at. PICK n : n = job.at
  OBVIOUS
<1>0. /\ n = job.at /\ DataOK /\ job.pc = "back" /\ n \in Tables /\ n \in Names /\ Failing
      /\ Undoing(n) /\ Gone(n) /\ n # Uploads
  BY <1>at, NamesFacts DEF RestoreInv, RestoreOK, RollbackRenames
<1>1. /\ Rollback(n - 1) /\ UNCHANGED <<temp, made, upsets>>
      /\ IF n \in job.existed /\ aside[n] # "none"
         THEN live' = [live EXCEPT ![n] = aside[n]] /\ aside' = [aside EXCEPT ![n] = "none"]
         ELSE UNCHANGED <<live, aside>>
  BY <1>at DEF RollbackRenames, Others
<1>2. /\ live' \in [Names -> Values] /\ aside' \in [Names -> Values] /\ temp' \in [Names -> Values]
      /\ \A k \in Names \ {n} : aside'[k] = aside[k] /\ live'[k] = live[k]
      /\ live'[n] = aside[n]
  BY <1>0, <1>1 DEF DataOK, Values, Gone, Stowed
<1>3. Used' /\ upsets' \in 0..MaxUpsets /\ ~Broken(job.before) /\ n - 1 \in 0..TableCount
  BY <1>0, <1>1, Before DEF Failing, Hit, Used, DataOK
<1>4. ASSUME NEW k \in Names, k <= n - 1
      PROVE  /\ live'[k] = "bundle" /\ Had(k, aside'[k])
             /\ aside'[k] # "none" => k \in job.existed \cup {Uploads}
  <2>1. k < n /\ k # n
    BY <1>0, <1>4, Before, Zenon
  <2>. QED
    BY <1>0, <1>2, <2>1 DEF Undoing, Swapped, Stowed
<1>5. ASSUME NEW k \in Names, k > n - 1 PROVE Spared(k, live'[k])
  <2>1. k = n \/ k > n
    BY <1>0, <1>5, Before
  <2>. QED
    BY <1>0, <1>2, <2>1 DEF Undoing, Gone, Stowed, Left, Spared
<1>. QED
  BY <1>0, <1>1, <1>2, <1>3, <1>4, <1>5, RollsBack

LEMMA RollbackFailsNever == ASSUME OneUpset, RestoreInv PROVE ~RollbackFails
<1>1. job.pc \in {"drop", "back"} => Used
  BY DEF RestoreInv, RestoreOK, Failing, Hit
<1>2. job.pc = "back" => live[job.at] = "none"
  BY DEF RestoreInv, RestoreOK, Gone
<1>. QED
  BY <1>1, <1>2, UpsetUses DEF RollbackFails, RestoreInv

(* The end of a restore: everything is restored, or nothing and it failed. *)
Ending == \/ \A k \in Names : live[k] = "bundle"
          \/ Failing /\ \A k \in Names : Left(k)

LEMMA CleansUpKeeps == ASSUME OneUpset, RestoreInv, CleansUp PROVE RestoreInv'
<1>0. DataOK /\ Ending /\ job.pc = "cleanup" /\ (Broken(job.before) => Used)
  BY DEF RestoreInv, RestoreOK, Ending, CleansUp
<1>1. /\ temp' = Nothing /\ aside' = Nothing /\ UNCHANGED <<live, made>>
      /\ \/ Goes("report", 0) /\ upsets' = upsets
         \/ Upset("fault") /\ Throws("report", 0)
  BY DEF CleansUp, SameSettings
<1>2. job'.pc = "report" /\ job'.before = job.before /\ job' \in JobStates
      /\ (job.error => job'.error)
  BY <1>0, <1>1, NamesFacts, GoesType DEF JobPcs, Goes, Throws
<1>3. upsets' \in 0..MaxUpsets /\ (Used => Used')
  BY <1>0, <1>1, UpsetUses DEF Used, DataOK
<1>4. DataOK'
  BY <1>0, <1>1, <1>2, <1>3, NothingType DEF DataOK
<1>5. Ending'
  BY <1>0, <1>1, <1>2, <1>3 DEF Ending, Failing, Hit, Left, Spared, Had
<1>. QED
  BY <1>0, <1>2, <1>3, <1>4, <1>5 DEF RestoreInv, RestoreOK, Ending

(* What a restore left when it is over.                                    *)
LEMMA EndingOrigin ==
    ASSUME DataOK, Ending
    PROVE  \/ Data = "bundle" /\ Files = "bundle"
           \/ /\ Failing /\ Data = job.before.data /\ Data # "mixed"
              /\ Files \in {job.before.files, "lost"}
<1>1. CASE \A k \in Names : live[k] = "bundle"
  BY <1>1, Origins, NamesFacts DEF FilesOf
<1>2. CASE Failing /\ \A k \in Names : Left(k)
  <2>1. job.before.data \in {"shop", "bundle"}
    BY <1>2, JobType DEF Failing, Hit, Broken
  <2>2. Data = job.before.data
    BY <1>2, <2>1, Origins, NamesFacts DEF Left, Spared, Had
  <2>3. Files \in {job.before.files, "lost"}
    BY <1>2, Origins, NamesFacts DEF Left, Spared, Had, FilesOf
  <2>. QED
    BY <1>2, <2>1, <2>2, <2>3
<1>. QED
  BY <1>1, <1>2 DEF Ending

(* The settings are there when it reports.                                 *)
LEMMA ReportsInPlace ==
    ASSUME RestoreInv, Reports
    PROVE  UNCHANGED <<live, made>>
<1>0. DataOK /\ Ending
  BY DEF RestoreInv, RestoreOK, Ending, Reports
<1>1. live[1] # "none"
  <2>1. CASE \A k \in Names : live[k] = "bundle"
    BY <2>1, NamesFacts
  <2>2. CASE Failing /\ \A k \in Names : Left(k)
    BY <1>0, <2>2, NamesFacts, JobType DEF DataOK, Failing, Hit, Broken, Left, Spared, Had
  <2>. QED
    BY <1>0, <2>1, <2>2 DEF Ending
<1>. QED
  BY <1>1 DEF Reports, Records

LEMMA ReportsKeeps == ASSUME OneUpset, RestoreInv, Reports PROVE RestoreInv'
<1>0. DataOK /\ Ending /\ job.pc = "report"
  BY DEF RestoreInv, RestoreOK, Ending, Reports
<1>1. /\ job' = NoJob /\ UNCHANGED <<live, temp, aside, made>> /\ upsets' \in 0..MaxUpsets
      /\ Used => Used'
  BY <1>0, ReportsInPlace, UpsetUses DEF Reports, DataOK, Used
<1>2. DataOK'
  BY <1>0, <1>1, NoJobType DEF DataOK
<1>3. (Data = "bundle" /\ Files = "bundle") \/ Used
  BY <1>0, EndingOrigin DEF Failing, Hit
<1>4. Data' = Data /\ Files' = Files
  BY <1>1 DEF Data, Files
<1>. QED
  BY <1>1, <1>2, <1>3, <1>4, NoJobType DEF RestoreInv, RestoreOK, Broken

-----------------------------------------------------------------------------
(* Someone writes to a name that is away.                                  *)
Writes(k) == Revives(k) /\ UNCHANGED <<temp, aside, job>>

LEMMA WriteType ==
    ASSUME live \in [Names -> Values], made \subseteq Names, NEW k \in Names, Writes(k)
    PROVE  /\ live[k] = "none" /\ live' \in [Names -> Values]
           /\ live'[k] = (IF k \in made THEN "stray" ELSE "shop")
           /\ \A i \in Names \ {k} : live'[i] = live[i]
           /\ made' = made \cup {k} /\ made' \subseteq Names
           /\ UNCHANGED <<temp, aside, job>>
BY DEF Writes, Revives, Fills, Values

(* Collections of one origin stay so; mixed ones stay mixed.               *)
LEMMA WriteOrigin ==
    ASSUME live \in [Names -> Values], made \subseteq Names, Uploads \in made,
           NEW k \in Names, Writes(k)
    PROVE  Data' = Data /\ Files' = Files
<1>1. /\ live[k] = "none" /\ live'[k] = (IF k \in made THEN "stray" ELSE "shop")
      /\ \A i \in Names \ {k} : live'[i] = live[i]
      /\ made' = made \cup {k}
  BY WriteType
<1>2. (\A i \in Tables : live[i] = "bundle") <=> (\A i \in Tables : live'[i] = "bundle")
  BY <1>1, NamesFacts
<1>3. (\A i \in Tables : live[i] = IF i \in made THEN "shop" ELSE "none")
      <=> (\A i \in Tables : live'[i] = IF i \in made' THEN "shop" ELSE "none")
  <2>1. k \notin made <=> live'[k] = IF k \in made' THEN "shop" ELSE "none"
    BY <1>1
  <2>2. k \notin made <=> live[k] = IF k \in made THEN "shop" ELSE "none"
    BY <1>1
  <2>3. \A i \in Names \ {k} : (live[i] = IF i \in made THEN "shop" ELSE "none")
                              <=> (live'[i] = IF i \in made' THEN "shop" ELSE "none")
    BY <1>1
  <2>. QED
    BY <2>1, <2>2, <2>3, NamesFacts
<1>4. Files' = Files
  BY <1>1, NamesFacts DEF Files
<1>. QED
  BY <1>2, <1>3, <1>4 DEF Data

(* During a restore it is the one upset: a name not swapped yet has now    *)
(* what the shop makes of it.                                              *)
LEMMA WriteAway ==
    ASSUME OneUpset, RestoreInv, NEW k \in Names, Writes(k), job.pc # "idle"
    PROVE  /\ DataOK' /\ ~Used /\ Used' /\ Hit' /\ ~Swapped(k)
           /\ \A i \in Names : Pending(i) => Pending(i)'
           /\ \A i \in Names : Swapped(i) => Swapped(i)'
           /\ \A i \in Names : Noted(i) => Noted(i)'
           /\ \A i \in Names : Unmoved(i) => Unmoved(i)'
           /\ \A i \in Names : Moved(i) => Moved(i)'
<1>0. DataOK
  BY DEF RestoreInv
<1>1. Upset("stray")
  BY DEF Writes, Revives
<1>2. ~Used /\ Used' /\ upsets' \in 0..MaxUpsets
  BY <1>0, <1>1, UpsetUses
<1>3. /\ live[k] = "none" /\ live' \in [Names -> Values]
      /\ live'[k] = (IF k \in made THEN "stray" ELSE "shop") /\ live'[k] # "none"
      /\ \A i \in Names \ {k} : live'[i] = live[i]
      /\ made' = made \cup {k} /\ made' \subseteq Names
      /\ UNCHANGED <<temp, aside, job>>
  BY <1>0, WriteType DEF DataOK
<1>4. DataOK'
  BY <1>0, <1>2, <1>3 DEF DataOK
<1>5. ~Broken(job.before) /\ Hit'
  BY <1>0, <1>2, <1>3 DEF RestoreInv, Hit
<1>a. job.before.data \in {"shop", "bundle"} /\ job.before.files \in {"shop", "bundle"}
  BY <1>0, <1>5, JobType DEF Broken
<1>6. ~Swapped(k)
  BY <1>3 DEF Swapped
<1>7. Unmoved(k) => Unmoved(k)' /\ job.before.data = "shop" /\ k \notin made /\ k # Uploads
  <2>1. k = Uploads => ~Unmoved(k)
    BY <1>3, <1>a DEF Unmoved, Had, FilesOf
  <2>. QED
    BY <1>3, <1>a, <2>1 DEF Unmoved, Had
<1>8. \A i \in Names : Unmoved(i) => Unmoved(i)'
  BY <1>3, <1>7 DEF Unmoved, Had
<1>9. \A i \in Names : Noted(i) => Noted(i)'
  BY <1>3, <1>5 DEF Noted
<1>10. \A i \in Names : Pending(i) => Pending(i)'
  BY <1>3, <1>8, <1>9 DEF Pending
<1>11. ASSUME NEW i \in Names, Stowed(i), aside[i] # "none" \/ i # k PROVE Stowed(i)'
  BY <1>3, <1>a, <1>11 DEF Stowed, Had
<1>12. \A i \in Names : Swapped(i) => Swapped(i)'
  BY <1>3, <1>6, <1>11 DEF Swapped
<1>13. ASSUME NEW i \in Names, Moved(i) PROVE Moved(i)'
  <2>1. aside[i] # "none" => Stowed(i)'
    BY <1>11, <1>13 DEF Moved
  <2>2. aside[i] = "none" => Unmoved(i)'
    BY <1>8, <1>13 DEF Moved
  <2>3. aside[i] = "none" /\ i = Uploads => live'[i] = "none"
    BY <1>0, <1>3, <1>7, <1>13 DEF Moved, DataOK
  <2>. QED
    BY <1>3, <1>5, <1>13, <2>1, <2>2, <2>3 DEF Moved
<1>. QED
  BY <1>2, <1>4, <1>5, <1>6, <1>8, <1>9, <1>10, <1>12, <1>13

LEMMA WritesKeep ==
    ASSUME OneUpset, RestoreInv, NEW k \in Names, Writes(k)
    PROVE  RestoreInv'
<1>0. DataOK
  BY DEF RestoreInv
<1>1. CASE job.pc = "idle"
  <2>1. Data' = Data /\ Files' = Files /\ upsets' = upsets /\ job' = job
    BY <1>0, <1>1, WriteOrigin DEF Writes, Revives, DataOK
  <2>2. DataOK'
    BY <1>0, <2>1, WriteType DEF DataOK
  <2>. QED
    BY <1>1, <2>1, <2>2 DEF RestoreInv, RestoreOK, Used, Broken
<1>2. CASE job.pc # "idle"
  <2>at. PICK n : n = job.at
    OBVIOUS
  <2>1. /\ DataOK' /\ ~Used /\ Used' /\ Hit' /\ ~Swapped(k)
        /\ \A i \in Names : Pending(i) => Pending(i)'
        /\ \A i \in Names : Swapped(i) => Swapped(i)'
        /\ \A i \in Names : Noted(i) => Noted(i)'
        /\ \A i \in Names : Unmoved(i) => Unmoved(i)'
        /\ \A i \in Names : Moved(i) => Moved(i)'
    BY <1>2, WriteAway
  <2>2. UNCHANGED <<temp, aside, job>> /\ live[k] = "none"
    BY <1>0, WriteType DEF DataOK
  <2>3. Swapping(n) => Swapping(n)'
    BY <2>1 DEF Swapping
  <2>4. Staging => Staging'
    BY <2>1, <2>2 DEF Staging
  <2>5. job.pc \in {"stage", "aside", "swap"}
    BY <1>0, <1>2, <2>1, <2>2, JobType DEF RestoreInv, RestoreOK, Failing, Hit, JobPcs
  <2>. QED
    BY <2>at, <2>1, <2>2, <2>3, <2>4, <2>5 DEF RestoreInv, RestoreOK
<1>. QED
  BY <1>1, <1>2

LEMMA ProcessDiesKeeps == ASSUME OneUpset, RestoreInv, ProcessDies PROVE RestoreInv'
<1>1. /\ DataOK /\ Upset("crash") /\ UNCHANGED <<live, temp, aside, made>>
      /\ job'.pc = "idle" /\ job' \in JobStates
  BY DeadJobType DEF RestoreInv, DataOK, ProcessDies, DeadJob
<1>2. Used' /\ upsets' \in 0..MaxUpsets
  BY <1>1, UpsetUses
<1>3. DataOK'
  BY <1>1, <1>2 DEF DataOK
<1>. QED
  BY <1>1, <1>2, <1>3 DEF RestoreInv, RestoreOK

-----------------------------------------------------------------------------
(* Policy and backups do not touch what a restore works on, but that the   *)
(* policy is a write to the settings.                                      *)
BackupOnly ==
    \/ IntervalPasses \/ BackupBegins("MANUAL") \/ BackupBegins("SCHEDULED")
    \/ DownloadBegins \/ ReadTable \/ ReadUploads \/ BackupEnds \/ BackupFails
RestoreSteps ==
    \/ RestoreBegins \/ StageTable \/ StageUploads \/ StageFails \/ MoveAside \/ MoveAsideFails
    \/ Swap \/ SwapFails \/ Undo \/ UndoFails
    \/ RollbackDrops \/ RollbackRenames \/ RollbackFails \/ CleansUp \/ Reports

LEMMA NextParts ==
    BackupNext => \/ BackupOnly \/ RestoreSteps \/ SavePolicy
                  \/ (\E k \in Names : ShopWrites(k)) \/ ProcessDies
BY DEF BackupNext, BackupOnly, RestoreSteps

LEMMA PolicyParts ==
    ASSUME SavePolicy
    PROVE  Writes(1) \/ UNCHANGED <<live, temp, aside, made, job, upsets>>
BY DEF SavePolicy, Writes

LEMMA BackupOnlySame ==
    ASSUME DataOK, settings \in SettingsDocuments, BackupOnly
    PROVE  /\ UNCHANGED <<live, temp, aside, made, job>> /\ settings'.restore = settings.restore
           /\ upsets' \in 0..MaxUpsets /\ upsets <= upsets'
<1>1. CASE BackupFails
  <2>1. upsets \in Nat /\ MaxUpsets \in Nat
    BY BackupAssumption DEF DataOK
  <2>. QED
    BY <1>1, <2>1 DEF BackupFails, Upset, SettingsDocuments
<1>2. CASE ~BackupFails
  <2>1. upsets' = upsets /\ UNCHANGED <<live, temp, aside, made, job>>
        /\ settings'.restore = settings.restore
    BY <1>2 DEF BackupOnly, IntervalPasses, BackupBegins, DownloadBegins, ReadTable,
                ReadUploads, Reads, BackupEnds, SettingsDocuments
  <2>. QED
    BY <2>1, BackupAssumption DEF DataOK
<1>. QED
  BY <1>1, <1>2

LEMMA RestoreInvStep ==
    ASSUME OneUpset
    PROVE  RestoreInv /\ settings \in SettingsDocuments /\ [BackupNext]_backupVars => RestoreInv'
<1> SUFFICES ASSUME RestoreInv, settings \in SettingsDocuments, [BackupNext]_backupVars
             PROVE  RestoreInv'
  OBVIOUS
<1>0. DataOK /\ upsets \in 0..MaxUpsets /\ upsets <= upsets
  BY BackupAssumption DEF RestoreInv, DataOK
<1>1. CASE BackupOnly
  BY <1>0, <1>1, BackupOnlySame, Elsewhere
<1>2. CASE RestoreSteps
  BY <1>2, RestoreBeginsKeeps, StageTableKeeps, StageUploadsKeeps, StageFailsKeeps, MoveAsideKeeps,
     MoveAsideFailsKeeps, SwapKeeps, SwapFailsKeeps, UndoKeeps, UndoFailsNever, RollbackDropsKeeps,
     RollbackRenamesKeeps, RollbackFailsNever, CleansUpKeeps, ReportsKeeps DEF RestoreSteps
<1>3. CASE SavePolicy
  BY <1>0, <1>3, PolicyParts, WritesKeep, Elsewhere, NamesFacts
<1>4. CASE \E k \in Names : ShopWrites(k)
  BY <1>4, WritesKeep DEF ShopWrites, Writes
<1>5. CASE ProcessDies
  BY <1>5, ProcessDiesKeeps
<1>6. CASE UNCHANGED backupVars
  BY <1>0, <1>6, Elsewhere DEF backupVars
<1>. QED
  BY <1>1, <1>2, <1>3, <1>4, <1>5, <1>6, NextParts

-----------------------------------------------------------------------------
(* The archives. No bound on the upsets here.                              *)

LEMMA NoBackupType == NoBackup \in BackupStates /\ NoBackup.pc = "idle"
BY DEF NoBackup, BackupStates, Values

LEMMA ArchivesInit == BackupInit => BackupInv
<1> SUFFICES ASSUME BackupInit PROVE BackupInv
  OBVIOUS
<1>1. Shapes
  BY RestoreInit, DefaultType DEF RestoreInv, DataOK, Shapes, BackupInit
<1>2. ReadingOK
  BY NoBackupType DEF BackupInit, ReadingOK
<1>3. ArchivesOK
  BY DefaultType, NoBackupType, NoJobType DEF BackupInit, ArchivesOK, Named
<1>. QED
  BY <1>1, <1>2, <1>3 DEF BackupInv

(* What a restore makes of the settings: it leaves them, or reports in     *)
(* them, or there are those that it moved aside, none, or a bundle's.      *)
Reporting(document) == \E outcome \in Promise!Outcomes :
                          document = [settings EXCEPT !.restore = outcome]
Brought(document) ==
    document \in {settings, shelved, Default} \cup Bundled \/ Reporting(document)

LEMMA SettingsOfSteps ==
    ASSUME RestoreSteps
    PROVE  /\ Brought(settings')
           /\ shelved' \in {shelved, settings, Default}
           /\ RestoreBegins => settings' = settings /\ shelved' = Default
           /\ ~RestoreBegins => job.pc # "idle"
           /\ UNCHANGED <<backup, archives, begun>>
<1>1. CASE RestoreBegins
  BY <1>1 DEF RestoreBegins, Brought, Others
<1>2. CASE StageTable \/ StageUploads \/ StageFails \/ MoveAsideFails \/ UndoFails \/ RollbackFails
           \/ CleansUp
  <2>1. UNCHANGED <<settings, shelved, backup, archives, begun>> /\ job.pc # "idle"
    BY <1>2 DEF StageTable, StageUploads, StageFails, MoveAsideFails, UndoFails, RollbackFails, CleansUp,
                Staged, OnlyJob, SameSettings, Others
  <2>2. ~RestoreBegins
    BY <2>1 DEF RestoreBegins, MayRestore, Free
  <2>. QED
    BY <2>1, <2>2 DEF Brought
<1>3. CASE MoveAside \/ Swap \/ SwapFails \/ Undo \/ RollbackDrops \/ RollbackRenames
  <2>1. job.pc # "idle" /\ ~RestoreBegins /\ UNCHANGED <<backup, archives, begun>>
    BY <1>3 DEF MoveAside, Swap, SwapFails, Undo, RollbackDrops, RollbackRenames, RestoreBegins,
                MayRestore, Free, Others
  <2>2. settings' \in {settings, shelved, Default} \cup Bundled
    BY <1>3, BackupAssumption
    DEF MoveAside, Swap, SwapFails, Undo, RollbackDrops, RollbackRenames, SettingsBecome
  <2>3. shelved' \in {shelved, settings}
    BY <1>3 DEF MoveAside, Swap, SwapFails, Undo, RollbackDrops, RollbackRenames
  <2>. QED
    BY <2>1, <2>2, <2>3 DEF Brought
<1>4. CASE Reports
  <2>1. UNCHANGED <<shelved, backup, archives, begun>> /\ job.pc # "idle"
    BY <1>4 DEF Reports, Others
  <2>2. settings' = settings \/ Reporting(settings')
    BY <1>4 DEF Reports, Records, Reporting, Promise!Outcomes
  <2>3. ~RestoreBegins
    BY <2>1 DEF RestoreBegins, MayRestore, Free
  <2>. QED
    BY <2>1, <2>2, <2>3 DEF Brought
<1>. QED
  BY <1>1, <1>2, <1>3, <1>4 DEF RestoreSteps

LEMMA BundledFacts ==
    ASSUME NEW document \in Bundled
    PROVE  document \in SettingsDocuments /\ ~document.own
BY BackupAssumption

LEMMA ReportingFacts ==
    ASSUME settings \in SettingsDocuments, NEW document, Reporting(document)
    PROVE  /\ document \in SettingsDocuments
           /\ document.own = settings.own /\ document.status = settings.status
           /\ document.bundle = settings.bundle
BY DEF Reporting, SettingsDocuments, Promise!Outcomes

(* A restore does not run while a backup does, nor begin; and the settings *)
(* it brings report nothing of a backup here.                              *)
LEMMA RestoreApart ==
    ASSUME BackupInv, RestoreSteps
    PROVE  BackupInv'
<1>0. Shapes /\ backup.pc = "idle"
  <2>1. CASE RestoreBegins
    BY <2>1 DEF RestoreBegins, MayRestore, Free, BackupInv
  <2>2. CASE ~RestoreBegins
    BY <2>2, SettingsOfSteps DEF BackupInv, ReadingOK
  <2>. QED
    BY <2>1, <2>2
<1>1. live' \in [Names -> Values] /\ temp' \in [Names -> Values] /\ aside' \in [Names -> Values]
  BY <1>0, NothingType
  DEF Shapes, Values, RestoreSteps, RestoreBegins, StageTable, StageUploads, StageFails,
      MoveAside, MoveAsideFails, Swap, SwapFails, Undo, UndoFails, RollbackDrops, RollbackRenames,
      RollbackFails, CleansUp, Reports, Records, Fills, Staged, OnlyJob, SameSettings, Others
<1>2. made' = made \/ made' = made \cup {1}
  BY DEF RestoreSteps, RestoreBegins, StageTable, StageUploads, StageFails,
      MoveAside, MoveAsideFails, Swap, SwapFails, Undo, UndoFails, RollbackDrops, RollbackRenames,
      RollbackFails, CleansUp, Reports, Records, Fills, Staged, OnlyJob, SameSettings, Others
<1>3. settings' \in SettingsDocuments /\ shelved' \in SettingsDocuments
  BY <1>0, SettingsOfSteps, DefaultType, BundledFacts, ReportingFacts DEF Shapes, Brought
<1>4. Shapes'
  BY <1>0, <1>1, <1>2, <1>3, NamesFacts DEF Shapes
<1>5. UNCHANGED <<backup, archives, begun>>
  BY SettingsOfSteps
<1>6. Named(settings)' /\ Named(shelved)'
  <2>1. Named(settings) /\ (~RestoreBegins => Named(shelved))
    BY SettingsOfSteps DEF BackupInv, ArchivesOK
  <2>2. RestoreBegins => settings' = settings /\ shelved' = Default
    BY SettingsOfSteps
  <2>3. \A document : ~document.own => Named(document)
    BY DEF Named
  <2>4. Reporting(settings') => Named(settings')
    BY <1>0, <2>1, ReportingFacts DEF Named, Shapes
  <2>5. settings' \in {settings, shelved, Default} \cup Bundled => Named(settings')
    BY <2>1, <2>2, <2>3, DefaultType, BundledFacts
  <2>6. Named(shelved')
    BY <2>1, <2>2, <2>3, DefaultType, SettingsOfSteps
  <2>7. Named(settings')
    BY <2>4, <2>5, SettingsOfSteps DEF Brought
  <2>. QED
    BY <1>5, <2>6, <2>7 DEF Named
<1>. QED
  BY <1>0, <1>4, <1>5, <1>6 DEF BackupInv, ReadingOK, ArchivesOK

LEMMA SameOrigin ==
    ASSUME UNCHANGED <<live, made>>
    PROVE  Data' = Data /\ Files' = Files /\ (Mixed <=> Mixed')
BY DEF Data, Files, Mixed

(* A backup that begins has read nothing.                                  *)
LEMMA ReadingType ==
    ASSUME NEW archived \in BOOLEAN, NEW n \in Nat, NEW keep \in Nat \ {0}
    PROVE  /\ Reading(archived, n, keep) \in BackupStates /\ Reading(archived, n, keep).seen = {}
           /\ Reading(archived, n, keep).mixed <=> Mixed
           /\ Reading(archived, n, keep).archived = archived /\ Reading(archived, n, keep).n = n
BY DEF Reading, BackupStates, Mixed

LEMMA BeginsKeeps ==
    ASSUME BackupInv, BackupBegins("MANUAL") \/ BackupBegins("SCHEDULED") \/ DownloadBegins
    PROVE  BackupInv'
<1>1. /\ job.pc = "idle" /\ UNCHANGED <<live, temp, aside, made, job, shelved, archives>>
      /\ Shapes /\ ArchivesOK
  BY DEF BackupBegins, DownloadBegins, Free, BackupInv
<1>2. \/ /\ backup' = Reading(TRUE, begun + 1, settings.keep) /\ begun' = begun + 1
         /\ settings' = [settings EXCEPT !.status = "RUNNING", !.due = FALSE]
      \/ backup' = Reading(FALSE, 0, 1) /\ UNCHANGED <<begun, settings>>
  BY DEF BackupBegins, DownloadBegins
<1>3. begun \in Nat /\ settings.keep \in Nat \ {0} /\ settings \in SettingsDocuments
  BY <1>1 DEF ArchivesOK, Shapes, SettingsDocuments
<1>a. Reading(FALSE, 0, 1) \in BackupStates /\ Reading(FALSE, 0, 1).seen = {}
      /\ (Reading(FALSE, 0, 1).mixed <=> Mixed) /\ ~Reading(FALSE, 0, 1).archived
  <2>1. FALSE \in BOOLEAN /\ 0 \in Nat /\ 1 \in Nat \ {0}
    OBVIOUS
  <2>. QED
    BY <2>1, ReadingType
<1>b. \E r : /\ r = Reading(TRUE, begun + 1, settings.keep) /\ r.n = begun + 1
             /\ r \in BackupStates /\ r.seen = {} /\ (r.mixed <=> Mixed)
  <2>1. TRUE \in BOOLEAN /\ begun + 1 \in Nat
    BY <1>3
  <2>. QED
    BY <1>3, <2>1, ReadingType
<1>5. ReadingOK'
  BY <1>1, <1>2, <1>a, <1>b, SameOrigin DEF ReadingOK
<1>6. Shapes'
  BY <1>1, <1>2, <1>3 DEF Shapes, SettingsDocuments
<1>7. ArchivesOK'
  <2>1. CASE backup' = Reading(FALSE, 0, 1) /\ UNCHANGED <<begun, settings>>
    BY <1>1, <1>a, <2>1 DEF ArchivesOK, Named
  <2>2. CASE /\ backup' = Reading(TRUE, begun + 1, settings.keep) /\ begun' = begun + 1
             /\ settings' = [settings EXCEPT !.status = "RUNNING", !.due = FALSE]
    <3>1. settings'.status = "RUNNING"
      BY <1>3, <2>2 DEF SettingsDocuments
    <3>2. backup'.n = begun + 1
      BY <1>b, <2>2
    <3>n. begun' = begun + 1 /\ begun \in Nat
      BY <1>3, <2>2
    <3>3. begun' \in Nat /\ backup'.n <= begun'
      BY <3>2, <3>n
    <3>4. \A a \in archives : a.n \in Nat /\ a.n <= begun' /\ a.n < backup'.n
      BY <1>1, <3>2, <3>n DEF ArchivesOK
    <3>. QED
      BY <1>1, <3>1, <3>3, <3>4 DEF ArchivesOK, Named
  <2>. QED
    BY <1>2, <2>1, <2>2
<1>. QED
  BY <1>5, <1>6, <1>7 DEF BackupInv

LEMMA ReadKeeps ==
    ASSUME BackupInv, ReadTable \/ ReadUploads
    PROVE  BackupInv'
<1>1. /\ backup.pc = "read" /\ backup.at \in Names /\ Reads(live[backup.at])
      /\ backup \in BackupStates /\ job.pc = "idle" /\ live[backup.at] \in Values
  BY NamesFacts DEF ReadTable, ReadUploads, BackupInv, ReadingOK, Shapes
<1>2. UNCHANGED <<live, temp, aside, made, job, settings, shelved, archives, begun>>
  BY <1>1 DEF Reads
<1>3. /\ backup' \in BackupStates /\ backup'.mixed = backup.mixed
      /\ backup'.archived = backup.archived /\ backup'.n = backup.n
      /\ backup'.seen = IF live[backup.at] = "none" THEN backup.seen
                        ELSE backup.seen \cup {live[backup.at]}
  <2> DEFINE seen == IF live[backup.at] = "none" THEN backup.seen
                     ELSE backup.seen \cup {live[backup.at]}
             pc == IF backup.at = Uploads THEN "pack" ELSE "read"
  <2>1. backup' = [backup EXCEPT !.seen = seen, !.at = backup.at + 1, !.pc = pc]
    BY <1>1 DEF Reads
  <2>2. seen \in SUBSET Values /\ backup.at + 1 \in Nat /\ pc \in {"idle", "read", "pack"}
    BY <1>1 DEF BackupStates
  <2> HIDE DEF seen, pc
  <2>3. backup' \in BackupStates /\ backup'.mixed = backup.mixed /\ backup'.seen = seen
        /\ backup'.archived = backup.archived /\ backup'.n = backup.n
    BY <1>1, <2>1, <2>2 DEF BackupStates
  <2>. QED
    BY <2>3 DEF seen
<1>4. ~Mixed => live[backup.at] \in {"none", Data}
  <2>1. CASE backup.at = Uploads
    BY <1>1, <2>1, Origins DEF Mixed, FilesOf, Values
  <2>2. CASE backup.at # Uploads
    BY <1>1, <2>2, Origins, NamesFacts DEF Mixed
  <2>. QED
    BY <2>1, <2>2
<1>5. ReadingOK'
  BY <1>1, <1>2, <1>3, <1>4, SameOrigin DEF BackupInv, ReadingOK
<1>6. ArchivesOK'
  BY <1>1, <1>2, <1>3 DEF BackupInv, ArchivesOK, Named
<1>. QED
  BY <1>2, <1>5, <1>6 DEF BackupInv, Shapes

(* The archive that is written is the newest, and none is newer than it.   *)
LEMMA PackedFacts ==
    ASSUME BackupInv, backup.pc = "pack", backup.archived
    PROVE  /\ begun \in Nat /\ backup.n \in Nat
           /\ \A a \in Packed : /\ a.n \in Nat /\ a.n <= begun
                                /\ a.mixed \/ \E origin \in {"shop", "bundle"} : a.seen \subseteq {origin}
           /\ \E a \in Kept(Packed, backup.keep) : a.n = backup.n
<1> DEFINE new == [n |-> backup.n, seen |-> backup.seen, mixed |-> backup.mixed]
<1>1. /\ begun \in Nat /\ backup.n \in Nat /\ backup.keep \in Nat \ {0} /\ backup.n <= begun
      /\ \A a \in archives : a.n \in Nat /\ a.n < backup.n /\ a.n <= begun
      /\ \A a \in archives : a.mixed \/ \E origin \in {"shop", "bundle"} : a.seen \subseteq {origin}
      /\ ~backup.mixed => ~Mixed /\ backup.seen \subseteq {Data}
  BY DEF BackupInv, ReadingOK, ArchivesOK, BackupStates
<1>2. new.n = backup.n /\ (new.mixed \/ \E origin \in {"shop", "bundle"} : new.seen \subseteq {origin})
  BY <1>1, Origins DEF Mixed
<1>3. Packed = archives \cup {new}
  BY DEF Packed
<1>4. new \in Kept(Packed, backup.keep)
  <2>1. {b \in Packed : b.n > new.n} = {}
    BY <1>1, <1>2, <1>3
  <2>2. Cardinality({b \in Packed : b.n > new.n}) = 0
    BY <2>1, FS_EmptySet
  <2>3. Cardinality({b \in Packed : b.n > new.n}) < backup.keep
    BY <1>1, <2>2
  <2>. QED
    BY <1>3, <2>3 DEF Kept
<1>. QED
  BY <1>1, <1>2, <1>3, <1>4

LEMMA EndKeeps ==
    ASSUME BackupInv, BackupEnds
    PROVE  BackupInv'
<1>1. /\ backup.pc = "pack" /\ backup' = NoBackup /\ Shapes
      /\ UNCHANGED <<live, temp, aside, made, job, shelved, begun>>
  BY DEF BackupEnds, BackupInv
<1>2. ReadingOK'
  BY <1>1, NoBackupType DEF BackupInv, ReadingOK
<1>3. CASE ~backup.archived
  <2>1. UNCHANGED <<archives, settings>>
    BY <1>3 DEF BackupEnds
  <2>. QED
    BY <1>1, <1>2, <2>1, NoBackupType DEF BackupInv, ArchivesOK, Shapes, Named
<1>4. CASE backup.archived
  <2>1. /\ archives' = Kept(Packed, backup.keep)
        /\ settings' = [settings EXCEPT !.status = "SUCCESS", !.bundle = backup.n, !.due = FALSE,
                                        !.own = TRUE]
    BY <1>4 DEF BackupEnds
  <2>2. archives' \subseteq Packed /\ \E a \in archives' : a.n = backup.n
    BY <1>1, <1>4, <2>1, PackedFacts DEF Kept
  <2>3. settings' \in SettingsDocuments /\ settings'.bundle = backup.n
    BY <1>1, <1>4, <2>1, PackedFacts DEF Shapes, SettingsDocuments
  <2>4. job.pc = "idle"
    BY <1>1 DEF BackupInv, ReadingOK
  <2>. QED
    BY <1>1, <1>2, <1>4, <2>2, <2>3, <2>4, PackedFacts, NoBackupType
    DEF BackupInv, Shapes, ArchivesOK, Named
<1>. QED
  BY <1>3, <1>4

(* A backup that stops reports nothing, or that it failed.                 *)
LEMMA BreaksOffKeeps ==
    ASSUME BackupInv, BackupFails \/ ProcessDies
    PROVE  BackupInv'
<1>1. /\ BreaksOff /\ Shapes /\ backup' = NoBackup
      /\ UNCHANGED <<live, temp, aside, made, shelved, begun>>
      /\ job'.pc = "idle" \/ job' = job
  BY DeadJobType DEF BackupFails, ProcessDies, BreaksOff, BackupInv, DeadJob
<1>2. settings' = settings \/ (backup.archived /\ settings' = [settings EXCEPT !.status = "ERROR", !.due = FALSE])
  BY DEF BackupFails, ProcessDies
<1>3. ReadingOK'
  BY <1>1, NoBackupType DEF ReadingOK
<1>4. Shapes'
  BY <1>1, <1>2 DEF Shapes, SettingsDocuments
<1>5. CASE archives' = archives
  <2>1. Named(settings)'
    BY <1>1, <1>2, <1>5 DEF BackupInv, ArchivesOK, Named, Shapes, SettingsDocuments
  <2>2. job'.pc # "idle" => Named(shelved)'
    BY <1>1, <1>5, NoJobType DEF BackupInv, ArchivesOK, Named
  <2>. QED
    BY <1>1, <1>3, <1>4, <1>5, <2>1, <2>2, NoBackupType DEF BackupInv, ArchivesOK
<1>6. CASE archives' # archives
  <2>1. /\ backup.archived /\ backup.pc = "pack"
        /\ archives' \subseteq Packed
    BY <1>1, <1>6 DEF BreaksOff, Kept
  <2>2. job.pc = "idle" /\ job'.pc = "idle" /\ settings.status = "RUNNING"
    BY <1>1, <2>1, NoJobType DEF BackupInv, ReadingOK, ArchivesOK
  <2>3. settings'.status # "SUCCESS"
    BY <1>1, <1>2, <2>2 DEF Shapes, SettingsDocuments
  <2>. QED
    BY <1>1, <1>3, <1>4, <2>1, <2>2, <2>3, PackedFacts, NoBackupType DEF BackupInv, ArchivesOK, Named
<1>. QED
  BY <1>5, <1>6

LEMMA PolicyKeeps ==
    ASSUME BackupInv, SavePolicy \/ IntervalPasses \/ \E k \in Names : ShopWrites(k)
    PROVE  BackupInv'
<1>1. /\ UNCHANGED <<temp, aside, job, backup, archives, shelved, begun>> /\ Shapes
      /\ (\E k \in Names : Writes(k)) \/ UNCHANGED <<live, made>>
  BY NamesFacts DEF SavePolicy, IntervalPasses, ShopWrites, Writes, BackupInv
<1>2. \/ settings' = settings
      \/ settings' = [settings EXCEPT !.due = TRUE]
      \/ \E periodic, target \in BOOLEAN, keep \in Keeps :
            settings' = [settings EXCEPT !.periodic = periodic, !.target = target, !.keep = keep]
  BY DEF SavePolicy, IntervalPasses, ShopWrites
<1>3. /\ settings' \in SettingsDocuments /\ settings'.status = settings.status
      /\ settings'.own = settings.own /\ settings'.bundle = settings.bundle
  <2>. settings \in SettingsDocuments
    BY <1>1 DEF Shapes
  <2>1. CASE settings' = settings
    BY <2>1
  <2>2. CASE settings' = [settings EXCEPT !.due = TRUE]
    BY <2>2 DEF SettingsDocuments
  <2>3. CASE \E periodic, target \in BOOLEAN, keep \in Keeps :
                settings' = [settings EXCEPT !.periodic = periodic, !.target = target, !.keep = keep]
    <3>1. PICK periodic \in BOOLEAN, target \in BOOLEAN, keep \in Keeps :
             settings' = [settings EXCEPT !.periodic = periodic, !.target = target, !.keep = keep]
      BY <2>3
    <3>2. keep \in Nat \ {0}
      BY BackupAssumption
    <3>. QED
      BY <3>1, <3>2 DEF SettingsDocuments
  <2>. QED
    BY <1>2, <2>1, <2>2, <2>3
<1>4. Data' = Data /\ Files' = Files /\ (Mixed <=> Mixed')
  BY <1>1, SameOrigin, WriteOrigin DEF Shapes, Mixed
<1>5. Shapes'
  BY <1>1, <1>3, WriteType DEF Shapes
<1>6. ArchivesOK'
  BY <1>1, <1>3 DEF BackupInv, ArchivesOK, Named
<1>. QED
  BY <1>1, <1>4, <1>5, <1>6 DEF BackupInv, ReadingOK

LEMMA BackupInvStep == BackupInv /\ [BackupNext]_backupVars => BackupInv'
<1> SUFFICES ASSUME BackupInv, [BackupNext]_backupVars PROVE BackupInv'
  OBVIOUS
<1>1. CASE BackupOnly
  BY <1>1, PolicyKeeps, BeginsKeeps, ReadKeeps, EndKeeps, BreaksOffKeeps DEF BackupOnly
<1>2. CASE UNCHANGED backupVars
  BY <1>2 DEF backupVars, BackupInv, Shapes, ReadingOK, ArchivesOK, Mixed, Data, Files, Named
<1>. QED
  BY <1>1, <1>2, NextParts, RestoreApart, PolicyKeeps, BreaksOffKeeps

LEMMA OneOrigin ==
    ASSUME NEW S, NEW x, S \subseteq {x}
    PROVE  Cardinality(S) <= 1
<1>1. CASE S = {}
  BY <1>1, FS_EmptySet
<1>2. CASE S = {x}
  BY <1>2, FS_Singleton
<1>. QED
  BY <1>1, <1>2

LEMMA BackupInvHolds == BackupSpec => []BackupInv
BY ArchivesInit, BackupInvStep, PTL DEF BackupSpec

(* However backups, restores of any bundle, changes of the policy, writes  *)
(* of the shop, failures and crashes interleave, a bundle has data of one  *)
(* origin, unless they were mixed when it began; and the bundle the        *)
(* settings name is in the target, once a backup has reported in them.     *)
THEOREM ArchivesStayWhole == BackupSpec => []ArchivesAreWhole
<1>1. BackupInv => ArchivesAreWhole
  BY OneOrigin DEF BackupInv, ArchivesOK, ArchivesAreWhole, Named
<1>. QED
  BY <1>1, BackupInvHolds, PTL

-----------------------------------------------------------------------------
(* The refinement: what a step of the restore is to the abstract one.      *)

Restoring == job.pc # "idle"
Store == IF job.pc = "idle" THEN Standing ELSE job.before
PromiseVars == <<Restoring, job.died, Store>>
PromiseNext == Promise!Begin \/ Promise!Succeed \/ Promise!Fail \/ Promise!Crash

(* In the middle of a restore nothing is promised.                         *)
Inside ==
    job.pc # "idle" /\ job'.pc # "idle" /\ job'.before = job.before /\ job'.died = job.died

LEMMA InsideStutters == Inside => UNCHANGED PromiseVars
BY DEF Inside, PromiseVars, Restoring, Store

LEMMA ThrowsInside ==
    ASSUME DataOK, NEW pc \in JobPcs, NEW at \in 0..Uploads, pc # "idle", Throws(pc, at) \/ Goes(pc, at)
    PROVE  job'.pc # "idle" /\ job'.before = job.before /\ job'.died = job.died
BY GoesType

LEMMA RollbackInside ==
    ASSUME DataOK, NEW last \in 0..TableCount, Rollback(last)
    PROVE  job'.pc # "idle" /\ job'.before = job.before /\ job'.died = job.died
BY GoesType, NamesFacts DEF Rollback, JobPcs

LEMMA StepsInside ==
    ASSUME RestoreInv, RestoreSteps, ~RestoreBegins, ~Reports, ~UndoFails, ~RollbackFails
    PROVE  Inside
<1>0. DataOK /\ job.pc # "idle"
  BY DEF RestoreInv, RestoreSteps, StageTable, StageUploads, StageFails, MoveAside, MoveAsideFails,
         Swap, SwapFails, Undo, RollbackDrops, RollbackRenames, CleansUp
<1>1. CASE StageTable
  BY <1>0, <1>1, JobType DEF StageTable, Inside, DataOK, JobStates
<1>2. CASE StageUploads \/ StageFails \/ CleansUp
  BY <1>0, <1>2, ThrowsInside, NamesFacts DEF StageUploads, StageFails, CleansUp, Inside, JobPcs
<1>3. CASE MoveAside \/ RollbackDrops
  BY <1>0, <1>3, ThrowsInside, JobType DEF MoveAside, RollbackDrops, Inside, JobPcs
<1>4. CASE Swap
  <2>1. job.at \in Names /\ (job.at # Uploads => job.at + 1 \in 0..Uploads)
    BY <1>4, NamesFacts DEF RestoreInv, RestoreOK, Swap
  <2>. QED
    BY <1>0, <1>4, <2>1, ThrowsInside, NamesFacts DEF Swap, Inside, JobPcs
<1>5. CASE MoveAsideFails \/ SwapFails \/ Undo \/ RollbackRenames
  <2>1. job.at \in Names
    BY <1>5, NamesFacts DEF RestoreInv, RestoreOK, MoveAsideFails, SwapFails, Undo, RollbackRenames
  <2>2. job.at - 1 \in 0..TableCount /\ job.at \in 0..Uploads
    BY <2>1, Before, NamesFacts
  <2>. QED
    BY <1>0, <1>5, <2>2, RollbackInside, ThrowsInside
    DEF MoveAsideFails, SwapFails, Undo, RollbackRenames, AfterUndo, Inside, JobPcs
<1>. QED
  BY <1>1, <1>2, <1>3, <1>4, <1>5 DEF RestoreSteps

(* The last step: all is restored, whatever is reported; or nothing, and   *)
(* that is reported, because there is no upset left to prevent it.         *)
LEMMA ReportsEnds ==
    ASSUME OneUpset, RestoreInv, settings \in SettingsDocuments, settings' \in SettingsDocuments, Reports
    PROVE  Promise!Succeed \/ Promise!Fail
<1>1. /\ DataOK /\ Ending /\ job.pc = "report" /\ job' = NoJob
  BY DEF Reports, RestoreInv, RestoreOK, Ending
<1>2. job'.pc = "idle" /\ ~job'.died /\ Data' = Data /\ Files' = Files /\ Standing' \in Promise!Stores
  <2>1. UNCHANGED <<live, made>>
    BY ReportsInPlace
  <2>2. Data' = Data /\ Files' = Files
    BY <2>1, SameOrigin
  <2>3. Standing' = [data |-> Data, files |-> Files, reported |-> settings'.restore]
    BY <2>2 DEF Standing
  <2>. QED
    BY <1>1, <2>2, <2>3, NoJobType, Origins DEF SettingsDocuments, Promise!Stores, Promise!Outcomes
<1>3. Standing' = [data |-> Data, files |-> Files, reported |-> settings'.restore]
  BY <1>2 DEF Standing
<1>4. CASE Data = "bundle" /\ Files = "bundle"
  <2>1. settings'.restore \in Promise!Outcomes
    BY DEF SettingsDocuments, Promise!Outcomes
  <2>. QED
    BY <1>1, <1>2, <1>3, <1>4, <2>1 DEF Promise!Succeed
<1>5. CASE /\ Failing /\ Data = job.before.data /\ Data # "mixed"
           /\ Files \in {job.before.files, "lost"}
  <2>1. ~Upset("fault")
    BY <1>1, <1>5, UpsetUses DEF Failing, Hit
  <2>2. settings'.restore = "ERROR"
    BY <1>5, <2>1 DEF Reports, Records, Failing, SettingsDocuments
  <2>. QED
    BY <1>1, <1>2, <1>3, <1>5, <2>2 DEF Promise!Fail
<1>. QED
  BY <1>1, <1>4, <1>5, EndingOrigin

LEMMA PromiseStep ==
    ASSUME OneUpset
    PROVE  RestoreInv /\ BackupInv /\ BackupInv' /\ [BackupNext]_backupVars => [PromiseNext]_PromiseVars
<1> SUFFICES ASSUME RestoreInv, BackupInv, BackupInv', [BackupNext]_backupVars
    PROVE  PromiseNext \/ UNCHANGED PromiseVars
  OBVIOUS
<1>0. /\ DataOK /\ settings \in SettingsDocuments /\ settings' \in SettingsDocuments
      /\ live \in [Names -> Values] /\ made \subseteq Names /\ Uploads \in made
  BY DEF RestoreInv, BackupInv, Shapes
<1>a. ASSUME Data' = Data, Files' = Files, settings'.restore = settings.restore, job' = job
      PROVE  UNCHANGED PromiseVars
  BY <1>a DEF PromiseVars, Restoring, Store, Standing
<1>1. CASE BackupOnly
  BY <1>0, <1>1, <1>a, BackupOnlySame, SameOrigin
<1>2. CASE RestoreBegins
  <2>1. job.pc = "idle" /\ job'.pc = "stage" /\ job'.before = Standing /\ ~job'.died
    BY <1>2 DEF RestoreBegins, MayRestore, Free, NoJob
  <2>. QED
    BY <2>1 DEF PromiseNext, Promise!Begin
<1>3. CASE Reports
  BY <1>0, <1>3, ReportsEnds DEF PromiseNext
<1>4. CASE RestoreSteps /\ ~RestoreBegins /\ ~Reports
  BY <1>4, StepsInside, UndoFailsNever, RollbackFailsNever, InsideStutters
<1>5. ASSUME NEW k \in Names, ShopWrites(k) PROVE UNCHANGED PromiseVars
  <2>1. Data' = Data /\ Files' = Files /\ UNCHANGED <<job, settings>>
    BY <1>0, <1>5, WriteOrigin DEF ShopWrites, Writes
  <2>. QED
    BY <1>a, <2>1
<1>6. CASE SavePolicy
  <2>1. Data' = Data /\ Files' = Files /\ job' = job
    BY <1>0, <1>6, PolicyParts, WriteOrigin, SameOrigin, NamesFacts DEF Writes
  <2>2. settings'.restore = settings.restore
    BY <1>0, <1>6 DEF SavePolicy, SettingsDocuments
  <2>. QED
    BY <1>a, <2>1, <2>2
<1>7. CASE ProcessDies
  <2>1. Data' = Data /\ Files' = Files /\ settings' = settings
    BY <1>7, SameOrigin DEF ProcessDies
  <2>2. Standing' = Standing /\ Standing \in Promise!Stores
    BY <1>0, <2>1, StandingType DEF Standing
  <2>3. CASE job.pc = "idle"
    BY <1>7, <1>a, <2>1, <2>3 DEF ProcessDies
  <2>4. CASE job.pc # "idle"
    <3>1. job'.pc = "idle" /\ job'.died
      BY <1>7, <2>4, DeadJobType DEF ProcessDies, DeadJob
    <3>. QED
      BY <2>2, <2>4, <3>1 DEF PromiseNext, Promise!Crash
  <2>. QED
    BY <2>3, <2>4
<1>8. CASE UNCHANGED backupVars
  BY <1>8, <1>a, SameOrigin DEF backupVars
<1>. QED
  BY <1>1, <1>2, <1>3, <1>4, <1>5, <1>6, <1>7, <1>8, NextParts DEF RestoreSteps

LEMMA PromiseInit == BackupInit => Promise!AtomicInit
<1> SUFFICES ASSUME BackupInit PROVE Promise!AtomicInit
  OBVIOUS
<1>1. DataOK
  BY RestoreInit DEF RestoreInv
<1>2. Data = "shop" /\ Files = "shop"
  BY <1>1, Origins, NamesFacts DEF BackupInit, DataOK, FilesOf
<1>. QED
  BY <1>2, NoJobType DEF BackupInit, Promise!AtomicInit, Standing, Default

(* A restore is atomic, whichever one of its steps fails, whichever        *)
(* collection a write of the shop or of the policy brings back in the      *)
(* middle of it, or wherever the process dies: but one of these happens,   *)
(* not two. One that fails says so and leaves every collection as it was,  *)
(* but it may have lost the uploads; one that dies may leave a mixture.    *)
THEOREM RestoreImplementsPromise == ASSUME OneUpset PROVE BackupSpec => RestoreIsAtomic
<1>1. BackupSpec => []BackupInv
  BY BackupInvHolds
<1>2. BackupInv => settings \in SettingsDocuments
  BY DEF BackupInv, Shapes
<1>3. BackupSpec => []RestoreInv
  BY <1>1, <1>2, RestoreInit, RestoreInvStep, PTL DEF BackupSpec
<1>4. BackupSpec => Promise!AtomicInit /\ [][PromiseNext]_PromiseVars
  BY <1>1, <1>3, PromiseInit, PromiseStep, PTL DEF BackupSpec
<1>. QED
  BY <1>4 DEF RestoreIsAtomic, Promise!AtomicSpec, PromiseNext, PromiseVars, Restoring, Store

-----------------------------------------------------------------------------
(* The numbers of the dishes.                                              *)
Ops == {"idle", "create", "complete", "scan", "requeue", "remove"}
AnyTicket == [number : Nat, state : TicketStates, readyAt : Nat]
OrderStates == [status : {"none", "PENDING", "PAID", "CANCELLED"}, version : Nat,
                tickets : Seq(AnyTicket)]
CallStates == [op : Ops, order : DishOrders \cup {NoDish}, number : Nat, at : Nat, version : Nat,
               tickets : Seq(AnyTicket), status : {"", "PENDING", "PAID"}, stale : BOOLEAN]

(* A request that holds an order is at it until it has written.            *)
Holds(r) == call[r].op \in {"create", "complete"}

DocsOK ==
    /\ seq \in Nat /\ clock \in Nat
    /\ dish \in [DishOrders -> OrderStates] /\ call \in [DishRequests -> CallStates]
    /\ astray \subseteq DishOrders
    /\ \A o \in astray : dish[o].status # "none"
    /\ \A o \in DishOrders : dish[o].status = "none" => DOMAIN dish[o].tickets = {}
    /\ \A r \in DishRequests : call[r].op # "idle" => call[r].order \in DishOrders
    /\ \A r \in DishRequests : call[r].op = "create" =>
        /\ call[r].status \in {"PENDING", "PAID"} /\ dish[call[r].order].status = "none"
        /\ \A q \in DishRequests \ {r} : Holds(q) => call[q].order # call[r].order

NumbersOf(tickets) == [i \in DOMAIN tickets |-> tickets[i].number]

(* The lists of an order: in its document, and in the requests that hold   *)
(* it, if they began after the last reset.                                 *)
Lists(o) == {NumbersOf(dish[o].tickets)}
            \cup {NumbersOf(call[r].tickets) :
                    r \in {q \in DishRequests : Holds(q) /\ ~call[q].stale /\ call[q].order = o}}

Distinct(list) == \A i, j \in DOMAIN list : list[i] = list[j] => i = j
HandedOut(list) == \A i \in DOMAIN list : list[i] \in Nat /\ list[i] <= seq
DishApart(list, other) == \A i \in DOMAIN list, j \in DOMAIN other : list[i] # other[j]

NumbersOK ==
    \A o \in DishOrders \ astray : \A list \in Lists(o) :
        /\ Distinct(list) /\ HandedOut(list)
        /\ \A p \in (DishOrders \ astray) \ {o} : \A other \in Lists(p) : DishApart(list, other)

(* What a completion read of an order that has not been saved since: its   *)
(* tickets go on with other states, but with the same numbers.             *)
Agree(tickets, read) ==
    \A i \in DOMAIN tickets \cap DOMAIN read : tickets[i].number = read[i].number

ReadsOK ==
    \A r \in DishRequests : call[r].op = "complete" /\ dish[call[r].order].status # "none" =>
        /\ call[r].version <= dish[call[r].order].version
        /\ call[r].version = dish[call[r].order].version
           => Agree(dish[call[r].order].tickets, call[r].tickets)

DishInv == DocsOK /\ NumbersOK /\ ReadsOK
-----------------------------------------------------------------------------
LEMMA DishSetOne ==
    ASSUME NEW S, NEW T, NEW f \in [S -> T], NEW x \in S, NEW v \in T
    PROVE  /\ [f EXCEPT ![x] = v] \in [S -> T]
           /\ [f EXCEPT ![x] = v][x] = v
           /\ \A y \in S \ {x} : [f EXCEPT ![x] = v][y] = f[y]
OBVIOUS

LEMMA TicketList ==
    ASSUME NEW n \in Nat, NEW f \in [1..n -> AnyTicket]
    PROVE  f \in Seq(AnyTicket)
BY SeqDef

LEMMA NewTicket == ASSUME NEW n \in Nat PROVE New(n) \in AnyTicket /\ New(n).number = n
BY DEF New, AnyTicket, TicketStates

(* The tickets of a cart: those the order has, then new ones, whose        *)
(* numbers are the ones the counter hands out, each once.                  *)
LEMMA Resolved ==
    ASSUME seq \in Nat, NEW old \in Seq(AnyTicket), NEW count \in Nat
    PROVE  /\ ResolvedTickets(old, count) \in Seq(AnyTicket)
           /\ DOMAIN ResolvedTickets(old, count) = 1..count
           /\ Missing(old, count) \in Nat
           /\ \A i \in 1..count : i \in DOMAIN old => ResolvedTickets(old, count)[i] = old[i]
           /\ \A i \in 1..count : i \notin DOMAIN old =>
                LET number == ResolvedTickets(old, count)[i].number
                IN  number \in Nat /\ number > seq /\ number <= seq + Missing(old, count)
           /\ \A i, j \in 1..count : i \notin DOMAIN old /\ j \notin DOMAIN old
                /\ ResolvedTickets(old, count)[i].number = ResolvedTickets(old, count)[j].number => i = j
<1>0. Len(old) \in Nat /\ DOMAIN old = 1..Len(old) /\ \A i \in 1..Len(old) : old[i] \in AnyTicket
  BY LenProperties
<1> DEFINE kept == IF Len(old) > count THEN count ELSE Len(old)
           all == ResolvedTickets(old, count)
<1>1. kept \in Nat /\ kept <= count /\ kept <= Len(old) /\ (Len(old) < count => kept = Len(old))
  <2>1. PICK n \in Nat : n = Len(old)
    BY <1>0
  <2>2. kept = IF n > count THEN count ELSE n
    BY <2>1
  <2> HIDE DEF kept
  <2>. QED
    BY <2>1, <2>2
<1>2. all = [i \in 1..count |-> IF i <= kept THEN old[i] ELSE New(seq + i - kept)]
  BY DEF ResolvedTickets
<1> HIDE DEF kept, all
<1>3. ASSUME NEW i \in 1..count PROVE seq + i - kept \in Int /\ (i > kept => seq + i - kept \in Nat)
  BY <1>1
<1>4. ASSUME NEW i \in 1..count PROVE all[i] \in AnyTicket
  <2>1. CASE i <= kept
    <3>1. all[i] = old[i]
      BY <1>2, <2>1
    <3>2. PICK n \in Nat : n = Len(old)
      BY <1>0
    <3>3. i \in 1..n
      BY <1>1, <2>1, <3>2
    <3>. QED
      BY <1>0, <3>1, <3>2, <3>3
  <2>2. CASE i > kept
    BY <1>1, <1>2, <1>3, <2>2, NewTicket
  <2>. QED
    BY <1>1, <2>1, <2>2
<1>5. all \in [1..count -> AnyTicket]
  BY <1>2, <1>4
<1>6. all \in Seq(AnyTicket) /\ DOMAIN all = 1..count
  BY <1>5, TicketList
<1>7. Missing(old, count) \in Nat /\ Missing(old, count) = count - kept
  <2>1. PICK n \in Nat : n = Len(old)
    BY <1>0
  <2>2. /\ kept = IF n > count THEN count ELSE n
        /\ Missing(old, count) = IF count > n THEN count - n ELSE 0
    BY <2>1 DEF Missing, kept
  <2>. QED
    BY <2>2
<1>8. ASSUME NEW i \in 1..count, i \in DOMAIN old PROVE all[i] = old[i]
  <2>1. i <= kept
    BY <1>0, <1>8 DEF kept
  <2>. QED
    BY <1>2, <2>1
<1>9. ASSUME NEW i \in 1..count, i \notin DOMAIN old PROVE i > kept /\ all[i].number = seq + i - kept
  <2>1. i > kept
    BY <1>0, <1>9 DEF kept
  <2>2. all[i] = New(seq + i - kept)
    BY <1>1, <1>2, <2>1
  <2>. QED
    BY <1>3, <2>1, <2>2, NewTicket
<1>10. ASSUME NEW i \in 1..count, i \notin DOMAIN old
       PROVE  all[i].number \in Nat /\ all[i].number > seq /\ all[i].number <= seq + Missing(old, count)
  BY <1>1, <1>7, <1>9, <1>10
<1>11. ASSUME NEW i \in 1..count, NEW j \in 1..count, i \notin DOMAIN old, j \notin DOMAIN old,
              all[i].number = all[j].number
       PROVE  i = j
  BY <1>1, <1>9, <1>11
<1>. QED
  BY <1>6, <1>7, <1>8, <1>10, <1>11 DEF all

(* From nothing: all the numbers are new.                                  *)
LEMMA ResolvedNew ==
    ASSUME seq \in Nat, NEW count \in Nat
    PROVE  /\ <<>> \in Seq(AnyTicket) /\ DOMAIN <<>> = {} /\ Missing(<<>>, count) = count
<1>1. <<>> \in Seq(AnyTicket) /\ Len(<<>>) = 0
  BY EmptySeq
<1>. QED
  BY <1>1, LenProperties DEF Missing
-----------------------------------------------------------------------------
(* Lists stay apart when no list is new and the counter does not go back,  *)
LEMMA KeptNumbers ==
    ASSUME NumbersOK, seq \in Nat, seq' \in Nat, seq <= seq', astray \subseteq astray',
           \A q \in DishRequests : Holds(q)' /\ ~call'[q].stale => call'[q] = call[q],
           \A o \in DishOrders \ astray' :
                NumbersOf(dish'[o].tickets) \in Lists(o) \/ DOMAIN dish'[o].tickets = {}
    PROVE  NumbersOK'
<1>1. ASSUME NEW o \in DishOrders \ astray', NEW list \in Lists(o)'
      PROVE  (o \in DishOrders \ astray /\ list \in Lists(o)) \/ DOMAIN list = {}
  <2>1. CASE list = NumbersOf(dish'[o].tickets)
    BY <2>1 DEF NumbersOf
  <2>2. CASE \E r \in DishRequests : Holds(r)' /\ ~call'[r].stale /\ call'[r].order = o
                                     /\ list = NumbersOf(call'[r].tickets)
    <3>1. PICK r \in DishRequests : Holds(r)' /\ ~call'[r].stale /\ call'[r].order = o
                                    /\ list = NumbersOf(call'[r].tickets)
      BY <2>2
    <3>2. call'[r] = call[r]
      BY <3>1
    <3>3. Holds(r) /\ ~call[r].stale /\ call[r].order = o /\ list = NumbersOf(call[r].tickets)
      BY <3>1, <3>2 DEF Holds
    <3>. QED
      BY <3>3 DEF Lists
  <2>. QED
    BY <2>1, <2>2 DEF Lists
<1>2. ASSUME NEW o \in DishOrders \ astray', NEW list \in Lists(o)'
      PROVE  Distinct(list) /\ HandedOut(list)'
  <2>1. CASE DOMAIN list = {}
    BY <2>1 DEF Distinct, HandedOut
  <2>2. CASE o \in DishOrders \ astray /\ list \in Lists(o)
    <3>1. Distinct(list) /\ HandedOut(list)
      BY <2>2 DEF NumbersOK
    <3>. QED
      BY <3>1 DEF HandedOut
  <2>. QED
    BY <1>1, <2>1, <2>2
<1>3. ASSUME NEW o \in DishOrders \ astray', NEW list \in Lists(o)',
             NEW p \in (DishOrders \ astray') \ {o}, NEW other \in Lists(p)'
      PROVE  DishApart(list, other)
  <2>1. CASE DOMAIN list = {} \/ DOMAIN other = {}
    BY <2>1 DEF DishApart
  <2>2. CASE ~(DOMAIN list = {} \/ DOMAIN other = {})
    <3>1. /\ o \in DishOrders \ astray /\ list \in Lists(o)
          /\ p \in (DishOrders \ astray) \ {o} /\ other \in Lists(p)
      BY <1>1, <2>2
    <3>. QED
      BY <3>1 DEF NumbersOK
  <2>. QED
    BY <2>1, <2>2
<1>. QED
  BY <1>2, <1>3 DEF NumbersOK, Distinct, DishApart

(* when none is left,                                                      *)
LEMMA NoNumbers ==
    ASSUME \A q \in DishRequests : Holds(q)' => call'[q].stale,
           \A o \in DishOrders \ astray' : DOMAIN dish'[o].tickets = {}
    PROVE  NumbersOK'
<1>1. ASSUME NEW o \in DishOrders \ astray', NEW list \in Lists(o)'
      PROVE  DOMAIN list = {}
  BY DEF Lists, NumbersOf, Holds
<1>. QED
  BY <1>1 DEF NumbersOK, Distinct, HandedOut, DishApart

(* and when a request takes its first list, of numbers the order's document*)
(* has and numbers the counter hands out now.                              *)
LEMMA NewNumbers ==
    ASSUME NumbersOK, seq \in Nat, seq' \in Nat, seq <= seq', astray' = astray, dish' = dish,
           NEW r \in DishRequests, NEW o \in DishOrders, NEW tickets,
           \A q \in DishRequests \ {r} : call'[q] = call[q],
           ~Holds(r), call'[r].order = o, call'[r].tickets = tickets,
           \A i \in DOMAIN tickets :
                \/ i \in DOMAIN dish[o].tickets /\ tickets[i] = dish[o].tickets[i]
                \/ /\ i \notin DOMAIN dish[o].tickets
                   /\ tickets[i].number \in Nat /\ tickets[i].number > seq
                   /\ tickets[i].number <= seq',
           \A i, j \in DOMAIN tickets :
                i \notin DOMAIN dish[o].tickets /\ j \notin DOMAIN dish[o].tickets
                /\ tickets[i].number = tickets[j].number => i = j
    PROVE  NumbersOK'
<1> DEFINE new == NumbersOf(tickets)
           doc == NumbersOf(dish[o].tickets)
<1>1. ASSUME NEW p \in DishOrders, NEW list \in Lists(p)'
      PROVE  list \in Lists(p) \/ (p = o /\ list = new)
  <2>1. CASE list = NumbersOf(dish'[p].tickets)
    BY <2>1 DEF Lists
  <2>2. CASE \E q \in DishRequests : Holds(q)' /\ ~call'[q].stale /\ call'[q].order = p
                                     /\ list = NumbersOf(call'[q].tickets)
    <3>1. PICK q \in DishRequests : Holds(q)' /\ ~call'[q].stale /\ call'[q].order = p
                                    /\ list = NumbersOf(call'[q].tickets)
      BY <2>2
    <3>2. CASE q = r
      BY <3>1, <3>2
    <3>3. CASE q # r
      <4>1. call'[q] = call[q]
        BY <3>3
      <4>. QED
        BY <3>1, <4>1 DEF Lists, Holds
    <3>. QED
      BY <3>2, <3>3
  <2>. QED
    BY <2>1, <2>2 DEF Lists
<1>2. DOMAIN new = DOMAIN tickets /\ \A i \in DOMAIN new : new[i] = tickets[i].number
  BY DEF NumbersOf
<1>3. DOMAIN doc = DOMAIN dish[o].tickets
      /\ \A i \in DOMAIN doc : doc[i] = dish[o].tickets[i].number
  BY DEF NumbersOf
<1>4. doc \in Lists(o)
  BY DEF Lists
<1> HIDE DEF new, doc
<1>5. ASSUME NEW i \in DOMAIN new
      PROVE  \/ i \in DOMAIN doc /\ new[i] = doc[i]
             \/ i \notin DOMAIN doc /\ new[i] \in Nat /\ new[i] > seq /\ new[i] <= seq'
  BY <1>2, <1>3
<1>6. ASSUME NEW i \in DOMAIN new, NEW j \in DOMAIN new, i \notin DOMAIN doc, j \notin DOMAIN doc,
             new[i] = new[j]
      PROVE  i = j
  BY <1>2, <1>3, <1>6
<1>7. ASSUME o \notin astray PROVE Distinct(new) /\ HandedOut(new)'
  <2>1. Distinct(doc) /\ HandedOut(doc)
    BY <1>4, <1>7 DEF NumbersOK
  <2>2. ASSUME NEW i \in DOMAIN doc PROVE doc[i] \in Nat /\ doc[i] <= seq
    BY <2>1 DEF HandedOut
  <2>3. ASSUME NEW i \in DOMAIN new, NEW j \in DOMAIN new, new[i] = new[j] PROVE i = j
    <3>1. CASE i \in DOMAIN doc /\ j \in DOMAIN doc
      BY <1>5, <2>1, <2>3, <3>1 DEF Distinct
    <3>2. CASE i \in DOMAIN doc /\ j \notin DOMAIN doc
      <4>1. new[i] \in Nat /\ new[i] <= seq /\ new[j] \in Nat /\ new[j] > seq
        BY <1>5, <2>2, <3>2
      <4>. QED
        BY <2>3, <4>1
    <3>3. CASE i \notin DOMAIN doc /\ j \in DOMAIN doc
      <4>1. new[j] \in Nat /\ new[j] <= seq /\ new[i] \in Nat /\ new[i] > seq
        BY <1>5, <2>2, <3>3
      <4>. QED
        BY <2>3, <4>1
    <3>4. CASE i \notin DOMAIN doc /\ j \notin DOMAIN doc
      BY <1>6, <2>3, <3>4
    <3>. QED
      BY <3>1, <3>2, <3>3, <3>4
  <2>4. ASSUME NEW i \in DOMAIN new PROVE new[i] \in Nat /\ new[i] <= seq'
    <3>1. CASE i \in DOMAIN doc
      <4>1. new[i] \in Nat /\ new[i] <= seq
        BY <1>5, <2>2, <3>1
      <4>. QED
        BY <4>1
    <3>. QED
      BY <1>5, <3>1
  <2>. QED
    BY <2>3, <2>4 DEF Distinct, HandedOut
<1>8. ASSUME NEW p \in DishOrders \ astray, NEW list \in Lists(p)
      PROVE  Distinct(list) /\ HandedOut(list) /\ HandedOut(list)'
  <2>1. Distinct(list) /\ HandedOut(list)
    BY DEF NumbersOK
  <2>. QED
    BY <2>1 DEF HandedOut
<1>9. ASSUME NEW p \in (DishOrders \ astray) \ {o}, NEW list \in Lists(p), o \notin astray
      PROVE  DishApart(list, new) /\ DishApart(new, list)
  <2>1. DishApart(doc, list) /\ DishApart(list, doc)
    BY <1>4, <1>9 DEF NumbersOK
  <2>2. ASSUME NEW i \in DOMAIN new, NEW j \in DOMAIN list PROVE new[i] # list[j]
    <3>1. CASE i \in DOMAIN doc
      BY <1>5, <2>1, <3>1 DEF DishApart
    <3>2. CASE i \notin DOMAIN doc
      <4>1. list[j] \in Nat /\ list[j] <= seq
        BY <1>8 DEF HandedOut
      <4>2. new[i] \in Nat /\ new[i] > seq
        BY <1>5, <3>2
      <4>. QED
        BY <4>1, <4>2
    <3>. QED
      BY <3>1, <3>2
  <2>. QED
    BY <2>2 DEF DishApart
<1>10. ASSUME NEW p \in DishOrders \ astray', NEW list \in Lists(p)'
       PROVE  Distinct(list) /\ HandedOut(list)'
  BY <1>1, <1>7, <1>8
<1>11. ASSUME NEW p \in DishOrders \ astray', NEW list \in Lists(p)',
              NEW q \in (DishOrders \ astray') \ {p}, NEW other \in Lists(q)'
       PROVE  DishApart(list, other)
  <2>1. CASE list \in Lists(p) /\ other \in Lists(q)
    BY <2>1 DEF NumbersOK
  <2>2. CASE p = o /\ list = new
    <3>1. other \in Lists(q)
      BY <1>1, <2>2
    <3>. QED
      BY <1>9, <2>2, <3>1
  <2>3. CASE q = o /\ other = new
    <3>1. list \in Lists(p)
      BY <1>1, <2>3
    <3>. QED
      BY <1>9, <2>3, <3>1
  <2>. QED
    BY <1>1, <2>1, <2>2, <2>3
<1>. QED
  BY <1>10, <1>11 DEF NumbersOK, Distinct, DishApart
-----------------------------------------------------------------------------
(* createOrder and createPublicOrder.                                      *)
LEMMA AllocatingKeeps ==
    ASSUME DishInv, NEW r \in DishRequests, NEW o \in DishOrders, CreateAllocates(r, o)
    PROVE  DishInv'
<1>1. PICK count \in Portions, status \in {"PENDING", "PAID"} :
        /\ Allocate(count)
        /\ call' = [call EXCEPT ![r] =
                    [NoCall EXCEPT !.op = "create", !.order = o,
                                   !.status = status, !.tickets = ResolvedTickets(<<>>, count)]]
  BY DEF CreateAllocates
<1> DEFINE tickets == ResolvedTickets(<<>>, count)
           mine == [NoCall EXCEPT !.op = "create", !.order = o, !.status = status, !.tickets = tickets]
<1>2. count \in Nat /\ seq \in Nat /\ seq' = seq + count
  BY <1>1, DishAssumption DEF DishInv, DocsOK, Allocate
<1>3. /\ <<>> \in Seq(AnyTicket) /\ DOMAIN <<>> = {} /\ Missing(<<>>, count) = count
  BY <1>2, ResolvedNew
<1>4. /\ tickets \in Seq(AnyTicket) /\ DOMAIN tickets = 1..count
      /\ \A i \in 1..count : tickets[i].number \in Nat /\ tickets[i].number > seq
                             /\ tickets[i].number <= seq'
      /\ \A i, j \in 1..count : tickets[i].number = tickets[j].number => i = j
  <2> DEFINE none == <<>>
  <2>1. none \in Seq(AnyTicket) /\ DOMAIN none = {} /\ Missing(none, count) = count
    BY <1>3
  <2> HIDE DEF none
  <2>2. /\ ResolvedTickets(none, count) \in Seq(AnyTicket)
        /\ DOMAIN ResolvedTickets(none, count) = 1..count
        /\ \A i \in 1..count : i \notin DOMAIN none =>
                LET number == ResolvedTickets(none, count)[i].number
                IN  number \in Nat /\ number > seq /\ number <= seq + Missing(none, count)
        /\ \A i, j \in 1..count : i \notin DOMAIN none /\ j \notin DOMAIN none
                /\ ResolvedTickets(none, count)[i].number = ResolvedTickets(none, count)[j].number
                => i = j
    BY <1>2, <2>1, Resolved
  <2>3. tickets = ResolvedTickets(none, count)
    BY DEF none
  <2> HIDE DEF tickets
  <2>. QED
    BY <1>2, <2>1, <2>2, <2>3
<1> HIDE DEF tickets
<1>5. mine \in CallStates /\ mine.op = "create" /\ mine.order = o /\ mine.tickets = tickets
      /\ mine.status = status /\ ~mine.stale
  BY <1>4, EmptySeq DEF CallStates, Ops, NoCall
<1> HIDE DEF mine
<1>6. /\ call' \in [DishRequests -> CallStates] /\ call'[r] = mine
      /\ \A q \in DishRequests \ {r} : call'[q] = call[q]
  BY <1>1, <1>5, DishSetOne DEF DishInv, DocsOK, mine, tickets
<1>7. /\ dish' = dish /\ astray' = astray /\ clock' = clock
      /\ call[r].op = "idle" /\ dish[o].status = "none"
      /\ \A q \in DishRequests : Holds(q) => call[q].order # o
  BY DEF CreateAllocates, InUse, Holds
<1>8. DOMAIN dish[o].tickets = {}
  BY <1>7 DEF DishInv, DocsOK
<1>9. DocsOK'
  <2>1. ASSUME NEW q \in DishRequests, call'[q].op = "create"
        PROVE  /\ call'[q].status \in {"PENDING", "PAID"} /\ dish'[call'[q].order].status = "none"
               /\ \A x \in DishRequests \ {q} : Holds(x)' => call'[x].order # call'[q].order
    <3>1. CASE q = r
      BY <1>5, <1>6, <1>7, <3>1 DEF Holds
    <3>2. CASE q # r
      <4>1. Holds(q) /\ call'[q] = call[q]
        BY <1>6, <2>1, <3>2 DEF Holds
      <4>2. ASSUME NEW x \in DishRequests \ {q}, Holds(x)' PROVE call'[x].order # call'[q].order
        <5>1. CASE x = r
          BY <1>5, <1>6, <1>7, <4>1, <5>1
        <5>2. CASE x # r
          BY <1>6, <2>1, <4>1, <4>2, <5>2 DEF DishInv, DocsOK, Holds
        <5>. QED
          BY <5>1, <5>2
      <4>. QED
        BY <1>7, <2>1, <4>1, <4>2 DEF DishInv, DocsOK
    <3>. QED
      BY <3>1, <3>2
  <2>2. \A q \in DishRequests : call'[q].op # "idle" => call'[q].order \in DishOrders
    BY <1>5, <1>6 DEF DishInv, DocsOK
  <2>. QED
    BY <1>2, <1>6, <1>7, <2>1, <2>2 DEF DishInv, DocsOK
<1>10. NumbersOK'
  BY <1>2, <1>4, <1>5, <1>6, <1>7, <1>8, NewNumbers DEF DishInv, Holds
<1>11. ReadsOK'
  BY <1>5, <1>6, <1>7 DEF DishInv, ReadsOK
<1>. QED
  BY <1>9, <1>10, <1>11 DEF DishInv

(* completePendingOrderPayment reads and hands out.                        *)
LEMMA ReadingKeeps ==
    ASSUME DishInv, NEW r \in DishRequests, NEW o \in DishOrders, CompleteReads(r, o)
    PROVE  DishInv'
<1> DEFINE old == dish[o].tickets
<1>0. old \in Seq(AnyTicket) /\ dish[o] \in OrderStates /\ dish[o].version \in Nat
  BY DEF DishInv, DocsOK, OrderStates
<1>1. PICK count \in Portions :
        /\ Allocate(Missing(old, count))
        /\ call' = [call EXCEPT ![r] =
                    [NoCall EXCEPT !.op = "complete", !.order = o,
                                   !.version = dish[o].version,
                                   !.tickets = ResolvedTickets(old, count)]]
  BY DEF CompleteReads
<1> DEFINE tickets == ResolvedTickets(old, count)
           mine == [NoCall EXCEPT !.op = "complete", !.order = o, !.version = dish[o].version,
                                  !.tickets = tickets]
<1>2. count \in Nat /\ seq \in Nat /\ seq' = seq + Missing(old, count)
  BY <1>1, DishAssumption DEF DishInv, DocsOK, Allocate
<1> HIDE DEF old
<1>3. /\ tickets \in Seq(AnyTicket) /\ DOMAIN tickets = 1..count /\ Missing(old, count) \in Nat
      /\ \A i \in 1..count : i \in DOMAIN old => tickets[i] = old[i]
      /\ \A i \in 1..count : i \notin DOMAIN old =>
            tickets[i].number \in Nat /\ tickets[i].number > seq /\ tickets[i].number <= seq'
      /\ \A i, j \in 1..count : i \notin DOMAIN old /\ j \notin DOMAIN old
            /\ tickets[i].number = tickets[j].number => i = j
  BY <1>0, <1>2, Resolved
<1> HIDE DEF tickets
<1>4. seq' \in Nat /\ seq <= seq'
  BY <1>2, <1>3
<1>5. mine \in CallStates /\ mine.op = "complete" /\ mine.order = o /\ mine.tickets = tickets
      /\ mine.version = dish[o].version /\ ~mine.stale
  BY <1>0, <1>3, EmptySeq DEF CallStates, Ops, NoCall
<1> HIDE DEF mine
<1>6. /\ call' \in [DishRequests -> CallStates] /\ call'[r] = mine
      /\ \A q \in DishRequests \ {r} : call'[q] = call[q]
  BY <1>1, <1>5, DishSetOne DEF DishInv, DocsOK, mine, tickets
<1>7. /\ dish' = dish /\ astray' = astray /\ clock' = clock
      /\ call[r].op = "idle" /\ dish[o].status = "PENDING"
  BY DEF CompleteReads
<1>8. DocsOK'
  <2>1. ASSUME NEW q \in DishRequests, call'[q].op = "create"
        PROVE  /\ call'[q].status \in {"PENDING", "PAID"} /\ dish'[call'[q].order].status = "none"
               /\ \A x \in DishRequests \ {q} : Holds(x)' => call'[x].order # call'[q].order
    <3>1. q # r /\ call'[q] = call[q]
      BY <1>5, <1>6, <2>1
    <3>2. /\ call[q].status \in {"PENDING", "PAID"} /\ dish[call[q].order].status = "none"
          /\ \A x \in DishRequests \ {q} : Holds(x) => call[x].order # call[q].order
      BY <2>1, <3>1 DEF DishInv, DocsOK
    <3>3. ASSUME NEW x \in DishRequests \ {q}, Holds(x)' PROVE call'[x].order # call'[q].order
      <4>1. CASE x = r
        BY <1>5, <1>6, <1>7, <3>1, <3>2, <4>1
      <4>2. CASE x # r
        BY <1>6, <3>1, <3>2, <3>3, <4>2 DEF Holds
      <4>. QED
        BY <4>1, <4>2
    <3>. QED
      BY <1>7, <3>1, <3>2, <3>3
  <2>2. \A q \in DishRequests : call'[q].op # "idle" => call'[q].order \in DishOrders
    BY <1>5, <1>6 DEF DishInv, DocsOK
  <2>. QED
    BY <1>4, <1>6, <1>7, <2>1, <2>2 DEF DishInv, DocsOK
<1>9. NumbersOK'
  <2>1. \A i \in DOMAIN tickets :
            \/ i \in DOMAIN old /\ tickets[i] = old[i]
            \/ /\ i \notin DOMAIN old
               /\ tickets[i].number \in Nat /\ tickets[i].number > seq
               /\ tickets[i].number <= seq'
    BY <1>3
  <2>2. \A i, j \in DOMAIN tickets : i \notin DOMAIN old /\ j \notin DOMAIN old
            /\ tickets[i].number = tickets[j].number => i = j
    BY <1>3
  <2>. QED
    BY <1>2, <1>4, <1>5, <1>6, <1>7, <2>1, <2>2, NewNumbers DEF DishInv, Holds, old
<1>10. ReadsOK'
  <2>1. ASSUME NEW q \in DishRequests, call'[q].op = "complete", dish'[call'[q].order].status # "none"
        PROVE  /\ call'[q].version <= dish'[call'[q].order].version
               /\ call'[q].version = dish'[call'[q].order].version
                  => Agree(dish'[call'[q].order].tickets, call'[q].tickets)
    <3>1. CASE q = r
      <4>1. Agree(old, tickets)
        BY <1>3 DEF Agree
      <4>. QED
        BY <1>0, <1>5, <1>6, <1>7, <3>1, <4>1 DEF old
    <3>2. CASE q # r
      BY <1>6, <1>7, <2>1, <3>2 DEF DishInv, ReadsOK
    <3>. QED
      BY <3>1, <3>2
  <2>. QED
    BY <2>1 DEF ReadsOK
<1>. QED
  BY <1>8, <1>9, <1>10 DEF DishInv
-----------------------------------------------------------------------------
(* A request that ends holds nothing.                                      *)
LEMMA DishEnding ==
    ASSUME DocsOK, NEW r \in DishRequests, End(r)
    PROVE  /\ call' \in [DishRequests -> CallStates] /\ call'[r].op = "idle"
           /\ \A q \in DishRequests \ {r} : call'[q] = call[q]
           /\ \A q \in DishRequests : Holds(q)' => q # r /\ call'[q] = call[q] /\ Holds(q)
<1>1. NoCall \in CallStates /\ NoCall.op = "idle"
  BY EmptySeq DEF NoCall, CallStates, Ops
<1>2. call' = [call EXCEPT ![r] = NoCall]
  BY DEF End
<1>3. /\ call' \in [DishRequests -> CallStates] /\ call'[r] = NoCall
      /\ \A q \in DishRequests \ {r} : call'[q] = call[q]
  BY <1>1, <1>2, DishSetOne DEF DocsOK
<1>. QED
  BY <1>1, <1>3 DEF Holds

(* A document that is written: the types, whatever was written.            *)
LEMMA WritingDocs ==
    ASSUME DocsOK, NEW r \in DishRequests, Holds(r), End(r), NEW doc \in OrderStates,
           doc.status # "none",
           dish' = [dish EXCEPT ![call[r].order] = doc],
           astray' = IF call[r].stale THEN astray \cup {call[r].order} ELSE astray,
           UNCHANGED <<seq, clock>>
    PROVE  /\ DocsOK' /\ call[r].order \in DishOrders /\ dish'[call[r].order] = doc
           /\ \A o \in DishOrders \ {call[r].order} : dish'[o] = dish[o]
<1>1. call[r].order \in DishOrders
  BY DEF DocsOK, Holds
<1>2. /\ dish' \in [DishOrders -> OrderStates] /\ dish'[call[r].order] = doc
      /\ \A o \in DishOrders \ {call[r].order} : dish'[o] = dish[o]
  BY <1>1, DishSetOne DEF DocsOK
<1>3. astray' \subseteq DishOrders /\ \A o \in astray' : dish'[o].status # "none"
  BY <1>1, <1>2 DEF DocsOK
<1>4. ASSUME NEW q \in DishRequests, call'[q].op = "create"
      PROVE  /\ call'[q].status \in {"PENDING", "PAID"} /\ dish'[call'[q].order].status = "none"
             /\ \A x \in DishRequests \ {q} : Holds(x)' => call'[x].order # call'[q].order
  <2>1. q # r /\ call'[q] = call[q]
    BY <1>4, DishEnding
  <2>2. /\ call[q].status \in {"PENDING", "PAID"} /\ dish[call[q].order].status = "none"
        /\ \A x \in DishRequests \ {q} : Holds(x) => call[x].order # call[q].order
        /\ call[q].order \in DishOrders
    BY <1>4, <2>1 DEF DocsOK
  <2>3. call[q].order # call[r].order
    BY <2>1, <2>2
  <2>4. \A x \in DishRequests \ {q} : Holds(x)' => Holds(x) /\ call'[x] = call[x]
    BY DishEnding
  <2>. QED
    BY <1>2, <2>1, <2>2, <2>3, <2>4
<1>5. \A q \in DishRequests : call'[q].op # "idle" => call'[q].order \in DishOrders
  BY DishEnding DEF DocsOK
<1>6. call' \in [DishRequests -> CallStates]
  BY DishEnding
<1>7. \A o \in DishOrders : dish'[o].status = "none" => DOMAIN dish'[o].tickets = {}
  BY <1>2 DEF DocsOK
<1>. QED
  BY <1>1, <1>2, <1>3, <1>4, <1>5, <1>6, <1>7 DEF DocsOK

(* and its numbers, when they are those the request holds.                 *)
LEMMA WritingNumbers ==
    ASSUME DocsOK, NumbersOK, NEW r \in DishRequests, Holds(r), End(r), NEW doc \in OrderStates,
           doc.status # "none", doc.tickets = call[r].tickets,
           dish' = [dish EXCEPT ![call[r].order] = doc],
           astray' = IF call[r].stale THEN astray \cup {call[r].order} ELSE astray,
           UNCHANGED <<seq, clock>>
    PROVE  NumbersOK'
<1>1. /\ DocsOK' /\ call[r].order \in DishOrders /\ dish'[call[r].order] = doc
      /\ \A o \in DishOrders \ {call[r].order} : dish'[o] = dish[o]
  BY WritingDocs
<1>2. seq \in Nat /\ seq' = seq
  BY DEF DocsOK
<1>3. \A q \in DishRequests : Holds(q)' /\ ~call'[q].stale => call'[q] = call[q]
  BY DishEnding
<1>4. ASSUME NEW o \in DishOrders \ astray'
      PROVE  NumbersOf(dish'[o].tickets) \in Lists(o)
  <2>1. CASE o = call[r].order
    <3>1. ~call[r].stale
      BY <2>1
    <3>. QED
      BY <1>1, <2>1, <3>1 DEF Lists
  <2>2. CASE o # call[r].order
    BY <1>1, <2>2 DEF Lists
  <2>. QED
    BY <2>1, <2>2
<1>. QED
  BY <1>2, <1>3, <1>4, KeptNumbers

(* A request that gives up.                                                *)
LEMMA GivingUp ==
    ASSUME DishInv, NEW r \in DishRequests, End(r), UNCHANGED <<dish, astray, seq, clock>>
    PROVE  DishInv'
<1>0. DocsOK /\ NumbersOK /\ ReadsOK /\ seq \in Nat
  BY DEF DishInv, DocsOK
<1>1. /\ call' \in [DishRequests -> CallStates] /\ call'[r].op = "idle"
      /\ \A q \in DishRequests \ {r} : call'[q] = call[q]
      /\ \A q \in DishRequests : Holds(q)' => q # r /\ call'[q] = call[q] /\ Holds(q)
  BY <1>0, DishEnding
<1>2. ASSUME NEW q \in DishRequests, call'[q].op = "create"
      PROVE  /\ call'[q].status \in {"PENDING", "PAID"} /\ dish'[call'[q].order].status = "none"
             /\ \A x \in DishRequests \ {q} : Holds(x)' => call'[x].order # call'[q].order
  BY <1>0, <1>1, <1>2 DEF DocsOK
<1>3. DocsOK'
  BY <1>0, <1>1, <1>2 DEF DocsOK
<1>4. NumbersOK'
  <2>1. \A o \in DishOrders \ astray' : NumbersOf(dish'[o].tickets) \in Lists(o)
    BY DEF Lists
  <2>. QED
    BY <1>0, <1>1, <2>1, KeptNumbers
<1>5. ReadsOK'
  BY <1>0, <1>1 DEF ReadsOK
<1>. QED
  BY <1>3, <1>4, <1>5 DEF DishInv

LEMMA CreateWritesKeeps ==
    ASSUME DishInv, NEW r \in DishRequests, CreateWrites(r)
    PROVE  DishInv'
<1> DEFINE doc == [status |-> call[r].status, version |-> 0, tickets |-> call[r].tickets]
<1>0. DocsOK /\ NumbersOK /\ ReadsOK /\ call[r] \in CallStates
  BY DEF DishInv, DocsOK
<1>1. Holds(r) /\ End(r) /\ call[r].op = "create" /\ UNCHANGED <<seq, clock>>
  BY DEF CreateWrites, Holds
<1>2. CASE UNCHANGED <<dish, astray>>
  BY <1>1, <1>2, GivingUp
<1>3. CASE /\ dish' = [dish EXCEPT ![call[r].order] = doc]
           /\ astray' = IF call[r].stale THEN astray \cup {call[r].order} ELSE astray
  <2>1. doc \in OrderStates /\ doc.status # "none" /\ doc.tickets = call[r].tickets
        /\ \A q \in DishRequests \ {r} : Holds(q) => call[q].order # call[r].order
    BY <1>0, <1>1 DEF CallStates, OrderStates, DocsOK
  <2> HIDE DEF doc
  <2>2. /\ DocsOK' /\ call[r].order \in DishOrders /\ dish'[call[r].order] = doc
        /\ \A o \in DishOrders \ {call[r].order} : dish'[o] = dish[o]
    BY <1>0, <1>1, <1>3, <2>1, WritingDocs
  <2>3. NumbersOK'
    BY <1>0, <1>1, <1>3, <2>1, WritingNumbers
  <2>4. ReadsOK'
    <3>1. ASSUME NEW q \in DishRequests, call'[q].op = "complete"
          PROVE  call'[q] = call[q] /\ call'[q].order \in DishOrders \ {call[r].order}
      BY <1>0, <1>1, <2>1, <3>1, DishEnding DEF Holds, DocsOK
    <3>. QED
      BY <1>0, <2>2, <3>1 DEF ReadsOK
  <2>. QED
    BY <2>2, <2>3, <2>4 DEF DishInv
<1>. QED
  BY <1>2, <1>3 DEF CreateWrites

LEMMA CompleteWritesKeeps ==
    ASSUME DishInv, NEW r \in DishRequests, CompleteWrites(r)
    PROVE  DishInv'
<1> DEFINE doc == [status |-> "PAID", version |-> call[r].version + 1, tickets |-> call[r].tickets]
<1>0. DocsOK /\ NumbersOK /\ ReadsOK /\ call[r] \in CallStates
  BY DEF DishInv, DocsOK
<1>1. Holds(r) /\ End(r) /\ call[r].op = "complete" /\ UNCHANGED <<seq, clock>>
  BY DEF CompleteWrites, Holds
<1>2. CASE UNCHANGED <<dish, astray>>
  BY <1>1, <1>2, GivingUp
<1>3. CASE /\ dish[call[r].order].status # "none" /\ dish[call[r].order].version = call[r].version
           /\ dish' = [dish EXCEPT ![call[r].order] = doc]
           /\ astray' = IF call[r].stale THEN astray \cup {call[r].order} ELSE astray
  <2>1. doc \in OrderStates /\ doc.status # "none" /\ doc.tickets = call[r].tickets
        /\ call[r].version \in Nat /\ doc.version = call[r].version + 1
    <3>1. call[r].version \in Nat /\ call[r].tickets \in Seq(AnyTicket)
      BY <1>0 DEF CallStates
    <3>2. call[r].version + 1 \in Nat
      BY <3>1
    <3>. QED
      BY <3>1, <3>2 DEF OrderStates
  <2> HIDE DEF doc
  <2>2. /\ DocsOK' /\ call[r].order \in DishOrders /\ dish'[call[r].order] = doc
        /\ \A o \in DishOrders \ {call[r].order} : dish'[o] = dish[o]
    BY <1>0, <1>1, <1>3, <2>1, WritingDocs
  <2>3. NumbersOK'
    BY <1>0, <1>1, <1>3, <2>1, WritingNumbers
  <2>4. ASSUME NEW q \in DishRequests, call'[q].op = "complete", dish'[call'[q].order].status # "none"
        PROVE  /\ call'[q].version <= dish'[call'[q].order].version
               /\ call'[q].version = dish'[call'[q].order].version
                  => Agree(dish'[call'[q].order].tickets, call'[q].tickets)
    <3>1. call'[q] = call[q] /\ call[q].op = "complete" /\ call[q].order \in DishOrders
          /\ call[q] \in CallStates
      BY <1>0, <1>1, <2>4, DishEnding DEF Holds, DocsOK
    <3>2. CASE call[q].order = call[r].order
      <4>1. call[q].version <= call[r].version /\ call[q].version \in Nat
        BY <1>0, <1>3, <3>1, <3>2 DEF ReadsOK, CallStates
      <4>2. call[q].version <= doc.version /\ call[q].version # doc.version
        BY <2>1, <4>1
      <4>. QED
        BY <2>2, <3>1, <3>2, <4>2
    <3>3. CASE call[q].order # call[r].order
      <4>1. dish'[call[q].order] = dish[call[q].order]
        BY <2>2, <3>1, <3>3
      <4>. QED
        BY <1>0, <2>4, <3>1, <4>1 DEF ReadsOK
    <3>. QED
      BY <3>2, <3>3
  <2>. QED
    BY <2>2, <2>3, <2>4 DEF DishInv, ReadsOK
<1>. QED
  BY <1>2, <1>3 DEF CompleteWrites
-----------------------------------------------------------------------------
(* An order whose document goes on with its numbers and its version.       *)
LEMMA GoingOn ==
    ASSUME DishInv, NEW o \in DishOrders, NEW doc \in OrderStates, dish[o].status # "none",
           doc.status # "none", doc.version = dish[o].version,
           NumbersOf(doc.tickets) = NumbersOf(dish[o].tickets),
           dish' = [dish EXCEPT ![o] = doc],
           clock' \in Nat, UNCHANGED <<seq, astray>>,
           call' \in [DishRequests -> CallStates],
           \A q \in DishRequests : call'[q].op # "idle" => call'[q].order \in DishOrders,
           \A q \in DishRequests : Holds(q)' => call'[q] = call[q] /\ Holds(q)
    PROVE  DishInv'
<1>1. /\ dish' \in [DishOrders -> OrderStates] /\ dish'[o] = doc
      /\ \A p \in DishOrders \ {o} : dish'[p] = dish[p]
  BY DishSetOne DEF DishInv, DocsOK
<1>2. DOMAIN doc.tickets = DOMAIN dish[o].tickets
      /\ \A i \in DOMAIN doc.tickets : doc.tickets[i].number = dish[o].tickets[i].number
  BY DEF NumbersOf
<1>3. \A p \in DishOrders : dish'[p].status = "none" <=> dish[p].status = "none"
  BY <1>1
<1>4. DocsOK'
  <2>1. ASSUME NEW q \in DishRequests, call'[q].op = "create"
        PROVE  /\ call'[q].status \in {"PENDING", "PAID"} /\ dish'[call'[q].order].status = "none"
               /\ \A x \in DishRequests \ {q} : Holds(x)' => call'[x].order # call'[q].order
    <3>1. call'[q] = call[q] /\ call[q].order \in DishOrders
      BY <2>1 DEF Holds, DishInv, DocsOK
    <3>2. dish[call[q].order].status = "none"
      BY <2>1, <3>1 DEF DishInv, DocsOK
    <3>. QED
      BY <1>3, <2>1, <3>1, <3>2 DEF DishInv, DocsOK, Holds
  <2>2. \A p \in DishOrders : dish'[p].status = "none" => DOMAIN dish'[p].tickets = {}
    BY <1>1 DEF DishInv, DocsOK
  <2>3. astray' \subseteq DishOrders /\ \A p \in astray' : dish'[p].status # "none"
    BY <1>3 DEF DishInv, DocsOK
  <2>4. seq' \in Nat
    BY DEF DishInv, DocsOK
  <2>. QED
    BY <1>1, <2>1, <2>2, <2>3, <2>4 DEF DocsOK
<1>5. NumbersOK'
  <2>1. \A p \in DishOrders \ astray' : NumbersOf(dish'[p].tickets) \in Lists(p)
    BY <1>1 DEF Lists
  <2>2. seq \in Nat /\ seq' = seq /\ NumbersOK
    BY DEF DishInv, DocsOK
  <2>. QED
    BY <2>1, <2>2, KeptNumbers
<1>6. ReadsOK'
  <2>1. ASSUME NEW q \in DishRequests, call'[q].op = "complete", dish'[call'[q].order].status # "none"
        PROVE  /\ call'[q].version <= dish'[call'[q].order].version
               /\ call'[q].version = dish'[call'[q].order].version
                  => Agree(dish'[call'[q].order].tickets, call'[q].tickets)
    <3>1. call'[q] = call[q] /\ call[q].order \in DishOrders /\ call[q].op = "complete"
      BY <2>1 DEF Holds, DishInv, DocsOK
    <3>2. /\ call[q].version <= dish[call[q].order].version
          /\ call[q].version = dish[call[q].order].version
             => Agree(dish[call[q].order].tickets, call[q].tickets)
      BY <1>3, <2>1, <3>1 DEF DishInv, ReadsOK
    <3>3. CASE call[q].order = o
      <4>1. Agree(dish[o].tickets, call[q].tickets) => Agree(doc.tickets, call[q].tickets)
        BY <1>2 DEF Agree
      <4>. QED
        BY <1>1, <3>1, <3>2, <3>3, <4>1
    <3>4. CASE call[q].order # o
      BY <1>1, <3>1, <3>2, <3>4
    <3>. QED
      BY <3>3, <3>4
  <2>. QED
    BY <2>1 DEF ReadsOK
<1>. QED
  BY <1>4, <1>5, <1>6 DEF DishInv

(* The webhook and the storno.                                             *)
LEMMA StatusKeeps ==
    ASSUME DishInv, NEW o \in DishOrders, StatusChanges(o)
    PROVE  DishInv'
<1>1. PICK step \in {<<"PENDING", "PAID">>, <<"PAID", "CANCELLED">>} :
        dish[o].status = step[1] /\ dish' = [dish EXCEPT ![o].status = step[2]]
  BY DEF StatusChanges
<1> DEFINE doc == [dish[o] EXCEPT !.status = step[2]]
<1>2. dish[o] \in OrderStates
  BY DEF DishInv, DocsOK
<1>3. doc \in OrderStates /\ doc.status # "none" /\ dish[o].status # "none"
      /\ doc.version = dish[o].version /\ doc.tickets = dish[o].tickets
  BY <1>1, <1>2 DEF OrderStates
<1>4. dish' = [dish EXCEPT ![o] = doc]
  BY <1>1
<1> HIDE DEF doc
<1>5. /\ clock' \in Nat /\ UNCHANGED <<seq, astray>> /\ call' = call
      /\ call \in [DishRequests -> CallStates]
      /\ \A q \in DishRequests : call[q].op # "idle" => call[q].order \in DishOrders
  BY DEF StatusChanges, DishInv, DocsOK
<1>. QED
  BY <1>3, <1>4, <1>5, GoingOn DEF Holds

(* What the kitchen marks keeps its number.                                *)
LEMMA MarkKeeps ==
    ASSUME NEW t \in AnyTicket, NEW op \in DOMAIN Target, NEW at \in Nat
    PROVE  Mark(t, op, at) \in AnyTicket /\ Mark(t, op, at).number = t.number
<1>1. Target[op] \in TicketStates
  BY DEF Target, TicketStates
<1>2. PICK when \in Nat : when = IF op = "scan" THEN at ELSE 0
  OBVIOUS
<1>3. Mark(t, op, at) = [t EXCEPT !.state = Target[op], !.readyAt = when]
  BY <1>2 DEF Mark
<1>. QED
  BY <1>1, <1>3 DEF AnyTicket

LEMMA KitchenKeeps ==
    ASSUME DishInv, NEW r \in DishRequests, KitchenNext(r)
    PROVE  DishInv'
<1>0. DocsOK
  BY DEF DishInv
<1>1. CASE KitchenReads(r)
  <2>1. PICK o \in DishOrders, number \in 1..MaxNumber, op \in DOMAIN Target :
        /\ clock' = clock + 1
        /\ call' = [call EXCEPT ![r] = [NoCall EXCEPT !.op = op, !.order = o,
                                                      !.number = number, !.at = clock']]
        /\ UNCHANGED <<seq, dish, reset, astray, screenOf>>
    BY <1>1 DEF KitchenReads
  <2> DEFINE mine == [NoCall EXCEPT !.op = op, !.order = o, !.number = number, !.at = clock']
  <2>2. clock' \in Nat /\ number \in Nat /\ call[r].op = "idle"
    BY <1>0, <1>1, <2>1, DishAssumption DEF DocsOK, KitchenReads
  <2>3. mine \in CallStates /\ mine.op \in {"scan", "requeue", "remove"} /\ mine.order = o
    BY <2>2, EmptySeq DEF CallStates, Ops, NoCall, Target
  <2> HIDE DEF mine
  <2>4. /\ call' \in [DishRequests -> CallStates] /\ call'[r] = mine
        /\ \A q \in DishRequests \ {r} : call'[q] = call[q]
    BY <1>0, <2>1, <2>3, DishSetOne DEF DocsOK, mine
  <2>5. \A q \in DishRequests : Holds(q)' => q # r /\ call'[q] = call[q] /\ Holds(q)
    BY <2>3, <2>4 DEF Holds
  <2>6. DocsOK'
    <3>1. ASSUME NEW q \in DishRequests, call'[q].op = "create"
          PROVE  /\ call'[q].status \in {"PENDING", "PAID"} /\ dish'[call'[q].order].status = "none"
                 /\ \A x \in DishRequests \ {q} : Holds(x)' => call'[x].order # call'[q].order
      <4>1. call'[q] = call[q] /\ call[q].op = "create"
        BY <2>5, <3>1 DEF Holds
      <4>2. /\ call[q].status \in {"PENDING", "PAID"} /\ dish[call[q].order].status = "none"
            /\ \A x \in DishRequests \ {q} : Holds(x) => call[x].order # call[q].order
        BY <1>0, <4>1 DEF DocsOK
      <4>3. dish' = dish
        BY <2>1
      <4>. QED
        BY <2>5, <4>1, <4>2, <4>3
    <3>2. \A q \in DishRequests : call'[q].op # "idle" => call'[q].order \in DishOrders
      BY <1>0, <2>3, <2>4 DEF DocsOK
    <3>. QED
      BY <1>0, <2>1, <2>2, <2>4, <3>1, <3>2 DEF DocsOK
  <2>7. NumbersOK'
    <3>1. \A p \in DishOrders \ astray' : NumbersOf(dish'[p].tickets) \in Lists(p)
      BY <2>1 DEF Lists
    <3>2. seq \in Nat /\ seq' = seq /\ NumbersOK /\ astray' = astray
      BY <2>1 DEF DishInv, DocsOK
    <3>. QED
      BY <2>5, <3>1, <3>2, KeptNumbers
  <2>8. ReadsOK'
    BY <2>1, <2>5 DEF DishInv, ReadsOK, Holds
  <2>. QED
    BY <2>6, <2>7, <2>8 DEF DishInv
<1>2. CASE KitchenWrites(r)
  <2>1. PICK c : c = call[r]
    OBVIOUS
  <2>2. c \in CallStates /\ c.op \in DOMAIN Target /\ c.order \in DishOrders /\ End(r)
        /\ c.at \in Nat
    BY <1>0, <1>2, <2>1 DEF DocsOK, KitchenWrites, Target, CallStates
  <2>3. UNCHANGED <<seq, reset, astray, clock, screenOf>>
    BY <1>2 DEF KitchenWrites
  <2>4. CASE dish' = dish
    BY <2>2, <2>3, <2>4, GivingUp
  <2>5. CASE /\ dish[c.order].status = "PAID"
             /\ dish' = [dish EXCEPT ![c.order].tickets = [i \in DOMAIN @ |->
                        IF @[i].number = c.number THEN Mark(@[i], c.op, c.at) ELSE @[i]]]
    <3> DEFINE old == dish[c.order].tickets
               new == [i \in DOMAIN old |->
                        IF old[i].number = c.number THEN Mark(old[i], c.op, c.at) ELSE old[i]]
               doc == [dish[c.order] EXCEPT !.tickets = new]
    <3>1. dish[c.order] \in OrderStates /\ old \in Seq(AnyTicket)
      BY <1>0, <2>2 DEF DocsOK, OrderStates
    <3>2. dish' = [dish EXCEPT ![c.order] = doc]
      BY <2>5
    <3>3. PICK n \in Nat : n = Len(old) /\ DOMAIN old = 1..n /\ \A i \in 1..n : old[i] \in AnyTicket
      BY <3>1, LenProperties
    <3> HIDE DEF old
    <3>4. ASSUME NEW i \in 1..n
          PROVE  new[i] \in AnyTicket /\ new[i].number = old[i].number
      <4>1. old[i] \in AnyTicket /\ new[i] = IF old[i].number = c.number
                                             THEN Mark(old[i], c.op, c.at) ELSE old[i]
        BY <3>3
      <4>2. Mark(old[i], c.op, c.at) \in AnyTicket /\ Mark(old[i], c.op, c.at).number = old[i].number
        BY <2>2, <4>1, MarkKeeps
      <4>. QED
        BY <4>1, <4>2
    <3>5. new \in Seq(AnyTicket)
      BY <3>3, <3>4, TicketList
    <3>6. NumbersOf(new) = NumbersOf(old)
      BY <3>3, <3>4 DEF NumbersOf
    <3> HIDE DEF new
    <3>7. doc \in OrderStates /\ doc.status = "PAID" /\ doc.version = dish[c.order].version
          /\ doc.tickets = new
      BY <2>5, <3>1, <3>5 DEF OrderStates, old
    <3> HIDE DEF doc
    <3>8. /\ call' \in [DishRequests -> CallStates]
          /\ \A q \in DishRequests : call'[q].op # "idle" => call'[q].order \in DishOrders
          /\ \A q \in DishRequests : Holds(q)' => call'[q] = call[q] /\ Holds(q)
      BY <1>0, <2>2, DishEnding DEF DocsOK
    <3>. QED
      BY <1>0, <2>2, <2>3, <2>5, <3>2, <3>6, <3>7, <3>8, GoingOn DEF old, DocsOK
  <2>. QED
    BY <1>2, <2>1, <2>4, <2>5 DEF KitchenWrites
<1>. QED
  BY <1>1, <1>2 DEF KitchenNext
-----------------------------------------------------------------------------
(* resetEventOrdersAction: what was handed out before is stale, or gone.   *)
LEMMA Staling ==
    ASSUME DocsOK,
           call' = [r \in DishRequests |-> IF call[r].op \in {"create", "complete"}
                                           THEN [call[r] EXCEPT !.stale = TRUE] ELSE call[r]]
    PROVE  /\ call' \in [DishRequests -> CallStates]
           /\ \A q \in DishRequests : /\ call'[q].op = call[q].op /\ call'[q].order = call[q].order
                                      /\ call'[q].status = call[q].status
                                      /\ call'[q].version = call[q].version
                                      /\ call'[q].tickets = call[q].tickets
                                      /\ (Holds(q)' <=> Holds(q)) /\ (Holds(q)' => call'[q].stale)
<1>1. ASSUME NEW q \in DishRequests
      PROVE  /\ call'[q] \in CallStates
             /\ call'[q].op = call[q].op /\ call'[q].order = call[q].order
             /\ call'[q].status = call[q].status /\ call'[q].version = call[q].version
             /\ call'[q].tickets = call[q].tickets
             /\ Holds(q) => call'[q].stale
  <2>1. call[q] \in CallStates
    BY DEF DocsOK
  <2>2. call'[q] = IF Holds(q) THEN [call[q] EXCEPT !.stale = TRUE] ELSE call[q]
    BY DEF Holds
  <2>. QED
    BY <2>1, <2>2 DEF CallStates
<1>2. call' \in [DishRequests -> CallStates]
  BY <1>1
<1>. QED
  BY <1>1, <1>2 DEF Holds

LEMMA ResetKeeps ==
    ASSUME DishInv, ResetBegins \/ ResetDeletes
    PROVE  DishInv'
<1>0. DocsOK /\ NumbersOK /\ ReadsOK
  BY DEF DishInv
<1>1. /\ call' \in [DishRequests -> CallStates]
      /\ \A q \in DishRequests : /\ call'[q].op = call[q].op /\ call'[q].order = call[q].order
                                 /\ call'[q].status = call[q].status
                                 /\ call'[q].version = call[q].version
                                 /\ call'[q].tickets = call[q].tickets
                                 /\ (Holds(q)' <=> Holds(q)) /\ (Holds(q)' => call'[q].stale)
  BY <1>0, Staling DEF ResetBegins, ResetDeletes
<1>2. \/ dish' = dish /\ astray' = astray /\ seq' = seq
      \/ dish' = [o \in DishOrders |-> NoOrder] /\ astray' = {} /\ seq' = seq
      \/ dish' = dish /\ astray' = astray \cup {o \in DishOrders : dish[o].status # "none"}
         /\ seq' = 0
  BY DEF ResetBegins, ResetDeletes
<1>3. NoOrder \in OrderStates /\ NoOrder.status = "none" /\ DOMAIN NoOrder.tickets = {}
  BY EmptySeq, ResolvedNew, <1>0 DEF NoOrder, OrderStates, DocsOK
<1>4. /\ dish' \in [DishOrders -> OrderStates]
      /\ \A o \in DishOrders : dish'[o] = dish[o] \/ dish'[o] = NoOrder
  BY <1>0, <1>2, <1>3 DEF DocsOK
<1>5. DocsOK'
  <2>1. ASSUME NEW q \in DishRequests, call'[q].op = "create"
        PROVE  /\ call'[q].status \in {"PENDING", "PAID"} /\ dish'[call'[q].order].status = "none"
               /\ \A x \in DishRequests \ {q} : Holds(x)' => call'[x].order # call'[q].order
    <3>1. /\ call[q].op = "create" /\ call[q].order \in DishOrders
          /\ call[q].status \in {"PENDING", "PAID"} /\ dish[call[q].order].status = "none"
          /\ \A x \in DishRequests \ {q} : Holds(x) => call[x].order # call[q].order
      BY <1>0, <1>1, <2>1 DEF DocsOK
    <3>2. dish'[call[q].order].status = "none"
      BY <1>3, <1>4, <3>1
    <3>. QED
      BY <1>1, <3>1, <3>2
  <2>2. \A q \in DishRequests : call'[q].op # "idle" => call'[q].order \in DishOrders
    BY <1>0, <1>1 DEF DocsOK
  <2>3. \A o \in DishOrders : dish'[o].status = "none" => DOMAIN dish'[o].tickets = {}
    BY <1>0, <1>3, <1>4 DEF DocsOK
  <2>4. astray' \subseteq DishOrders /\ \A o \in astray' : dish'[o].status # "none"
    BY <1>0, <1>2 DEF DocsOK
  <2>5. seq' \in Nat /\ clock' \in Nat
    BY <1>0, <1>2 DEF DocsOK, ResetBegins, ResetDeletes
  <2>. QED
    BY <1>1, <1>4, <2>1, <2>2, <2>3, <2>4, <2>5 DEF DocsOK
<1>6. NumbersOK'
  <2>1. CASE dish' = dish /\ astray' = astray /\ seq' = seq
    <3>1. \A q \in DishRequests : Holds(q)' /\ ~call'[q].stale => call'[q] = call[q]
      BY <1>1
    <3>2. \A o \in DishOrders \ astray' : NumbersOf(dish'[o].tickets) \in Lists(o)
      BY <2>1 DEF Lists
    <3>3. seq \in Nat
      BY <1>0 DEF DocsOK
    <3>. QED
      BY <1>0, <2>1, <3>1, <3>2, <3>3, KeptNumbers
  <2>2. CASE ~(dish' = dish /\ astray' = astray /\ seq' = seq)
    <3>1. ASSUME NEW o \in DishOrders \ astray' PROVE DOMAIN dish'[o].tickets = {}
      BY <1>0, <1>2, <1>3, <2>2 DEF DocsOK
    <3>2. \A q \in DishRequests : Holds(q)' => call'[q].stale
      BY <1>1
    <3>. QED
      BY <3>1, <3>2, NoNumbers
  <2>. QED
    BY <2>1, <2>2
<1>7. ReadsOK'
  <2>1. ASSUME NEW q \in DishRequests, call'[q].op = "complete", dish'[call'[q].order].status # "none"
        PROVE  /\ call'[q].version <= dish'[call'[q].order].version
               /\ call'[q].version = dish'[call'[q].order].version
                  => Agree(dish'[call'[q].order].tickets, call'[q].tickets)
    <3>1. call[q].op = "complete" /\ call'[q].order = call[q].order /\ call[q].order \in DishOrders
          /\ call'[q].version = call[q].version /\ call'[q].tickets = call[q].tickets
      BY <1>0, <1>1, <2>1 DEF DocsOK
    <3>2. dish'[call[q].order] = dish[call[q].order]
      BY <1>3, <1>4, <2>1, <3>1
    <3>. QED
      BY <1>0, <2>1, <3>1, <3>2 DEF ReadsOK
  <2>. QED
    BY <2>1 DEF ReadsOK
<1>. QED
  BY <1>5, <1>6, <1>7 DEF DishInv
-----------------------------------------------------------------------------
LEMMA Unchanging ==
    ASSUME DishInv, UNCHANGED <<seq, dish, call, astray, clock>>
    PROVE  DishInv'
BY DEF DishInv, DocsOK, NumbersOK, ReadsOK, Lists, HandedOut, Holds

LEMMA ScreenKeeps ==
    ASSUME DishInv, NEW m \in Screens, ScreenNext(m)
    PROVE  DishInv'
<1>1. UNCHANGED <<seq, dish, call, astray, clock>>
  BY DEF ScreenNext, ScreenAsks, QueueIsRead, ReadyIsRead, ScreenShows, ScreenFails
<1>. QED
  BY <1>1, Unchanging

LEMMA DishInvStep == DishInv /\ [DishNext]_dishVars => DishInv'
<1> SUFFICES ASSUME DishInv, [DishNext]_dishVars PROVE DishInv'
  OBVIOUS
<1>1. ASSUME NEW r \in DishRequests, NEW o \in DishOrders, CreateAllocates(r, o) PROVE DishInv'
  BY <1>1, AllocatingKeeps
<1>2. ASSUME NEW r \in DishRequests, NEW o \in DishOrders, CompleteReads(r, o) PROVE DishInv'
  BY <1>2, ReadingKeeps
<1>3. ASSUME NEW r \in DishRequests, CreateWrites(r) PROVE DishInv'
  BY <1>3, CreateWritesKeeps
<1>4. ASSUME NEW r \in DishRequests, CompleteWrites(r) PROVE DishInv'
  BY <1>4, CompleteWritesKeeps
<1>5. ASSUME NEW o \in DishOrders, StatusChanges(o) PROVE DishInv'
  BY <1>5, StatusKeeps
<1>6. ASSUME ResetBegins \/ ResetDeletes PROVE DishInv'
  BY <1>6, ResetKeeps
<1>7. ASSUME NEW r \in DishRequests, KitchenNext(r) PROVE DishInv'
  BY <1>7, KitchenKeeps
<1>8. ASSUME NEW m \in Screens, ScreenNext(m) PROVE DishInv'
  BY <1>8, ScreenKeeps
<1>9. CASE UNCHANGED dishVars
  BY <1>9, Unchanging DEF dishVars
<1>. QED
  BY <1>1, <1>2, <1>3, <1>4, <1>5, <1>6, <1>7, <1>8, <1>9 DEF DishNext, NumberingNext

LEMMA DishInvInit == DishInit => DishInv
<1> SUFFICES ASSUME DishInit PROVE DishInv
  OBVIOUS
<1>1. /\ seq = 0 /\ clock = 0 /\ astray = {} /\ dish = [o \in DishOrders |-> NoOrder]
      /\ call = [r \in DishRequests |-> NoCall]
  BY DEF DishInit
<1>2. NoOrder \in OrderStates /\ NoOrder.status = "none" /\ DOMAIN NoOrder.tickets = {}
  BY <1>1, EmptySeq, ResolvedNew DEF NoOrder, OrderStates
<1>3. NoCall \in CallStates /\ NoCall.op = "idle"
  BY EmptySeq DEF NoCall, CallStates, Ops
<1>4. DocsOK
  BY <1>1, <1>2, <1>3 DEF DocsOK
<1>5. \A o \in DishOrders : \A list \in Lists(o) : DOMAIN list = {}
  BY <1>1, <1>2, <1>3 DEF Lists, NumbersOf, Holds
<1>6. NumbersOK
  BY <1>5 DEF NumbersOK, Distinct, HandedOut, DishApart
<1>7. ReadsOK
  BY <1>1, <1>3 DEF ReadsOK
<1>. QED
  BY <1>4, <1>6, <1>7 DEF DishInv

LEMMA DishInvAlways == DishSpec => []DishInv
<1>1. DishInit => DishInv
  BY DishInvInit
<1>2. DishInv /\ [DishNext]_dishVars => DishInv'
  BY DishInvStep
<1>. QED
  BY <1>1, <1>2, PTL DEF DishSpec

(* getNextScopedOrderNumbers hands every number out once: whatever         *)
(* registers and customers order at a time, whatever is changed, scanned   *)
(* or reset, no two tickets of orders written since share a number.        *)
THEOREM NumbersStayUnique == DishSpec => []NumbersAreUnique
<1>1. DishInv => NumbersAreUnique
  <2> SUFFICES ASSUME DishInv, NEW o \in DishOrders \ astray, NEW p \in DishOrders \ astray,
                      NEW i \in DOMAIN dish[o].tickets, NEW j \in DOMAIN dish[p].tickets,
                      dish[o].tickets[i].number = dish[p].tickets[j].number
               PROVE  o = p /\ i = j
    BY DEF NumbersAreUnique
  <2> DEFINE list == NumbersOf(dish[o].tickets)
             other == NumbersOf(dish[p].tickets)
  <2>1. list \in Lists(o) /\ other \in Lists(p)
    BY DEF Lists
  <2>2. i \in DOMAIN list /\ j \in DOMAIN other /\ list[i] = other[j] /\ (o = p => list = other)
    BY DEF NumbersOf
  <2> HIDE DEF list, other
  <2>3. o = p
    BY <2>1, <2>2 DEF DishInv, NumbersOK, DishApart
  <2>4. Distinct(list)
    BY <2>1 DEF DishInv, NumbersOK
  <2>. QED
    BY <2>2, <2>3, <2>4 DEF Distinct
<1>. QED
  BY <1>1, DishInvAlways, PTL

(* completePendingOrderPayment keeps the tickets the customer was given:   *)
(* save() replaces them only while the order has the version it was read   *)
(* at, and then they are the ones that were read.                          *)
THEOREM NumbersStayKept == DishSpec => NumbersAreKept
<1>1. DishInv /\ [DishNext]_dishVars
      => [\A o \in DishOrders :
            (dish[o].status = "PENDING" /\ dish'[o].status = "PAID")
            => \A i \in DOMAIN dish[o].tickets \cap DOMAIN dish'[o].tickets :
                dish'[o].tickets[i].number = dish[o].tickets[i].number]_dishVars
  <2> SUFFICES ASSUME DishInv, DishNext, NEW o \in DishOrders,
                      dish[o].status = "PENDING", dish'[o].status = "PAID"
               PROVE  Agree(dish[o].tickets, dish'[o].tickets)
    BY DEF Agree
  <2>0. DocsOK /\ ReadsOK
    BY DEF DishInv
  <2>1. ASSUME dish' = dish PROVE FALSE
    BY <2>1
  <2>2. ASSUME NEW r \in DishRequests, CreateWrites(r) PROVE FALSE
    <3>1. call[r].order \in DishOrders /\ dish[call[r].order].status = "none"
      BY <2>0, <2>2 DEF CreateWrites, DocsOK
    <3>2. PICK doc : dish' = [dish EXCEPT ![call[r].order] = doc]
      BY <2>1, <2>2 DEF CreateWrites
    <3>. QED
      BY <2>0, <3>1, <3>2 DEF DocsOK
  <2>3. ASSUME NEW r \in DishRequests, CompleteWrites(r) PROVE Agree(dish[o].tickets, dish'[o].tickets)
    <3>1. /\ call[r].op = "complete" /\ dish[call[r].order].status # "none"
          /\ dish[call[r].order].version = call[r].version
          /\ dish' = [dish EXCEPT ![call[r].order] = [status |-> "PAID",
                            version |-> call[r].version + 1, tickets |-> call[r].tickets]]
      BY <2>1, <2>3 DEF CompleteWrites
    <3>2. call[r].order \in DishOrders
      BY <2>0, <3>1 DEF DocsOK
    <3>3. CASE o = call[r].order
      <4>1. dish'[o].tickets = call[r].tickets
        BY <2>0, <3>1, <3>2, <3>3 DEF DocsOK
      <4>2. Agree(dish[o].tickets, call[r].tickets)
        BY <2>0, <3>1, <3>3 DEF ReadsOK
      <4>. QED
        BY <4>1, <4>2
    <3>4. CASE o # call[r].order
      BY <2>0, <3>1, <3>2, <3>4 DEF DocsOK
    <3>. QED
      BY <3>3, <3>4
  <2>4. ASSUME NEW p \in DishOrders, StatusChanges(p) PROVE Agree(dish[o].tickets, dish'[o].tickets)
    <3>1. dish'[o].tickets = dish[o].tickets
      BY <2>0, <2>4 DEF StatusChanges, DocsOK, OrderStates
    <3>2. \A i \in DOMAIN dish[o].tickets : dish[o].tickets[i].number = dish[o].tickets[i].number
      OBVIOUS
    <3>. QED
      BY <3>1, <3>2 DEF Agree
  <2>5. ASSUME ResetDeletes PROVE FALSE
    BY <2>1, <2>5 DEF ResetDeletes, NoOrder
  <2>6. ASSUME NEW r \in DishRequests, KitchenWrites(r) PROVE FALSE
    <3>1. /\ call[r].order \in DishOrders /\ dish[call[r].order].status = "PAID"
          /\ dish' = [dish EXCEPT ![call[r].order].tickets = [i \in DOMAIN @ |->
                        IF @[i].number = call[r].number
                        THEN Mark(@[i], call[r].op, call[r].at) ELSE @[i]]]
      BY <2>0, <2>1, <2>6 DEF KitchenWrites, DocsOK, Target
    <3>2. dish'[o] = dish[o]
      BY <2>0, <3>1 DEF DocsOK
    <3>. QED
      BY <3>2
  <2>7. ASSUME NEW m \in Screens, ScreenNext(m) PROVE FALSE
    BY <2>1, <2>7 DEF ScreenNext, ScreenAsks, QueueIsRead, ReadyIsRead, ScreenShows, ScreenFails
  <2>8. ASSUME NEW r \in DishRequests, NEW p \in DishOrders,
               CreateAllocates(r, p) \/ CompleteReads(r, p) PROVE FALSE
    BY <2>1, <2>8 DEF CreateAllocates, CompleteReads
  <2>9. ASSUME NEW r \in DishRequests, KitchenReads(r) PROVE FALSE
    BY <2>1, <2>9 DEF KitchenReads
  <2>10. ASSUME ResetBegins PROVE FALSE
    BY <2>1, <2>10 DEF ResetBegins
  <2>. QED
    BY <2>2, <2>3, <2>4, <2>5, <2>6, <2>7, <2>8, <2>9, <2>10
       DEF DishNext, NumberingNext, KitchenNext
<1>. QED
  BY <1>1, DishInvAlways, PTL DEF DishSpec, NumbersAreKept
=============================================================================
