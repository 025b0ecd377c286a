--------------------------- MODULE RuntimeBackup ---------------------------
(***************************************************************************)
(* Backup and restore in the process of the back office. A backup reads    *)
(* one collection after the other, then the uploads, and packs them; the   *)
(* scheduler or an administrator starts it. A restore stages the bundle    *)
(* next to the live collections, swaps them one by one with renames, and   *)
(* undoes the swaps when one fails. The registers and the menu, other      *)
(* processes, write all the while: a write to a name that is away makes a  *)
(* new collection there, and a rename to a name in use fails. The settings *)
(* are one of the collections: with a bundle come the policy and the       *)
(* reports of the day it was made.                                         *)
(***************************************************************************)
EXTENDS Naturals, FiniteSets, FiniteSetsExt

CONSTANTS
    TableCount,  \* collections of a bundle; the first holds the settings
    Upsets,      \* what may come in between: "fault", "stray", "crash"
    MaxUpsets,   \* bound on them
    MaxArchives, \* bound on the backups begun with a target
    Keeps,       \* values of retentionCount an administrator saves
    Bundled      \* settings of the bundles that are restored, of any age

VARIABLES
    live,        \* what the live names hold
    temp,        \* the names the restore stages under
    aside,       \* the names it moves the live ones to
    made,        \* history: the names the shop has ever written to
    job,         \* the restore
    backup,      \* the backup
    settings,    \* the document of the settings
    shelved,     \* the one in the collection that was moved aside
    archives,    \* bundles in the target directory
    begun,       \* how many backups were, whose bundles are named by the time
    upsets

backupVars == <<live, temp, aside, made, job, backup, settings, shelved, archives, begun, upsets>>

Tables == 1..TableCount
Uploads == TableCount + 1     \* the directory, swapped after the collections
Names == 1..Uploads
Nothing == [k \in Names |-> "none"]

\* Policy, last backup and the bundle it reports, isBackupDue, last restore;
\* own is history: a backup has reported since the document came here.
SettingsDocuments ==
    [periodic : BOOLEAN, target : BOOLEAN, keep : Nat \ {0},
     status : {"IDLE", "RUNNING", "SUCCESS", "ERROR"}, bundle : Nat, due : BOOLEAN,
     restore : {"none", "SUCCESS", "ERROR"}, own : BOOLEAN]

ASSUME BackupAssumption ==
    /\ TableCount \in Nat \ {0, 1} /\ MaxUpsets \in Nat /\ MaxArchives \in Nat
    /\ Upsets \subseteq {"fault", "stray", "crash"}
    /\ Keeps \subseteq Nat \ {0} /\ \E most \in Keeps : \A keep \in Keeps : most >= keep
    /\ Bundled # {} /\ Bundled \subseteq {s \in SettingsDocuments : ~s.own}

\* What an upsert makes where there are no settings.
Default ==
    [periodic |-> FALSE, target |-> FALSE, keep |-> Max(Keeps), status |-> "IDLE", bundle |-> 0,
     due |-> TRUE, restore |-> "none", own |-> FALSE]

\* Where the collections are from.
Data ==
    IF \A k \in Tables : live[k] = "bundle" THEN "bundle"
    ELSE IF \A k \in Tables : live[k] = (IF k \in made THEN "shop" ELSE "none") THEN "shop"
    ELSE "mixed"

\* Where the uploads are from; the shop has always had some.
Files == IF live[Uploads] \in {"bundle", "shop"} THEN live[Uploads] ELSE "lost"

Standing == [data |-> Data, files |-> Files, reported |-> settings.restore]

\* died is history: the process died in the last restore.
NoJob ==
    [pc |-> "idle", at |-> 0, existed |-> {}, error |-> FALSE, died |-> FALSE,
     before |-> [data |-> "shop", files |-> "shop", reported |-> "none"]]
NoBackup ==
    [pc |-> "idle", at |-> 0, seen |-> {}, archived |-> FALSE, mixed |-> FALSE, n |-> 0, keep |-> 1]

BackupInit ==
    /\ made \in {Names, Names \ {TableCount}}
    /\ live = [k \in Names |-> IF k \in made THEN "shop" ELSE "none"]
    /\ temp = Nothing /\ aside = Nothing
    /\ job = NoJob /\ backup = NoBackup
    /\ settings = Default /\ shelved = Default
    /\ archives = {} /\ begun = 0 /\ upsets = 0

Upset(kind) == kind \in Upsets /\ upsets < MaxUpsets /\ upsets' = upsets + 1

\* A write to a name that is away.
Fills(k) ==
    /\ live' = [live EXCEPT ![k] = IF k \in made THEN "stray" ELSE "shop"]
    /\ made' = made \cup {k}

Revives(k) ==
    /\ live[k] = "none" /\ Fills(k)
    /\ IF job.pc = "idle" THEN upsets' = upsets ELSE Upset("stray")

\* With a collection goes or comes the document in it.
SettingsBecome(k, document) == settings' = IF k = 1 THEN document ELSE settings

(***************************************************************************)
(* Policy and backups.                                                     *)
(***************************************************************************)

\* saveBackupPolicyAction, an upsert.
SavePolicy ==
    /\ \E periodic, target \in BOOLEAN, keep \in Keeps :
        /\ periodic => target
        /\ settings' = [settings EXCEPT !.periodic = periodic, !.target = target, !.keep = keep]
    /\ \/ Revives(1)
       \/ live[1] # "none" /\ UNCHANGED <<live, made, upsets>>
    /\ UNCHANGED <<temp, aside, job, backup, shelved, archives, begun>>

\* isBackupDue: intervalHours have passed since lastRunFinishedAt.
IntervalPasses ==
    /\ ~settings.due
    /\ settings' = [settings EXCEPT !.due = TRUE]
    /\ UNCHANGED <<live, temp, aside, made, job, backup, shelved, archives, begun, upsets>>

\* Neither a backup nor a restore is under way in this process.
Free == job.pc = "idle" /\ backup.pc = "idle"

Mixed == Data = "mixed" \/ Files # Data

Reading(archived, n, keep) ==
    [pc |-> "read", at |-> 1, seen |-> {}, archived |-> archived, mixed |-> Mixed, n |-> n, keep |-> keep]

\* runConfiguredBackupNow, by an administrator or, when it is due, by
\* maybeRunScheduledBackup: lastRunFinishedAt is the start from here on, and
\* retentionCount the one read here.
BackupBegins(trigger) ==
    /\ Free /\ settings.target
    /\ trigger = "SCHEDULED" => settings.periodic /\ settings.due
    /\ begun < MaxArchives /\ begun' = begun + 1
    /\ backup' = Reading(TRUE, begun + 1, settings.keep)
    /\ settings' = [settings EXCEPT !.status = "RUNNING", !.due = FALSE]
    /\ UNCHANGED <<live, temp, aside, made, job, shelved, archives, upsets>>

\* generateRuntimeBackupDownload: neither status nor target.
DownloadBegins ==
    /\ Free
    /\ backup' = Reading(FALSE, 0, 1)
    /\ UNCHANGED <<live, temp, aside, made, job, settings, shelved, archives, begun, upsets>>

\* Whatever it has read is in the bundle.
Reads(origin) ==
    /\ backup' = [backup EXCEPT !.seen = IF origin = "none" THEN @ ELSE @ \cup {origin},
                                !.at = @ + 1,
                                !.pc = IF backup.at = Uploads THEN "pack" ELSE "read"]
    /\ UNCHANGED <<live, temp, aside, made, job, settings, shelved, archives, begun, upsets>>

\* writeCollectionBackupFile of the next collection.
ReadTable == backup.pc = "read" /\ backup.at \in Tables /\ Reads(live[backup.at])

\* The copy of the uploads, if there are any.
ReadUploads == backup.pc = "read" /\ backup.at = Uploads /\ Reads(live[Uploads])

\* Mutant: the bundle just written counts among those to prune.
KeptOneLess(all, keep) == {a \in all : Cardinality({b \in all : b.n > a.n}) + 1 < keep}

\* pruneOldBundles: names sort by the time in them; the last ones stay.
Kept(all, keep) == {a \in all : Cardinality({b \in all : b.n > a.n}) < keep}

\* With the bundle of this backup, whole or as far as it was packed.
Packed == archives \cup {[n |-> backup.n, seen |-> backup.seen, mixed |-> backup.mixed]}

\* The archive, the pruning, the status.
BackupEnds ==
    /\ backup.pc = "pack"
    /\ backup' = NoBackup
    /\ IF backup.archived
       THEN /\ archives' = Kept(Packed, backup.keep)
            /\ settings' = [settings EXCEPT !.status = "SUCCESS", !.bundle = backup.n, !.due = FALSE,
                                            !.own = TRUE]
       ELSE UNCHANGED <<archives, settings>>
    /\ UNCHANGED <<live, temp, aside, made, job, shelved, begun, upsets>>

\* The backup stops anywhere: nothing written yet, or not all of it pruned.
BreaksOff ==
    /\ backup' = NoBackup
    /\ \/ archives' = archives
       \/ /\ backup.archived /\ backup.pc = "pack"
          /\ \E old \in SUBSET (Packed \ Kept(Packed, backup.keep)) :
                archives' = Kept(Packed, backup.keep) \cup old

BackupFails ==
    /\ backup.pc # "idle" /\ Upset("fault")
    /\ BreaksOff
    /\ settings' = IF backup.archived THEN [settings EXCEPT !.status = "ERROR", !.due = FALSE]
                   ELSE settings
    /\ UNCHANGED <<live, temp, aside, made, job, shelved, begun>>

(***************************************************************************)
(* The restore.                                                            *)
(***************************************************************************)

Goes(pc, at) == job' = [job EXCEPT !.pc = pc, !.at = at]
Throws(pc, at) == job' = [job EXCEPT !.pc = pc, !.at = at, !.error = TRUE]

Others == UNCHANGED <<backup, archives, begun>>
SameSettings == UNCHANGED <<made, settings, shelved>>
OnlyJob == Others /\ SameSettings /\ UNCHANGED <<live, temp, aside>>

\* Mutant: a backup under way does not hold a restore off.
NoRestore == job.pc = "idle"

MayRestore == Free

\* Up to the manifest and the check that its files are there.
RestoreBegins ==
    /\ MayRestore
    /\ job' = [NoJob EXCEPT !.pc = "stage", !.at = 1, !.before = Standing]
    /\ temp' = Nothing /\ aside' = Nothing /\ shelved' = Default
    /\ UNCHANGED <<live, made, settings, upsets>> /\ Others

Staged(k) ==
    /\ temp' = [temp EXCEPT ![k] = "bundle"]
    /\ UNCHANGED <<live, aside, upsets>> /\ SameSettings /\ Others

\* stageRestoreCollection: under a name of this restore, with the options and
\* indexes of the live collection, if there is one.
StageTable ==
    /\ job.pc = "stage" /\ job.at \in Tables
    /\ job' = [job EXCEPT !.existed = IF live[job.at] # "none" THEN @ \cup {job.at} ELSE @,
                          !.at = @ + 1]
    /\ Staged(job.at)

\* stageUploadsRestore.
StageUploads ==
    /\ job.pc = "stage" /\ job.at = Uploads
    /\ Goes("aside", 1)
    /\ Staged(Uploads)

StageFails ==
    /\ job.pc = "stage" /\ Upset("fault")
    /\ Throws("cleanup", 0)
    /\ OnlyJob

\* Undoing what was swapped before this one: of the collections all that are
\* activated, the last first.
Rollback(last) == IF last = 0 THEN Throws("cleanup", 0) ELSE Throws("drop", last)

\* Of a collection it was asked when it was staged whether there is a live one,
\* of the uploads it is asked now.
Moves(k) == IF k = Uploads THEN live[k] # "none" ELSE k \in job.existed

\* activateStagedCollections and activateStagedUploads, one name at a time: the
\* live one goes aside.
MoveAside ==
    /\ job.pc = "aside"
    /\ LET k == job.at
       IN  /\ IF Moves(k)
              THEN /\ aside' = [aside EXCEPT ![k] = live[k]]
                   /\ live' = [live EXCEPT ![k] = "none"]
                   /\ SettingsBecome(k, Default)
                   /\ shelved' = IF k = 1 THEN settings ELSE shelved
              ELSE UNCHANGED <<aside, live, settings, shelved>>
           /\ Goes("swap", k)
    /\ UNCHANGED <<temp, made, upsets>> /\ Others

\* The catch of the uploads removes the live directory, though it was not moved.
MoveAsideFails ==
    /\ job.pc = "aside" /\ Upset("fault")
    /\ live' = [live EXCEPT ![Uploads] = IF job.at = Uploads THEN "none" ELSE @]
    /\ Rollback(job.at - 1)
    /\ UNCHANGED <<temp, aside>> /\ SameSettings /\ Others

\* The staged one takes its name, if nothing is there.
Swap ==
    /\ job.pc = "swap" /\ live[job.at] = "none"
    /\ LET k == job.at IN
        /\ live' = [live EXCEPT ![k] = temp[k]]
        /\ temp' = [temp EXCEPT ![k] = "none"]
        /\ \E document \in Bundled : SettingsBecome(k, document)
        /\ IF k = Uploads THEN Goes("cleanup", 0) ELSE Goes("aside", k + 1)
    /\ UNCHANGED <<aside, made, shelved, upsets>> /\ Others

\* Mutant: the uploads go back, the collections stay swapped.
AfterUndoAlone(k) == IF k = Uploads THEN Throws("cleanup", 0) ELSE Rollback(k - 1)

AfterUndo(k) == Rollback(k - 1)

\* The catch of an activation: if the live one was moved, what is in its place
\* is dropped (of uploads always), then it is renamed back.
SwapFails ==
    /\ job.pc = "swap"
    /\ \/ live[job.at] # "none" /\ upsets' = upsets
       \/ Upset("fault")
    /\ LET k == job.at IN
        /\ live' = [live EXCEPT ![k] = IF aside[k] # "none" \/ k = Uploads THEN "none" ELSE @]
        /\ SettingsBecome(k, IF aside[k] # "none" THEN Default ELSE settings)
        /\ IF aside[k] # "none" THEN Throws("undo", k) ELSE AfterUndo(k)
    /\ UNCHANGED <<temp, aside, made, shelved>> /\ Others

Undo ==
    /\ job.pc = "undo" /\ live[job.at] = "none"
    /\ LET k == job.at IN
        /\ live' = [live EXCEPT ![k] = aside[k]]
        /\ aside' = [aside EXCEPT ![k] = "none"]
        /\ SettingsBecome(k, shelved)
        /\ AfterUndo(k)
    /\ UNCHANGED <<temp, made, shelved, upsets>> /\ Others

\* An error in the catch: the rollback is not reached, unless it is that of the
\* uploads, which has a catch around it.
UndoFails ==
    /\ job.pc = "undo"
    /\ \/ live[job.at] # "none" /\ upsets' = upsets
       \/ Upset("fault")
    /\ IF job.at = Uploads THEN Rollback(TableCount) ELSE Throws("cleanup", 0)
    /\ OnlyJob

\* rollbackActivatedCollections.
RollbackDrops ==
    /\ job.pc = "drop"
    /\ live' = [live EXCEPT ![job.at] = "none"]
    /\ SettingsBecome(job.at, Default)
    /\ Goes("back", job.at)
    /\ UNCHANGED <<temp, aside, made, shelved, upsets>> /\ Others

RollbackRenames ==
    /\ job.pc = "back"
    /\ LET k == job.at
           returns == k \in job.existed /\ aside[k] # "none"
       IN  /\ returns => live[k] = "none"
           /\ IF returns
              THEN /\ live' = [live EXCEPT ![k] = aside[k]]
                   /\ aside' = [aside EXCEPT ![k] = "none"]
                   /\ SettingsBecome(k, shelved)
              ELSE UNCHANGED <<live, aside, settings>>
           /\ Rollback(k - 1)
    /\ UNCHANGED <<temp, made, shelved, upsets>> /\ Others

RollbackFails ==
    /\ \/ job.pc \in {"drop", "back"} /\ Upset("fault")
       \/ job.pc = "back" /\ job.at \in job.existed /\ aside[job.at] # "none"
          /\ live[job.at] # "none" /\ upsets' = upsets
    /\ Throws("cleanup", 0)
    /\ OnlyJob

\* The finally: everything under the names of this restore goes, the data set
\* aside included. A fault in it is an error of the restore.
CleansUp ==
    /\ job.pc = "cleanup"
    /\ temp' = Nothing /\ aside' = Nothing
    /\ \/ Goes("report", 0) /\ upsets' = upsets
       \/ Upset("fault") /\ Throws("report", 0)
    /\ UNCHANGED live /\ SameSettings /\ Others

\* updateRestoreStatus, an upsert.
Records(outcome) ==
    /\ settings' = [settings EXCEPT !.restore = outcome]
    /\ IF live[1] = "none" THEN Fills(1) ELSE UNCHANGED <<live, made>>

\* A report of success that fails becomes one of an error; one of that is ignored.
Reports ==
    /\ job.pc = "report"
    /\ \/ Records(IF job.error THEN "ERROR" ELSE "SUCCESS") /\ upsets' = upsets
       \/ Upset("fault") /\ (Records("ERROR") \/ UNCHANGED <<live, made, settings>>)
    /\ job' = NoJob
    /\ UNCHANGED <<temp, aside, shelved>> /\ Others

(***************************************************************************)
(* The rest of the world.                                                  *)
(***************************************************************************)

\* A register, the menu, or a reader of the settings, which is an upsert, write
\* to a name that is away.
ShopWrites(k) ==
    /\ Revives(k)
    /\ UNCHANGED <<temp, aside, job, backup, settings, shelved, archives, begun>>

\* The process dies: its flags, promises and timers with it.
ProcessDies ==
    /\ ~Free /\ Upset("crash")
    /\ job' = IF job.pc = "idle" THEN job ELSE [NoJob EXCEPT !.died = TRUE]
    /\ BreaksOff
    /\ UNCHANGED <<live, temp, aside, made, settings, shelved, begun>>

BackupNext ==
    \/ SavePolicy \/ IntervalPasses
    \/ BackupBegins("MANUAL") \/ BackupBegins("SCHEDULED")
    \/ DownloadBegins \/ ReadTable \/ ReadUploads \/ BackupEnds \/ BackupFails
    \/ RestoreBegins \/ StageTable \/ StageUploads \/ StageFails \/ MoveAside \/ MoveAsideFails
    \/ Swap \/ SwapFails \/ Undo \/ UndoFails
    \/ RollbackDrops \/ RollbackRenames \/ RollbackFails \/ CleansUp \/ Reports
    \/ \E k \in Names : ShopWrites(k)
    \/ ProcessDies

BackupSpec == BackupInit /\ [][BackupNext]_backupVars

(***************************************************************************)
(* Properties.                                                             *)
(***************************************************************************)

Promise == INSTANCE AtomicRestore WITH
    restoring <- job.pc # "idle",
    died <- job.died,
    store <- IF job.pc = "idle" THEN Standing ELSE job.before

\* The swaps and their undoing implement an atomic restore, whichever one step
\* fails or whichever collection one write of the shop brings back meanwhile.
RestoreIsAtomic == Promise!AtomicSpec

\* A bundle holds the data of one origin, because no restore swaps collections
\* while a backup reads them; and the bundle that a backup reported is there,
\* until a restore brings settings with a report of their own time.
ArchivesAreWhole ==
    /\ \A a \in archives : a.mixed \/ Cardinality(a.seen) <= 1
    /\ settings.own /\ settings.status = "SUCCESS" => \E a \in archives : a.n = settings.bundle

\* A restore that fails half way leaves the collections as they were, writes of
\* the shop to them or not.
FailedRestoreIsUndone == job.pc = "idle" => Data # "mixed"
=============================================================================
