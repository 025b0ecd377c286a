--------------------------- MODULE AtomicRestore ---------------------------
(***************************************************************************)
(* What a restore promises: nobody who looks when it is over finds         *)
(* collections of two origins, and one that fails says so and leaves them  *)
(* as they were. It does not promise as much of the uploads: one that      *)
(* fails leaves them as they were or not at all. Only a process that dies  *)
(* in it may leave a mixture, and the next restore that succeeds ends it.  *)
(***************************************************************************)

VARIABLES
    restoring, \* a restore is at work
    died,      \* the process died in the last one
    store      \* origin of data and files, and the outcome the settings show

Outcomes == {"none", "SUCCESS", "ERROR"}

Stores ==
    [data : {"shop", "bundle", "mixed"}, files : {"shop", "bundle", "lost"}, reported : Outcomes]

Begin ==
    /\ ~restoring /\ restoring' /\ ~died'
    /\ store' = store

\* Its own report, or, when that is lost, the one the bundle had.
Succeed ==
    /\ restoring /\ ~restoring' /\ ~died'
    /\ \E said \in Outcomes :
        store' = [data |-> "bundle", files |-> "bundle", reported |-> said]

Fail ==
    /\ restoring /\ ~restoring' /\ ~died'
    /\ \E left \in {store.files, "lost"} :
        store' = [data |-> store.data, files |-> left, reported |-> "ERROR"]

Crash ==
    /\ restoring /\ ~restoring' /\ died'
    /\ store' \in Stores

AtomicInit == ~restoring /\ ~died /\ store = [data |-> "shop", files |-> "shop", reported |-> "none"]

AtomicSpec == AtomicInit /\ [][Begin \/ Succeed \/ Fail \/ Crash]_<<restoring, died, store>>
=============================================================================
