----------------------------- MODULE PrintQueue -----------------------------
(***************************************************************************)
(* The persisted kitchen print queue: src/lib/print-queue.ts, the kitchen  *)
(* paths of src/lib/printer.ts, the poller of print-queue-scheduler.ts and *)
(* the printer administration that must not pull a printer from under it.  *)
(*                                                                         *)
(* Two collections are shared by every process: Printer documents, which   *)
(* carry the queue lease, and PrintJob documents.  A MongoDB single        *)
(* document update is one step; every await between two of them is a point *)
(* where any other request may run, so a handler is a sequence of actions  *)
(* driven by the pc of the actor that runs it.                             *)
(*                                                                         *)
(* An expiry date is the number of ticks left before it passes: 0 stands   *)
(* for a date in the past and for an absent one.                           *)
(***************************************************************************)
EXTENDS Integers, FiniteSets

CONSTANTS
    Printers,     \* printer documents of the active event
    Jobs,         \* kitchen print jobs, ordered by (createdAt, _id)
    PrinterOf,    \* the printer each job is routed to
    Clerks,       \* operator requests: registers and back office
    Pollers,      \* processes that run the print queue scheduler
    Tokens,       \* random UUIDs and claim dates
    NoToken,      \* an absent token
    NoPrinter,    \* an actor working on no printer
    Lease,        \* PRINT_QUEUE_LEASE_MS, in ticks
    Online,       \* printers that come back whenever they stop answering
    Timely,       \* TRUE: a running holder always outpaces its own lease
    MaxFaults,    \* bound: crashes, failed calls and unanswered sheets
    MaxSends      \* bound: sheets of one job

NoJob  == 0
Drains == Pollers \X Printers      \* one drain per poller and printer
Actors == Clerks \cup Drains

ASSUME JobsAssumption    == Jobs \subseteq Nat \ {NoJob}
ASSUME RouteAssumption   == PrinterOf \in [Jobs -> Printers]
ASSUME ActorsAssumption  == Clerks \cap Drains = {}
ASSUME SentinelAssumption == NoToken \notin Tokens /\ NoPrinter \notin Printers
ASSUME OnlineAssumption  == Online \subseteq Printers
ASSUME LeaseAssumption   == Lease \in Nat \ {0}
ASSUME BoundsAssumption  == Timely \in BOOLEAN /\ MaxFaults \in Nat /\ MaxSends \in Nat

VARIABLES
    printer,    \* Printer: type, printQueueLeaseToken and its expiry
    job,        \* PrintJob: status, heldSince and the three kinds of claim
    act,        \* each actor: pc, token, lease held?, job, printer, outcome
    poll,       \* each poller: the stage of drainHeldPrintQueues
    faults,     \* crashes, failed calls and unanswered sheets so far
    sheets,     \* history: how often a job came out of its printer, or will
    confirmed   \* history: the jobs with a transmission that was acknowledged

vars == <<printer, job, act, poll, faults, sheets, confirmed>>

LivePcs  == {"created", "busy", "holdBusy", "claimed", "holdBacklog", "checked",
             "refreshed", "lost", "liveSend", "liveRecord"}
RetryPcs == {"retrying", "retryClaimed", "retryAbort", "retrySend", "retryRecord"}
OwnPcs   == {"drainLoad", "drainSend", "drainRecord"}    \* a drain with a job
DrainPcs == {"drainClaim", "drainRefresh", "drainPick"} \cup OwnPcs
HoldPcs  == {"holding"}
AdminPcs == {"adminCheck", "adminApply"}
SendPcs  == {"liveSend", "retrySend", "drainSend"}
Pcs      == {"idle", "release", "recoverLive"}
              \cup LivePcs \cup RetryPcs \cup DrainPcs \cup HoldPcs \cup AdminPcs
Stages   == {"idle", "recoverLive", "list", "drain"}
Statuses == {"NEW", "QUEUED", "HELD", "SENT", "FAILED"}
Outcomes == {"none", "ok", "failed", "unusable", "throw"}
Ticks    == 0 .. Lease

PrinterDocs == [type : {"KITCHEN", "CASHIER", "DELETED"},
                lease : Tokens \cup {NoToken}, ttl : Ticks]
JobDocs     == [status : Statuses, held : BOOLEAN,
                claim : Tokens \cup {NoToken}, claimTtl : Ticks, live : Ticks,
                retry : Tokens \cup {NoToken}, retryTtl : Ticks]
ActorStates == [pc : Pcs, tok : Tokens \cup {NoToken}, leased : BOOLEAN,
                job : Jobs \cup {NoJob}, prn : Printers \cup {NoPrinter}, out : Outcomes]

TypeOK ==
    /\ printer \in [Printers -> PrinterDocs]
    /\ job \in [Jobs -> JobDocs]
    /\ act \in [Actors -> ActorStates]
    /\ poll \in [Pollers -> Stages]
    /\ faults \in 0 .. MaxFaults
    /\ sheets \in [Jobs -> 0 .. MaxSends]
    /\ confirmed \subseteq Jobs

NewJob == [status |-> "NEW", held |-> FALSE, claim |-> NoToken, claimTtl |-> 0,
           live |-> 0, retry |-> NoToken, retryTtl |-> 0]
Idle   == [pc |-> "idle", tok |-> NoToken, leased |-> FALSE, job |-> NoJob,
           prn |-> NoPrinter, out |-> "none"]

Init ==
    /\ printer = [p \in Printers |-> [type |-> "KITCHEN", lease |-> NoToken, ttl |-> 0]]
    /\ job = [j \in Jobs |-> NewJob]
    /\ act = [a \in Actors |-> Idle]
    /\ poll = [q \in Pollers |-> "idle"]
    /\ faults = 0
    /\ sheets = [j \in Jobs |-> 0]
    /\ confirmed = {}

-----------------------------------------------------------------------------
(* What one update writes in a document.                                   *)

Sent(r)   == [r EXCEPT !.status = "SENT"]
Failed(r) == [r EXCEPT !.status = "FAILED"]
Held(r)   == [r EXCEPT !.status = "HELD", !.held = TRUE, !.live = 0]
NoQueueClaim(r) == [r EXCEPT !.claim = NoToken, !.claimTtl = 0, !.live = 0,
                             !.retry = NoToken, !.retryTtl = 0]
NoLiveClaim(r)  == [r EXCEPT !.live = 0]
NoRetryClaim(r) == [r EXCEPT !.retry = NoToken, !.retryTtl = 0]
DrainSent(r)    == [NoQueueClaim(r) EXCEPT !.status = "SENT", !.held = FALSE]
DrainFailedDated(r) == [NoQueueClaim(r) EXCEPT !.status = "FAILED"]    \* mutant
DrainFailed(r)  == [NoQueueClaim(r) EXCEPT !.status = "FAILED", !.held = FALSE]
Requeued(r)     == [NoQueueClaim(r) EXCEPT !.status = "HELD"]

(* A job an operator's queue already owns on printer p, and any pending one.*)
BacklogUnclaimed(p) ==                                                  \* mutant
    \E j \in Jobs : PrinterOf[j] = p /\ job[j].status = "HELD" /\ job[j].held
Backlog(p) == \E j \in Jobs : /\ PrinterOf[j] = p
                              /\ job[j].status \in {"HELD", "QUEUED"}
                              /\ job[j].held
Pending(p) == \E j \in Jobs : /\ PrinterOf[j] = p
                              /\ job[j].status \in {"HELD", "QUEUED"}

LeaseUnheld(p)    == printer[p].type # "DELETED" /\ printer[p].lease = NoToken   \* mutant
LeaseAvailable(p) == printer[p].type # "DELETED"
                     /\ (printer[p].lease = NoToken \/ printer[p].ttl = 0)
KitchenPrinter(p) == printer[p].type = "KITCHEN"                       \* mutant
Claimable(p)  == printer[p].type = "KITCHEN" /\ LeaseAvailable(p)
Claimed(p, t, ttl) == [printer EXCEPT ![p].lease = t, ![p].ttl = ttl]
AnyLease(a)   == printer[act[a].prn].lease # NoToken                   \* mutant
HoldsLease(a) == printer[act[a].prn].lease = act[a].tok

UsedTokens == {act[a].tok : a \in Actors} \cup {printer[p].lease : p \in Printers}
              \cup {job[j].claim : j \in Jobs} \cup {job[j].retry : j \in Jobs}
Fresh(t) == t \notin UsedTokens /\ t # NoToken

AnyLive(r)    == r.status = "QUEUED" /\ ~r.held /\ r.claim = NoToken   \* mutant
                   /\ r.retry = NoToken
ClaimedLive(r) == AnyLive(r) /\ r.claim # NoToken /\ r.live = 0          \* mutant
StaleLive(r)  == r.status = "QUEUED" /\ ~r.held /\ r.claim = NoToken
                   /\ r.retry = NoToken /\ r.live = 0
AnyRetry(r)   == r.status = "QUEUED" /\ ~r.held /\ r.retry # NoToken    \* mutant
StaleRetry(r) == r.status = "QUEUED" /\ ~r.held /\ r.retry # NoToken /\ r.retryTtl = 0
UnclaimedStale(r) == r.status = "QUEUED" /\ r.held /\ r.claim = NoToken /\ r.claimTtl = 0 \* mutant
StaleClaim(r) == r.status = "QUEUED" /\ r.held /\ r.claim # NoToken /\ r.claimTtl = 0

(* Actor a goes to pc, keeping the rest of what it knows.                  *)
Goto(a, pc) == act' = [act EXCEPT ![a].pc = pc]
(* The end of a handler: its finally clause releases a lease it claimed.   *)
Finish(a) == act' = [act EXCEPT ![a] =
                 IF @.leased THEN [@ EXCEPT !.pc = "release", !.job = NoJob, !.out = "none"]
                             ELSE Idle]

-----------------------------------------------------------------------------
(* Live send of a kitchen ticket: printComanda.                            *)

LiveCreate(c, j, t) ==
    /\ act[c].pc = "idle" /\ Fresh(t)
    /\ job[j].status = "NEW"
    /\ \A k \in Jobs : k < j => job[k].status # "NEW"
    /\ job' = [job EXCEPT ![j].status = "QUEUED", ![j].live = Lease]
    /\ act' = [act EXCEPT ![c] = [pc |-> "created", tok |-> t, leased |-> FALSE,
                                  job |-> j, prn |-> PrinterOf[j], out |-> "none"]]
    /\ UNCHANGED <<printer, poll, faults, sheets, confirmed>>

LiveClaim(c) ==
    /\ act[c].pc = "created"
    /\ \/ /\ Claimable(act[c].prn)
          /\ printer' = Claimed(act[c].prn, act[c].tok, job[act[c].job].live)
          /\ act' = [act EXCEPT ![c].pc = "claimed", ![c].leased = TRUE]
       \/ /\ ~Claimable(act[c].prn)
          /\ Goto(c, "busy")
          /\ UNCHANGED printer
    /\ UNCHANGED <<job, poll, faults, sheets, confirmed>>

LiveExists(c) ==
    /\ act[c].pc = "busy"
    /\ \/ /\ printer[act[c].prn].type = "KITCHEN"
          /\ Goto(c, "holdBusy")
          /\ UNCHANGED job
       \/ /\ printer[act[c].prn].type # "KITCHEN"
          /\ job' = [job EXCEPT ![act[c].job] = NoLiveClaim(Failed(@))]
          /\ Finish(c)
    /\ UNCHANGED <<printer, poll, faults, sheets, confirmed>>

LiveBacklog(c) ==
    /\ act[c].pc = "claimed"
    /\ Goto(c, IF Backlog(act[c].prn) THEN "holdBacklog" ELSE "checked")
    /\ UNCHANGED <<printer, job, poll, faults, sheets, confirmed>>

LiveHold(c) ==
    /\ act[c].pc \in {"holdBusy", "holdBacklog"}
    /\ job' = [job EXCEPT ![act[c].job] = IF @.status = "QUEUED" THEN Held(@) ELSE @]
    /\ Finish(c)
    /\ UNCHANGED <<printer, poll, faults, sheets, confirmed>>

(* No destination, or skipped after a failure on the same destination.     *)
LiveReject(c) ==
    /\ act[c].pc = "checked"
    /\ job' = [job EXCEPT ![act[c].job] = NoLiveClaim(Failed(@))]
    /\ Finish(c)
    /\ UNCHANGED <<printer, poll, faults, sheets, confirmed>>

LiveRefreshJob(c) ==
    /\ act[c].pc = "checked"
    /\ \/ /\ job[act[c].job].status = "QUEUED" /\ ~job[act[c].job].held
          /\ job' = [job EXCEPT ![act[c].job].live = Lease]
          /\ Goto(c, "refreshed")
       \/ /\ job[act[c].job].status # "QUEUED" \/ job[act[c].job].held
          /\ Goto(c, "lost")
          /\ UNCHANGED job
    /\ UNCHANGED <<printer, poll, faults, sheets, confirmed>>

LiveRefreshLease(c) ==
    /\ act[c].pc = "refreshed"
    /\ \/ /\ HoldsLease(c)
          /\ printer' = [printer EXCEPT ![act[c].prn].ttl = job[act[c].job].live]
          /\ Goto(c, "liveSend")
       \/ /\ ~HoldsLease(c)
          /\ Goto(c, "lost")
          /\ UNCHANGED printer
    /\ UNCHANGED <<job, poll, faults, sheets, confirmed>>

LiveLost(c) ==
    /\ act[c].pc = "lost"
    /\ job' = [job EXCEPT ![act[c].job] = NoLiveClaim(Failed(@))]
    /\ Finish(c)
    /\ UNCHANGED <<printer, poll, faults, sheets, confirmed>>

(* updatePrintJobLog writes by _id alone; an exception writes nothing.     *)
LiveRecord(c) ==
    /\ act[c].pc = "liveRecord"
    /\ job' = [job EXCEPT ![act[c].job] =
                  CASE act[c].out = "ok"    -> NoLiveClaim(Sent(@))
                    [] act[c].out = "throw" -> @
                    [] OTHER                -> NoLiveClaim(Failed(@))]
    /\ Finish(c)
    /\ UNCHANGED <<printer, poll, faults, sheets, confirmed>>

-----------------------------------------------------------------------------
(* dispatchPrintDocumentWithAutomaticRetry: the transmission is under way  *)
(* while the actor is in SendPcs.  A drain turns an exception into a       *)
(* permanent failure.                                                      *)

Recording(pc) == CASE pc = "liveSend" -> "liveRecord"
                   [] pc = "retrySend" -> "retryRecord"
                   [] pc = "drainSend" -> "drainRecord"
Ends(a, o) == act' = [act EXCEPT ![a].pc = Recording(@), ![a].out = o]
Printed(j) == /\ sheets[j] < MaxSends
              /\ sheets' = [sheets EXCEPT ![j] = @ + 1]

SendOk(a) ==
    /\ act[a].pc \in SendPcs
    /\ Printed(act[a].job)
    /\ confirmed' = confirmed \cup {act[a].job}
    /\ Ends(a, "ok")
    /\ UNCHANGED <<printer, job, poll, faults>>

SendFails(a) ==
    /\ act[a].pc \in SendPcs
    /\ Ends(a, "failed") \/ Ends(a, "throw")
    /\ UNCHANGED <<printer, job, poll, faults, sheets, confirmed>>

(* "Printer execution timeout", or an error after the first byte: execute  *)
(* is not cancelled, so the sheet of a failed transmission is out, or will *)
(* come out.                                                               *)
SendUnanswered(a) ==
    /\ act[a].pc \in SendPcs
    /\ faults < MaxFaults
    /\ faults' = faults + 1
    /\ Printed(act[a].job)
    /\ Ends(a, "failed")
    /\ UNCHANGED <<printer, job, poll, confirmed>>

Release(a) ==
    /\ act[a].pc = "release"
    /\ printer' = IF HoldsLease(a) THEN Claimed(act[a].prn, NoToken, 0) ELSE printer
    /\ act' = [act EXCEPT ![a] = Idle]
    /\ UNCHANGED <<job, poll, faults, sheets, confirmed>>

-----------------------------------------------------------------------------
(* Manual retry of a failed job: retryPrintJobById.                        *)

RetryBegin(c, j, t) ==
    /\ act[c].pc = "idle" /\ Fresh(t)
    /\ job[j].status = "FAILED"
    /\ job' = [job EXCEPT ![j].status = "QUEUED", ![j].retry = t, ![j].retryTtl = Lease]
    /\ act' = [act EXCEPT ![c] = [pc |-> "retrying", tok |-> t, leased |-> FALSE,
                                  job |-> j, prn |-> PrinterOf[j], out |-> "none"]]
    /\ UNCHANGED <<printer, poll, faults, sheets, confirmed>>

RetryClaim(c) ==
    /\ act[c].pc = "retrying"
    /\ \/ /\ Claimable(act[c].prn)
          /\ printer' = Claimed(act[c].prn, act[c].tok, Lease)
          /\ act' = [act EXCEPT ![c].pc = "retryClaimed", ![c].leased = TRUE]
       \/ /\ ~Claimable(act[c].prn)
          /\ Goto(c, "retryAbort")
          /\ UNCHANGED printer
    /\ UNCHANGED <<job, poll, faults, sheets, confirmed>>

RetryBacklog(c) ==
    /\ act[c].pc = "retryClaimed"
    /\ Goto(c, IF Backlog(act[c].prn) THEN "retryAbort" ELSE "retrySend")
    /\ UNCHANGED <<printer, job, poll, faults, sheets, confirmed>>

(* The guarded write of a refused or interrupted retry.                    *)
RetryAborted(c) ==
    job' = [job EXCEPT ![act[c].job] =
               IF @.status = "QUEUED" /\ @.retry = act[c].tok
               THEN NoRetryClaim(Failed(@)) ELSE @]

RetryAbort(c) ==
    /\ act[c].pc = "retryAbort"
    /\ RetryAborted(c)
    /\ Finish(c)
    /\ UNCHANGED <<printer, poll, faults, sheets, confirmed>>

RetryRecord(c) ==
    /\ act[c].pc = "retryRecord"
    /\ \/ /\ act[c].out = "throw"
          /\ RetryAborted(c)
       \/ /\ act[c].out = "ok"
          /\ job' = [job EXCEPT ![act[c].job] = NoRetryClaim(Sent(@))]
       \/ /\ act[c].out = "failed"
          /\ job' = [job EXCEPT ![act[c].job] = NoRetryClaim(Failed(@))]
    /\ Finish(c)
    /\ UNCHANGED <<printer, poll, faults, sheets, confirmed>>

(* The operator screens first fail what an interrupted request left:       *)
(* recoverStaleManualPrintRetryClaims, then recoverStaleLive...            *)
RecoverRetry(c, j) ==
    /\ act[c].pc = "idle"
    /\ job' = [job EXCEPT ![j] = IF StaleRetry(@) THEN NoRetryClaim(Failed(@)) ELSE @]
    /\ act' = [act EXCEPT ![c] = [Idle EXCEPT !.pc = "recoverLive", !.job = j]]
    /\ UNCHANGED <<printer, poll, faults, sheets, confirmed>>

RecoveredAsSent(r) == IF StaleLive(r) THEN [r EXCEPT !.status = "SENT"] ELSE r   \* mutant
RecoveredLive(r) == IF StaleLive(r) THEN [r EXCEPT !.status = "FAILED"] ELSE r

RecoverLive(c) ==
    /\ act[c].pc = "recoverLive"
    /\ job' = [job EXCEPT ![act[c].job] = RecoveredLive(@)]
    /\ act' = [act EXCEPT ![c] = Idle]
    /\ UNCHANGED <<printer, poll, faults, sheets, confirmed>>

-----------------------------------------------------------------------------
(* Moving failed jobs to the backlog: holdFailedKitchenPrintJobs, for one  *)
(* of the printers it loops over.  A busy printer is skipped.              *)

HoldBegin(c, p, t) ==
    /\ act[c].pc = "idle" /\ Fresh(t)
    /\ \E j \in Jobs : PrinterOf[j] = p /\ job[j].status = "FAILED"
    /\ Claimable(p)
    /\ printer' = Claimed(p, t, Lease)
    /\ act' = [act EXCEPT ![c] = [Idle EXCEPT !.pc = "holding", !.tok = t,
                                              !.leased = TRUE, !.prn = p]]
    /\ UNCHANGED <<job, poll, faults, sheets, confirmed>>

HoldUpdate(c) ==
    /\ act[c].pc = "holding"
    /\ \E S \in SUBSET {j \in Jobs : PrinterOf[j] = act[c].prn /\ job[j].status = "FAILED"} :
         job' = [j \in Jobs |-> IF j \in S THEN NoQueueClaim(Held(job[j])) ELSE job[j]]
    /\ Finish(c)
    /\ UNCHANGED <<printer, poll, faults, sheets, confirmed>>

-----------------------------------------------------------------------------
(* Printer administration: deletePrinterAction and updatePrinterAction.    *)

AdminBegin(c, p) ==
    /\ act[c].pc = "idle"
    /\ printer[p].type # "DELETED"
    /\ job' = [j \in Jobs |-> IF PrinterOf[j] = p THEN RecoveredLive(job[j]) ELSE job[j]]
    /\ act' = [act EXCEPT ![c] = [Idle EXCEPT !.pc = "adminCheck", !.prn = p]]
    /\ UNCHANGED <<printer, poll, faults, sheets, confirmed>>

AdminCheck(c) ==
    /\ act[c].pc = "adminCheck"
    /\ act' = [act EXCEPT ![c] = IF Pending(@.prn) THEN Idle ELSE [@ EXCEPT !.pc = "adminApply"]]
    /\ UNCHANGED <<printer, job, poll, faults, sheets, confirmed>>

AdminApply(c) ==
    /\ act[c].pc = "adminApply"
    /\ \/ /\ LeaseAvailable(act[c].prn)
          /\ \/ printer' = [printer EXCEPT ![act[c].prn] =
                                [type |-> "DELETED", lease |-> NoToken, ttl |-> 0]]
             \/ printer' = [printer EXCEPT ![act[c].prn].type = "CASHIER"]
       \/ /\ ~LeaseAvailable(act[c].prn)
          /\ UNCHANGED printer
    /\ act' = [act EXCEPT ![c] = Idle]
    /\ UNCHANGED <<job, poll, faults, sheets, confirmed>>

AdminToKitchen(c, p) ==
    /\ act[c].pc = "idle"
    /\ printer[p].type = "CASHIER"
    /\ printer' = [printer EXCEPT ![p].type = "KITCHEN"]
    /\ UNCHANGED <<job, act, poll, faults, sheets, confirmed>>

-----------------------------------------------------------------------------
(* One scheduler tick: drainHeldPrintQueues.  The in-process drainInFlight *)
(* flag makes a poller run one at a time.                                  *)

PollRecoverClaims(q) ==
    /\ poll[q] = "idle"
    /\ poll' = [poll EXCEPT ![q] = "recoverLive"]
    /\ job' = [j \in Jobs |-> IF StaleClaim(job[j]) THEN Requeued(job[j]) ELSE job[j]]
    /\ UNCHANGED <<printer, act, faults, sheets, confirmed>>

PollRecoverLive(q) ==
    /\ poll[q] = "recoverLive"
    /\ poll' = [poll EXCEPT ![q] = "list"]
    /\ job' = [j \in Jobs |-> RecoveredLive(job[j])]
    /\ UNCHANGED <<printer, act, faults, sheets, confirmed>>

HeldPrinters == {PrinterOf[j] : j \in {k \in Jobs : job[k].status = "HELD" /\ job[k].held}}

(* Drains of an earlier tick that failed may still run: a second one of    *)
(* theirs would find the lease taken, or do what another poller's does.    *)
PollList(q) ==
    /\ poll[q] = "list"
    /\ poll' = [poll EXCEPT ![q] = "drain"]
    /\ act' = [a \in Actors |-> IF a \in {q} \X HeldPrinters /\ act[a].pc = "idle"
                                THEN [Idle EXCEPT !.pc = "drainClaim", !.prn = a[2]]
                                ELSE act[a]]
    /\ UNCHANGED <<printer, job, faults, sheets, confirmed>>

PollDone(q) ==
    /\ poll[q] = "drain"
    /\ \A p \in Printers : act[<<q, p>>].pc = "idle"
    /\ poll' = [poll EXCEPT ![q] = "idle"]
    /\ UNCHANGED <<printer, job, act, faults, sheets, confirmed>>

-----------------------------------------------------------------------------
(* drainPrinterQueue and the dispatcher it calls.                          *)

DrainClaim(d, t) ==
    /\ act[d].pc = "drainClaim" /\ Fresh(t)
    /\ \/ /\ Claimable(act[d].prn)
          /\ printer' = Claimed(act[d].prn, t, Lease)
          /\ act' = [act EXCEPT ![d].pc = "drainRefresh", ![d].tok = t, ![d].leased = TRUE]
       \/ /\ ~Claimable(act[d].prn)
          /\ act' = [act EXCEPT ![d] = Idle]
          /\ UNCHANGED printer
    /\ UNCHANGED <<job, poll, faults, sheets, confirmed>>

DrainRefresh(d) ==
    /\ act[d].pc = "drainRefresh"
    /\ \/ /\ HoldsLease(d)
          /\ printer' = [printer EXCEPT ![act[d].prn].ttl = Lease]
          /\ Goto(d, "drainPick")
       \/ /\ ~HoldsLease(d)
          /\ Finish(d)
          /\ UNCHANGED printer
    /\ UNCHANGED <<job, poll, faults, sheets, confirmed>>

HeldOn(p) == {j \in Jobs : PrinterOf[j] = p /\ job[j].status = "HELD" /\ job[j].held}
Oldest(S) == {j \in S : \A k \in S : j <= k}

(* The claim expires with the lease just refreshed.                        *)
DrainPick(d) ==
    /\ act[d].pc = "drainPick"
    /\ \/ \E j \in Oldest(HeldOn(act[d].prn)) :
            /\ job' = [job EXCEPT ![j] = [NoRetryClaim(@) EXCEPT
                  !.status = "QUEUED", !.claim = act[d].tok,
                  !.claimTtl = IF HoldsLease(d) THEN printer[act[d].prn].ttl ELSE 0]]
            /\ act' = [act EXCEPT ![d].pc = "drainLoad", ![d].job = j]
       \/ /\ HeldOn(act[d].prn) = {}
          /\ Finish(d)
          /\ UNCHANGED job
    /\ UNCHANGED <<printer, poll, faults, sheets, confirmed>>

(* dispatchHeldKitchenPrintJob reads the job and its printer again.        *)
DrainLoad(d) ==
    LET r == job[act[d].job] IN
    /\ act[d].pc = "drainLoad"
    /\ \/ /\ r.status = "QUEUED" /\ r.held /\ r.claim # NoToken
          /\ printer[act[d].prn].type = "KITCHEN"
          /\ Goto(d, "drainSend")
       \/ act' = [act EXCEPT ![d].pc = "drainRecord", ![d].out = "unusable"]
    /\ UNCHANGED <<printer, job, poll, faults, sheets, confirmed>>

(* Every write is guarded by the claim; a miss or a recoverable failure    *)
(* ends the drain of this printer, anything else goes on with the next job.*)
DrainRecord(d) ==
    LET mine == job[act[d].job].status = "QUEUED" /\ job[act[d].job].claim = act[d].tok
    IN  /\ act[d].pc = "drainRecord"
        /\ \/ /\ mine /\ act[d].out = "failed"
              /\ job' = [job EXCEPT ![act[d].job] = Requeued(@)]
              /\ Finish(d)
           \/ /\ mine /\ act[d].out # "failed"
              /\ job' = [job EXCEPT ![act[d].job] =
                            IF act[d].out = "ok" THEN DrainSent(@) ELSE DrainFailed(@)]
              /\ act' = [act EXCEPT ![d].pc = "drainRefresh", ![d].job = NoJob,
                                    ![d].out = "none"]
           \/ /\ ~mine
              /\ Finish(d)
              /\ UNCHANGED job
        /\ UNCHANGED <<printer, poll, faults, sheets, confirmed>>

-----------------------------------------------------------------------------
(* The environment.  A crash loses a request, or a poller with its drains; *)
(* what they wrote stays, finally clauses do not run.                      *)

Crash ==
    /\ faults < MaxFaults
    /\ faults' = faults + 1
    /\ \/ /\ \E c \in Clerks : act[c].pc # "idle" /\ act' = [act EXCEPT ![c] = Idle]
          /\ UNCHANGED poll
       \/ \E q \in Pollers :
            /\ poll[q] # "idle"
            /\ poll' = [poll EXCEPT ![q] = "idle"]
            /\ act' = [a \in Actors |-> IF a \in {q} \X Printers THEN Idle ELSE act[a]]
    /\ UNCHANGED <<printer, job, sheets, confirmed>>

(* A call of the database fails and writes nothing.  Outcomes of a live    *)
(* send or a retry go missing without notice, an exception ends a drain    *)
(* and its poller's tick, but not the other drains of that tick.  finally  *)
(* clauses run, and may fail in turn.                                      *)
TickEnds(a) == poll' = IF a \in Drains
                       THEN [poll EXCEPT ![a[1]] = IF @ = "drain" THEN "idle" ELSE @]
                       ELSE poll
CallPcs == Pcs \ ({"idle", "release", "retrying", "retryClaimed", "drainLoad"} \cup SendPcs)
CallFails(a) ==
    /\ faults < MaxFaults
    /\ faults' = faults + 1
    /\ \/ /\ act[a].pc \in {"retrying", "retryClaimed"}
          /\ Goto(a, "retryAbort")
          /\ UNCHANGED poll
       \/ /\ act[a].pc = "drainLoad"
          /\ act' = [act EXCEPT ![a].pc = "drainRecord", ![a].out = "failed"]
          /\ UNCHANGED poll
       \/ /\ act[a].pc \in CallPcs
          /\ Finish(a)
          /\ TickEnds(a)
       \/ /\ act[a].pc = "release"
          /\ act' = [act EXCEPT ![a] = Idle]
          /\ TickEnds(a)
    /\ UNCHANGED <<printer, job, sheets, confirmed>>

PollFails(q) ==
    /\ faults < MaxFaults
    /\ faults' = faults + 1
    /\ poll[q] \in {"recoverLive", "list"}
    /\ poll' = [poll EXCEPT ![q] = "idle"]
    /\ UNCHANGED <<printer, job, act, sheets, confirmed>>

(* A holder is timely when each claim it works under has time left after   *)
(* the next tick.                                                          *)
Outlives(a, n) ==
    /\ act[a].leased => printer[act[a].prn].ttl > n
    /\ act[a].pc \in LivePcs  => job[act[a].job].live > n
    /\ act[a].pc \in RetryPcs => job[act[a].job].retryTtl > n
    /\ act[a].pc \in OwnPcs   => job[act[a].job].claimTtl > n

LessUnclamped(n) == n - 1                                               \* mutant
Less(n) == IF n > 0 THEN n - 1 ELSE 0
Older(r) == [r EXCEPT !.claimTtl = Less(@), !.live = Less(@), !.retryTtl = Less(@)]

Tick ==
    /\ Timely => \A a \in Actors : Outlives(a, 1)
    /\ \/ \E p \in Printers : printer[p].ttl > 0
       \/ \E j \in Jobs : job[j].claimTtl + job[j].live + job[j].retryTtl > 0
    /\ printer' = [p \in Printers |-> [printer[p] EXCEPT !.ttl = Less(@)]]
    /\ job' = [j \in Jobs |-> Older(job[j])]
    /\ UNCHANGED <<act, poll, faults, sheets, confirmed>>

-----------------------------------------------------------------------------
LiveStep(c) ==
    \/ LiveClaim(c) \/ LiveExists(c) \/ LiveBacklog(c) \/ LiveHold(c) \/ LiveReject(c)
    \/ LiveRefreshJob(c) \/ LiveRefreshLease(c) \/ LiveLost(c) \/ LiveRecord(c)

RetryStep(c) == RetryClaim(c) \/ RetryBacklog(c) \/ RetryAbort(c) \/ RetryRecord(c)

ClerkStep(c) == LiveStep(c) \/ RetryStep(c) \/ RecoverLive(c) \/ HoldUpdate(c)
                  \/ AdminCheck(c) \/ AdminApply(c)

ClerkBegin(c) ==
    \/ \E j \in Jobs, t \in Tokens : LiveCreate(c, j, t) \/ RetryBegin(c, j, t)
    \/ \E j \in Jobs : RecoverRetry(c, j)
    \/ \E p \in Printers, t \in Tokens : HoldBegin(c, p, t)
    \/ \E p \in Printers : AdminBegin(c, p) \/ AdminToKitchen(c, p)

DrainStep(d) == \/ \E t \in Tokens : DrainClaim(d, t)
                \/ DrainRefresh(d) \/ DrainPick(d) \/ DrainLoad(d) \/ DrainRecord(d)

PollStep(q) == PollRecoverClaims(q) \/ PollRecoverLive(q) \/ PollList(q) \/ PollDone(q)

Next ==
    \/ \E c \in Clerks : ClerkBegin(c) \/ ClerkStep(c)
    \/ \E d \in Drains : DrainStep(d)
    \/ \E a \in Actors : \/ SendOk(a) \/ SendFails(a) \/ SendUnanswered(a)
                          \/ Release(a) \/ CallFails(a)
    \/ \E q \in Pollers : PollStep(q) \/ PollFails(q)
    \/ Crash
    \/ Tick

Spec == Init /\ [][Next]_vars

(* Requests under way run on, the scheduler's setInterval keeps firing and *)
(* time passes: strongly fair, since a timely holder delays it, no more.   *)
(* Nothing is assumed of operators beginning anything.  An Online printer  *)
(* comes back: a drain that transmits to it again and again succeeds once. *)
(* Any other may stay unreachable for ever.                                *)
Fairness ==
    /\ \A c \in Clerks : WF_vars(ClerkStep(c))
    /\ \A d \in Drains : WF_vars(DrainStep(d)) /\ (d[2] \in Online => SF_vars(SendOk(d)))
    /\ \A a \in Actors : WF_vars(SendOk(a) \/ SendFails(a)) /\ WF_vars(Release(a))
    /\ \A q \in Pollers : WF_vars(PollStep(q))
    /\ SF_vars(Tick)

FairSpec == Spec /\ Fairness
-----------------------------------------------------------------------------
(* Properties.  The first group needs Timely, the second does not.         *)

(* The lease serialises everything that prints on a kitchen printer, live  *)
(* sends, retries and drains of every process: no two actors are ever      *)
(* transmitting to the same printer.                                       *)
OneSenderPerPrinter ==
    \A a, b \in Actors :
        /\ act[a].pc \in SendPcs /\ act[b].pc \in SendPcs
        /\ act[a].prn = act[b].prn
        => a = b

(* A ticket comes out twice only if something broke between a transmission *)
(* and the write of its outcome: a crash, a lost write, or a printer that  *)
(* printed and did not answer.  Each excuses one extra copy, no matter how *)
(* recoveries, drains and retries of the operators race.                   *)
NoDuplicateSend == \A j \in Jobs : sheets[j] <= 1 + faults

(* A FAILED job carries nothing of the backlog.  One with heldSince left   *)
(* would find itself in its own backlog check, and block every retry.      *)
FailedIsRetryable ==
    \A j \in Jobs : job[j].status = "FAILED" => ~job[j].held /\ job[j].claim = NoToken

(* No ticket goes out while a queued one is still claimed: after a drain   *)
(* crashed, its job is still ahead in the queue when the lease is free.    *)
SendNeverOvertakesClaimed ==
    \A c \in Clerks, j \in Jobs :
        ~ /\ act[c].pc \in {"liveSend", "retrySend"} /\ act[c].prn = PrinterOf[j]
          /\ job[j].status = "QUEUED" /\ job[j].held

(* What an actor has claimed is still its own: the lease carries its token *)
(* and has time left, and so does its claim on the job it works on.        *)
OwnerPcs  == LivePcs \cup RetryPcs \cup OwnPcs
LeasedPcs == {"claimed", "holdBacklog", "checked", "refreshed", "retryClaimed",
              "drainRefresh", "drainPick", "drainLoad", "drainRecord", "liveRecord",
              "retryRecord", "holding", "release"} \cup SendPcs
ClaimOf(s, r) ==
    /\ r.status = "QUEUED"
    /\ s.pc \in LivePcs =>
          ~r.held /\ r.claim = NoToken /\ r.retry = NoToken /\ r.live > 0
    /\ s.pc \in RetryPcs =>
          ~r.held /\ r.claim = NoToken /\ r.retry = s.tok /\ r.retryTtl > 0
    /\ s.pc \in OwnPcs =>
          r.held /\ r.claim = s.tok /\ r.claimTtl > 0
LeaseOf(s, x) == x.lease = s.tok /\ x.ttl > 0
ClaimsAreKept ==
    \A a \in Actors :
        /\ act[a].pc \in LeasedPcs => act[a].leased
        /\ act[a].leased => LeaseOf(act[a], printer[act[a].prn])
        /\ act[a].pc \in OwnerPcs => ClaimOf(act[a], job[act[a].job])

(* No later write, of any actor, takes a job out of SENT.                  *)
SentIsFinal == [][\A j \in Jobs : job[j].status = "SENT" => job'[j].status = "SENT"]_vars

(* A job reported SENT was acknowledged by the printer, however late the   *)
(* actor that wrote it was.                                                *)
SentWasConfirmed == \A j \in Jobs : job[j].status = "SENT" => j \in confirmed

(* A lease that has not expired is given up by its holder alone: a holder  *)
(* that lost its lease never releases that of its successor.               *)
LeaseIsYielded ==
    [][\A p \in Printers :
         /\ printer[p].lease \notin {NoToken, printer'[p].lease}
         /\ printer[p].ttl > 0
         => \E a \in Actors : /\ act[a].tok = printer[p].lease
                              /\ act[a].pc = "release" /\ act'[a] = Idle]_vars

(* Every waiting job has a printer whose queue is still drained: the       *)
(* administration refuses to delete or retype a printer with a backlog.    *)
NoOrphanedBacklog ==
    \A j \in Jobs : job[j].status = "HELD" => printer[PrinterOf[j]].type = "KITCHEN"

ClerksIdle == \A c \in Clerks : act[c].pc = "idle"
Settled(j) == job[j].status \in {"SENT", "FAILED"}

(* Once operators leave the queue alone, every held ticket of an online    *)
(* printer that stays in its department is settled, whatever crashed       *)
(* before.                                                                 *)
HeldIsDrained ==
    <>[]ClerksIdle =>
        \A j \in Jobs : job[j].status = "HELD" /\ PrinterOf[j] \in Online
                          ~> Settled(j) \/ printer[PrinterOf[j]].type # "KITCHEN"

(* A live ticket is never left in QUEUED: it is sent, held, or reported as *)
(* failed after its request died.                                          *)
LiveIsReported ==
    \A j \in Jobs : job[j].status = "QUEUED" /\ job[j].live > 0 /\ ~job[j].held
                      ~> job[j].status # "QUEUED"

(* No holder, dead or alive, keeps a printer: its lease is free again and  *)
(* again.                                                                  *)
LeaseComesFree ==
    \A p \in Printers : []<>(LeaseAvailable(p) \/ printer[p].type = "DELETED")
=============================================================================
