-------------------------- MODULE PrintQueueProofs --------------------------
(***************************************************************************)
(* What the kitchen print queue guarantees for every number of printers,   *)
(* jobs, requests and pollers, whatever the length of the lease.           *)
(***************************************************************************)
EXTENDS PrintQueue, TLAPS

(* TypeOK, and what an actor at work points to.                            *)
PointsAt(s) == /\ s.pc \in OwnerPcs => s.job \in Jobs /\ s.prn = PrinterOf[s.job]
               /\ s.pc \in DrainPcs => s.prn \in Printers
TypeInv == TypeOK /\ \A a \in Actors : PointsAt(act[a])

(* No job in this state has leftovers of an earlier one.                   *)
CleanJob(r) ==
    /\ r.status \in {"NEW", "FAILED"} => ~r.held /\ r.claim = NoToken /\ r.retry = NoToken
    /\ r.status = "HELD" => r.held /\ r.claim = NoToken /\ r.retry = NoToken
    /\ r.status = "QUEUED" => /\ r.held <=> r.claim # NoToken
                              /\ r.held => r.retry = NoToken
CleanJobs == \A j \in Jobs : CleanJob(job[j])

(* Tokens identify actors, and no two actors work on one job.              *)
OwnersDiffer ==
    \A a, b \in Actors :
        a # b => /\ act[a].tok = act[b].tok => act[a].tok = NoToken
                 /\ ~ /\ act[a].pc \in OwnerPcs /\ act[b].pc \in OwnerPcs
                      /\ act[a].job = act[b].job
Kept(s, P, J) ==
    /\ s.pc \in LeasedPcs => s.leased
    /\ s.leased => s.tok \in Tokens /\ s.prn \in Printers /\ LeaseOf(s, P[s.prn])
    /\ s.pc \in OwnerPcs => s.tok \in Tokens /\ ClaimOf(s, J[s.job])
AllKept == \A a \in Actors : Kept(act[a], printer, job)

(* After its backlog check a sender knows of no claimed job, and none      *)
(* appears while it holds the lease.                                       *)
CheckedPcs == {"checked", "refreshed", "liveSend", "retrySend"}
QueueIsFree ==
    \A a \in Actors, j \in Jobs :
        act[a].pc \in CheckedPcs /\ act[a].prn = PrinterOf[j]
        => ~(job[j].status = "QUEUED" /\ job[j].held)

(* The last of the excused sheets was answered, and this is recorded, or   *)
(* about to be.                                                            *)
RecordPcs == {"liveRecord", "retryRecord", "drainRecord"}
Accounted(j) ==
    \/ job[j].status = "SENT"
    \/ \E a \in Actors : act[a].pc \in RecordPcs /\ act[a].job = j /\ act[a].out = "ok"
SendsCounted ==
    /\ \A j \in Jobs : /\ sheets[j] <= faults + 1
                       /\ sheets[j] = faults + 1 => Accounted(j)
    /\ \A a \in Actors : act[a].pc \notin RecordPcs => act[a].out # "ok"

KInv == TypeInv /\ CleanJobs /\ OwnersDiffer /\ AllKept
IInv == KInv /\ QueueIsFree /\ SendsCounted

-----------------------------------------------------------------------------
(* Each write yields a document of its collection.                         *)

LEMMA ZeroTick == 0 \in Ticks /\ Lease \in Ticks
  BY LeaseAssumption DEF Ticks

LEMMA StatusNames == "NEW" \in Statuses /\ "QUEUED" \in Statuses /\ "HELD" \in Statuses
                       /\ "SENT" \in Statuses /\ "FAILED" \in Statuses
  BY DEF Statuses

LEMMA PcNames ==
  /\ \A pc \in OwnerPcs \cup DrainPcs \cup AdminPcs \cup HoldPcs : pc \in Pcs
  /\ "idle" \in Pcs /\ "release" \in Pcs /\ "recoverLive" \in Pcs
  /\ \A o \in {"none", "ok", "failed", "unusable", "throw"} : o \in Outcomes
  BY DEF Pcs, OwnerPcs, DrainPcs, Outcomes

LEMMA JobWrites ==
  ASSUME NEW r \in JobDocs
  PROVE  /\ Sent(r) \in JobDocs /\ Failed(r) \in JobDocs /\ Held(r) \in JobDocs
         /\ NoQueueClaim(r) \in JobDocs /\ NoLiveClaim(r) \in JobDocs
         /\ NoRetryClaim(r) \in JobDocs /\ Requeued(r) \in JobDocs
         /\ DrainSent(r) \in JobDocs /\ DrainFailed(r) \in JobDocs
         /\ RecoveredLive(r) \in JobDocs /\ Older(r) \in JobDocs
<1> USE ZeroTick, StatusNames
<1>1. Sent(r) \in JobDocs /\ Failed(r) \in JobDocs
  BY DEF JobDocs, Sent, Failed
<1>2. \A s \in Statuses, b \in BOOLEAN :
         [r EXCEPT !.status = s, !.held = b, !.live = 0] \in JobDocs
  BY DEF JobDocs
<1>3. Held(r) \in JobDocs
  BY <1>2, Zenon DEF Held
<1>4. NoLiveClaim(r) \in JobDocs /\ NoRetryClaim(r) \in JobDocs
  BY DEF JobDocs, NoLiveClaim, NoRetryClaim
<1>5. NoQueueClaim(r) \in JobDocs
  BY DEF JobDocs, NoQueueClaim
<1>6. \A q \in JobDocs, s \in Statuses : [q EXCEPT !.status = s] \in JobDocs
  BY DEF JobDocs
<1>7. Requeued(r) \in JobDocs
  BY <1>5, <1>6 DEF Requeued
<1>8. \A q \in JobDocs, s \in Statuses, b \in BOOLEAN :
         [q EXCEPT !.status = s, !.held = b] \in JobDocs
  BY DEF JobDocs
<1>9. DrainSent(r) \in JobDocs /\ DrainFailed(r) \in JobDocs
  BY <1>5, <1>8, Zenon DEF DrainSent, DrainFailed
<1>10. RecoveredLive(r) \in JobDocs
  BY <1>6 DEF RecoveredLive
<1>11. \A n \in Ticks : Less(n) \in Ticks
  BY LeaseAssumption DEF Ticks, Less
<1>12. Older(r) \in JobDocs
  BY <1>11 DEF JobDocs, Older
<1> QED
  BY <1>1, <1>3, <1>4, <1>5, <1>7, <1>9, <1>10, <1>12

LEMMA LeaseWrites ==
  ASSUME TypeOK, NEW p \in Printers, NEW t \in Tokens \cup {NoToken}, NEW n \in Ticks
  PROVE  /\ Claimed(p, t, n) \in [Printers -> PrinterDocs]
         /\ [printer EXCEPT ![p].ttl = n] \in [Printers -> PrinterDocs]
         /\ printer[p].ttl \in Ticks
  BY DEF TypeOK, PrinterDocs, Claimed

LEMMA ActorMoves ==
  ASSUME TypeOK, NEW a \in Actors, NEW pc \in Pcs
  PROVE  /\ Goto(a, pc) => act' \in [Actors -> ActorStates]
         /\ Finish(a) => act' \in [Actors -> ActorStates]
         /\ act[a].tok \in Tokens \cup {NoToken}
         /\ Idle \in ActorStates
<1>1. Idle \in ActorStates
  BY PcNames DEF Idle, ActorStates
<1>2. \A s \in ActorStates :
         [s EXCEPT !.pc = "release", !.job = NoJob, !.out = "none"] \in ActorStates
  BY PcNames DEF ActorStates
<1>3. \A s \in ActorStates : [s EXCEPT !.pc = pc] \in ActorStates
  BY DEF ActorStates
<1>4. act[a].tok \in Tokens \cup {NoToken}
  BY DEF TypeOK, ActorStates
<1>5. Goto(a, pc) => act' \in [Actors -> ActorStates]
  BY <1>3 DEF TypeOK, Goto
<1>6. \A s \in ActorStates : [act EXCEPT ![a] = s] \in [Actors -> ActorStates]
  BY DEF TypeOK
<1>7. Finish(a) => act' \in [Actors -> ActorStates]
  <2>1. act[a] \in ActorStates
    BY DEF TypeOK
  <2>2. CASE act[a].leased
    BY <2>1, <2>2, <1>2, <1>6 DEF Finish
  <2>3. CASE ~act[a].leased
    BY <2>3, <1>1, <1>6 DEF Finish
  <2> QED
    BY <2>2, <2>3
<1> QED
  BY <1>1, <1>4, <1>5, <1>7

(* An actor that keeps its job and printer, or drops them, points well.    *)
LEMMA PointsKept ==
  ASSUME TypeInv, NEW a \in Actors, NEW s,
         act' = [act EXCEPT ![a] = s],
         \/ s.pc \notin OwnerPcs \cup DrainPcs
         \/ /\ s.job = act[a].job /\ s.prn = act[a].prn
            /\ s.pc \in OwnerPcs => act[a].pc \in OwnerPcs
            /\ s.pc \in DrainPcs => act[a].pc \in DrainPcs
  PROVE  \A b \in Actors : PointsAt(act'[b])
  BY DEF TypeInv, TypeOK, PointsAt

LEMMA FinishPoints ==
  ASSUME TypeInv, NEW a \in Actors, Finish(a)
  PROVE  \A b \in Actors : PointsAt(act'[b])
<1>1. /\ Idle.pc \notin OwnerPcs \cup DrainPcs
      /\ [act[a] EXCEPT !.pc = "release", !.job = NoJob, !.out = "none"].pc
            \notin OwnerPcs \cup DrainPcs
  BY DEF Idle, TypeInv, TypeOK, ActorStates, OwnerPcs, LivePcs, RetryPcs, OwnPcs, DrainPcs
<1>2. CASE act[a].leased
  BY <1>1, <1>2, PointsKept DEF Finish
<1>3. CASE ~act[a].leased
  BY <1>1, <1>3, PointsKept DEF Finish
<1> QED
  BY <1>2, <1>3

LEMMA GotoPoints ==
  ASSUME TypeInv, NEW a \in Actors, NEW pc, Goto(a, pc),
         pc \in OwnerPcs => act[a].pc \in OwnerPcs,
         pc \in DrainPcs => act[a].pc \in DrainPcs
  PROVE  \A b \in Actors : PointsAt(act'[b])
  BY PointsKept DEF Goto, TypeInv, TypeOK, ActorStates

-----------------------------------------------------------------------------
(* The type invariant is preserved, timely or not.                         *)

LEMMA TypeInit == Init => TypeInv
<1> SUFFICES ASSUME Init PROVE TypeInv
  OBVIOUS
<1>1. Idle \in ActorStates /\ PointsAt(Idle)
  BY PcNames DEF Idle, ActorStates, PointsAt, OwnerPcs, LivePcs, RetryPcs, OwnPcs, DrainPcs
<1>2. NewJob \in JobDocs
  BY ZeroTick, StatusNames DEF NewJob, JobDocs
<1>3. [type |-> "KITCHEN", lease |-> NoToken, ttl |-> 0] \in PrinterDocs
  BY ZeroTick DEF PrinterDocs
<1>4. 0 \in 0 .. MaxFaults /\ 0 \in 0 .. MaxSends
  BY BoundsAssumption
<1> QED
  BY <1>1, <1>2, <1>3, <1>4 DEF Init, TypeInv, TypeOK, Stages

LEMMA TypeLiveStep ==
  ASSUME TypeInv, NEW c \in Clerks, LiveStep(c)
  PROVE  TypeInv'
<1>0. c \in Actors
  BY DEF Actors
<1>1. CASE LiveClaim(c)
  <2>1. act[c].pc \in OwnerPcs /\ act[c].job \in Jobs /\ act[c].prn \in Printers
    BY <1>1, <1>0, RouteAssumption DEF LiveClaim, TypeInv, PointsAt, OwnerPcs, LivePcs
  <2>0. job[act[c].job].live \in Ticks /\ act[c].tok \in Tokens \cup {NoToken}
    BY <2>1, <1>0 DEF TypeInv, TypeOK, JobDocs, ActorStates
  <2>2. printer' \in [Printers -> PrinterDocs]
    <3>1. CASE Claimable(act[c].prn)
      <4>1. printer' = Claimed(act[c].prn, act[c].tok, job[act[c].job].live)
        BY <1>1, <3>1, Zenon DEF LiveClaim
      <4> QED
        BY <4>1, <2>0, <2>1, LeaseWrites DEF TypeInv
    <3>2. CASE ~Claimable(act[c].prn)
      BY <1>1, <3>2 DEF LiveClaim, TypeInv, TypeOK
    <3> QED
      BY <3>1, <3>2
  <2>3. \A pc \in Pcs, b \in BOOLEAN :
          [act EXCEPT ![c].pc = pc, ![c].leased = b] \in [Actors -> ActorStates]
    BY <1>0, ZenonT(40) DEF TypeInv, TypeOK, ActorStates
  <2>4. \A b \in BOOLEAN :
          act' = [act EXCEPT ![c].pc = "claimed", ![c].leased = b]
            => \A x \in Actors : PointsAt(act'[x])
    BY <1>0, <2>1 DEF TypeInv, TypeOK, ActorStates, PointsAt, DrainPcs, OwnPcs
  <2>5. CASE Claimable(act[c].prn)
    <3>1. act' = [act EXCEPT ![c].pc = "claimed", ![c].leased = TRUE]
      BY <1>1, <2>5, Zenon DEF LiveClaim
    <3>2. "claimed" \in Pcs
      BY PcNames DEF OwnerPcs, LivePcs
    <3>3. act' \in [Actors -> ActorStates]
      BY <3>1, <3>2, <2>3, Zenon
    <3>4. \A x \in Actors : PointsAt(act'[x])
      BY <3>1, <2>4, Zenon
    <3> QED
      BY <3>3, <3>4, <2>2, <1>1 DEF LiveClaim, TypeInv, TypeOK
  <2>6. CASE ~Claimable(act[c].prn)
    BY <1>1, <1>0, <2>1, <2>2, <2>6, GotoPoints, ActorMoves, PcNames
    DEF LiveClaim, TypeInv, TypeOK, OwnerPcs, LivePcs, DrainPcs, OwnPcs
  <2> QED
    BY <2>5, <2>6
<1>2. CASE LiveExists(c)
  <2>1. job' \in [Jobs -> JobDocs]
    BY <1>2, JobWrites DEF LiveExists, TypeInv, TypeOK
  <2>2. act' \in [Actors -> ActorStates] /\ \A a \in Actors : PointsAt(act'[a])
    BY <1>2, <1>0, GotoPoints, FinishPoints, ActorMoves, PcNames
    DEF LiveExists, TypeInv, OwnerPcs, LivePcs, OwnPcs, DrainPcs
  <2> QED
    BY <1>2, <2>1, <2>2 DEF LiveExists, TypeInv, TypeOK
<1>3. CASE LiveBacklog(c)
  BY <1>3, <1>0, GotoPoints, ActorMoves, PcNames, JobWrites DEF LiveBacklog, TypeInv, TypeOK, OwnerPcs, LivePcs, RetryPcs, OwnPcs, DrainPcs
<1>4. CASE LiveHold(c)
  <2>1. Finish(c) /\ UNCHANGED <<printer, poll, faults, sheets, confirmed>>
    BY <1>4 DEF LiveHold
  <2>2. job' \in [Jobs -> JobDocs]
    BY <1>4, JobWrites DEF LiveHold, TypeInv, TypeOK
  <2> QED
    BY <2>1, <2>2, <1>0, FinishPoints, ActorMoves, PcNames DEF TypeInv, TypeOK
<1>5. CASE LiveReject(c)
  <2>1. Finish(c) /\ UNCHANGED <<printer, poll, faults, sheets, confirmed>>
    BY <1>5 DEF LiveReject
  <2>2. job' \in [Jobs -> JobDocs]
    BY <1>5, JobWrites DEF LiveReject, TypeInv, TypeOK
  <2> QED
    BY <2>1, <2>2, <1>0, FinishPoints, ActorMoves, PcNames DEF TypeInv, TypeOK
<1>6. CASE LiveRefreshJob(c)
  <2>1. \A r \in JobDocs : [r EXCEPT !.live = Lease] \in JobDocs
    BY ZeroTick DEF JobDocs
  <2>2. job' \in [Jobs -> JobDocs]
    BY <1>6, <2>1 DEF LiveRefreshJob, TypeInv, TypeOK
  <2>3. act' \in [Actors -> ActorStates] /\ \A a \in Actors : PointsAt(act'[a])
    BY <1>6, <1>0, GotoPoints, ActorMoves, PcNames
    DEF LiveRefreshJob, TypeInv, OwnerPcs, LivePcs, OwnPcs, DrainPcs
  <2> QED
    BY <1>6, <2>2, <2>3 DEF LiveRefreshJob, TypeInv, TypeOK
<1>7. CASE LiveRefreshLease(c)
  <2>1. act[c].job \in Jobs /\ act[c].prn \in Printers
    BY <1>7, <1>0, RouteAssumption DEF LiveRefreshLease, TypeInv, PointsAt, OwnerPcs, LivePcs
  <2>0. job[act[c].job].live \in Ticks
    BY <2>1 DEF TypeInv, TypeOK, JobDocs
  <2>2. printer' \in [Printers -> PrinterDocs]
    <3>1. CASE HoldsLease(c)
      BY <1>7, <3>1, <2>0, <2>1, LeaseWrites DEF LiveRefreshLease, TypeInv
    <3>2. CASE ~HoldsLease(c)
      BY <1>7, <3>2 DEF LiveRefreshLease, TypeInv, TypeOK
    <3> QED
      BY <3>1, <3>2
  <2>3. act' \in [Actors -> ActorStates] /\ \A a \in Actors : PointsAt(act'[a])
    BY <1>7, <1>0, GotoPoints, ActorMoves, PcNames
    DEF LiveRefreshLease, TypeInv, OwnerPcs, LivePcs, OwnPcs, DrainPcs
  <2> QED
    BY <1>7, <2>2, <2>3 DEF LiveRefreshLease, TypeInv, TypeOK
<1>8. CASE LiveLost(c)
  <2>1. Finish(c) /\ UNCHANGED <<printer, poll, faults, sheets, confirmed>>
    BY <1>8 DEF LiveLost
  <2>2. job' \in [Jobs -> JobDocs]
    BY <1>8, JobWrites DEF LiveLost, TypeInv, TypeOK
  <2> QED
    BY <2>1, <2>2, <1>0, FinishPoints, ActorMoves, PcNames DEF TypeInv, TypeOK
<1>9. CASE LiveRecord(c)
  <2>1. Finish(c) /\ UNCHANGED <<printer, poll, faults, sheets, confirmed>>
    BY <1>9 DEF LiveRecord
  <2>2. job' \in [Jobs -> JobDocs]
    BY <1>9, JobWrites DEF LiveRecord, TypeInv, TypeOK
  <2> QED
    BY <2>1, <2>2, <1>0, FinishPoints, ActorMoves, PcNames DEF TypeInv, TypeOK
<1> QED
  BY <1>1, <1>2, <1>3, <1>4, <1>5, <1>6, <1>7, <1>8, <1>9 DEF LiveStep

LEMMA TypeRetryStep ==
  ASSUME TypeInv, NEW c \in Clerks, RetryStep(c)
  PROVE  TypeInv'
<1>0. c \in Actors
  BY DEF Actors
<1>1. CASE RetryClaim(c)
  <2>1. act[c].pc \in OwnerPcs /\ act[c].job \in Jobs /\ act[c].prn \in Printers
    BY <1>1, <1>0, RouteAssumption DEF RetryClaim, TypeInv, PointsAt, OwnerPcs, RetryPcs
  <2>2. act[c].tok \in Tokens \cup {NoToken}
    BY <1>0 DEF TypeInv, TypeOK, ActorStates
  <2>3. \A pc \in Pcs, b \in BOOLEAN :
          [act EXCEPT ![c].pc = pc, ![c].leased = b] \in [Actors -> ActorStates]
    BY <1>0, ZenonT(40) DEF TypeInv, TypeOK, ActorStates
  <2>4. \A b \in BOOLEAN :
          act' = [act EXCEPT ![c].pc = "retryClaimed", ![c].leased = b]
            => \A x \in Actors : PointsAt(act'[x])
    BY <1>0, <2>1 DEF TypeInv, TypeOK, ActorStates, PointsAt, DrainPcs, OwnPcs
  <2>5. CASE Claimable(act[c].prn)
    <3>1. act' = [act EXCEPT ![c].pc = "retryClaimed", ![c].leased = TRUE]
      BY <1>1, <2>5, Zenon DEF RetryClaim
    <3>2. "retryClaimed" \in Pcs
      BY PcNames DEF OwnerPcs, RetryPcs
    <3>3. act' \in [Actors -> ActorStates]
      BY <3>1, <3>2, <2>3, Zenon
    <3>4. \A x \in Actors : PointsAt(act'[x])
      BY <3>1, <2>4, Zenon
    <3>5. printer' = Claimed(act[c].prn, act[c].tok, Lease)
      BY <1>1, <2>5, Zenon DEF RetryClaim
    <3>6. printer' \in [Printers -> PrinterDocs]
      BY <3>5, <2>1, <2>2, LeaseWrites, ZeroTick DEF TypeInv
    <3> QED
      BY <3>3, <3>4, <3>6, <1>1 DEF RetryClaim, TypeInv, TypeOK
  <2>6. CASE ~Claimable(act[c].prn)
    BY <1>1, <1>0, <2>1, <2>6, GotoPoints, ActorMoves, PcNames
    DEF RetryClaim, TypeInv, TypeOK, OwnerPcs, RetryPcs, DrainPcs, OwnPcs
  <2> QED
    BY <2>5, <2>6
<1>2. CASE RetryBacklog(c)
  BY <1>2, <1>0, GotoPoints, ActorMoves, PcNames, JobWrites DEF RetryBacklog, TypeInv, TypeOK, OwnerPcs, LivePcs, RetryPcs, OwnPcs, DrainPcs
<1>3. CASE RetryAbort(c)
  <2>1. Finish(c) /\ UNCHANGED <<printer, poll, faults, sheets, confirmed>>
    BY <1>3 DEF RetryAbort
  <2>2. job' \in [Jobs -> JobDocs]
    BY <1>3, JobWrites DEF RetryAbort, TypeInv, TypeOK, RetryAborted
  <2> QED
    BY <2>1, <2>2, <1>0, FinishPoints, ActorMoves, PcNames DEF TypeInv, TypeOK
<1>4. CASE RetryRecord(c)
  <2>1. Finish(c) /\ UNCHANGED <<printer, poll, faults, sheets, confirmed>>
    BY <1>4 DEF RetryRecord
  <2>2. job' \in [Jobs -> JobDocs]
    BY <1>4, JobWrites DEF RetryRecord, TypeInv, TypeOK, RetryAborted
  <2> QED
    BY <2>1, <2>2, <1>0, FinishPoints, ActorMoves, PcNames DEF TypeInv, TypeOK
<1> QED
  BY <1>1, <1>2, <1>3, <1>4 DEF RetryStep

LEMMA TypeClerkStep ==
  ASSUME TypeInv, NEW c \in Clerks, ClerkStep(c)
  PROVE  TypeInv'
<1>0. c \in Actors
  BY DEF Actors
<1>1. Idle \in ActorStates /\ PointsAt(Idle)
  BY PcNames DEF Idle, ActorStates, PointsAt, OwnerPcs, LivePcs, RetryPcs, OwnPcs, DrainPcs
<1>2. CASE RecoverLive(c)
  BY <1>2, <1>0, <1>1, JobWrites DEF RecoverLive, TypeInv, TypeOK
<1>3. CASE HoldUpdate(c)
  <2>1. Finish(c) /\ UNCHANGED <<printer, poll, faults, sheets, confirmed>>
    BY <1>3 DEF HoldUpdate
  <2>2. job' \in [Jobs -> JobDocs]
    BY <1>3, JobWrites DEF HoldUpdate, TypeInv, TypeOK
  <2> QED
    BY <2>1, <2>2, <1>0, FinishPoints, ActorMoves, PcNames DEF TypeInv, TypeOK
<1>4. CASE AdminCheck(c)
  <2>1. CASE Pending(act[c].prn)
    BY <1>4, <1>0, <1>1, <2>1 DEF AdminCheck, TypeInv, TypeOK
  <2>2. CASE ~Pending(act[c].prn)
    <3>1. Goto(c, "adminApply")
      BY <1>4, <2>2 DEF AdminCheck, Goto, TypeInv, TypeOK
    <3> QED
      BY <1>4, <3>1, <1>0, GotoPoints, ActorMoves, PcNames
      DEF AdminCheck, TypeInv, TypeOK, AdminPcs, OwnerPcs, LivePcs, RetryPcs, OwnPcs, DrainPcs
  <2> QED
    BY <2>1, <2>2
<1>5. CASE AdminApply(c)
  <2>1. \A x \in PrinterDocs : [x EXCEPT !.type = "CASHIER"] \in PrinterDocs
    BY DEF PrinterDocs
  <2>2. [type |-> "DELETED", lease |-> NoToken, ttl |-> 0] \in PrinterDocs
    BY ZeroTick DEF PrinterDocs
  <2>3. printer' \in [Printers -> PrinterDocs]
    BY <1>5, <2>1, <2>2 DEF AdminApply, TypeInv, TypeOK
  <2> QED
    BY <1>5, <1>0, <1>1, <2>3 DEF AdminApply, TypeInv, TypeOK
<1> QED
  BY <1>2, <1>3, <1>4, <1>5, TypeLiveStep, TypeRetryStep DEF ClerkStep

LEMMA TypeClerkBegin ==
  ASSUME TypeInv, NEW c \in Clerks, ClerkBegin(c)
  PROVE  TypeInv'
<1>0. c \in Actors
  BY DEF Actors
<1>1. ASSUME NEW j \in Jobs, NEW t \in Tokens, LiveCreate(c, j, t)
      PROVE  TypeInv'
  <2>1. \A r \in JobDocs : [r EXCEPT !.status = "QUEUED", !.live = Lease] \in JobDocs
    BY ZeroTick, StatusNames DEF JobDocs
  <2>2. job' \in [Jobs -> JobDocs]
    BY <1>1, <2>1 DEF LiveCreate, TypeInv, TypeOK
  <2> DEFINE s == [pc |-> "created", tok |-> t, leased |-> FALSE,
                   job |-> j, prn |-> PrinterOf[j], out |-> "none"]
  <2>3. s \in ActorStates /\ PointsAt(s)
    BY <1>1, PcNames, RouteAssumption
    DEF ActorStates, PointsAt, OwnerPcs, LivePcs, DrainPcs, OwnPcs
  <2> QED
    BY <1>1, <1>0, <2>2, <2>3 DEF LiveCreate, TypeInv, TypeOK
<1>2. ASSUME NEW j \in Jobs, NEW t \in Tokens, RetryBegin(c, j, t)
      PROVE  TypeInv'
  <2>1. \A r \in JobDocs :
          [r EXCEPT !.status = "QUEUED", !.retry = t, !.retryTtl = Lease] \in JobDocs
    BY ZeroTick, StatusNames DEF JobDocs
  <2>2. job' \in [Jobs -> JobDocs]
    BY <1>2, <2>1 DEF RetryBegin, TypeInv, TypeOK
  <2> DEFINE s == [pc |-> "retrying", tok |-> t, leased |-> FALSE,
                   job |-> j, prn |-> PrinterOf[j], out |-> "none"]
  <2>3. s \in ActorStates /\ PointsAt(s)
    BY <1>2, PcNames, RouteAssumption
    DEF ActorStates, PointsAt, OwnerPcs, RetryPcs, DrainPcs, OwnPcs
  <2> QED
    BY <1>2, <1>0, <2>2, <2>3 DEF RetryBegin, TypeInv, TypeOK
<1>3. ASSUME NEW j \in Jobs, RecoverRetry(c, j)
      PROVE  TypeInv'
  <2>1. job' \in [Jobs -> JobDocs]
    BY <1>3, JobWrites DEF RecoverRetry, TypeInv, TypeOK
  <2>2. [Idle EXCEPT !.pc = "recoverLive", !.job = j] \in ActorStates
    BY PcNames DEF Idle, ActorStates
  <2>3. PointsAt([Idle EXCEPT !.pc = "recoverLive", !.job = j])
    BY DEF Idle, PointsAt, OwnerPcs, LivePcs, RetryPcs, DrainPcs, OwnPcs
  <2> QED
    BY <1>3, <1>0, <2>1, <2>2, <2>3 DEF RecoverRetry, TypeInv, TypeOK
<1>4. ASSUME NEW p \in Printers, NEW t \in Tokens, HoldBegin(c, p, t)
      PROVE  TypeInv'
  <2>1. printer' \in [Printers -> PrinterDocs]
    BY <1>4, LeaseWrites, ZeroTick DEF HoldBegin, TypeInv
  <2> DEFINE s(b) == [Idle EXCEPT !.pc = "holding", !.tok = t, !.leased = b, !.prn = p]
  <2>2. \A b \in BOOLEAN : s(b) \in ActorStates /\ PointsAt(s(b))
    BY PcNames
    DEF Idle, ActorStates, HoldPcs, PointsAt, OwnerPcs, LivePcs, RetryPcs, DrainPcs, OwnPcs
  <2>3. act' = [act EXCEPT ![c] = s(TRUE)] /\ UNCHANGED <<job, poll, faults, sheets, confirmed>>
    BY <1>4, Zenon DEF HoldBegin
  <2>4. s(TRUE) \in ActorStates /\ PointsAt(s(TRUE))
    BY <2>2, Zenon
  <2> HIDE DEF s
  <2> QED
    BY <2>1, <2>3, <2>4, <1>0 DEF TypeInv, TypeOK
<1>5. ASSUME NEW p \in Printers, AdminBegin(c, p)
      PROVE  TypeInv'
  <2>1. job' \in [Jobs -> JobDocs]
    BY <1>5, JobWrites DEF AdminBegin, TypeInv, TypeOK
  <2>2. [Idle EXCEPT !.pc = "adminCheck", !.prn = p] \in ActorStates
    BY PcNames DEF Idle, ActorStates, AdminPcs
  <2>3. PointsAt([Idle EXCEPT !.pc = "adminCheck", !.prn = p])
    BY DEF Idle, PointsAt, OwnerPcs, LivePcs, RetryPcs, DrainPcs, OwnPcs
  <2> QED
    BY <1>5, <1>0, <2>1, <2>2, <2>3 DEF AdminBegin, TypeInv, TypeOK
<1>6. ASSUME NEW p \in Printers, AdminToKitchen(c, p)
      PROVE  TypeInv'
  <2>1. \A x \in PrinterDocs : [x EXCEPT !.type = "KITCHEN"] \in PrinterDocs
    BY DEF PrinterDocs
  <2> QED
    BY <1>6, <2>1 DEF AdminToKitchen, TypeInv, TypeOK
<1> QED
  BY <1>1, <1>2, <1>3, <1>4, <1>5, <1>6 DEF ClerkBegin

LEMMA ActorSet ==
  ASSUME TypeInv, NEW a \in Actors, NEW s \in ActorStates, PointsAt(s),
         act' = [act EXCEPT ![a] = s]
  PROVE  act' \in [Actors -> ActorStates] /\ \A b \in Actors : PointsAt(act'[b])
  BY DEF TypeInv, TypeOK

LEMMA IdlePoints == Idle \in ActorStates /\ PointsAt(Idle)
  BY PcNames DEF Idle, ActorStates, PointsAt, OwnerPcs, LivePcs, RetryPcs, OwnPcs, DrainPcs

LEMMA TypeDrainStep ==
  ASSUME TypeInv, NEW d \in Drains, DrainStep(d)
  PROVE  TypeInv'
<1>0. d \in Actors
  BY DEF Actors
<1>1. Idle \in ActorStates /\ PointsAt(Idle)
  BY IdlePoints
<1>2. ASSUME NEW t \in Tokens, DrainClaim(d, t)
      PROVE  TypeInv'
  <2>1. act[d].prn \in Printers
    BY <1>2, <1>0 DEF DrainClaim, TypeInv, PointsAt, DrainPcs
  <2> DEFINE s(b) == [act[d] EXCEPT !.pc = "drainRefresh", !.tok = t, !.leased = b]
  <2>a. \A b \in BOOLEAN : s(b) \in ActorStates /\ s(b).pc = "drainRefresh" /\ s(b).prn = act[d].prn
    BY <1>0, PcNames DEF TypeInv, TypeOK, ActorStates, DrainPcs
  <2> HIDE DEF s
  <2>2. \A b \in BOOLEAN : s(b) \in ActorStates /\ PointsAt(s(b))
    BY <2>1, <2>a DEF PointsAt, OwnerPcs, LivePcs, RetryPcs, OwnPcs
  <2>3. CASE Claimable(act[d].prn)
    <3>1. /\ act' = [act EXCEPT ![d] = s(TRUE)]
          /\ printer' = Claimed(act[d].prn, t, Lease)
      BY <1>2, <2>3, Zenon DEF DrainClaim, s
    <3>2. act' \in [Actors -> ActorStates] /\ \A a \in Actors : PointsAt(act'[a])
      <4>1. s(TRUE) \in ActorStates /\ PointsAt(s(TRUE))
        BY <2>2, Zenon
      <4> QED
        BY <3>1, <4>1, <1>0, ActorSet
    <3>3. printer' \in [Printers -> PrinterDocs]
      BY <3>1, <2>1, LeaseWrites, ZeroTick DEF TypeInv
    <3> QED
      BY <1>2, <3>2, <3>3 DEF DrainClaim, TypeInv, TypeOK
  <2>4. CASE ~Claimable(act[d].prn)
    BY <1>2, <1>0, <1>1, <2>4 DEF DrainClaim, TypeInv, TypeOK
  <2> QED
    BY <2>3, <2>4
<1>3. CASE DrainRefresh(d)
  <2>1. act[d].prn \in Printers
    BY <1>3, <1>0 DEF DrainRefresh, TypeInv, PointsAt, DrainPcs
  <2>2. printer' \in [Printers -> PrinterDocs]
    <3>1. [printer EXCEPT ![act[d].prn].ttl = Lease] \in [Printers -> PrinterDocs]
      BY <2>1, LeaseWrites, ZeroTick DEF TypeInv
    <3> QED
      BY <1>3, <3>1 DEF DrainRefresh, TypeInv, TypeOK
  <2>3. act' \in [Actors -> ActorStates] /\ \A a \in Actors : PointsAt(act'[a])
    BY <1>3, <1>0, GotoPoints, FinishPoints, ActorMoves, PcNames
    DEF DrainRefresh, TypeInv, OwnerPcs, LivePcs, RetryPcs, OwnPcs, DrainPcs
  <2> QED
    BY <1>3, <2>2, <2>3 DEF DrainRefresh, TypeInv, TypeOK
<1>4. CASE DrainPick(d)
  <2>1. act[d].prn \in Printers /\ act[d].tok \in Tokens \cup {NoToken}
    BY <1>4, <1>0 DEF DrainPick, TypeInv, TypeOK, ActorStates, PointsAt, DrainPcs
  <2>2. CASE HeldOn(act[d].prn) = {}
    <3>1. Finish(d) /\ UNCHANGED <<printer, job, poll, faults, sheets, confirmed>>
      BY <1>4, <2>2 DEF DrainPick, Oldest
    <3> QED
      BY <3>1, <1>0, FinishPoints, ActorMoves, PcNames DEF TypeInv, TypeOK
  <2>3. CASE HeldOn(act[d].prn) # {}
    <3> DEFINE n == IF HoldsLease(d) THEN printer[act[d].prn].ttl ELSE 0
    <3>1. n \in Ticks
      BY <2>1, ZeroTick DEF TypeInv, TypeOK, PrinterDocs
    <3> HIDE DEF n
    <3>2. PICK j \in Oldest(HeldOn(act[d].prn)) :
             /\ job' = [job EXCEPT ![j] = [NoRetryClaim(@) EXCEPT
                   !.status = "QUEUED", !.claim = act[d].tok, !.claimTtl = n]]
             /\ act' = [act EXCEPT ![d].pc = "drainLoad", ![d].job = j]
      BY <1>4, <2>3 DEF DrainPick, n
    <3>3. j \in Jobs /\ PrinterOf[j] = act[d].prn
      BY DEF Oldest, HeldOn
    <3>4. \A r \in JobDocs : [r EXCEPT !.status = "QUEUED", !.claim = act[d].tok,
                                      !.claimTtl = n] \in JobDocs
      BY <2>1, <3>1, StatusNames DEF JobDocs
    <3>5. job' \in [Jobs -> JobDocs]
      BY <3>2, <3>4, JobWrites DEF TypeInv, TypeOK
    <3>6. act' \in [Actors -> ActorStates] /\ \A a \in Actors : PointsAt(act'[a])
      <4> DEFINE s == [act[d] EXCEPT !.pc = "drainLoad", !.job = j]
      <4>1. s \in ActorStates /\ s.pc = "drainLoad" /\ s.job = j /\ s.prn = act[d].prn
        BY <1>0, <3>3, PcNames DEF TypeInv, TypeOK, ActorStates, OwnerPcs, OwnPcs
      <4>2. PointsAt(s)
        BY <2>1, <3>3, <4>1 DEF PointsAt
      <4>3. act' = [act EXCEPT ![d] = s]
        BY <3>2, Zenon
      <4> HIDE DEF s
      <4> QED
        BY <4>1, <4>2, <4>3, <1>0, ActorSet
    <3> QED
      BY <1>4, <3>5, <3>6 DEF DrainPick, TypeInv, TypeOK
  <2> QED
    BY <2>2, <2>3
<1>5. CASE DrainLoad(d)
  <2>1. CASE Goto(d, "drainSend")
    BY <1>5, <1>0, <2>1, GotoPoints, ActorMoves, PcNames
    DEF DrainLoad, TypeInv, TypeOK, DrainPcs, OwnerPcs, OwnPcs
  <2>2. CASE act' = [act EXCEPT ![d].pc = "drainRecord", ![d].out = "unusable"]
    <3>1. act' \in [Actors -> ActorStates] /\ \A a \in Actors : PointsAt(act'[a])
      <4> DEFINE s == [act[d] EXCEPT !.pc = "drainRecord", !.out = "unusable"]
      <4>1. /\ s \in ActorStates /\ s.pc = "drainRecord"
            /\ s.job = act[d].job /\ s.prn = act[d].prn
        BY <1>0, PcNames DEF TypeInv, TypeOK, ActorStates, OwnerPcs, OwnPcs
      <4>2. PointsAt(s)
        BY <1>5, <1>0, <4>1 DEF DrainLoad, TypeInv, PointsAt, OwnerPcs, OwnPcs, DrainPcs
      <4> HIDE DEF s
      <4>3. act' = [act EXCEPT ![d] = s]
        BY <2>2 DEF s
      <4> QED
        BY <4>1, <4>2, <4>3, <1>0, ActorSet
    <3> QED
      BY <1>5, <3>1 DEF DrainLoad, TypeInv, TypeOK
  <2> QED
    BY <1>5, <2>1, <2>2 DEF DrainLoad
<1>6. CASE DrainRecord(d)
  <2>1. job' \in [Jobs -> JobDocs]
    BY <1>6, JobWrites DEF DrainRecord, TypeInv, TypeOK
  <2>2. CASE Finish(d)
    BY <1>6, <2>1, <2>2, <1>0, FinishPoints, ActorMoves, PcNames DEF DrainRecord, TypeInv, TypeOK
  <2>3. CASE act' = [act EXCEPT ![d].pc = "drainRefresh", ![d].job = NoJob, ![d].out = "none"]
    <3>1. act[d].prn \in Printers
      BY <1>6, <1>0 DEF DrainRecord, TypeInv, PointsAt, DrainPcs, OwnPcs
    <3>2. act' \in [Actors -> ActorStates] /\ \A a \in Actors : PointsAt(act'[a])
      <4> DEFINE s == [act[d] EXCEPT !.pc = "drainRefresh", !.job = NoJob, !.out = "none"]
      <4>1. s \in ActorStates /\ s.pc = "drainRefresh" /\ s.prn = act[d].prn
        BY <1>0, PcNames DEF TypeInv, TypeOK, ActorStates, DrainPcs
      <4>2. PointsAt(s)
        BY <3>1, <4>1 DEF PointsAt, OwnerPcs, LivePcs, RetryPcs, OwnPcs
      <4> HIDE DEF s
      <4>3. act' = [act EXCEPT ![d] = s]
        BY <2>3 DEF s
      <4> QED
        BY <4>1, <4>2, <4>3, <1>0, ActorSet
    <3> QED
      BY <1>6, <2>1, <3>2 DEF DrainRecord, TypeInv, TypeOK
  <2> QED
    BY <1>6, <2>2, <2>3 DEF DrainRecord
<1> QED
  BY <1>2, <1>3, <1>4, <1>5, <1>6 DEF DrainStep

(* Where a transmission ends, the actor still works on the same job.       *)
LEMMA RecordingPcs ==
  ASSUME NEW pc \in SendPcs
  PROVE  /\ pc \in OwnerPcs /\ Recording(pc) \in RecordPcs \cap OwnerPcs \cap Pcs
         /\ Recording(pc) \in LeasedPcs
         /\ pc \in DrainPcs <=> Recording(pc) \in DrainPcs
         /\ pc \in LivePcs <=> Recording(pc) \in LivePcs
         /\ pc \in RetryPcs <=> Recording(pc) \in RetryPcs
         /\ pc \in OwnPcs <=> Recording(pc) \in OwnPcs
  BY DEF SendPcs, Recording, RecordPcs, OwnerPcs, LivePcs, RetryPcs, OwnPcs, DrainPcs, Pcs,
         LeasedPcs

LEMMA TypeSend ==
  ASSUME TypeInv, NEW a \in Actors,
         SendOk(a) \/ SendFails(a) \/ SendUnanswered(a) \/ Release(a)
  PROVE  TypeInv'
<1>1. \A o \in Outcomes :
        act[a].pc \in SendPcs /\ act' = [act EXCEPT ![a].pc = Recording(@), ![a].out = o]
        => act' \in [Actors -> ActorStates] /\ \A b \in Actors : PointsAt(act'[b])
  <2> SUFFICES ASSUME NEW o \in Outcomes, act[a].pc \in SendPcs,
                      act' = [act EXCEPT ![a].pc = Recording(@), ![a].out = o]
               PROVE  act' \in [Actors -> ActorStates] /\ \A b \in Actors : PointsAt(act'[b])
    OBVIOUS
  <2> DEFINE s == [act[a] EXCEPT !.pc = Recording(@), !.out = o]
  <2>1. /\ s \in ActorStates /\ s.pc = Recording(act[a].pc)
        /\ s.job = act[a].job /\ s.prn = act[a].prn
    BY RecordingPcs DEF TypeInv, TypeOK, ActorStates
  <2>2. PointsAt(s)
    BY <2>1, RecordingPcs DEF TypeInv, PointsAt
  <2>3. act' = [act EXCEPT ![a] = s]
    OBVIOUS
  <2> HIDE DEF s
  <2> QED
    BY <2>1, <2>2, <2>3, ActorSet
<1>2. CASE SendOk(a)
  <2>1. act[a].pc \in OwnerPcs /\ act[a].job \in Jobs
    BY <1>2, RecordingPcs DEF SendOk, TypeInv, PointsAt
  <2>2. sheets' \in [Jobs -> 0 .. MaxSends] /\ confirmed' \subseteq Jobs
    BY <1>2, <2>1, BoundsAssumption DEF SendOk, Printed, TypeInv, TypeOK
  <2> QED
    BY <1>1, <1>2, <2>2, PcNames DEF SendOk, Ends, TypeInv, TypeOK
<1>3. CASE SendFails(a)
  BY <1>1, <1>3, PcNames DEF SendFails, Ends, TypeInv, TypeOK
<1>a. CASE SendUnanswered(a)
  <2>1. act[a].pc \in OwnerPcs /\ act[a].job \in Jobs
    BY <1>a, RecordingPcs DEF SendUnanswered, TypeInv, PointsAt
  <2>2. sheets' \in [Jobs -> 0 .. MaxSends] /\ faults' \in 0 .. MaxFaults
    BY <1>a, <2>1, BoundsAssumption DEF SendUnanswered, Printed, TypeInv, TypeOK
  <2> QED
    BY <1>1, <1>a, <2>2, PcNames DEF SendUnanswered, Ends, TypeInv, TypeOK
<1>4. CASE Release(a)
  <2>1. Idle \in ActorStates /\ PointsAt(Idle)
    BY IdlePoints
  <2>2. \A x \in PrinterDocs : [x EXCEPT !.lease = NoToken, !.ttl = 0] \in PrinterDocs
    BY ZeroTick DEF PrinterDocs
  <2>3. printer' \in [Printers -> PrinterDocs]
    BY <1>4, <2>2 DEF Release, Claimed, TypeInv, TypeOK
  <2> QED
    BY <1>4, <2>1, <2>3 DEF Release, TypeInv, TypeOK
<1> QED
  BY <1>2, <1>3, <1>a, <1>4

LEMMA TypePollStep ==
  ASSUME TypeInv, NEW q \in Pollers, PollStep(q)
  PROVE  TypeInv'
<1>1. CASE PollRecoverClaims(q)
  BY <1>1, JobWrites DEF PollRecoverClaims, TypeInv, TypeOK, Stages
<1>2. CASE PollRecoverLive(q)
  BY <1>2, JobWrites DEF PollRecoverLive, TypeInv, TypeOK, Stages
<1>3. CASE PollList(q)
  <2>1. \A a \in {q} \X HeldPrinters : a \in Actors => a[2] \in Printers
    BY RouteAssumption DEF HeldPrinters
  <2>2. \A p \in Printers : LET s == [Idle EXCEPT !.pc = "drainClaim", !.prn = p]
                           IN  s \in ActorStates /\ PointsAt(s)
    BY PcNames
    DEF Idle, ActorStates, PointsAt, OwnerPcs, LivePcs, RetryPcs, OwnPcs, DrainPcs
  <2>3. act' \in [Actors -> ActorStates] /\ \A a \in Actors : PointsAt(act'[a])
    BY <1>3, <2>1, <2>2 DEF PollList, TypeInv, TypeOK
  <2> QED
    BY <1>3, <2>3 DEF PollList, TypeInv, TypeOK, Stages
<1>4. CASE PollDone(q)
  BY <1>4 DEF PollDone, TypeInv, TypeOK, Stages
<1> QED
  BY <1>1, <1>2, <1>3, <1>4 DEF PollStep

LEMMA TypeEnvironment ==
  ASSUME TypeInv, Crash \/ Tick
  PROVE  TypeInv'
<1>1. CASE Crash
  <2>1. Idle \in ActorStates /\ PointsAt(Idle)
    BY IdlePoints
  <2>2. faults' \in 0 .. MaxFaults /\ UNCHANGED <<printer, job, sheets, confirmed>>
    BY <1>1, BoundsAssumption DEF Crash, TypeInv, TypeOK
  <2>3. poll' \in [Pollers -> Stages]
    BY <1>1 DEF Crash, TypeInv, TypeOK, Stages
  <2>4. act' \in [Actors -> ActorStates] /\ \A a \in Actors : PointsAt(act'[a])
    BY <1>1, <2>1 DEF Crash, TypeInv, TypeOK
  <2> QED
    BY <2>2, <2>3, <2>4 DEF TypeInv, TypeOK
<1>2. CASE Tick
  <2>1. \A n \in Ticks : Less(n) \in Ticks
    BY LeaseAssumption DEF Ticks, Less
  <2>2. \A x \in PrinterDocs : [x EXCEPT !.ttl = Less(@)] \in PrinterDocs
    BY <2>1 DEF PrinterDocs
  <2> QED
    BY <1>2, <2>2, JobWrites DEF Tick, TypeInv, TypeOK
<1> QED
  BY <1>1, <1>2

LEMMA TypeFailure ==
  ASSUME TypeInv, (\E a \in Actors : CallFails(a)) \/ (\E q \in Pollers : PollFails(q))
  PROVE  TypeInv'
<1>1. ASSUME NEW a \in Actors, CallFails(a)
      PROVE  TypeInv'
  <2>1. faults' \in 0 .. MaxFaults /\ UNCHANGED <<printer, job, sheets, confirmed>>
    BY <1>1, BoundsAssumption DEF CallFails, TypeInv, TypeOK
  <2>2. poll' \in [Pollers -> Stages]
    BY <1>1 DEF CallFails, TickEnds, TypeInv, TypeOK, Stages
  <2>3. act' \in [Actors -> ActorStates] /\ \A b \in Actors : PointsAt(act'[b])
    <3>1. CASE Goto(a, "retryAbort") /\ act[a].pc \in {"retrying", "retryClaimed"}
      BY <3>1, GotoPoints, ActorMoves, PcNames
      DEF TypeInv, OwnerPcs, LivePcs, RetryPcs, OwnPcs, DrainPcs
    <3>2. CASE Finish(a)
      BY <3>2, FinishPoints, ActorMoves, PcNames DEF TypeInv
    <3>3. CASE act' = [act EXCEPT ![a] = Idle]
      BY <3>3, IdlePoints, ActorSet
    <3>4. CASE /\ act[a].pc = "drainLoad"
               /\ act' = [act EXCEPT ![a].pc = "drainRecord", ![a].out = "failed"]
      <4> DEFINE s == [act[a] EXCEPT !.pc = "drainRecord", !.out = "failed"]
      <4>1. /\ s \in ActorStates /\ s.pc = "drainRecord"
            /\ s.job = act[a].job /\ s.prn = act[a].prn
        BY PcNames DEF TypeInv, TypeOK, ActorStates, OwnerPcs, OwnPcs
      <4>2. PointsAt(s)
        BY <3>4, <4>1 DEF TypeInv, PointsAt, OwnerPcs, OwnPcs, DrainPcs
      <4>3. act' = [act EXCEPT ![a] = s]
        BY <3>4
      <4> HIDE DEF s
      <4> QED
        BY <4>1, <4>2, <4>3, ActorSet
    <3> QED
      BY <1>1, <3>1, <3>2, <3>3, <3>4 DEF CallFails
  <2> QED
    BY <2>1, <2>2, <2>3 DEF TypeInv, TypeOK
<1>2. ASSUME NEW q \in Pollers, PollFails(q)
      PROVE  TypeInv'
  BY <1>2, BoundsAssumption DEF PollFails, TypeInv, TypeOK, Stages
<1> QED
  BY <1>1, <1>2

LEMMA TypeNext == TypeInv /\ [Next]_vars => TypeInv'
<1> SUFFICES ASSUME TypeInv, [Next]_vars
             PROVE  TypeInv'
  OBVIOUS
<1>1. CASE UNCHANGED vars
  BY <1>1 DEF vars, TypeInv, TypeOK
<1>2. CASE Next
  BY <1>2, TypeClerkStep, TypeClerkBegin, TypeDrainStep, TypeSend, TypePollStep,
     TypeEnvironment, TypeFailure DEF Next
<1> QED
  BY <1>1, <1>2

(* Whatever its bounds and however late its actors, the queue stores only  *)
(* documents its schemas allow, and every actor at work knows its job.     *)
THEOREM TypeCorrect == Spec => []TypeOK
<1>1. TypeInv => TypeOK
  BY DEF TypeInv
<1> QED
  BY <1>1, TypeInit, TypeNext, PTL DEF Spec

-----------------------------------------------------------------------------
(* Who holds what.  An actor's lease keeps every other one away from its   *)
(* printer, and one step moves one actor at a time.                        *)

LEMMA LeasesExclude ==
  ASSUME KInv, NEW a \in Actors, NEW b \in Actors, a # b, act[b].leased
  PROVE  /\ act[a].leased => act[a].prn # act[b].prn
         /\ \A p \in Printers : LeaseAvailable(p) => act[b].prn # p
<1>1. /\ act[b].tok \in Tokens /\ act[b].tok # NoToken /\ act[b].prn \in Printers
      /\ printer[act[b].prn].lease = act[b].tok /\ printer[act[b].prn].ttl > 0
  BY SentinelAssumption DEF KInv, AllKept, Kept, LeaseOf
<1>2. act[a].leased => printer[act[a].prn].lease = act[a].tok
  BY DEF KInv, AllKept, Kept, LeaseOf
<1>3. act[a].tok # act[b].tok
  BY <1>1 DEF KInv, OwnersDiffer
<1>4. \A p \in Printers : LeaseAvailable(p) => act[b].prn # p
  BY <1>1 DEF LeaseAvailable
<1> QED
  BY <1>1, <1>2, <1>3, <1>4

LEMMA OneActor ==
  ASSUME KInv, TypeInv', NEW a \in Actors, NEW s,
         act' = [act EXCEPT ![a] = s],
         Kept(s, printer', job'),
         \A b \in Actors \ {a} : act[b].leased => LeaseOf(act[b], printer'[act[b].prn]),
         \A b \in Actors \ {a} :
             act[b].pc \in OwnerPcs => ClaimOf(act[b], job'[act[b].job]),
         s.tok \in {act[a].tok, NoToken} \/ Fresh(s.tok),
         s.pc \in OwnerPcs => \A b \in Actors \ {a} :
             ~(act[b].pc \in OwnerPcs /\ act[b].job = s.job),
         CleanJobs'
  PROVE  KInv'
<1>0. act \in [Actors -> ActorStates]
  BY DEF KInv, TypeInv, TypeOK
<1>1. act'[a] = s /\ \A b \in Actors \ {a} : act'[b] = act[b]
  BY <1>0
<1>2. AllKept'
  <2> SUFFICES ASSUME NEW b \in Actors PROVE Kept(act'[b], printer', job')
    BY DEF AllKept
  <2>1. CASE b = a
    BY <1>1, <2>1
  <2>2. CASE b # a
    <3>1. Kept(act[b], printer, job)
      BY DEF KInv, AllKept
    <3>2. Kept(act[b], printer', job')
      BY <3>1, <2>2 DEF Kept
    <3> QED
      BY <1>1, <2>2, <3>2
  <2> QED
    BY <2>1, <2>2
<1>3. OwnersDiffer'
  <2>1. \A b \in Actors \ {a} : s.tok = act[b].tok => s.tok = NoToken
    BY DEF Fresh, UsedTokens, KInv, OwnersDiffer
  <2> QED
    BY <1>1, <2>1 DEF KInv, OwnersDiffer
<1> QED
  BY <1>2, <1>3 DEF KInv

(* The jobs others work on are not mine, nor any job that is not QUEUED.   *)
LEMMA OthersKeepJobs ==
  ASSUME KInv, NEW a \in Actors, NEW j, NEW w,
         job' = [job EXCEPT ![j] = w],
         \/ act[a].pc \in OwnerPcs /\ j = act[a].job
         \/ job[j].status # "QUEUED"
         \/ job[j] = w
  PROVE  \A b \in Actors \ {a} :
             act[b].pc \in OwnerPcs => ClaimOf(act[b], job'[act[b].job])
<1> SUFFICES ASSUME NEW b \in Actors \ {a}, act[b].pc \in OwnerPcs
             PROVE  ClaimOf(act[b], job'[act[b].job])
  OBVIOUS
<1>1. ClaimOf(act[b], job[act[b].job]) /\ act[b].job \in Jobs
  BY DEF KInv, AllKept, Kept, TypeInv, PointsAt
<1>2. act[b].job = j => job[j] = w
  BY <1>1 DEF KInv, OwnersDiffer, ClaimOf
<1>3. job'[act[b].job] = job[act[b].job]
  BY <1>1, <1>2 DEF KInv, TypeInv, TypeOK
<1> QED
  BY <1>1, <1>3

LEMMA OthersKeepLeases ==
  ASSUME KInv, NEW a \in Actors, NEW p \in Printers, NEW x,
         printer' = [printer EXCEPT ![p] = x],
         (act[a].leased /\ p = act[a].prn) \/ LeaseAvailable(p)
  PROVE  \A b \in Actors \ {a} : act[b].leased => LeaseOf(act[b], printer'[act[b].prn])
<1> SUFFICES ASSUME NEW b \in Actors \ {a}, act[b].leased
             PROVE  LeaseOf(act[b], printer'[act[b].prn])
  OBVIOUS
<1>1. act[b].prn # p
  BY LeasesExclude
<1>2. LeaseOf(act[b], printer[act[b].prn]) /\ act[b].prn \in Printers
  BY DEF KInv, AllKept, Kept
<1>3. printer'[act[b].prn] = printer[act[b].prn]
  BY <1>1, <1>2 DEF KInv, TypeInv, TypeOK
<1> QED
  BY <1>2, <1>3

LEMMA OthersIdle ==
  ASSUME KInv
  PROVE  /\ UNCHANGED printer =>
              \A b \in Actors : act[b].leased => LeaseOf(act[b], printer'[act[b].prn])
         /\ UNCHANGED job =>
              \A b \in Actors : act[b].pc \in OwnerPcs => ClaimOf(act[b], job'[act[b].job])
         /\ UNCHANGED job => CleanJobs'
  BY DEF KInv, AllKept, Kept, CleanJobs

(* The end of a handler gives up the job; the lease waits for release.     *)
LEMMA FinishKeeps ==
  ASSUME KInv, TypeInv', NEW a \in Actors, Finish(a), UNCHANGED printer,
         \A b \in Actors \ {a} :
             act[b].pc \in OwnerPcs => ClaimOf(act[b], job'[act[b].job]),
         CleanJobs'
  PROVE  KInv'
<1> DEFINE r == [act[a] EXCEPT !.pc = "release", !.job = NoJob, !.out = "none"]
<1>0. act[a] \in ActorStates /\ Kept(act[a], printer, job)
  BY DEF KInv, AllKept, TypeInv, TypeOK
<1>1. CASE act[a].leased
  <2>1. r.pc = "release" /\ r.leased = act[a].leased /\ r.tok = act[a].tok /\ r.prn = act[a].prn
    BY <1>0 DEF ActorStates
  <2>2. r.pc \notin OwnerPcs
    BY <2>1 DEF OwnerPcs, LivePcs, RetryPcs, OwnPcs
  <2>3. act' = [act EXCEPT ![a] = r]
    BY <1>1 DEF Finish
  <2> HIDE DEF r
  <2>4. Kept(r, printer', job')
    BY <1>0, <1>1, <2>1, <2>2 DEF Kept, LeaseOf
  <2> QED
    BY <2>1, <2>2, <2>3, <2>4, OthersIdle, OneActor
<1>2. CASE ~act[a].leased
  <2>1. act' = [act EXCEPT ![a] = Idle]
    BY <1>2 DEF Finish
  <2>2. Idle.tok = NoToken /\ Kept(Idle, printer', job') /\ Idle.pc \notin OwnerPcs
    BY DEF Idle, Kept, LeasedPcs, SendPcs, OwnerPcs, LivePcs, RetryPcs, OwnPcs
  <2> QED
    BY <2>1, <2>2, OthersIdle, OneActor
<1> QED
  BY <1>1, <1>2

(* A step to another stage of the same kind of work claims nothing new.    *)
SameWork(pc, to) ==
    /\ to \in LivePcs  => pc \in LivePcs
    /\ to \in RetryPcs => pc \in RetryPcs
    /\ to \in OwnPcs   => pc \in OwnPcs

LEMMA StageKeeps ==
  ASSUME KInv, TypeInv', NEW a \in Actors, NEW s,
         act' = [act EXCEPT ![a] = s],
         s.tok = act[a].tok, s.leased = act[a].leased, s.prn = act[a].prn,
         s.job = act[a].job, SameWork(act[a].pc, s.pc),
         s.pc \in LeasedPcs => act[a].leased,
         UNCHANGED <<printer, job>>
  PROVE  KInv'
<1>1. Kept(act[a], printer, job)
  BY DEF KInv, AllKept
<1>2. s.pc \in OwnerPcs => act[a].pc \in OwnerPcs
  BY DEF SameWork, OwnerPcs
<1>3. s.pc \in OwnerPcs => ClaimOf(s, job[s.job])
  BY <1>1, <1>2 DEF Kept, ClaimOf, SameWork
<1>4. Kept(s, printer', job')
  BY <1>1, <1>2, <1>3 DEF Kept, LeaseOf
<1>5. s.pc \in OwnerPcs => \A b \in Actors \ {a} :
             ~(act[b].pc \in OwnerPcs /\ act[b].job = s.job)
  BY <1>2 DEF KInv, OwnersDiffer
<1> QED
  BY <1>4, <1>5, OthersIdle, OneActor

LEMMA GotoKeeps ==
  ASSUME KInv, TypeInv', NEW a \in Actors, NEW pc, Goto(a, pc),
         SameWork(act[a].pc, pc), pc \in LeasedPcs => act[a].leased,
         UNCHANGED <<printer, job>>
  PROVE  KInv'
<1> DEFINE s == [act[a] EXCEPT !.pc = pc]
<1>1. /\ s.tok = act[a].tok /\ s.leased = act[a].leased /\ s.prn = act[a].prn
      /\ s.job = act[a].job /\ s.pc = pc
  BY DEF KInv, TypeInv, TypeOK, ActorStates
<1>2. act' = [act EXCEPT ![a] = s]
  BY DEF Goto
<1> HIDE DEF s
<1> QED
  BY <1>1, <1>2, StageKeeps


(* What the writes leave in the fields that claims are made of.            *)
LEMMA WriteFields ==
  ASSUME NEW r \in JobDocs
  PROVE  /\ Held(r).status = "HELD" /\ Held(r).held
         /\ Held(r).claim = r.claim /\ Held(r).retry = r.retry
         /\ NoLiveClaim(Failed(r)).status = "FAILED" /\ NoLiveClaim(Failed(r)).held = r.held
         /\ NoLiveClaim(Failed(r)).claim = r.claim /\ NoLiveClaim(Failed(r)).retry = r.retry
         /\ NoLiveClaim(Sent(r)).status = "SENT" /\ NoRetryClaim(Sent(r)).status = "SENT"
         /\ NoRetryClaim(Failed(r)).status = "FAILED" /\ NoRetryClaim(Failed(r)).held = r.held
         /\ NoRetryClaim(Failed(r)).claim = r.claim
         /\ NoRetryClaim(Failed(r)).retry = NoToken
         /\ NoQueueClaim(r).claim = NoToken /\ NoQueueClaim(r).retry = NoToken
         /\ NoQueueClaim(r).held = r.held
         /\ Requeued(r).status = "HELD" /\ Requeued(r).held = r.held
         /\ Requeued(r).claim = NoToken /\ Requeued(r).retry = NoToken
         /\ DrainSent(r).status = "SENT"
         /\ DrainFailed(r).status = "FAILED" /\ ~DrainFailed(r).held
         /\ DrainFailed(r).claim = NoToken /\ DrainFailed(r).retry = NoToken
<1>1. \A b \in BOOLEAN : LET h == [r EXCEPT !.status = "HELD", !.held = b, !.live = 0]
                         IN  /\ h.status = "HELD" /\ h.held = b
                             /\ h.claim = r.claim /\ h.retry = r.retry
  BY DEF JobDocs
<1>2. Held(r).status = "HELD" /\ Held(r).held = TRUE
      /\ Held(r).claim = r.claim /\ Held(r).retry = r.retry
  BY <1>1, Zenon DEF Held
<1>3. /\ NoQueueClaim(r) \in JobDocs
      /\ NoQueueClaim(r).claim = NoToken /\ NoQueueClaim(r).retry = NoToken
      /\ NoQueueClaim(r).held = r.held
  BY JobWrites DEF NoQueueClaim, JobDocs
<1>4. \A q \in JobDocs, b \in BOOLEAN :
         /\ [q EXCEPT !.status = "SENT", !.held = b].status = "SENT"
         /\ LET f == [q EXCEPT !.status = "FAILED", !.held = b]
            IN  f.status = "FAILED" /\ f.held = b /\ f.claim = q.claim /\ f.retry = q.retry
  BY DEF JobDocs
<1>5. /\ DrainSent(r).status = "SENT"
      /\ DrainFailed(r).status = "FAILED" /\ DrainFailed(r).held = FALSE
      /\ DrainFailed(r).claim = NoToken /\ DrainFailed(r).retry = NoToken
  BY <1>3, <1>4, Zenon DEF DrainSent, DrainFailed
<1>6. /\ Requeued(r).status = "HELD" /\ Requeued(r).held = r.held
      /\ Requeued(r).claim = NoToken /\ Requeued(r).retry = NoToken
  BY <1>3 DEF Requeued, JobDocs
<1>7. /\ NoLiveClaim(Failed(r)).status = "FAILED" /\ NoLiveClaim(Failed(r)).held = r.held
      /\ NoLiveClaim(Failed(r)).claim = r.claim /\ NoLiveClaim(Failed(r)).retry = r.retry
      /\ NoLiveClaim(Sent(r)).status = "SENT" /\ NoRetryClaim(Sent(r)).status = "SENT"
      /\ NoRetryClaim(Failed(r)).status = "FAILED" /\ NoRetryClaim(Failed(r)).held = r.held
      /\ NoRetryClaim(Failed(r)).claim = r.claim
      /\ NoRetryClaim(Failed(r)).retry = NoToken
  BY DEF NoLiveClaim, NoRetryClaim, Sent, Failed, JobDocs
<1> QED
  BY <1>2, <1>3, <1>5, <1>6, <1>7

LEMMA CleanWrites ==
  ASSUME NEW r \in JobDocs
  PROVE  /\ CleanJob(NoLiveClaim(Sent(r))) /\ CleanJob(NoRetryClaim(Sent(r)))
         /\ CleanJob(DrainSent(r)) /\ CleanJob(DrainFailed(r))
         /\ r.held => CleanJob(Requeued(r))
         /\ CleanJob(NoQueueClaim(Held(r)))
         /\ ~r.held /\ r.claim = NoToken => /\ CleanJob(NoRetryClaim(Failed(r)))
                                            /\ r.retry = NoToken =>
                                                  CleanJob(NoLiveClaim(Failed(r)))
         /\ r.claim = NoToken /\ r.retry = NoToken => CleanJob(Held(r))
         /\ CleanJob(r) => CleanJob(RecoveredLive(r)) /\ CleanJob(Older(r))
<1>1. CleanJob(NoQueueClaim(Held(r)))
  <2>1. Held(r) \in JobDocs
    BY JobWrites
  <2>2. LET h == NoQueueClaim(Held(r))
        IN  h.status = "HELD" /\ h.held = Held(r).held /\ h.claim = NoToken /\ h.retry = NoToken
    BY <2>1, WriteFields DEF NoQueueClaim, JobDocs
  <2>3. Held(r).held
    BY WriteFields
  <2> QED
    BY <2>2, <2>3 DEF CleanJob
<1>2. CleanJob(r) => CleanJob(RecoveredLive(r))
  BY DEF RecoveredLive, StaleLive, CleanJob, JobDocs
<1>3. CleanJob(r) => CleanJob(Older(r))
  BY DEF Older, CleanJob, JobDocs
<1>4. CleanJob(NoLiveClaim(Sent(r))) /\ CleanJob(NoRetryClaim(Sent(r)))
  BY WriteFields DEF CleanJob
<1>5. CleanJob(DrainSent(r)) /\ CleanJob(DrainFailed(r)) /\ (r.held => CleanJob(Requeued(r)))
  BY WriteFields DEF CleanJob
<1>6. ~r.held /\ r.claim = NoToken
         => /\ CleanJob(NoRetryClaim(Failed(r)))
            /\ r.retry = NoToken => CleanJob(NoLiveClaim(Failed(r)))
  BY WriteFields DEF CleanJob
<1>7. r.claim = NoToken /\ r.retry = NoToken => CleanJob(Held(r))
  BY WriteFields DEF CleanJob
<1> QED
  BY <1>1, <1>2, <1>3, <1>4, <1>5, <1>6, <1>7

LEMMA CleanSet ==
  ASSUME KInv, NEW j, NEW w, job' = [job EXCEPT ![j] = w], CleanJob(w)
  PROVE  CleanJobs'
  BY DEF KInv, CleanJobs, TypeInv, TypeOK

(* A handler that ends with a write on the job it owns.                    *)
LEMMA WriteAndFinish ==
  ASSUME KInv, TypeInv', NEW a \in Actors, NEW w, act[a].pc \in OwnerPcs,
         job' = [job EXCEPT ![act[a].job] = w], CleanJob(w),
         Finish(a), UNCHANGED printer
  PROVE  KInv'
  BY OthersKeepJobs, CleanSet, FinishKeeps

(* What an actor knows of its printer and of the job it owns.              *)
LEMMA Owned ==
  ASSUME KInv, NEW a \in Actors
  PROVE  /\ act[a] \in ActorStates
         /\ act[a].pc \in OwnerPcs =>
              /\ act[a].job \in Jobs /\ act[a].prn \in Printers
              /\ act[a].tok \in Tokens /\ act[a].tok # NoToken
              /\ job[act[a].job] \in JobDocs /\ CleanJob(job[act[a].job])
              /\ ClaimOf(act[a], job[act[a].job])
         /\ act[a].leased =>
              /\ act[a].prn \in Printers /\ printer[act[a].prn] \in PrinterDocs
              /\ act[a].tok \in Tokens /\ act[a].tok # NoToken
              /\ LeaseOf(act[a], printer[act[a].prn])
         /\ act[a].pc \in LeasedPcs => act[a].leased
  BY RouteAssumption, SentinelAssumption
  DEF KInv, TypeInv, TypeOK, PointsAt, AllKept, Kept, CleanJobs

(* Claiming the lease of one's printer while owning a job on it.           *)
LEMMA ClaimKeeps ==
  ASSUME KInv, TypeInv', NEW a \in Actors, NEW pc, NEW n \in Ticks,
         act[a].pc \in LivePcs \/ act[a].pc \in RetryPcs, SameWork(act[a].pc, pc),
         Claimable(act[a].prn), n > 0,
         printer' = Claimed(act[a].prn, act[a].tok, n),
         act' = [act EXCEPT ![a].pc = pc, ![a].leased = TRUE],
         UNCHANGED job
  PROVE  KInv'
<1>1. act[a].pc \in OwnerPcs /\ act[a] \in ActorStates
  BY Owned DEF OwnerPcs
<1>2. act[a].tok \in Tokens /\ act[a].prn \in Printers /\ printer[act[a].prn] \in PrinterDocs
  BY <1>1, Owned DEF KInv, TypeInv, TypeOK
<1>3. \E s : /\ act' = [act EXCEPT ![a] = s] /\ s.pc = pc /\ s.leased = TRUE
             /\ s.tok = act[a].tok /\ s.job = act[a].job /\ s.prn = act[a].prn
  <2> DEFINE z(b) == [act[a] EXCEPT !.pc = pc, !.leased = b]
  <2>1. \A b \in BOOLEAN :
           /\ z(b).pc = pc /\ z(b).leased = b
           /\ z(b).tok = act[a].tok /\ z(b).job = act[a].job /\ z(b).prn = act[a].prn
    BY <1>1 DEF ActorStates
  <2>2. act' = [act EXCEPT ![a] = z(TRUE)]
    OBVIOUS
  <2> HIDE DEF z
  <2> QED
    BY <2>1, <2>2, Zenon
<1>4. PICK s : /\ act' = [act EXCEPT ![a] = s] /\ s.pc = pc /\ s.leased = TRUE
               /\ s.tok = act[a].tok /\ s.job = act[a].job /\ s.prn = act[a].prn
  BY <1>3
<1>5. LeaseOf(s, printer'[s.prn])
  BY <1>2, <1>4 DEF Claimed, LeaseOf, KInv, TypeInv, TypeOK, PrinterDocs
<1>6. s.pc \in OwnerPcs => ClaimOf(s, job[s.job])
  BY <1>1, <1>4, Owned DEF ClaimOf, SameWork
<1>7. Kept(s, printer', job')
  BY <1>2, <1>4, <1>5, <1>6 DEF Kept
<1>8. s.pc \in OwnerPcs => \A b \in Actors \ {a} :
             ~(act[b].pc \in OwnerPcs /\ act[b].job = s.job)
  BY <1>1, <1>4 DEF KInv, OwnersDiffer
<1>9. \A b \in Actors \ {a} : act[b].leased => LeaseOf(act[b], printer'[act[b].prn])
  <2> DEFINE x == [[printer[act[a].prn] EXCEPT !.lease = act[a].tok] EXCEPT !.ttl = n]
  <2>1. printer' = [printer EXCEPT ![act[a].prn] = x]
    BY <1>2 DEF Claimed
  <2> HIDE DEF x
  <2> QED
    BY <2>1, <1>2, OthersKeepLeases DEF Claimable
<1> QED
  BY <1>4, <1>7, <1>8, <1>9, OthersIdle, OneActor

LEMMA KeptLiveStep ==
  ASSUME KInv, TypeInv', NEW c \in Clerks, LiveStep(c)
  PROVE  KInv'
<1> DEFINE r == job[act[c].job]
<1>0. c \in Actors
  BY DEF Actors
<1>1. ASSUME act[c].pc \in LivePcs
      PROVE  /\ act[c].pc \in OwnerPcs /\ r \in JobDocs /\ act[c].prn \in Printers
             /\ r.status = "QUEUED" /\ ~r.held /\ r.claim = NoToken /\ r.retry = NoToken
             /\ r.live \in Ticks /\ r.live > 0
  BY <1>0, <1>1, Owned DEF OwnerPcs, ClaimOf, JobDocs
<1>2. ASSUME act[c].pc \in LivePcs
      PROVE  CleanJob(NoLiveClaim(Failed(r))) /\ CleanJob(Held(r)) /\ CleanJob(NoLiveClaim(Sent(r)))
             /\ CleanJob(r)
  BY <1>0, <1>1, <1>2, CleanWrites, Owned
<1> HIDE DEF r
<1>3. CASE LiveClaim(c)
  <2>1. act[c].pc \in LivePcs
    BY <1>3 DEF LiveClaim, LivePcs
  <2>2. CASE Claimable(act[c].prn)
    <3>1. /\ printer' = Claimed(act[c].prn, act[c].tok, r.live)
          /\ act' = [act EXCEPT ![c].pc = "claimed", ![c].leased = TRUE]
          /\ UNCHANGED job
      BY <1>3, <2>2, Zenon DEF LiveClaim, r
    <3>2. SameWork(act[c].pc, "claimed")
      BY <2>1 DEF SameWork, LivePcs, RetryPcs, OwnPcs
    <3> QED
      BY <1>0, <1>1, <2>1, <2>2, <3>1, <3>2, ClaimKeeps
  <2>3. CASE ~Claimable(act[c].prn)
    BY <1>0, <1>3, <2>1, <2>3, GotoKeeps
    DEF LiveClaim, SameWork, LivePcs, RetryPcs, OwnPcs, LeasedPcs, SendPcs
  <2> QED
    BY <2>2, <2>3
<1>4. CASE LiveExists(c)
  <2>1. act[c].pc \in LivePcs
    BY <1>4 DEF LiveExists, LivePcs
  <2>2. CASE Goto(c, "holdBusy") /\ UNCHANGED job
    BY <1>0, <1>4, <2>1, <2>2, GotoKeeps
    DEF LiveExists, SameWork, LivePcs, RetryPcs, OwnPcs, LeasedPcs, SendPcs
  <2>3. CASE job' = [job EXCEPT ![act[c].job] = NoLiveClaim(Failed(r))] /\ Finish(c)
    BY <1>0, <1>1, <1>2, <1>4, <2>1, <2>3, WriteAndFinish DEF LiveExists
  <2> QED
    BY <1>4, <2>2, <2>3 DEF LiveExists, r
<1>5. CASE LiveBacklog(c)
  <2>1. act[c].pc \in LivePcs /\ act[c].pc \in LeasedPcs
    BY <1>5 DEF LiveBacklog, LivePcs, LeasedPcs
  <2>2. PICK pc \in {"holdBacklog", "checked"} : Goto(c, pc)
    BY <1>5 DEF LiveBacklog
  <2> QED
    BY <1>0, <1>5, <2>1, <2>2, Owned, GotoKeeps
    DEF LiveBacklog, SameWork, LivePcs, RetryPcs, OwnPcs
<1>6. CASE LiveHold(c)
  <2>1. act[c].pc \in LivePcs
    BY <1>6 DEF LiveHold, LivePcs
  <2>2. PICK w \in {Held(r), r} : job' = [job EXCEPT ![act[c].job] = w]
    BY <1>6 DEF LiveHold, r
  <2> QED
    BY <1>0, <1>1, <1>2, <1>6, <2>1, <2>2, WriteAndFinish DEF LiveHold
<1>7. CASE LiveReject(c)
  <2>1. act[c].pc \in LivePcs
    BY <1>7 DEF LiveReject, LivePcs
  <2> QED
    BY <1>0, <1>1, <1>2, <1>7, <2>1, WriteAndFinish DEF LiveReject, r
<1>8. CASE LiveRefreshJob(c)
  <2>1. act[c].pc \in LivePcs /\ act[c].pc \in LeasedPcs
    BY <1>8 DEF LiveRefreshJob, LivePcs, LeasedPcs
  <2>2. r.status = "QUEUED" /\ ~r.held
    BY <1>1, <2>1
  <2>3. /\ job' = [job EXCEPT ![act[c].job].live = Lease]
        /\ Goto(c, "refreshed") /\ UNCHANGED printer
    BY <1>8, <2>2 DEF LiveRefreshJob, r
  <2> DEFINE w == [r EXCEPT !.live = Lease]
  <2>4. /\ w \in JobDocs /\ w.status = r.status /\ w.held = r.held /\ w.claim = r.claim
        /\ w.retry = r.retry /\ w.live = Lease
    BY <1>1, <2>1, ZeroTick DEF JobDocs
  <2>5. job' = [job EXCEPT ![act[c].job] = w]
    BY <2>3 DEF r
  <2> HIDE DEF w
  <2> DEFINE s == [act[c] EXCEPT !.pc = "refreshed"]
  <2>6. /\ s.pc = "refreshed" /\ s.leased = act[c].leased /\ s.tok = act[c].tok
        /\ s.job = act[c].job /\ s.prn = act[c].prn
    BY <1>0, Owned DEF ActorStates
  <2>7. act' = [act EXCEPT ![c] = s]
    BY <2>3 DEF Goto
  <2> HIDE DEF s
  <2>8. CleanJob(w)
    BY <1>1, <2>1, <2>4 DEF CleanJob
  <2>9. act[c].leased /\ act[c].tok \in Tokens /\ act[c].job \in Jobs /\ act[c].prn \in Printers
        /\ LeaseOf(act[c], printer[act[c].prn])
    BY <1>0, <1>1, <2>1, Owned
  <2>10. job'[s.job] = w
    BY <2>5, <2>6, <2>9 DEF KInv, TypeInv, TypeOK
  <2>11. ClaimOf(s, w)
    BY <1>1, <2>1, <2>4, <2>6, LeaseAssumption DEF ClaimOf, RetryPcs, OwnPcs
  <2>12. Kept(s, printer', job')
    BY <2>3, <2>6, <2>9, <2>10, <2>11 DEF Kept, LeaseOf
  <2>13. \A b \in Actors \ {c} : ~(act[b].pc \in OwnerPcs /\ act[b].job = s.job)
    BY <1>0, <1>1, <2>1, <2>6 DEF KInv, OwnersDiffer
  <2>14. \A b \in Actors \ {c} : act[b].pc \in OwnerPcs => ClaimOf(act[b], job'[act[b].job])
    BY <1>0, <1>1, <2>1, <2>5, OthersKeepJobs
  <2> QED
    BY <1>0, <2>3, <2>5, <2>6, <2>7, <2>8, <2>12, <2>13, <2>14, OthersIdle, CleanSet, OneActor
<1>9. CASE LiveRefreshLease(c)
  <2>1. act[c].pc \in LivePcs /\ act[c].pc \in LeasedPcs
    BY <1>9 DEF LiveRefreshLease, LivePcs, LeasedPcs
  <2>2. /\ act[c].leased /\ LeaseOf(act[c], printer[act[c].prn])
        /\ act[c].prn \in Printers /\ printer[act[c].prn] \in PrinterDocs
    BY <1>0, <2>1, Owned
  <2>3. /\ printer' = [printer EXCEPT ![act[c].prn].ttl = r.live]
        /\ Goto(c, "liveSend") /\ UNCHANGED job
    BY <1>9, <2>2 DEF LiveRefreshLease, HoldsLease, LeaseOf, r
  <2> DEFINE x == [printer[act[c].prn] EXCEPT !.ttl = r.live]
  <2>4. x.lease = act[c].tok /\ x.ttl > 0
    BY <1>1, <2>1, <2>2 DEF PrinterDocs, LeaseOf
  <2>5. printer' = [printer EXCEPT ![act[c].prn] = x]
    BY <2>3
  <2> HIDE DEF x
  <2> DEFINE s == [act[c] EXCEPT !.pc = "liveSend"]
  <2>6. /\ s.pc = "liveSend" /\ s.leased = act[c].leased /\ s.tok = act[c].tok
        /\ s.job = act[c].job /\ s.prn = act[c].prn
    BY <1>0, Owned DEF ActorStates
  <2>7. act' = [act EXCEPT ![c] = s]
    BY <2>3 DEF Goto
  <2> HIDE DEF s
  <2>8. ClaimOf(s, job[s.job]) /\ act[c].tok \in Tokens
    BY <1>0, <1>1, <2>1, <2>6, Owned DEF ClaimOf, RetryPcs, OwnPcs, r
  <2>9. LeaseOf(s, printer'[s.prn])
    BY <2>2, <2>4, <2>5, <2>6 DEF LeaseOf, KInv, TypeInv, TypeOK
  <2>10. Kept(s, printer', job')
    BY <2>2, <2>3, <2>6, <2>8, <2>9 DEF Kept
  <2>11. \A b \in Actors \ {c} : ~(act[b].pc \in OwnerPcs /\ act[b].job = s.job)
    BY <1>0, <1>1, <2>1, <2>6 DEF KInv, OwnersDiffer
  <2>12. \A b \in Actors \ {c} : act[b].leased => LeaseOf(act[b], printer'[act[b].prn])
    BY <1>0, <2>2, <2>5, OthersKeepLeases
  <2> QED
    BY <1>0, <2>3, <2>6, <2>7, <2>10, <2>11, <2>12, OthersIdle, OneActor
<1>10. CASE LiveLost(c)
  <2>1. act[c].pc \in LivePcs
    BY <1>10 DEF LiveLost, LivePcs
  <2> QED
    BY <1>0, <1>1, <1>2, <1>10, <2>1, WriteAndFinish DEF LiveLost, r
<1>11. CASE LiveRecord(c)
  <2>1. act[c].pc \in LivePcs
    BY <1>11 DEF LiveRecord, LivePcs
  <2>2. PICK w \in {NoLiveClaim(Sent(r)), r, NoLiveClaim(Failed(r))} :
             job' = [job EXCEPT ![act[c].job] = w]
    BY <1>11 DEF LiveRecord, r
  <2> QED
    BY <1>0, <1>1, <1>2, <1>11, <2>1, <2>2, WriteAndFinish DEF LiveRecord
<1> QED
  BY <1>3, <1>4, <1>5, <1>6, <1>7, <1>8, <1>9, <1>10, <1>11 DEF LiveStep

(* Jobs whose claim is absent or stale are nobody's.                       *)
Unowned(r) == r.status # "QUEUED" \/ StaleLive(r) \/ StaleRetry(r) \/ StaleClaim(r)

LEMMA RewriteKeeps ==
  ASSUME KInv, \A j \in Jobs : job'[j] = job[j] \/ (Unowned(job[j]) /\ CleanJob(job'[j]))
  PROVE  /\ \A b \in Actors : act[b].pc \in OwnerPcs => ClaimOf(act[b], job'[act[b].job])
         /\ CleanJobs'
<1>1. CleanJobs'
  BY DEF KInv, CleanJobs
<1>2. ASSUME NEW b \in Actors, act[b].pc \in OwnerPcs
      PROVE  ClaimOf(act[b], job'[act[b].job])
  <2> DEFINE r == job[act[b].job]
  <2>1. /\ act[b].job \in Jobs /\ ClaimOf(act[b], r) /\ act[b].tok # NoToken
        /\ r \in JobDocs
    BY <1>2, Owned
  <2> HIDE DEF r
  <2>2. act[b].pc \in LivePcs \/ act[b].pc \in RetryPcs \/ act[b].pc \in OwnPcs
    BY <1>2 DEF OwnerPcs
  <2>3. ~Unowned(r)
    BY <2>1, <2>2 DEF Unowned, ClaimOf, StaleLive, StaleRetry, StaleClaim, JobDocs, Ticks
  <2> QED
    BY <2>1, <2>3 DEF r
<1> QED
  BY <1>1, <1>2

(* A step after which the actor neither owns a job nor holds a lease.      *)
LEMMA FreeKeeps ==
  ASSUME KInv, TypeInv', NEW a \in Actors, NEW s,
         act' = [act EXCEPT ![a] = s],
         s.pc \notin OwnerPcs, s.pc \notin LeasedPcs, ~s.leased, s.tok = NoToken,
         \A b \in Actors \ {a} : act[b].leased => LeaseOf(act[b], printer'[act[b].prn]),
         \A j \in Jobs : job'[j] = job[j] \/ (Unowned(job[j]) /\ CleanJob(job'[j]))
  PROVE  KInv'
<1>1. Kept(s, printer', job')
  BY DEF Kept
<1> QED
  BY <1>1, RewriteKeeps, OneActor

LEMMA FreePcs ==
  /\ {"idle", "recoverLive", "adminCheck", "adminApply", "drainClaim"}
        \cap (OwnerPcs \cup LeasedPcs) = {}
  /\ Idle.pc = "idle" /\ ~Idle.leased /\ Idle.tok = NoToken
  BY DEF OwnerPcs, LeasedPcs, LivePcs, RetryPcs, OwnPcs, SendPcs, Idle

LEMMA KeptRetryStep ==
  ASSUME KInv, TypeInv', NEW c \in Clerks, RetryStep(c)
  PROVE  KInv'
<1> DEFINE r == job[act[c].job]
<1>0. c \in Actors
  BY DEF Actors
<1>1. ASSUME act[c].pc \in RetryPcs
      PROVE  /\ act[c].pc \in OwnerPcs /\ r \in JobDocs /\ act[c].prn \in Printers
             /\ CleanJob(r) /\ ~r.held /\ r.claim = NoToken
  BY <1>0, <1>1, Owned DEF OwnerPcs, ClaimOf
<1>2. ASSUME act[c].pc \in RetryPcs
      PROVE  CleanJob(NoRetryClaim(Failed(r))) /\ CleanJob(NoRetryClaim(Sent(r))) /\ CleanJob(r)
  BY <1>1, <1>2, CleanWrites
<1>3. ASSUME RetryAborted(c)
      PROVE  \E w \in {NoRetryClaim(Failed(r)), r} : job' = [job EXCEPT ![act[c].job] = w]
  BY <1>3 DEF RetryAborted
<1> HIDE DEF r
<1>4. CASE RetryClaim(c)
  <2>1. act[c].pc \in RetryPcs
    BY <1>4 DEF RetryClaim, RetryPcs
  <2>2. CASE Claimable(act[c].prn)
    <3>1. /\ printer' = Claimed(act[c].prn, act[c].tok, Lease)
          /\ act' = [act EXCEPT ![c].pc = "retryClaimed", ![c].leased = TRUE]
          /\ UNCHANGED job
      BY <1>4, <2>2, Zenon DEF RetryClaim
    <3>2. SameWork(act[c].pc, "retryClaimed")
      BY <2>1 DEF SameWork, LivePcs, RetryPcs, OwnPcs
    <3>3. Lease \in Ticks /\ Lease > 0
      BY ZeroTick, LeaseAssumption
    <3> QED
      BY <1>0, <1>1, <2>1, <2>2, <3>1, <3>2, <3>3, ClaimKeeps
  <2>3. CASE ~Claimable(act[c].prn)
    BY <1>0, <1>4, <2>1, <2>3, GotoKeeps
    DEF RetryClaim, SameWork, LivePcs, RetryPcs, OwnPcs, LeasedPcs, SendPcs
  <2> QED
    BY <2>2, <2>3
<1>5. CASE RetryBacklog(c)
  <2>1. act[c].pc \in RetryPcs /\ act[c].pc \in LeasedPcs
    BY <1>5 DEF RetryBacklog, RetryPcs, LeasedPcs
  <2>2. PICK pc \in {"retryAbort", "retrySend"} : Goto(c, pc)
    BY <1>5 DEF RetryBacklog
  <2> QED
    BY <1>0, <1>5, <2>1, <2>2, Owned, GotoKeeps
    DEF RetryBacklog, SameWork, LivePcs, RetryPcs, OwnPcs
<1>6. CASE RetryAbort(c)
  <2>1. act[c].pc \in RetryPcs
    BY <1>6 DEF RetryAbort, RetryPcs
  <2>2. PICK w \in {NoRetryClaim(Failed(r)), r} : job' = [job EXCEPT ![act[c].job] = w]
    BY <1>3, <1>6 DEF RetryAbort
  <2> QED
    BY <1>0, <1>1, <1>2, <1>6, <2>1, <2>2, WriteAndFinish DEF RetryAbort
<1>7. CASE RetryRecord(c)
  <2>1. act[c].pc \in RetryPcs
    BY <1>7 DEF RetryRecord, RetryPcs
  <2>2. PICK w \in {NoRetryClaim(Failed(r)), r, NoRetryClaim(Sent(r))} :
             job' = [job EXCEPT ![act[c].job] = w]
    BY <1>3, <1>7 DEF RetryRecord, r
  <2> QED
    BY <1>0, <1>1, <1>2, <1>7, <2>1, <2>2, WriteAndFinish DEF RetryRecord
<1> QED
  BY <1>4, <1>5, <1>6, <1>7 DEF RetryStep

LEMMA KeptClerkStep ==
  ASSUME KInv, TypeInv', NEW c \in Clerks, ClerkStep(c)
  PROVE  KInv'
<1>0. c \in Actors /\ act[c] \in ActorStates /\ job \in [Jobs -> JobDocs]
  BY Owned DEF Actors, KInv, TypeInv, TypeOK
<1>1. CASE RecoverLive(c)
  <2>1. \A j \in Jobs : job'[j] = job[j] \/ (Unowned(job[j]) /\ CleanJob(job'[j]))
    <3>1. \A j \in Jobs : job'[j] \in {job[j], RecoveredLive(job[j])}
      BY <1>0, <1>1 DEF RecoverLive
    <3>2. \A j \in Jobs : CleanJob(RecoveredLive(job[j]))
      BY <1>0, CleanWrites DEF KInv, CleanJobs
    <3>3. \A j \in Jobs : RecoveredLive(job[j]) = job[j] \/ Unowned(job[j])
      BY DEF RecoveredLive, Unowned
    <3> QED
      BY <3>1, <3>2, <3>3
  <2> QED
    BY <1>0, <1>1, <2>1, FreePcs, FreeKeeps, OthersIdle DEF RecoverLive
<1>2. CASE HoldUpdate(c)
  <2>1. PICK S \in SUBSET {j \in Jobs : PrinterOf[j] = act[c].prn /\ job[j].status = "FAILED"} :
            job' = [j \in Jobs |-> IF j \in S THEN NoQueueClaim(Held(job[j])) ELSE job[j]]
    BY <1>2 DEF HoldUpdate
  <2>2. \A j \in Jobs : job'[j] = job[j] \/ (Unowned(job[j]) /\ CleanJob(job'[j]))
    <3>1. \A j \in Jobs : CleanJob(NoQueueClaim(Held(job[j])))
      BY <1>0, CleanWrites
    <3>2. \A j \in S : Unowned(job[j])
      BY DEF Unowned
    <3> QED
      BY <2>1, <3>1, <3>2
  <2> QED
    BY <1>0, <1>2, <2>2, RewriteKeeps, FinishKeeps DEF HoldUpdate
<1>3. CASE AdminCheck(c)
  <2> DEFINE s == [act[c] EXCEPT !.pc = "adminApply"]
  <2>1. s.pc = "adminApply" /\ s.leased = act[c].leased /\ s.tok = act[c].tok
        /\ s.job = act[c].job /\ s.prn = act[c].prn
    BY <1>0 DEF ActorStates
  <2>2. CASE act' = [act EXCEPT ![c] = s]
    <3> HIDE DEF s
    <3>1. SameWork(act[c].pc, s.pc) /\ s.pc \notin LeasedPcs
      BY <2>1, FreePcs DEF SameWork, OwnerPcs
    <3> QED
      BY <1>0, <1>3, <2>1, <2>2, <3>1, StageKeeps DEF AdminCheck
  <2>3. CASE act' = [act EXCEPT ![c] = Idle]
    <3>1. UNCHANGED <<printer, job>>
      BY <1>3 DEF AdminCheck
    <3> QED
      BY <1>0, <2>3, <3>1, FreePcs, FreeKeeps, OthersIdle
  <2> QED
    BY <1>3, <2>2, <2>3 DEF AdminCheck
<1>4. CASE AdminApply(c)
  <2>1. \A b \in Actors \ {c} : act[b].leased => LeaseOf(act[b], printer'[act[b].prn])
    <3> SUFFICES ASSUME NEW b \in Actors \ {c}, act[b].leased
                 PROVE  LeaseOf(act[b], printer'[act[b].prn])
      OBVIOUS
    <3>1. /\ LeaseOf(act[b], printer[act[b].prn]) /\ act[b].prn \in Printers
          /\ act[b].tok # NoToken
      BY Owned
    <3>2. LeaseAvailable(act[c].prn) => act[b].prn # act[c].prn
      BY <3>1 DEF LeaseAvailable, LeaseOf
    <3>3. printer'[act[b].prn] = printer[act[b].prn]
      BY <1>4, <3>1, <3>2 DEF AdminApply, KInv, TypeInv, TypeOK
    <3> QED
      BY <3>1, <3>3
  <2> QED
    <3>1. UNCHANGED job /\ act' = [act EXCEPT ![c] = Idle]
      BY <1>4 DEF AdminApply
    <3>2. \A j \in Jobs : job'[j] = job[j]
      BY <3>1
    <3> QED
      BY <1>0, <2>1, <3>1, <3>2, FreePcs, FreeKeeps
<1> QED
  BY <1>1, <1>2, <1>3, <1>4, KeptLiveStep, KeptRetryStep DEF ClerkStep

(* A request that begins with the claim of a job nobody owns.              *)
LEMMA BeginKeeps ==
  ASSUME KInv, TypeInv', NEW c \in Actors, NEW j \in Jobs, NEW t \in Tokens, NEW pc, NEW w,
         Fresh(t), act[c].pc \notin OwnerPcs, pc \in OwnerPcs \ LeasedPcs,
         job[j].status # "QUEUED",
         job' = [job EXCEPT ![j] = w], CleanJob(w),
         act' = [act EXCEPT ![c] = [pc |-> pc, tok |-> t, leased |-> FALSE,
                                    job |-> j, prn |-> PrinterOf[j], out |-> "none"]],
         ClaimOf([pc |-> pc, tok |-> t, leased |-> FALSE,
                  job |-> j, prn |-> PrinterOf[j], out |-> "none"], w),
         UNCHANGED printer
  PROVE  KInv'
<1> DEFINE s == [pc |-> pc, tok |-> t, leased |-> FALSE,
                 job |-> j, prn |-> PrinterOf[j], out |-> "none"]
<1>1. s.pc = pc /\ s.tok = t /\ ~s.leased /\ s.job = j
  OBVIOUS
<1>2. act' = [act EXCEPT ![c] = s] /\ ClaimOf(s, w)
  OBVIOUS
<1> HIDE DEF s
<1>3. job'[j] = w
  BY DEF KInv, TypeInv, TypeOK
<1>4. Kept(s, printer', job')
  BY <1>1, <1>2, <1>3 DEF Kept
<1>5. \A b \in Actors \ {c} : ~(act[b].pc \in OwnerPcs /\ act[b].job = s.job)
  BY <1>1, Owned DEF ClaimOf
<1>6. \A b \in Actors \ {c} : act[b].pc \in OwnerPcs => ClaimOf(act[b], job'[act[b].job])
  BY OthersKeepJobs
<1> QED
  BY <1>1, <1>2, <1>4, <1>5, <1>6, CleanSet, OthersIdle, OneActor

LEMMA KeptClerkBegin ==
  ASSUME KInv, TypeInv', NEW c \in Clerks, ClerkBegin(c)
  PROVE  KInv'
<1>0. c \in Actors /\ act[c] \in ActorStates /\ job \in [Jobs -> JobDocs]
      /\ \A j \in Jobs : CleanJob(job[j])
  BY Owned DEF Actors, KInv, TypeInv, TypeOK, CleanJobs
<1>1. ASSUME NEW j \in Jobs, NEW t \in Tokens, LiveCreate(c, j, t)
      PROVE  KInv'
  <2> DEFINE w == [[job[j] EXCEPT !.status = "QUEUED"] EXCEPT !.live = Lease]
  <2>1. /\ w.status = "QUEUED" /\ w.live = Lease /\ w.held = job[j].held
        /\ w.claim = job[j].claim /\ w.retry = job[j].retry
    BY <1>0 DEF JobDocs
  <2>2. job' = [job EXCEPT ![j] = w]
    BY <1>1, <1>0 DEF LiveCreate
  <2> HIDE DEF w
  <2>3. ~w.held /\ w.claim = NoToken /\ w.retry = NoToken /\ w.live > 0
    BY <1>0, <1>1, <2>1, LeaseAssumption DEF LiveCreate, CleanJob
  <2>4. CleanJob(w)
    BY <2>1, <2>3 DEF CleanJob
  <2>5. ClaimOf([pc |-> "created", tok |-> t, leased |-> FALSE,
                 job |-> j, prn |-> PrinterOf[j], out |-> "none"], w)
    BY <2>1, <2>3 DEF ClaimOf, LivePcs, RetryPcs, OwnPcs
  <2>6. "created" \in OwnerPcs \ LeasedPcs /\ act[c].pc \notin OwnerPcs
        /\ job[j].status # "QUEUED"
    BY <1>1, FreePcs DEF LiveCreate, OwnerPcs, LeasedPcs, LivePcs, SendPcs
  <2> QED
    BY <1>0, <1>1, <2>2, <2>4, <2>5, <2>6, BeginKeeps DEF LiveCreate
<1>2. ASSUME NEW j \in Jobs, NEW t \in Tokens, RetryBegin(c, j, t)
      PROVE  KInv'
  <2> DEFINE w == [[[job[j] EXCEPT !.status = "QUEUED"] EXCEPT !.retry = t] EXCEPT !.retryTtl = Lease]
  <2>1. /\ w.status = "QUEUED" /\ w.retry = t /\ w.retryTtl = Lease /\ w.held = job[j].held
        /\ w.claim = job[j].claim
    BY <1>0 DEF JobDocs
  <2>2. job' = [job EXCEPT ![j] = w]
    BY <1>2, <1>0 DEF RetryBegin
  <2> HIDE DEF w
  <2>3. ~w.held /\ w.claim = NoToken /\ w.retryTtl > 0
    BY <1>0, <1>2, <2>1, LeaseAssumption DEF RetryBegin, CleanJob
  <2>4. CleanJob(w)
    BY <2>1, <2>3 DEF CleanJob
  <2>5. ClaimOf([pc |-> "retrying", tok |-> t, leased |-> FALSE,
                 job |-> j, prn |-> PrinterOf[j], out |-> "none"], w)
    BY <2>1, <2>3 DEF ClaimOf, LivePcs, RetryPcs, OwnPcs
  <2>6. "retrying" \in OwnerPcs \ LeasedPcs /\ act[c].pc \notin OwnerPcs
        /\ job[j].status # "QUEUED"
    BY <1>2, FreePcs DEF RetryBegin, OwnerPcs, LeasedPcs, RetryPcs, SendPcs
  <2> QED
    BY <1>0, <1>2, <2>2, <2>4, <2>5, <2>6, BeginKeeps DEF RetryBegin
<1>3. ASSUME NEW j \in Jobs, RecoverRetry(c, j)
      PROVE  KInv'
  <2>1. StaleRetry(job[j]) => CleanJob(NoRetryClaim(Failed(job[j])))
    <3>1. StaleRetry(job[j]) => ~job[j].held /\ job[j].claim = NoToken
      BY <1>0 DEF StaleRetry, CleanJob
    <3> QED
      BY <1>0, <3>1, CleanWrites
  <2>2. \A k \in Jobs : job'[k] = job[k] \/ (Unowned(job[k]) /\ CleanJob(job'[k]))
    BY <1>0, <1>3, <2>1 DEF RecoverRetry, Unowned
  <2> DEFINE s == [Idle EXCEPT !.pc = "recoverLive", !.job = j]
  <2>3. s.pc = "recoverLive" /\ ~s.leased /\ s.tok = NoToken
    BY DEF Idle
  <2>4. act' = [act EXCEPT ![c] = s] /\ UNCHANGED printer
    BY <1>3 DEF RecoverRetry
  <2> HIDE DEF s
  <2> QED
    BY <1>0, <2>2, <2>3, <2>4, FreePcs, FreeKeeps, OthersIdle
<1>4. ASSUME NEW p \in Printers, NEW t \in Tokens, HoldBegin(c, p, t)
      PROVE  KInv'
  <2>1. \E s : /\ act' = [act EXCEPT ![c] = s] /\ s.pc = "holding" /\ s.leased = TRUE
               /\ s.tok = t /\ s.prn = p
    <3> DEFINE z(b) == [Idle EXCEPT !.pc = "holding", !.tok = t, !.leased = b, !.prn = p]
    <3>1. \A b \in BOOLEAN : z(b).pc = "holding" /\ z(b).leased = b /\ z(b).tok = t /\ z(b).prn = p
      BY DEF Idle
    <3>2. act' = [act EXCEPT ![c] = z(TRUE)]
      BY <1>4, Zenon DEF HoldBegin
    <3> HIDE DEF z
    <3> QED
      BY <3>1, <3>2, Zenon
  <2>2. PICK s : /\ act' = [act EXCEPT ![c] = s] /\ s.pc = "holding" /\ s.leased = TRUE
                 /\ s.tok = t /\ s.prn = p
    BY <2>1
  <2> DEFINE x == [[printer[p] EXCEPT !.lease = t] EXCEPT !.ttl = Lease]
  <2>3. printer' = [printer EXCEPT ![p] = x] /\ LeaseAvailable(p) /\ UNCHANGED job
    BY <1>4 DEF HoldBegin, Claimed, Claimable
  <2>4. x.lease = t /\ x.ttl > 0
    BY LeaseAssumption DEF KInv, TypeInv, TypeOK, PrinterDocs
  <2> HIDE DEF x
  <2>5. LeaseOf(s, printer'[s.prn])
    BY <2>2, <2>3, <2>4 DEF LeaseOf, KInv, TypeInv, TypeOK
  <2>6. s.pc \notin OwnerPcs
    BY <2>2 DEF OwnerPcs, LivePcs, RetryPcs, OwnPcs
  <2>7. Kept(s, printer', job')
    BY <2>2, <2>5, <2>6 DEF Kept
  <2>8. \A b \in Actors \ {c} : act[b].leased => LeaseOf(act[b], printer'[act[b].prn])
    BY <1>0, <2>3, OthersKeepLeases
  <2>9. Fresh(s.tok)
    BY <1>4, <2>2 DEF HoldBegin
  <2> QED
    BY <1>0, <2>2, <2>3, <2>6, <2>7, <2>8, <2>9, OthersIdle, OneActor
<1>5. ASSUME NEW p \in Printers, AdminBegin(c, p)
      PROVE  KInv'
  <2>1. \A k \in Jobs : job'[k] = job[k] \/ (Unowned(job[k]) /\ CleanJob(job'[k]))
    <3>1. \A k \in Jobs : job'[k] \in {job[k], RecoveredLive(job[k])}
      BY <1>5 DEF AdminBegin
    <3>2. \A k \in Jobs : CleanJob(RecoveredLive(job[k]))
      BY <1>0, CleanWrites
    <3>3. \A k \in Jobs : RecoveredLive(job[k]) = job[k] \/ Unowned(job[k])
      BY DEF RecoveredLive, Unowned
    <3> QED
      BY <3>1, <3>2, <3>3
  <2> DEFINE s == [Idle EXCEPT !.pc = "adminCheck", !.prn = p]
  <2>2. s.pc = "adminCheck" /\ ~s.leased /\ s.tok = NoToken
    BY DEF Idle
  <2>3. act' = [act EXCEPT ![c] = s] /\ UNCHANGED printer
    BY <1>5 DEF AdminBegin
  <2> HIDE DEF s
  <2> QED
    BY <1>0, <2>1, <2>2, <2>3, FreePcs, FreeKeeps, OthersIdle
<1>6. ASSUME NEW p \in Printers, AdminToKitchen(c, p)
      PROVE  KInv'
  <2>1. UNCHANGED <<job, act>>
    BY <1>6 DEF AdminToKitchen
  <2>2. \A q \in Printers : printer'[q].lease = printer[q].lease /\ printer'[q].ttl = printer[q].ttl
    BY <1>6 DEF AdminToKitchen, KInv, TypeInv, TypeOK, PrinterDocs
  <2>3. \A b \in Actors : Kept(act[b], printer, job) => Kept(act'[b], printer', job')
    BY <2>1, <2>2 DEF Kept, LeaseOf
  <2> QED
    BY <2>1, <2>3 DEF KInv, AllKept, CleanJobs, OwnersDiffer
<1> QED
  BY <1>1, <1>2, <1>3, <1>4, <1>5, <1>6 DEF ClerkBegin

LEMMA KeptEnvironment ==
  ASSUME KInv, TypeInv', Timely, Crash \/ Tick
  PROVE  KInv'
<1>1. CASE Crash
  <2>1. \A a \in Actors : act'[a] \in {act[a], Idle}
    BY <1>1 DEF Crash, KInv, TypeInv, TypeOK
  <2>2. UNCHANGED <<printer, job>>
    BY <1>1 DEF Crash
  <2>3. AllKept'
    BY <2>1, <2>2, FreePcs DEF AllKept, Kept, KInv
  <2>4. OwnersDiffer'
    BY <2>1, FreePcs DEF OwnersDiffer, KInv
  <2> QED
    BY <2>2, <2>3, <2>4 DEF KInv, CleanJobs
<1>2. CASE Tick
  <2>1. \A n \in Ticks : n > 1 => Less(n) > 0
    BY LeaseAssumption DEF Ticks, Less
  <2>2. \A j \in Jobs : /\ job'[j] = Older(job[j]) /\ job[j] \in JobDocs
                        /\ job'[j].status = job[j].status /\ job'[j].held = job[j].held
                        /\ job'[j].claim = job[j].claim /\ job'[j].retry = job[j].retry
                        /\ job[j].live > 1 => job'[j].live > 0
                        /\ job[j].retryTtl > 1 => job'[j].retryTtl > 0
                        /\ job[j].claimTtl > 1 => job'[j].claimTtl > 0
    BY <1>2, <2>1, ZenonT(40) DEF Tick, Older, KInv, TypeInv, TypeOK, JobDocs
  <2>3. \A p \in Printers : /\ printer'[p].lease = printer[p].lease
                            /\ printer[p].ttl > 1 => printer'[p].ttl > 0
    BY <1>2, <2>1 DEF Tick, KInv, TypeInv, TypeOK, PrinterDocs
  <2>4. CleanJobs'
    BY <2>2, CleanWrites DEF KInv, CleanJobs
  <2>5. ASSUME NEW a \in Actors
        PROVE  Kept(act[a], printer', job')
    <3>1. Outlives(a, 1) /\ Kept(act[a], printer, job)
      BY <1>2 DEF Tick, KInv, AllKept
    <3>2. act[a].leased => LeaseOf(act[a], printer'[act[a].prn])
      BY <2>3, <3>1 DEF Kept, LeaseOf, Outlives
    <3>3. act[a].pc \in OwnerPcs => ClaimOf(act[a], job'[act[a].job])
      BY <2>2, <3>1, Owned DEF ClaimOf, Outlives
    <3> QED
      BY <3>1, <3>2, <3>3 DEF Kept
  <2>6. UNCHANGED act
    BY <1>2 DEF Tick
  <2> QED
    BY <2>4, <2>5, <2>6 DEF KInv, AllKept, OwnersDiffer
<1> QED
  BY <1>1, <1>2

LEMMA KeptDrainStep ==
  ASSUME KInv, TypeInv', NEW d \in Drains, DrainStep(d)
  PROVE  KInv'
<1> DEFINE r == job[act[d].job]
<1>0. d \in Actors /\ act[d] \in ActorStates /\ job \in [Jobs -> JobDocs]
      /\ \A j \in Jobs : CleanJob(job[j])
  BY Owned DEF Actors, KInv, TypeInv, TypeOK, CleanJobs
<1>1. ASSUME act[d].pc \in OwnPcs
      PROVE  /\ act[d].pc \in OwnerPcs /\ r \in JobDocs /\ act[d].job \in Jobs
             /\ r.held /\ r.claim = act[d].tok /\ r.status = "QUEUED"
  BY <1>0, <1>1, Owned DEF OwnerPcs, ClaimOf
<1>2. ASSUME act[d].pc \in OwnPcs
      PROVE  CleanJob(Requeued(r)) /\ CleanJob(DrainSent(r)) /\ CleanJob(DrainFailed(r))
  BY <1>1, <1>2, CleanWrites
<1> HIDE DEF r
<1>3. ASSUME NEW t \in Tokens, DrainClaim(d, t)
      PROVE  KInv'
  <2>0. act[d].prn \in Printers /\ UNCHANGED job
    BY <1>0, <1>3 DEF DrainClaim, KInv, TypeInv, PointsAt, DrainPcs
  <2>1. CASE Claimable(act[d].prn)
    <3>1. \E s : /\ act' = [act EXCEPT ![d] = s] /\ s.pc = "drainRefresh" /\ s.leased = TRUE
                 /\ s.tok = t /\ s.prn = act[d].prn
      <4> DEFINE z(b) == [act[d] EXCEPT !.pc = "drainRefresh", !.tok = t, !.leased = b]
      <4>1. \A b \in BOOLEAN : /\ z(b).pc = "drainRefresh" /\ z(b).leased = b /\ z(b).tok = t
                               /\ z(b).prn = act[d].prn
        BY <1>0 DEF ActorStates
      <4>2. act' = [act EXCEPT ![d].pc = "drainRefresh", ![d].tok = t, ![d].leased = TRUE]
        BY <1>3, <2>1, Zenon DEF DrainClaim
      <4>3. act' = [act EXCEPT ![d] = z(TRUE)]
        BY <4>2
      <4> HIDE DEF z
      <4> QED
        BY <4>1, <4>3, Zenon
    <3>2. PICK s : /\ act' = [act EXCEPT ![d] = s] /\ s.pc = "drainRefresh" /\ s.leased = TRUE
                   /\ s.tok = t /\ s.prn = act[d].prn
      BY <3>1
    <3> DEFINE x == [[printer[act[d].prn] EXCEPT !.lease = t] EXCEPT !.ttl = Lease]
    <3>3. printer' = Claimed(act[d].prn, t, Lease)
      BY <1>3, <2>1, Zenon DEF DrainClaim
    <3>4. printer' = [printer EXCEPT ![act[d].prn] = x] /\ LeaseAvailable(act[d].prn)
      BY <2>1, <3>3 DEF Claimed, Claimable
    <3>5. x.lease = t /\ x.ttl > 0
      BY <2>0, LeaseAssumption DEF KInv, TypeInv, TypeOK, PrinterDocs
    <3> HIDE DEF x
    <3>6. LeaseOf(s, printer'[s.prn])
      BY <2>0, <3>2, <3>4, <3>5 DEF LeaseOf, KInv, TypeInv, TypeOK
    <3>7. s.pc \notin OwnerPcs
      BY <3>2 DEF OwnerPcs, LivePcs, RetryPcs, OwnPcs
    <3>8. Kept(s, printer', job')
      BY <2>0, <3>2, <3>6, <3>7 DEF Kept
    <3>9. \A b \in Actors \ {d} : act[b].leased => LeaseOf(act[b], printer'[act[b].prn])
      BY <1>0, <2>0, <3>4, OthersKeepLeases
    <3>10. Fresh(s.tok)
      BY <1>3, <3>2 DEF DrainClaim
    <3> QED
      BY <1>0, <2>0, <3>2, <3>7, <3>8, <3>9, <3>10, OthersIdle, OneActor
  <2>2. CASE ~Claimable(act[d].prn)
    <3>1. act' = [act EXCEPT ![d] = Idle] /\ UNCHANGED printer
      BY <1>3, <2>2 DEF DrainClaim
    <3> QED
      BY <1>0, <2>0, <3>1, FreePcs, FreeKeeps, OthersIdle
  <2> QED
    BY <2>1, <2>2
<1>4. CASE DrainRefresh(d)
  <2>1. act[d].pc \in LeasedPcs /\ act[d].pc \notin OwnerPcs
    BY <1>4 DEF DrainRefresh, LeasedPcs, OwnerPcs, LivePcs, RetryPcs, OwnPcs
  <2>2. /\ act[d].leased /\ LeaseOf(act[d], printer[act[d].prn]) /\ act[d].tok \in Tokens
        /\ act[d].prn \in Printers /\ printer[act[d].prn] \in PrinterDocs
    BY <1>0, <2>1, Owned
  <2>3. /\ printer' = [printer EXCEPT ![act[d].prn].ttl = Lease]
        /\ Goto(d, "drainPick") /\ UNCHANGED job
    BY <1>4, <2>2 DEF DrainRefresh, HoldsLease, LeaseOf
  <2> DEFINE x == [printer[act[d].prn] EXCEPT !.ttl = Lease]
  <2>4. x.lease = act[d].tok /\ x.ttl > 0
    BY <2>2, LeaseAssumption DEF PrinterDocs, LeaseOf
  <2>5. printer' = [printer EXCEPT ![act[d].prn] = x]
    BY <2>3
  <2> HIDE DEF x
  <2> DEFINE s == [act[d] EXCEPT !.pc = "drainPick"]
  <2>6. /\ s.pc = "drainPick" /\ s.leased = act[d].leased /\ s.tok = act[d].tok
        /\ s.prn = act[d].prn
    BY <1>0 DEF ActorStates
  <2>7. act' = [act EXCEPT ![d] = s]
    BY <2>3 DEF Goto
  <2> HIDE DEF s
  <2>8. s.pc \notin OwnerPcs
    BY <2>6 DEF OwnerPcs, LivePcs, RetryPcs, OwnPcs
  <2>9. Kept(s, printer', job')
    BY <2>2, <2>4, <2>5, <2>6, <2>8 DEF Kept, LeaseOf, KInv, TypeInv, TypeOK
  <2>10. \A b \in Actors \ {d} : act[b].leased => LeaseOf(act[b], printer'[act[b].prn])
    BY <1>0, <2>2, <2>5, OthersKeepLeases
  <2> QED
    BY <1>0, <2>3, <2>6, <2>7, <2>8, <2>9, <2>10, OthersIdle, OneActor
<1>5. CASE DrainPick(d)
  <2>1. act[d].pc \in LeasedPcs
    BY <1>5 DEF DrainPick, LeasedPcs
  <2>2. /\ act[d].leased /\ LeaseOf(act[d], printer[act[d].prn]) /\ act[d].tok \in Tokens
        /\ act[d].prn \in Printers /\ printer[act[d].prn] \in PrinterDocs
    BY <1>0, <2>1, Owned
  <2>3. CASE HeldOn(act[d].prn) = {} /\ Finish(d) /\ UNCHANGED job
    BY <1>0, <1>5, <2>3, FinishKeeps, OthersIdle DEF DrainPick
  <2>4. ASSUME NEW j \in Oldest(HeldOn(act[d].prn)),
               job' = [job EXCEPT ![j] = [NoRetryClaim(@) EXCEPT
                  !.status = "QUEUED", !.claim = act[d].tok,
                  !.claimTtl = IF HoldsLease(d) THEN printer[act[d].prn].ttl ELSE 0]],
               act' = [act EXCEPT ![d].pc = "drainLoad", ![d].job = j]
        PROVE  KInv'
    <3>1. j \in Jobs /\ job[j] \in JobDocs /\ job[j].status = "HELD" /\ job[j].held
      BY <1>0 DEF Oldest, HeldOn
    <3>2. HoldsLease(d) /\ printer[act[d].prn].ttl \in Ticks /\ printer[act[d].prn].ttl > 0
      BY <2>2 DEF HoldsLease, LeaseOf, PrinterDocs
    <3> DEFINE w == [NoRetryClaim(job[j]) EXCEPT !.status = "QUEUED", !.claim = act[d].tok,
                                                 !.claimTtl = printer[act[d].prn].ttl]
    <3>3. /\ w.status = "QUEUED" /\ w.held = job[j].held /\ w.claim = act[d].tok
          /\ w.claimTtl = printer[act[d].prn].ttl /\ w.retry = NoToken
      BY <3>1 DEF NoRetryClaim, JobDocs
    <3>4. job' = [job EXCEPT ![j] = w]
      BY <2>4, <3>2, <1>0, <3>1
    <3> HIDE DEF w
    <3>5. CleanJob(w)
      BY <2>2, <3>1, <3>3, SentinelAssumption DEF CleanJob
    <3> DEFINE s == [[act[d] EXCEPT !.pc = "drainLoad"] EXCEPT !.job = j]
    <3>6. /\ s.pc = "drainLoad" /\ s.leased = act[d].leased /\ s.tok = act[d].tok
          /\ s.prn = act[d].prn /\ s.job = j
      BY <1>0 DEF ActorStates
    <3>7. act' = [act EXCEPT ![d] = s]
      BY <2>4, <1>0 DEF KInv, TypeInv, TypeOK
    <3> HIDE DEF s
    <3>8. ClaimOf(s, w)
      BY <3>1, <3>2, <3>3, <3>6 DEF ClaimOf, LivePcs, RetryPcs
    <3>9. job'[j] = w /\ UNCHANGED printer
      BY <1>0, <1>5, <3>1, <3>4 DEF DrainPick
    <3>10. Kept(s, printer', job')
      BY <2>2, <3>6, <3>8, <3>9 DEF Kept, LeaseOf
    <3>11. \A b \in Actors \ {d} : ~(act[b].pc \in OwnerPcs /\ act[b].job = s.job)
      BY <3>1, <3>6, Owned DEF ClaimOf
    <3>12. \A b \in Actors \ {d} : act[b].pc \in OwnerPcs => ClaimOf(act[b], job'[act[b].job])
      BY <1>0, <3>1, <3>4, OthersKeepJobs
    <3> QED
      BY <1>0, <3>4, <3>5, <3>6, <3>7, <3>9, <3>10, <3>11, <3>12, CleanSet, OthersIdle, OneActor
  <2> QED
    BY <1>5, <2>3, <2>4 DEF DrainPick
<1>6. CASE DrainLoad(d)
  <2>1. act[d].pc \in OwnPcs /\ act[d].pc \in LeasedPcs /\ UNCHANGED <<printer, job>>
    BY <1>6 DEF DrainLoad, OwnPcs, LeasedPcs
  <2>2. CASE Goto(d, "drainSend")
    BY <1>0, <2>1, <2>2, Owned, GotoKeeps DEF SameWork, LivePcs, RetryPcs
  <2>3. CASE act' = [act EXCEPT ![d].pc = "drainRecord", ![d].out = "unusable"]
    <3> DEFINE s == [[act[d] EXCEPT !.pc = "drainRecord"] EXCEPT !.out = "unusable"]
    <3>1. /\ s.pc = "drainRecord" /\ s.leased = act[d].leased /\ s.tok = act[d].tok
          /\ s.prn = act[d].prn /\ s.job = act[d].job
      BY <1>0 DEF ActorStates
    <3>2. act' = [act EXCEPT ![d] = s]
      BY <2>3, <1>0 DEF KInv, TypeInv, TypeOK
    <3> HIDE DEF s
    <3>3. SameWork(act[d].pc, s.pc) /\ act[d].leased
      BY <1>0, <2>1, <3>1, Owned DEF SameWork, LivePcs, RetryPcs
    <3> QED
      BY <1>0, <2>1, <3>1, <3>2, <3>3, StageKeeps
  <2> QED
    BY <1>6, <2>2, <2>3 DEF DrainLoad
<1>7. CASE DrainRecord(d)
  <2>1. act[d].pc \in OwnPcs /\ act[d].pc \in LeasedPcs /\ UNCHANGED printer
    BY <1>7 DEF DrainRecord, OwnPcs, LeasedPcs
  <2>2. CASE job' = [job EXCEPT ![act[d].job] = Requeued(r)] /\ Finish(d)
    BY <1>0, <1>1, <1>2, <2>1, <2>2, WriteAndFinish
  <2>3. ASSUME NEW w \in {DrainSent(r), DrainFailed(r)},
               job' = [job EXCEPT ![act[d].job] = w],
               act' = [act EXCEPT ![d].pc = "drainRefresh", ![d].job = NoJob, ![d].out = "none"]
        PROVE  KInv'
    <3> DEFINE s == [[[act[d] EXCEPT !.pc = "drainRefresh"] EXCEPT !.job = NoJob] EXCEPT !.out = "none"]
    <3>1. /\ s.pc = "drainRefresh" /\ s.leased = act[d].leased /\ s.tok = act[d].tok
          /\ s.prn = act[d].prn
      BY <1>0 DEF ActorStates
    <3>2. act' = [act EXCEPT ![d] = s]
      BY <2>3, <1>0 DEF KInv, TypeInv, TypeOK
    <3> HIDE DEF s
    <3>3. s.pc \notin OwnerPcs
      BY <3>1 DEF OwnerPcs, LivePcs, RetryPcs, OwnPcs
    <3>4. Kept(s, printer', job')
      BY <1>0, <2>1, <3>1, <3>3, Owned DEF Kept, LeaseOf
    <3>5. \A b \in Actors \ {d} : act[b].pc \in OwnerPcs => ClaimOf(act[b], job'[act[b].job])
      BY <1>0, <1>1, <2>1, <2>3, OthersKeepJobs
    <3> QED
      BY <1>0, <1>2, <2>1, <2>3, <3>1, <3>2, <3>3, <3>4, <3>5, CleanSet, OthersIdle, OneActor
  <2>4. job[act[d].job].status = "QUEUED" /\ job[act[d].job].claim = act[d].tok
    BY <1>1, <2>1 DEF r
  <2> QED
    BY <1>7, <2>2, <2>3, <2>4 DEF DrainRecord, r
<1> QED
  BY <1>3, <1>4, <1>5, <1>6, <1>7 DEF DrainStep

LEMMA KeptSend ==
  ASSUME KInv, TypeInv', NEW a \in Actors,
         SendOk(a) \/ SendFails(a) \/ SendUnanswered(a) \/ Release(a)
  PROVE  KInv'
<1>0. act[a] \in ActorStates
  BY Owned
<1>1. CASE SendOk(a) \/ SendFails(a) \/ SendUnanswered(a)
  <2>1. PICK o \in Outcomes : act' = [act EXCEPT ![a].pc = Recording(@), ![a].out = o]
    BY <1>1, PcNames DEF SendOk, SendFails, SendUnanswered, Ends
  <2>2. act[a].pc \in SendPcs /\ UNCHANGED <<printer, job>>
    BY <1>1 DEF SendOk, SendFails, SendUnanswered
  <2> DEFINE s == [act[a] EXCEPT !.pc = Recording(@), !.out = o]
  <2>3. /\ s.pc = Recording(act[a].pc) /\ s.leased = act[a].leased /\ s.tok = act[a].tok
        /\ s.prn = act[a].prn /\ s.job = act[a].job
    BY <1>0 DEF ActorStates
  <2>4. act' = [act EXCEPT ![a] = s]
    BY <2>1, <1>0 DEF KInv, TypeInv, TypeOK
  <2> HIDE DEF s
  <2>5. SameWork(act[a].pc, s.pc)
    BY <2>2, <2>3, RecordingPcs DEF SameWork
  <2>6. act[a].leased
    BY <2>2, Owned DEF LeasedPcs
  <2> QED
    BY <1>0, <2>2, <2>3, <2>4, <2>5, <2>6, StageKeeps
<1>2. CASE Release(a)
  <2>1. act[a].leased /\ LeaseOf(act[a], printer[act[a].prn]) /\ act[a].prn \in Printers
    BY <1>2, Owned DEF Release, LeasedPcs
  <2>2. printer' = Claimed(act[a].prn, NoToken, 0) /\ act' = [act EXCEPT ![a] = Idle]
        /\ UNCHANGED job
    BY <1>2, <2>1 DEF Release, HoldsLease, LeaseOf
  <2> DEFINE x == [[printer[act[a].prn] EXCEPT !.lease = NoToken] EXCEPT !.ttl = 0]
  <2>3. printer' = [printer EXCEPT ![act[a].prn] = x]
    BY <2>1, <2>2 DEF Claimed
  <2> HIDE DEF x
  <2>4. \A b \in Actors \ {a} : act[b].leased => LeaseOf(act[b], printer'[act[b].prn])
    BY <2>1, <2>3, OthersKeepLeases
  <2> QED
    BY <2>2, <2>4, FreePcs, FreeKeeps
<1> QED
  BY <1>1, <1>2

LEMMA KeptFailure ==
  ASSUME KInv, TypeInv', (\E a \in Actors : CallFails(a)) \/ (\E q \in Pollers : PollFails(q))
  PROVE  KInv'
<1>1. UNCHANGED <<printer, job>>
  BY DEF CallFails, PollFails
<1>2. ASSUME NEW a \in Actors, CallFails(a)
      PROVE  KInv'
  <2>0. act[a] \in ActorStates
    BY Owned
  <2>1. CASE Goto(a, "retryAbort") /\ act[a].pc \in {"retrying", "retryClaimed"}
    BY <1>1, <2>1, GotoKeeps
    DEF SameWork, LivePcs, RetryPcs, OwnPcs, LeasedPcs, SendPcs
  <2>2. CASE Finish(a)
    BY <1>1, <2>2, FinishKeeps, OthersIdle
  <2>3. CASE act' = [act EXCEPT ![a] = Idle]
    BY <1>1, <2>3, FreePcs, FreeKeeps, OthersIdle
  <2>4. CASE /\ act[a].pc = "drainLoad"
             /\ act' = [act EXCEPT ![a].pc = "drainRecord", ![a].out = "failed"]
    <3> DEFINE s == [[act[a] EXCEPT !.pc = "drainRecord"] EXCEPT !.out = "failed"]
    <3>1. /\ s.pc = "drainRecord" /\ s.leased = act[a].leased /\ s.tok = act[a].tok
          /\ s.prn = act[a].prn /\ s.job = act[a].job
      BY <2>0 DEF ActorStates
    <3>2. act' = [act EXCEPT ![a] = s]
      BY <2>4, <2>0 DEF KInv, TypeInv, TypeOK
    <3> HIDE DEF s
    <3>3. act[a].pc \in LeasedPcs /\ act[a].pc \in OwnPcs
      BY <2>4 DEF LeasedPcs, OwnPcs
    <3>4. SameWork(act[a].pc, s.pc) /\ act[a].leased
      BY <3>1, <3>3, Owned DEF SameWork, LivePcs, RetryPcs
    <3> QED
      BY <1>1, <3>1, <3>2, <3>4, StageKeeps
  <2> QED
    BY <1>2, <2>1, <2>2, <2>3, <2>4 DEF CallFails
<1>3. ASSUME NEW q \in Pollers, PollFails(q)
      PROVE  KInv'
  BY <1>1, <1>3 DEF PollFails, KInv, CleanJobs, OwnersDiffer, AllKept, Kept
<1> QED
  BY <1>2, <1>3

LEMMA KeptPollStep ==
  ASSUME KInv, TypeInv', NEW q \in Pollers, PollStep(q)
  PROVE  KInv'
<1>0. job \in [Jobs -> JobDocs] /\ \A j \in Jobs : CleanJob(job[j])
  BY DEF KInv, TypeInv, TypeOK, CleanJobs
<1>1. ASSUME UNCHANGED <<printer, act>>,
             \A j \in Jobs : job'[j] = job[j] \/ (Unowned(job[j]) /\ CleanJob(job'[j]))
      PROVE  KInv'
  BY <1>1, RewriteKeeps DEF KInv, AllKept, Kept, OwnersDiffer
<1>2. CASE PollRecoverClaims(q)
  <2>1. \A j \in Jobs : StaleClaim(job[j]) => CleanJob(Requeued(job[j]))
    BY <1>0, CleanWrites DEF StaleClaim
  <2> QED
    BY <1>1, <1>2, <2>1 DEF PollRecoverClaims, Unowned
<1>3. CASE PollRecoverLive(q)
  <2>1. \A j \in Jobs : CleanJob(RecoveredLive(job[j]))
    BY <1>0, CleanWrites
  <2>2. \A j \in Jobs : RecoveredLive(job[j]) = job[j] \/ Unowned(job[j])
    BY DEF RecoveredLive, Unowned
  <2> QED
    BY <1>1, <1>3, <2>1, <2>2 DEF PollRecoverLive
<1>4. CASE PollList(q)
  <2>1. UNCHANGED <<printer, job>>
    BY <1>4 DEF PollList
  <2>2. \A p : [Idle EXCEPT !.pc = "drainClaim", !.prn = p].pc = "drainClaim"
               /\ ~[Idle EXCEPT !.pc = "drainClaim", !.prn = p].leased
               /\ [Idle EXCEPT !.pc = "drainClaim", !.prn = p].tok = NoToken
    BY DEF Idle
  <2>3. \A a \in Actors : \/ act'[a] = act[a]
                          \/ act'[a].pc = "drainClaim" /\ ~act'[a].leased /\ act'[a].tok = NoToken
    BY <1>4, <2>2 DEF PollList
  <2>4. AllKept'
    BY <2>1, <2>3, FreePcs DEF AllKept, Kept, KInv
  <2>5. OwnersDiffer'
    BY <2>3, FreePcs DEF OwnersDiffer, KInv
  <2> QED
    BY <2>1, <2>4, <2>5 DEF KInv, CleanJobs
<1>5. CASE PollDone(q)
  BY <1>1, <1>5 DEF PollDone
<1> QED
  BY <1>2, <1>3, <1>4, <1>5 DEF PollStep

LEMMA KeptInit == Init => KInv
<1> SUFFICES ASSUME Init PROVE KInv
  OBVIOUS
<1>1. CleanJobs
  BY DEF Init, CleanJobs, CleanJob, NewJob
<1>2. OwnersDiffer /\ AllKept
  BY FreePcs DEF Init, OwnersDiffer, AllKept, Kept
<1> QED
  BY <1>1, <1>2, TypeInit DEF KInv

LEMMA KeptNext == Timely /\ KInv /\ [Next]_vars => KInv'
<1> SUFFICES ASSUME Timely, KInv, [Next]_vars PROVE KInv'
  OBVIOUS
<1>1. TypeInv'
  BY TypeNext DEF KInv
<1>2. CASE UNCHANGED vars
  BY <1>1, <1>2 DEF vars, KInv, CleanJobs, OwnersDiffer, AllKept, Kept
<1>3. CASE Next
  BY <1>1, <1>3, KeptClerkBegin, KeptClerkStep, KeptDrainStep, KeptSend, KeptPollStep,
     KeptEnvironment, KeptFailure DEF Next
<1> QED
  BY <1>2, <1>3

(* While holders outpace their leases, the tokens left by claims are still *)
(* there when the work they cover is done.                                 *)
THEOREM ClaimsKept == Timely => (Spec => []ClaimsAreKept)
<1> SUFFICES ASSUME Timely PROVE Spec => []ClaimsAreKept
  OBVIOUS
<1>1. KInv => ClaimsAreKept
  BY DEF KInv, AllKept, Kept, ClaimsAreKept
<1>2. KInv /\ [Next]_vars => KInv'
  BY KeptNext
<1> QED
  BY <1>1, <1>2, KeptInit, PTL DEF Spec

(* At most one actor of any process transmits to a kitchen printer.        *)
THEOREM MutualExclusion == Timely => (Spec => []OneSenderPerPrinter)
<1> SUFFICES ASSUME Timely PROVE Spec => []OneSenderPerPrinter
  OBVIOUS
<1>1. KInv => OneSenderPerPrinter
  <2> SUFFICES ASSUME KInv, NEW a \in Actors, NEW b \in Actors,
                      act[a].pc \in SendPcs, act[b].pc \in SendPcs,
                      act[a].prn = act[b].prn
               PROVE  a = b
    BY DEF OneSenderPerPrinter
  <2>1. act[a].leased /\ act[b].leased
    BY Owned DEF LeasedPcs
  <2> QED
    BY <2>1, LeasesExclude
<1>2. KInv /\ [Next]_vars => KInv'
  BY KeptNext
<1> QED
  BY <1>1, <1>2, KeptInit, PTL DEF Spec

(* A FAILED job can be retried or held: nothing of an old claim is on it.  *)
THEOREM FailedRetryable == Timely => (Spec => []FailedIsRetryable)
<1> SUFFICES ASSUME Timely PROVE Spec => []FailedIsRetryable
  OBVIOUS
<1>1. KInv => FailedIsRetryable
  BY DEF KInv, CleanJobs, CleanJob, FailedIsRetryable
<1>2. KInv /\ [Next]_vars => KInv'
  BY KeptNext
<1> QED
  BY <1>1, <1>2, KeptInit, PTL DEF Spec

-----------------------------------------------------------------------------
(* What each step does to SENT jobs, to claimed ones and to the record of  *)
(* transmissions.                                                          *)

JobsQuiet == \A j \in Jobs : \/ job'[j] = job[j]
                             \/ /\ job[j].status # "SENT"
                                /\ ~(job'[j].status = "QUEUED" /\ job'[j].held)

(* From s to t the actor checks no backlog, and what it must record is.    *)
ActorQuiet(s, t) ==
    /\ t.pc \in CheckedPcs => s.pc \in CheckedPcs /\ t.prn = s.prn
    /\ s.pc \in RecordPcs /\ s.out = "ok" => job'[s.job].status = "SENT"
    /\ t.out # "ok"

LEMMA AccountedKept ==
  ASSUME IInv, \A j \in Jobs : job[j].status = "SENT" => job'[j].status = "SENT",
         \A a \in Actors : act'[a] = act[a] \/ ActorQuiet(act[a], act'[a])
  PROVE  \A j \in Jobs : Accounted(j) => Accounted(j)'
  BY DEF Accounted, ActorQuiet

LEMMA QuietStep ==
  ASSUME IInv, UNCHANGED <<sheets, faults>>, JobsQuiet,
         \A a \in Actors : act'[a] = act[a] \/ ActorQuiet(act[a], act'[a])
  PROVE  QueueIsFree' /\ SendsCounted'
<1>1. QueueIsFree'
  BY DEF IInv, QueueIsFree, JobsQuiet, ActorQuiet
<1>2. \A j \in Jobs : Accounted(j) => Accounted(j)'
  BY AccountedKept DEF JobsQuiet
<1>3. \A a \in Actors : act'[a].pc \notin RecordPcs => act'[a].out # "ok"
  BY DEF IInv, SendsCounted, ActorQuiet
<1> QED
  BY <1>1, <1>2, <1>3 DEF IInv, SendsCounted

(* One actor moves.                                                        *)
LEMMA QuietMove ==
  ASSUME IInv, UNCHANGED <<sheets, faults>>, JobsQuiet,
         NEW a \in Actors, NEW t, act' = [act EXCEPT ![a] = t], ActorQuiet(act[a], t)
  PROVE  QueueIsFree' /\ SendsCounted'
<1>1. act \in [Actors -> ActorStates]
  BY DEF IInv, KInv, TypeInv, TypeOK
<1>2. \A b \in Actors : act'[b] = act[b] \/ ActorQuiet(act[b], act'[b])
  BY <1>1
<1> QED
  BY <1>2, QuietStep

LEMMA QuietGoto ==
  ASSUME IInv, UNCHANGED <<sheets, faults>>, JobsQuiet,
         NEW a \in Actors, NEW pc, Goto(a, pc), act[a].pc \notin RecordPcs,
         pc \in CheckedPcs => act[a].pc \in CheckedPcs
  PROVE  QueueIsFree' /\ SendsCounted'
<1> DEFINE t == [act[a] EXCEPT !.pc = pc]
<1>1. t.pc = pc /\ t.prn = act[a].prn /\ t.out = act[a].out
  BY DEF IInv, KInv, TypeInv, TypeOK, ActorStates
<1>2. act' = [act EXCEPT ![a] = t]
  BY DEF Goto
<1> HIDE DEF t
<1>3. ActorQuiet(act[a], t)
  BY <1>1 DEF ActorQuiet, IInv, SendsCounted
<1> QED
  BY <1>2, <1>3, QuietMove

LEMMA QuietFinish ==
  ASSUME IInv, UNCHANGED <<sheets, faults>>, JobsQuiet,
         NEW a \in Actors, Finish(a),
         act[a].pc \in RecordPcs /\ act[a].out = "ok" => job'[act[a].job].status = "SENT"
  PROVE  QueueIsFree' /\ SendsCounted'
<1> DEFINE r == [act[a] EXCEPT !.pc = "release", !.job = NoJob, !.out = "none"]
<1>1. r.pc = "release" /\ r.out = "none"
  BY DEF IInv, KInv, TypeInv, TypeOK, ActorStates
<1>2. act' = [act EXCEPT ![a] = r] \/ act' = [act EXCEPT ![a] = Idle]
  BY DEF Finish
<1> HIDE DEF r
<1>3. ActorQuiet(act[a], r) /\ ActorQuiet(act[a], Idle)
  BY <1>1 DEF ActorQuiet, CheckedPcs, Idle
<1> QED
  BY <1>2, <1>3, QuietMove

LEMMA QuietWrite ==
  ASSUME KInv, NEW j, NEW w, job' = [job EXCEPT ![j] = w],
         \/ w = job[j]
         \/ job[j].status # "SENT" /\ ~(w.status = "QUEUED" /\ w.held)
  PROVE  JobsQuiet
  BY DEF JobsQuiet, KInv, TypeInv, TypeOK

LEMMA QuietLiveStep ==
  ASSUME IInv, NEW c \in Clerks, LiveStep(c)
  PROVE  QueueIsFree' /\ SendsCounted'
<1> DEFINE r == job[act[c].job]
<1>0. c \in Actors /\ KInv /\ UNCHANGED <<sheets, faults>>
  BY DEF Actors, IInv, LiveStep, LiveClaim, LiveExists, LiveBacklog, LiveHold, LiveReject,
         LiveRefreshJob, LiveRefreshLease, LiveLost, LiveRecord
<1>1. act[c].pc \in LivePcs
  BY DEF LiveStep, LiveClaim, LiveExists, LiveBacklog, LiveHold, LiveReject,
         LiveRefreshJob, LiveRefreshLease, LiveLost, LiveRecord, LivePcs
<1>2. r.status = "QUEUED" /\ ~r.held /\ r \in JobDocs /\ act[c].job \in Jobs
  BY <1>0, <1>1, Owned DEF OwnerPcs, ClaimOf
<1>3. \A w \in {NoLiveClaim(Failed(r)), Held(r), NoLiveClaim(Sent(r)), r} :
         job' = [job EXCEPT ![act[c].job] = w] => JobsQuiet
  <2>1. \A w \in {NoLiveClaim(Failed(r)), Held(r), NoLiveClaim(Sent(r))} : w.status # "QUEUED"
    BY <1>2, WriteFields
  <2> QED
    BY <1>0, <1>2, <2>1, QuietWrite
<1>4. UNCHANGED job => JobsQuiet
  BY DEF JobsQuiet
<1> HIDE DEF r
<1>5. CASE LiveClaim(c)
  <2>1. CASE Claimable(act[c].prn)
    <3> DEFINE z(b) == [[act[c] EXCEPT !.pc = "claimed"] EXCEPT !.leased = b]
    <3>1. \A b \in BOOLEAN : z(b).pc = "claimed" /\ z(b).out = act[c].out
      BY <1>0, Owned DEF ActorStates
    <3>2. act' = [act EXCEPT ![c].pc = "claimed", ![c].leased = TRUE]
      BY <1>5, <2>1, Zenon DEF LiveClaim
    <3>3. act' = [act EXCEPT ![c] = z(TRUE)]
      BY <1>0, <3>2 DEF KInv, TypeInv, TypeOK
    <3>4. z(TRUE).pc = "claimed" /\ z(TRUE).out = act[c].out
      BY <3>1, Zenon
    <3> HIDE DEF z
    <3>5. ActorQuiet(act[c], z(TRUE))
      BY <1>0, <1>5, <3>4 DEF ActorQuiet, CheckedPcs, RecordPcs, LiveClaim, IInv, SendsCounted
    <3> QED
      BY <1>0, <1>4, <1>5, <3>3, <3>5, QuietMove DEF LiveClaim
  <2>2. CASE ~Claimable(act[c].prn)
    BY <1>0, <1>4, <1>5, <2>2, QuietGoto DEF LiveClaim, CheckedPcs, RecordPcs
  <2> QED
    BY <2>1, <2>2
<1>6. CASE LiveExists(c)
  <2>1. CASE Goto(c, "holdBusy") /\ UNCHANGED job
    BY <1>0, <1>4, <1>6, <2>1, QuietGoto DEF LiveExists, CheckedPcs, RecordPcs
  <2>2. CASE job' = [job EXCEPT ![act[c].job] = NoLiveClaim(Failed(r))] /\ Finish(c)
    BY <1>0, <1>3, <1>6, <2>2, QuietFinish DEF LiveExists, RecordPcs
  <2> QED
    BY <1>6, <2>1, <2>2 DEF LiveExists, r
<1>7. CASE LiveBacklog(c)
  <2>1. CASE Backlog(act[c].prn)
    BY <1>0, <1>4, <1>7, <2>1, QuietGoto DEF LiveBacklog, CheckedPcs, RecordPcs
  <2>2. CASE ~Backlog(act[c].prn)
    <3>1. Goto(c, "checked") /\ UNCHANGED job /\ act[c].pc = "claimed"
      BY <1>7, <2>2 DEF LiveBacklog
    <3> DEFINE t == [act[c] EXCEPT !.pc = "checked"]
    <3>2. t.pc = "checked" /\ t.prn = act[c].prn /\ t.out = act[c].out
      BY <1>0, Owned DEF ActorStates
    <3>3. act' = [act EXCEPT ![c] = t]
      BY <3>1 DEF Goto
    <3> HIDE DEF t
    <3>4. act'[c] = t /\ \A a \in Actors \ {c} : act'[a] = act[a]
      BY <1>0, <3>3 DEF KInv, TypeInv, TypeOK
    <3>5. QueueIsFree'
      BY <2>2, <3>1, <3>2, <3>4 DEF QueueIsFree, IInv, Backlog
    <3>6. \A j \in Jobs : Accounted(j) => Accounted(j)'
      BY <3>1, <3>4 DEF Accounted, RecordPcs
    <3>7. t.out # "ok"
      BY <1>0, <3>1, <3>2 DEF IInv, SendsCounted, RecordPcs
    <3>8. SendsCounted'
      BY <1>0, <3>4, <3>6, <3>7 DEF IInv, SendsCounted
    <3> QED
      BY <3>5, <3>8
  <2> QED
    BY <2>1, <2>2
<1>8. CASE LiveHold(c)
  <2>1. job' = [job EXCEPT ![act[c].job] = Held(r)]
    BY <1>2, <1>8 DEF LiveHold, r
  <2> QED
    BY <1>0, <1>3, <1>8, <2>1, QuietFinish DEF LiveHold, RecordPcs
<1>9. CASE LiveReject(c)
  BY <1>0, <1>3, <1>9, QuietFinish DEF LiveReject, RecordPcs, r
<1>10. CASE LiveRefreshJob(c)
  <2>1. job' = [job EXCEPT ![act[c].job].live = Lease] /\ Goto(c, "refreshed")
    BY <1>2, <1>10 DEF LiveRefreshJob, r
  <2> DEFINE w == [r EXCEPT !.live = Lease]
  <2>2. w.held = r.held
    BY <1>2 DEF JobDocs
  <2>3. job' = [job EXCEPT ![act[c].job] = w]
    BY <2>1 DEF r
  <2> HIDE DEF w
  <2>4. JobsQuiet
    BY <1>0, <1>2, <2>2, <2>3, QuietWrite DEF r
  <2> QED
    BY <1>0, <1>10, <2>1, <2>4, QuietGoto DEF LiveRefreshJob, CheckedPcs, RecordPcs
<1>11. CASE LiveRefreshLease(c)
  <2>1. PICK pc \in {"liveSend", "lost"} : Goto(c, pc)
    BY <1>11 DEF LiveRefreshLease
  <2> QED
    BY <1>0, <1>4, <1>11, <2>1, QuietGoto DEF LiveRefreshLease, CheckedPcs, RecordPcs
<1>12. CASE LiveLost(c)
  BY <1>0, <1>3, <1>12, QuietFinish DEF LiveLost, RecordPcs, r
<1>13. CASE LiveRecord(c)
  <2>1. PICK w \in {NoLiveClaim(Sent(r)), r, NoLiveClaim(Failed(r))} :
             /\ job' = [job EXCEPT ![act[c].job] = w]
             /\ act[c].out = "ok" => w = NoLiveClaim(Sent(r))
    BY <1>13 DEF LiveRecord, r
  <2>2. act[c].out = "ok" => job'[act[c].job].status = "SENT"
    BY <1>0, <1>2, <2>1, WriteFields DEF KInv, TypeInv, TypeOK
  <2> QED
    BY <1>0, <1>3, <1>13, <2>1, <2>2, QuietFinish DEF LiveRecord
<1> QED
  BY <1>5, <1>6, <1>7, <1>8, <1>9, <1>10, <1>11, <1>12, <1>13 DEF LiveStep

LEMMA QuietRetryStep ==
  ASSUME IInv, NEW c \in Clerks, RetryStep(c)
  PROVE  QueueIsFree' /\ SendsCounted'
<1> DEFINE r == job[act[c].job]
<1>0. c \in Actors /\ KInv /\ UNCHANGED <<sheets, faults>>
  BY DEF Actors, IInv, RetryStep, RetryClaim, RetryBacklog, RetryAbort, RetryRecord
<1>1. act[c].pc \in RetryPcs
  BY DEF RetryStep, RetryClaim, RetryBacklog, RetryAbort, RetryRecord, RetryPcs
<1>2. r.status = "QUEUED" /\ r \in JobDocs /\ act[c].job \in Jobs
  BY <1>0, <1>1, Owned DEF OwnerPcs, ClaimOf
<1>3. \A w \in {NoRetryClaim(Failed(r)), NoRetryClaim(Sent(r)), r} :
         job' = [job EXCEPT ![act[c].job] = w] => JobsQuiet
  <2>1. \A w \in {NoRetryClaim(Failed(r)), NoRetryClaim(Sent(r))} : w.status # "QUEUED"
    BY <1>2, WriteFields
  <2> QED
    BY <1>0, <1>2, <2>1, QuietWrite
<1>4. UNCHANGED job => JobsQuiet
  BY DEF JobsQuiet
<1>5. RetryAborted(c) => JobsQuiet
  <2>1. RetryAborted(c) => \E w \in {NoRetryClaim(Failed(r)), r} :
                              job' = [job EXCEPT ![act[c].job] = w]
    BY DEF RetryAborted
  <2> QED
    BY <1>3, <2>1
<1> HIDE DEF r
<1>6. CASE RetryClaim(c)
  <2>1. CASE Claimable(act[c].prn)
    <3> DEFINE z(b) == [[act[c] EXCEPT !.pc = "retryClaimed"] EXCEPT !.leased = b]
    <3>1. \A b \in BOOLEAN : z(b).pc = "retryClaimed" /\ z(b).out = act[c].out
      BY <1>0, Owned DEF ActorStates
    <3>2. act' = [act EXCEPT ![c].pc = "retryClaimed", ![c].leased = TRUE]
      BY <1>6, <2>1, Zenon DEF RetryClaim
    <3>3. act' = [act EXCEPT ![c] = z(TRUE)]
      BY <1>0, <3>2 DEF KInv, TypeInv, TypeOK
    <3>4. z(TRUE).pc = "retryClaimed" /\ z(TRUE).out = act[c].out
      BY <3>1, Zenon
    <3> HIDE DEF z
    <3>5. ActorQuiet(act[c], z(TRUE))
      BY <1>0, <1>6, <3>4 DEF ActorQuiet, CheckedPcs, RecordPcs, RetryClaim, IInv, SendsCounted
    <3> QED
      BY <1>0, <1>4, <1>6, <3>3, <3>5, QuietMove DEF RetryClaim
  <2>2. CASE ~Claimable(act[c].prn)
    BY <1>0, <1>4, <1>6, <2>2, QuietGoto DEF RetryClaim, CheckedPcs, RecordPcs
  <2> QED
    BY <2>1, <2>2
<1>7. CASE RetryBacklog(c)
  <2>1. CASE Backlog(act[c].prn)
    BY <1>0, <1>4, <1>7, <2>1, QuietGoto DEF RetryBacklog, CheckedPcs, RecordPcs
  <2>2. CASE ~Backlog(act[c].prn)
    <3>1. Goto(c, "retrySend") /\ UNCHANGED job /\ act[c].pc = "retryClaimed"
      BY <1>7, <2>2 DEF RetryBacklog
    <3> DEFINE t == [act[c] EXCEPT !.pc = "retrySend"]
    <3>2. t.pc = "retrySend" /\ t.prn = act[c].prn /\ t.out = act[c].out
      BY <1>0, Owned DEF ActorStates
    <3>3. act' = [act EXCEPT ![c] = t]
      BY <3>1 DEF Goto
    <3> HIDE DEF t
    <3>4. act'[c] = t /\ \A a \in Actors \ {c} : act'[a] = act[a]
      BY <1>0, <3>3 DEF KInv, TypeInv, TypeOK
    <3>5. QueueIsFree'
      BY <2>2, <3>1, <3>2, <3>4 DEF QueueIsFree, IInv, Backlog
    <3>6. \A j \in Jobs : Accounted(j) => Accounted(j)'
      BY <3>1, <3>4 DEF Accounted, RecordPcs
    <3>7. t.out # "ok"
      BY <1>0, <3>1, <3>2 DEF IInv, SendsCounted, RecordPcs
    <3>8. SendsCounted'
      BY <1>0, <3>4, <3>6, <3>7 DEF IInv, SendsCounted
    <3> QED
      BY <3>5, <3>8
  <2> QED
    BY <2>1, <2>2
<1>8. CASE RetryAbort(c)
  BY <1>0, <1>5, <1>8, QuietFinish DEF RetryAbort, RecordPcs
<1>9. CASE RetryRecord(c)
  <2>1. JobsQuiet
    BY <1>3, <1>5, <1>9 DEF RetryRecord, r
  <2>2. act[c].out = "ok" => job'[act[c].job].status = "SENT"
    <3>1. act[c].out = "ok" => job' = [job EXCEPT ![act[c].job] = NoRetryClaim(Sent(r))]
      BY <1>9 DEF RetryRecord, r
    <3> QED
      BY <1>0, <1>2, <3>1, WriteFields DEF KInv, TypeInv, TypeOK
  <2> QED
    BY <1>0, <1>9, <2>1, <2>2, QuietFinish DEF RetryRecord
<1> QED
  BY <1>6, <1>7, <1>8, <1>9 DEF RetryStep

(* The recoveries of stale claims only fail or requeue QUEUED jobs.        *)
LEMMA QuietRecovery ==
  ASSUME KInv, NEW j \in Jobs
  PROVE  /\ RecoveredLive(job[j]) = job[j]
              \/ (job[j].status # "SENT" /\ RecoveredLive(job[j]).status # "QUEUED")
         /\ StaleRetry(job[j]) => job[j].status # "SENT"
                                    /\ NoRetryClaim(Failed(job[j])).status # "QUEUED"
         /\ StaleClaim(job[j]) => job[j].status # "SENT" /\ Requeued(job[j]).status # "QUEUED"
         /\ NoQueueClaim(Held(job[j])).status # "QUEUED"
<1>1. job[j] \in JobDocs /\ Held(job[j]) \in JobDocs
  BY JobWrites DEF KInv, TypeInv, TypeOK
<1>2. RecoveredLive(job[j]) = job[j]
        \/ (job[j].status # "SENT" /\ RecoveredLive(job[j]).status # "QUEUED")
  BY <1>1 DEF RecoveredLive, StaleLive, JobDocs
<1>3. NoQueueClaim(Held(job[j])).status # "QUEUED"
  <2>1. \A h \in JobDocs : NoQueueClaim(h).status = h.status
    BY DEF NoQueueClaim, JobDocs
  <2> QED
    BY <1>1, <2>1, WriteFields
<1> QED
  BY <1>1, <1>2, <1>3, WriteFields DEF StaleRetry, StaleClaim

LEMMA QuietClerkStep ==
  ASSUME IInv, NEW c \in Clerks, ClerkStep(c)
  PROVE  QueueIsFree' /\ SendsCounted'
<1>0. c \in Actors /\ KInv /\ act[c] \in ActorStates
  BY Owned DEF Actors, IInv
<1>1. act[c].pc \notin RecordPcs => ActorQuiet(act[c], Idle)
  BY DEF ActorQuiet, CheckedPcs, Idle
<1>2. CASE RecoverLive(c)
  <2>1. JobsQuiet
    BY <1>0, <1>2, QuietRecovery DEF RecoverLive, JobsQuiet, KInv, TypeInv, TypeOK
  <2> QED
    BY <1>0, <1>1, <1>2, <2>1, QuietMove DEF RecoverLive, RecordPcs
<1>3. CASE HoldUpdate(c)
  <2>1. JobsQuiet
    BY <1>0, <1>3, QuietRecovery DEF HoldUpdate, JobsQuiet
  <2> QED
    BY <1>0, <1>3, <2>1, QuietFinish DEF HoldUpdate, RecordPcs
<1>4. CASE AdminCheck(c)
  <2>1. JobsQuiet /\ UNCHANGED <<sheets, faults>> /\ act[c].pc \notin RecordPcs
    BY <1>4 DEF AdminCheck, JobsQuiet, RecordPcs
  <2> DEFINE t == [act[c] EXCEPT !.pc = "adminApply"]
  <2>2. t.pc = "adminApply" /\ t.out = act[c].out
    BY <1>0 DEF ActorStates
  <2>3. act' = [act EXCEPT ![c] = t] \/ act' = [act EXCEPT ![c] = Idle]
    BY <1>4 DEF AdminCheck
  <2> HIDE DEF t
  <2>4. ActorQuiet(act[c], t)
    BY <1>0, <2>1, <2>2 DEF ActorQuiet, CheckedPcs, IInv, SendsCounted
  <2> QED
    BY <1>0, <1>1, <2>1, <2>3, <2>4, QuietMove
<1>5. CASE AdminApply(c)
  <2>1. /\ UNCHANGED <<job, sheets, faults>> /\ act[c].pc \notin RecordPcs
        /\ act' = [act EXCEPT ![c] = Idle]
    BY <1>5 DEF AdminApply, RecordPcs
  <2>2. JobsQuiet
    BY <2>1 DEF JobsQuiet
  <2> QED
    BY <1>0, <1>1, <2>1, <2>2, QuietMove
<1> QED
  BY <1>2, <1>3, <1>4, <1>5, QuietLiveStep, QuietRetryStep DEF ClerkStep

LEMMA QuietClerkBegin ==
  ASSUME IInv, NEW c \in Clerks, ClerkBegin(c)
  PROVE  QueueIsFree' /\ SendsCounted'
<1>0. c \in Actors /\ KInv /\ job \in [Jobs -> JobDocs] /\ \A j \in Jobs : CleanJob(job[j])
  BY DEF Actors, IInv, KInv, TypeInv, TypeOK, CleanJobs
<1>1. ASSUME NEW t, act' = [act EXCEPT ![c] = t], act[c].pc = "idle",
             t.pc \notin CheckedPcs, t.out = "none",
             JobsQuiet, UNCHANGED <<sheets, faults>>
      PROVE  QueueIsFree' /\ SendsCounted'
  <2>1. ActorQuiet(act[c], t)
    BY <1>1 DEF ActorQuiet, RecordPcs
  <2> QED
    BY <1>0, <1>1, <2>1, QuietMove
<1>2. ASSUME NEW j \in Jobs, NEW t \in Tokens, LiveCreate(c, j, t) \/ RetryBegin(c, j, t)
      PROVE  QueueIsFree' /\ SendsCounted'
  <2>1. job[j].status \in {"NEW", "FAILED"} /\ ~job[j].held
    BY <1>0, <1>2 DEF LiveCreate, RetryBegin, CleanJob
  <2>2. \A k \in Jobs : job'[k] = job[k] \/ (k = j /\ job'[k].held = job[k].held)
    BY <1>0, <1>2 DEF LiveCreate, RetryBegin, JobDocs
  <2>3. JobsQuiet
    BY <2>1, <2>2 DEF JobsQuiet
  <2>4. PICK pc \in {"created", "retrying"} :
             act' = [act EXCEPT ![c] = [pc |-> pc, tok |-> t, leased |-> FALSE,
                                        job |-> j, prn |-> PrinterOf[j], out |-> "none"]]
    BY <1>2 DEF LiveCreate, RetryBegin
  <2> DEFINE s == [pc |-> pc, tok |-> t, leased |-> FALSE,
                   job |-> j, prn |-> PrinterOf[j], out |-> "none"]
  <2>5. s.pc \notin CheckedPcs /\ s.out = "none"
    BY DEF CheckedPcs
  <2> QED
    BY <1>1, <1>2, <2>3, <2>4, <2>5 DEF LiveCreate, RetryBegin
<1>3. ASSUME NEW j \in Jobs, RecoverRetry(c, j)
      PROVE  QueueIsFree' /\ SendsCounted'
  <2>1. JobsQuiet
    BY <1>0, <1>3, QuietRecovery DEF RecoverRetry, JobsQuiet
  <2> DEFINE s == [Idle EXCEPT !.pc = "recoverLive", !.job = j]
  <2>2. s.pc \notin CheckedPcs /\ s.out = "none"
    BY DEF CheckedPcs, Idle
  <2> QED
    BY <1>1, <1>3, <2>1, <2>2 DEF RecoverRetry
<1>4. ASSUME NEW p \in Printers, NEW t \in Tokens, HoldBegin(c, p, t)
      PROVE  QueueIsFree' /\ SendsCounted'
  <2>1. JobsQuiet
    BY <1>4 DEF HoldBegin, JobsQuiet
  <2> DEFINE z(b) == [Idle EXCEPT !.pc = "holding", !.tok = t, !.leased = b, !.prn = p]
  <2>2. \A b \in BOOLEAN : z(b).pc \notin CheckedPcs /\ z(b).out = "none"
    BY DEF Idle, CheckedPcs
  <2>3. act' = [act EXCEPT ![c] = z(TRUE)]
    BY <1>4, Zenon DEF HoldBegin
  <2> HIDE DEF z
  <2>4. z(TRUE).pc \notin CheckedPcs /\ z(TRUE).out = "none"
    BY <2>2, Zenon
  <2> QED
    BY <1>1, <1>4, <2>1, <2>3, <2>4 DEF HoldBegin
<1>5. ASSUME NEW p \in Printers, AdminBegin(c, p)
      PROVE  QueueIsFree' /\ SendsCounted'
  <2>1. JobsQuiet
    BY <1>0, <1>5, QuietRecovery DEF AdminBegin, JobsQuiet
  <2> DEFINE s == [Idle EXCEPT !.pc = "adminCheck", !.prn = p]
  <2>2. s.pc \notin CheckedPcs /\ s.out = "none"
    BY DEF CheckedPcs, Idle
  <2> QED
    BY <1>1, <1>5, <2>1, <2>2 DEF AdminBegin
<1>6. ASSUME NEW p \in Printers, AdminToKitchen(c, p)
      PROVE  QueueIsFree' /\ SendsCounted'
  BY <1>6, QuietStep DEF AdminToKitchen, JobsQuiet
<1> QED
  BY <1>2, <1>3, <1>4, <1>5, <1>6 DEF ClerkBegin

LEMMA QuietDrainStep ==
  ASSUME IInv, NEW d \in Drains, DrainStep(d)
  PROVE  QueueIsFree' /\ SendsCounted'
<1> DEFINE r == job[act[d].job]
<1>0. d \in Actors /\ KInv /\ act[d] \in ActorStates /\ job \in [Jobs -> JobDocs]
      /\ \A j \in Jobs : CleanJob(job[j])
  BY Owned DEF Actors, IInv, KInv, TypeInv, TypeOK, CleanJobs
<1>1. UNCHANGED job => JobsQuiet
  BY DEF JobsQuiet
<1>2. ASSUME NEW t \in Tokens, DrainClaim(d, t)
      PROVE  QueueIsFree' /\ SendsCounted'
  <2>0. UNCHANGED <<job, sheets, faults>> /\ act[d].pc = "drainClaim"
    BY <1>2 DEF DrainClaim
  <2>1. act[d].out # "ok"
    BY <1>0, <2>0 DEF IInv, SendsCounted, RecordPcs
  <2>2. CASE Claimable(act[d].prn)
    <3> DEFINE z(b) == [act[d] EXCEPT !.pc = "drainRefresh", !.tok = t, !.leased = b]
    <3>1. \A b \in BOOLEAN : z(b).pc = "drainRefresh" /\ z(b).out = act[d].out
      BY <1>0 DEF ActorStates
    <3>2. act' = [act EXCEPT ![d].pc = "drainRefresh", ![d].tok = t, ![d].leased = TRUE]
      BY <1>2, <2>2, Zenon DEF DrainClaim
    <3>3. act' = [act EXCEPT ![d] = z(TRUE)]
      BY <3>2
    <3>4. z(TRUE).pc = "drainRefresh" /\ z(TRUE).out = act[d].out
      BY <3>1, Zenon
    <3> HIDE DEF z
    <3>5. ActorQuiet(act[d], z(TRUE))
      BY <2>0, <2>1, <3>4 DEF ActorQuiet, CheckedPcs, RecordPcs
    <3> QED
      BY <1>0, <1>1, <2>0, <3>3, <3>5, QuietMove
  <2>3. CASE ~Claimable(act[d].prn)
    <3>1. act' = [act EXCEPT ![d] = Idle]
      BY <1>2, <2>3 DEF DrainClaim
    <3>2. ActorQuiet(act[d], Idle)
      BY <2>0 DEF ActorQuiet, CheckedPcs, RecordPcs, Idle
    <3> QED
      BY <1>0, <1>1, <2>0, <3>1, <3>2, QuietMove
  <2> QED
    BY <2>2, <2>3
<1>3. CASE DrainRefresh(d)
  <2>1. UNCHANGED <<job, sheets, faults>> /\ act[d].pc \notin RecordPcs
        /\ (Goto(d, "drainPick") \/ Finish(d))
    BY <1>3 DEF DrainRefresh, RecordPcs
  <2> QED
    BY <1>0, <1>1, <2>1, QuietGoto, QuietFinish DEF CheckedPcs
<1>4. CASE DrainPick(d)
  <2>1. act[d].pc = "drainPick" /\ UNCHANGED <<sheets, faults>>
    BY <1>4 DEF DrainPick
  <2>2. CASE UNCHANGED job /\ Finish(d)
    BY <1>0, <1>1, <2>1, <2>2, QuietFinish DEF RecordPcs
  <2>3. ASSUME NEW j \in Oldest(HeldOn(act[d].prn)),
               job' = [job EXCEPT ![j] = [NoRetryClaim(@) EXCEPT
                  !.status = "QUEUED", !.claim = act[d].tok,
                  !.claimTtl = IF HoldsLease(d) THEN printer[act[d].prn].ttl ELSE 0]],
               act' = [act EXCEPT ![d].pc = "drainLoad", ![d].job = j]
        PROVE  QueueIsFree' /\ SendsCounted'
    <3>1. j \in Jobs /\ job[j].status = "HELD" /\ PrinterOf[j] = act[d].prn
      BY DEF Oldest, HeldOn
    <3>2. \A k \in Jobs : k # j => job'[k] = job[k]
      BY <1>0, <2>3
    <3> DEFINE t == [[act[d] EXCEPT !.pc = "drainLoad"] EXCEPT !.job = j]
    <3>3. t.pc = "drainLoad" /\ t.out = act[d].out
      BY <1>0 DEF ActorStates
    <3>4. act' = [act EXCEPT ![d] = t]
      BY <2>3, <1>0 DEF KInv, TypeInv, TypeOK
    <3> HIDE DEF t
    <3>5. act'[d] = t /\ \A a \in Actors \ {d} : act'[a] = act[a]
      BY <1>0, <3>4 DEF KInv, TypeInv, TypeOK
    <3>6. act[d].leased /\ \A a \in Actors \ {d} : act[a].pc \in CheckedPcs => act[a].leased
      BY <1>0, <2>1, Owned DEF LeasedPcs, SendPcs, CheckedPcs
    <3>7. \A a \in Actors \ {d} : act[a].pc \in CheckedPcs => act[a].prn # PrinterOf[j]
      BY <1>0, <3>1, <3>6, LeasesExclude
    <3>8. QueueIsFree'
      BY <3>2, <3>3, <3>5, <3>7 DEF QueueIsFree, IInv, CheckedPcs
    <3>9. \A k \in Jobs : Accounted(k) => Accounted(k)'
      BY <2>1, <3>1, <3>2, <3>5 DEF Accounted, RecordPcs
    <3>10. t.out # "ok"
      BY <1>0, <2>1, <3>3 DEF IInv, SendsCounted, RecordPcs
    <3>11. SendsCounted'
      BY <1>0, <2>1, <3>5, <3>9, <3>10 DEF IInv, SendsCounted
    <3> QED
      BY <3>8, <3>11
  <2> QED
    BY <1>4, <2>2, <2>3 DEF DrainPick
<1>5. CASE DrainLoad(d)
  <2>1. act[d].pc = "drainLoad" /\ UNCHANGED <<job, sheets, faults>>
    BY <1>5 DEF DrainLoad
  <2>2. CASE Goto(d, "drainSend")
    BY <1>0, <1>1, <2>1, <2>2, QuietGoto DEF CheckedPcs, RecordPcs
  <2>3. CASE act' = [act EXCEPT ![d].pc = "drainRecord", ![d].out = "unusable"]
    <3> DEFINE t == [[act[d] EXCEPT !.pc = "drainRecord"] EXCEPT !.out = "unusable"]
    <3>1. t.pc = "drainRecord" /\ t.out = "unusable"
      BY <1>0 DEF ActorStates
    <3>2. act' = [act EXCEPT ![d] = t]
      BY <2>3, <1>0 DEF KInv, TypeInv, TypeOK
    <3> HIDE DEF t
    <3>3. ActorQuiet(act[d], t)
      BY <2>1, <3>1 DEF ActorQuiet, CheckedPcs, RecordPcs
    <3> QED
      BY <1>0, <1>1, <2>1, <3>2, <3>3, QuietMove
  <2> QED
    BY <1>5, <2>2, <2>3 DEF DrainLoad
<1>6. CASE DrainRecord(d)
  <2>1. act[d].pc = "drainRecord" /\ UNCHANGED <<sheets, faults>>
    BY <1>6 DEF DrainRecord
  <2>2. r.status = "QUEUED" /\ r.claim = act[d].tok /\ r \in JobDocs /\ act[d].job \in Jobs
    BY <1>0, <2>1, Owned DEF OwnerPcs, OwnPcs, ClaimOf
  <2>3. \A w \in {Requeued(r), DrainSent(r), DrainFailed(r)} :
           job' = [job EXCEPT ![act[d].job] = w] => JobsQuiet
    <3>1. \A w \in {Requeued(r), DrainSent(r), DrainFailed(r)} : w.status # "QUEUED"
      BY <2>2, WriteFields
    <3> QED
      BY <1>0, <2>2, <3>1, QuietWrite
  <2>4. CASE job' = [job EXCEPT ![act[d].job] = Requeued(r)] /\ Finish(d)
             /\ act[d].out = "failed"
    BY <1>0, <2>1, <2>3, <2>4, QuietFinish
  <2>5. ASSUME act[d].out # "failed",
               job' = [job EXCEPT ![act[d].job] =
                          IF act[d].out = "ok" THEN DrainSent(@) ELSE DrainFailed(@)],
               act' = [act EXCEPT ![d].pc = "drainRefresh", ![d].job = NoJob, ![d].out = "none"]
        PROVE  QueueIsFree' /\ SendsCounted'
    <3>1. PICK w \in {DrainSent(r), DrainFailed(r)} :
             /\ job' = [job EXCEPT ![act[d].job] = w]
             /\ act[d].out = "ok" => w = DrainSent(r)
      BY <2>5
    <3> DEFINE t == [[[act[d] EXCEPT !.pc = "drainRefresh"] EXCEPT !.job = NoJob] EXCEPT !.out = "none"]
    <3>2. t.pc = "drainRefresh" /\ t.out = "none"
      BY <1>0 DEF ActorStates
    <3>3. act' = [act EXCEPT ![d] = t]
      BY <2>5, <1>0 DEF KInv, TypeInv, TypeOK
    <3> HIDE DEF t
    <3>4. act[d].out = "ok" => job'[act[d].job].status = "SENT"
      BY <1>0, <2>2, <3>1, WriteFields
    <3>5. ActorQuiet(act[d], t)
      BY <3>2, <3>4 DEF ActorQuiet, CheckedPcs
    <3>6. JobsQuiet
      BY <2>3, <3>1
    <3> QED
      BY <1>0, <2>1, <3>3, <3>5, <3>6, QuietMove
  <2> QED
    BY <1>6, <2>2, <2>4, <2>5 DEF DrainRecord
<1> QED
  BY <1>2, <1>3, <1>4, <1>5, <1>6 DEF DrainStep

(* What is being transmitted was not printed since the last fault: it      *)
(* would be SENT, or an actor about to record it would own it.             *)
LEMMA UnprintedSends ==
  ASSUME IInv, NEW a \in Actors, act[a].pc \in SendPcs
  PROVE  /\ act[a].job \in Jobs /\ ~Accounted(act[a].job)
         /\ sheets[act[a].job] <= faults
         /\ act[a].pc \notin RecordPcs
         /\ Recording(act[a].pc) \in RecordPcs /\ Recording(act[a].pc) \notin CheckedPcs
<1>1. /\ act[a].pc \in OwnerPcs /\ act[a].pc \notin RecordPcs
      /\ Recording(act[a].pc) \in RecordPcs /\ Recording(act[a].pc) \notin CheckedPcs
  BY RecordingPcs DEF RecordPcs, CheckedPcs, SendPcs
<1>2. act[a].job \in Jobs /\ job[act[a].job].status = "QUEUED"
  BY <1>1, Owned DEF ClaimOf, IInv
<1>3. \A b \in Actors : act[b].pc \in RecordPcs => act[b].pc \in OwnerPcs
  BY DEF RecordPcs, OwnerPcs, LivePcs, RetryPcs, OwnPcs
<1>4. ~Accounted(act[a].job)
  BY <1>1, <1>2, <1>3 DEF Accounted, IInv, KInv, OwnersDiffer
<1>5. sheets[act[a].job] <= faults
  BY <1>2, <1>4, BoundsAssumption DEF IInv, SendsCounted, KInv, TypeInv, TypeOK
<1> QED
  BY <1>1, <1>2, <1>4, <1>5

(* A fault excuses what was printed up to it.                              *)
LEMMA FaultExcuses ==
  ASSUME IInv, UNCHANGED job, faults' = faults + 1,
         \A j \in Jobs : sheets'[j] \in Nat /\ sheets'[j] <= faults + 1,
         \A a \in Actors : act'[a] = act[a]
                          \/ (act'[a].pc \notin CheckedPcs /\ act'[a].out # "ok")
  PROVE  QueueIsFree' /\ SendsCounted'
<1>1. QueueIsFree'
  BY DEF IInv, QueueIsFree
<1>2. \A j \in Jobs : sheets'[j] < faults' + 1
  BY BoundsAssumption DEF IInv, KInv, TypeInv, TypeOK
<1>3. \A j \in Jobs : sheets'[j] <= faults' + 1 /\ sheets'[j] # faults' + 1
  BY <1>2, BoundsAssumption DEF IInv, KInv, TypeInv, TypeOK
<1>4. \A a \in Actors : act'[a].pc \notin RecordPcs => act'[a].out # "ok"
  BY DEF IInv, SendsCounted
<1> QED
  BY <1>1, <1>3, <1>4 DEF SendsCounted

(* The same, when nothing was printed.                                     *)
LEMMA FaultPasses ==
  ASSUME IInv, UNCHANGED <<job, sheets>>, faults' = faults + 1,
         \A a \in Actors : act'[a] = act[a]
                          \/ (act'[a].pc \notin CheckedPcs /\ act'[a].out # "ok")
  PROVE  QueueIsFree' /\ SendsCounted'
<1>1. \A j \in Jobs : sheets'[j] \in Nat /\ sheets'[j] <= faults + 1
  BY BoundsAssumption DEF IInv, SendsCounted, KInv, TypeInv, TypeOK
<1> QED
  BY <1>1, FaultExcuses

LEMMA QuietSend ==
  ASSUME IInv, NEW a \in Actors,
         SendOk(a) \/ SendFails(a) \/ SendUnanswered(a) \/ Release(a)
  PROVE  QueueIsFree' /\ SendsCounted'
<1>0. /\ KInv /\ act[a] \in ActorStates /\ act \in [Actors -> ActorStates]
      /\ faults \in Nat /\ sheets \in [Jobs -> Nat]
  BY BoundsAssumption, Owned DEF IInv, KInv, TypeInv, TypeOK
<1>a. ASSUME NEW o \in Outcomes, Ends(a, o), act[a].pc \in SendPcs
      PROVE  /\ act'[a].pc = Recording(act[a].pc) /\ act'[a].job = act[a].job
             /\ act'[a].out = o /\ \A b \in Actors \ {a} : act'[b] = act[b]
  <2> DEFINE s == [act[a] EXCEPT !.pc = Recording(@), !.out = o]
  <2>1. s.pc = Recording(act[a].pc) /\ s.job = act[a].job /\ s.out = o
    BY <1>0 DEF ActorStates
  <2>2. act' = [act EXCEPT ![a] = s]
    BY <1>a, <1>0 DEF Ends
  <2> HIDE DEF s
  <2> QED
    BY <1>0, <2>1, <2>2
<1>b. ASSUME act[a].pc \in SendPcs, Printed(act[a].job)
      PROVE  \A j \in Jobs : /\ sheets'[j] \in Nat
                             /\ j = act[a].job => sheets'[j] <= faults + 1
                             /\ j # act[a].job => sheets'[j] = sheets[j]
  <2>1. act[a].job \in Jobs /\ sheets[act[a].job] <= faults
    BY <1>b, UnprintedSends
  <2>2. sheets' = [sheets EXCEPT ![act[a].job] = @ + 1]
    BY <1>b DEF Printed
  <2> QED
    BY <1>0, <2>1, <2>2
<1>1. CASE SendOk(a)
  <2>1. /\ act[a].pc \in SendPcs /\ Printed(act[a].job) /\ Ends(a, "ok")
        /\ UNCHANGED <<job, faults>>
    BY <1>1 DEF SendOk
  <2>2. /\ act'[a].pc = Recording(act[a].pc) /\ act'[a].job = act[a].job
        /\ act'[a].out = "ok" /\ \A b \in Actors \ {a} : act'[b] = act[b]
    BY <1>a, <2>1, PcNames
  <2>3. /\ act[a].pc \notin RecordPcs /\ act'[a].pc \in RecordPcs
        /\ act'[a].pc \notin CheckedPcs
    BY <2>1, <2>2, UnprintedSends
  <2>4. \A j \in Jobs : Accounted(j) => Accounted(j)'
    BY <2>1, <2>2, <2>3 DEF Accounted
  <2>5. \A j \in Jobs : j = act[a].job => Accounted(j)'
    BY <2>2, <2>3 DEF Accounted
  <2>6. \A j \in Jobs : /\ sheets'[j] <= faults' + 1
                        /\ sheets'[j] = faults' + 1 => Accounted(j)'
    BY <1>b, <2>1, <2>4, <2>5 DEF IInv, SendsCounted
  <2>7. \A b \in Actors : act'[b].pc \notin RecordPcs => act'[b].out # "ok"
    BY <2>2, <2>3 DEF IInv, SendsCounted
  <2>8. QueueIsFree'
    BY <2>1, <2>2, <2>3 DEF IInv, QueueIsFree
  <2> QED
    BY <2>6, <2>7, <2>8 DEF SendsCounted
<1>c. CASE SendUnanswered(a)
  <2>1. /\ act[a].pc \in SendPcs /\ Printed(act[a].job) /\ Ends(a, "failed")
        /\ UNCHANGED job /\ faults' = faults + 1
    BY <1>c DEF SendUnanswered
  <2>2. \A b \in Actors : act'[b] = act[b]
                         \/ (act'[b].pc \notin CheckedPcs /\ act'[b].out # "ok")
    BY <1>a, <2>1, UnprintedSends, PcNames
  <2>3. \A j \in Jobs : sheets'[j] \in Nat /\ sheets'[j] <= faults + 1
    BY <1>b, <2>1 DEF IInv, SendsCounted
  <2> QED
    BY <2>1, <2>2, <2>3, FaultExcuses
<1>2. CASE SendFails(a)
  <2>1. PICK o \in {"failed", "throw"} : Ends(a, o)
    BY <1>2 DEF SendFails
  <2>2. act[a].pc \in SendPcs /\ UNCHANGED <<job, faults, sheets>>
    BY <1>2 DEF SendFails
  <2>3. /\ act'[a].pc = Recording(act[a].pc) /\ act'[a].out # "ok"
        /\ \A b \in Actors \ {a} : act'[b] = act[b]
    BY <1>a, <2>1, <2>2, PcNames
  <2>4. \A b \in Actors : act'[b] = act[b] \/ ActorQuiet(act[b], act'[b])
    BY <2>2, <2>3, UnprintedSends DEF ActorQuiet
  <2>5. JobsQuiet
    BY <2>2 DEF JobsQuiet
  <2> QED
    BY <2>2, <2>4, <2>5, QuietStep
<1>3. CASE Release(a)
  <2>1. act' = [act EXCEPT ![a] = Idle] /\ UNCHANGED <<job, faults, sheets>>
    BY <1>3 DEF Release
  <2>2. ActorQuiet(act[a], Idle) /\ JobsQuiet
    BY <1>3, <2>1 DEF Release, ActorQuiet, RecordPcs, CheckedPcs, Idle, JobsQuiet
  <2> QED
    BY <2>1, <2>2, QuietMove
<1> QED
  BY <1>1, <1>c, <1>2, <1>3

LEMMA QuietPollStep ==
  ASSUME IInv, NEW q \in Pollers, PollStep(q)
  PROVE  QueueIsFree' /\ SendsCounted'
<1>0. KInv /\ UNCHANGED <<sheets, faults>>
  BY DEF IInv, PollStep, PollRecoverClaims, PollRecoverLive, PollList, PollDone
<1>1. CASE PollRecoverClaims(q)
  <2>1. JobsQuiet /\ UNCHANGED act
    BY <1>0, <1>1, QuietRecovery DEF PollRecoverClaims, JobsQuiet
  <2> QED
    BY <1>0, <2>1, QuietStep
<1>2. CASE PollRecoverLive(q)
  <2>1. JobsQuiet /\ UNCHANGED act
    BY <1>0, <1>2, QuietRecovery DEF PollRecoverLive, JobsQuiet
  <2> QED
    BY <1>0, <2>1, QuietStep
<1>3. CASE PollList(q)
  <2>2. \A p : /\ [Idle EXCEPT !.pc = "drainClaim", !.prn = p].pc = "drainClaim"
               /\ [Idle EXCEPT !.pc = "drainClaim", !.prn = p].out = "none"
    BY DEF Idle
  <2>3. \A a \in Actors : \/ act'[a] = act[a]
                          \/ /\ act[a].pc = "idle"
                             /\ act'[a].pc = "drainClaim" /\ act'[a].out = "none"
    BY <1>3, <2>2 DEF PollList
  <2>4. \A a \in Actors : act'[a] = act[a] \/ ActorQuiet(act[a], act'[a])
    BY <2>3 DEF ActorQuiet, CheckedPcs, RecordPcs
  <2>5. JobsQuiet
    BY <1>3 DEF PollList, JobsQuiet
  <2> QED
    BY <1>0, <2>4, <2>5, QuietStep
<1>4. CASE PollDone(q)
  BY <1>0, <1>4, QuietStep DEF PollDone, JobsQuiet
<1> QED
  BY <1>1, <1>2, <1>3, <1>4 DEF PollStep

LEMMA QuietEnvironment ==
  ASSUME IInv, Crash \/ Tick
  PROVE  QueueIsFree' /\ SendsCounted'
<1>1. CASE Crash
  <2>1. \A a \in Actors : act'[a] \in {act[a], Idle}
    BY <1>1 DEF Crash, IInv, KInv, TypeInv, TypeOK
  <2>2. UNCHANGED <<job, sheets>> /\ faults' = faults + 1
    BY <1>1 DEF Crash
  <2>3. Idle.pc \notin CheckedPcs /\ Idle.out # "ok"
    BY DEF CheckedPcs, Idle
  <2> QED
    BY <2>1, <2>2, <2>3, FaultPasses
<1>2. CASE Tick
  <2>1. UNCHANGED <<act, sheets, faults>>
    BY <1>2 DEF Tick
  <2>2. \A j \in Jobs : job'[j].status = job[j].status /\ job'[j].held = job[j].held
    BY <1>2 DEF Tick, Older, JobDocs, IInv, KInv, TypeInv, TypeOK
  <2>3. QueueIsFree'
    BY <2>1, <2>2 DEF IInv, QueueIsFree
  <2>4. \A j \in Jobs : Accounted(j) => Accounted(j)'
    BY <2>1, <2>2 DEF Accounted
  <2> QED
    BY <2>1, <2>3, <2>4 DEF IInv, SendsCounted
<1> QED
  BY <1>1, <1>2

LEMMA QuietFailure ==
  ASSUME IInv, (\E a \in Actors : CallFails(a)) \/ (\E q \in Pollers : PollFails(q))
  PROVE  QueueIsFree' /\ SendsCounted'
<1>1. UNCHANGED <<job, sheets>> /\ faults' = faults + 1
  BY DEF CallFails, PollFails
<1>2. ASSUME NEW a \in Actors, CallFails(a)
      PROVE  QueueIsFree' /\ SendsCounted'
  <2>0. act[a] \in ActorStates /\ act \in [Actors -> ActorStates]
    BY DEF IInv, KInv, TypeInv, TypeOK
  <2>1. CASE Goto(a, "retryAbort") /\ act[a].pc \in {"retrying", "retryClaimed"}
    <3> DEFINE g == [act[a] EXCEPT !.pc = "retryAbort"]
    <3>1. g.pc = "retryAbort" /\ g.out = act[a].out
      BY <2>0 DEF ActorStates
    <3>2. act' = [act EXCEPT ![a] = g]
      BY <2>1 DEF Goto
    <3> HIDE DEF g
    <3>3. g.pc \notin CheckedPcs /\ g.out # "ok"
      BY <2>1, <3>1 DEF CheckedPcs, RecordPcs, IInv, SendsCounted
    <3> QED
      BY <1>1, <2>0, <3>2, <3>3, FaultPasses
  <2>2. CASE Finish(a)
    <3> DEFINE r == [act[a] EXCEPT !.pc = "release", !.job = NoJob, !.out = "none"]
    <3>1. r.pc = "release" /\ r.out = "none"
      BY <2>0 DEF ActorStates
    <3>2. act' = [act EXCEPT ![a] = r] \/ act' = [act EXCEPT ![a] = Idle]
      BY <2>2 DEF Finish
    <3> HIDE DEF r
    <3>3. /\ r.pc \notin CheckedPcs /\ r.out # "ok"
          /\ Idle.pc \notin CheckedPcs /\ Idle.out # "ok"
      BY <3>1 DEF CheckedPcs, Idle
    <3> QED
      BY <1>1, <2>0, <3>2, <3>3, FaultPasses
  <2>3. CASE act' = [act EXCEPT ![a] = Idle]
    BY <1>1, <2>0, <2>3, FaultPasses DEF CheckedPcs, Idle
  <2>4. CASE act' = [act EXCEPT ![a].pc = "drainRecord", ![a].out = "failed"]
    <3> DEFINE u == [[act[a] EXCEPT !.pc = "drainRecord"] EXCEPT !.out = "failed"]
    <3>1. u.pc = "drainRecord" /\ u.out = "failed"
      BY <2>0 DEF ActorStates
    <3>2. act' = [act EXCEPT ![a] = u]
      BY <2>4, <2>0
    <3> HIDE DEF u
    <3>3. u.pc \notin CheckedPcs /\ u.out # "ok"
      BY <3>1 DEF CheckedPcs
    <3> QED
      BY <1>1, <2>0, <3>2, <3>3, FaultPasses
  <2> QED
    BY <1>2, <2>1, <2>2, <2>3, <2>4 DEF CallFails
<1>3. ASSUME NEW q \in Pollers, PollFails(q)
      PROVE  QueueIsFree' /\ SendsCounted'
  BY <1>1, <1>3, FaultPasses DEF PollFails
<1> QED
  BY <1>2, <1>3

LEMMA InvInit == Init => IInv
<1> SUFFICES ASSUME Init PROVE IInv
  OBVIOUS
<1>1. QueueIsFree
  BY DEF Init, QueueIsFree, Idle, CheckedPcs
<1>2. SendsCounted
  BY BoundsAssumption DEF Init, SendsCounted, Idle
<1> QED
  BY <1>1, <1>2, KeptInit DEF IInv

LEMMA InvNext == Timely /\ IInv /\ [Next]_vars => IInv'
<1> SUFFICES ASSUME Timely, IInv, [Next]_vars PROVE IInv'
  OBVIOUS
<1>1. KInv'
  BY KeptNext DEF IInv
<1>2. CASE UNCHANGED vars
  BY <1>1, <1>2, QuietStep DEF vars, JobsQuiet, IInv
<1>3. CASE Next
  BY <1>1, <1>3, QuietClerkBegin, QuietClerkStep, QuietDrainStep, QuietSend, QuietPollStep,
     QuietEnvironment, QuietFailure DEF Next, IInv
<1> QED
  BY <1>2, <1>3

(* A ticket comes out at most once more than something broke, whatever     *)
(* recoveries, drains and retries did about it: a process died, a call of  *)
(* the database failed, or a printer printed and did not answer.           *)
THEOREM DuplicatesNeedFaults == Timely => (Spec => []NoDuplicateSend)
<1> SUFFICES ASSUME Timely PROVE Spec => []NoDuplicateSend
  OBVIOUS
<1>1. IInv => NoDuplicateSend
  <2>1. IInv => \A j \in Jobs : sheets[j] <= faults + 1
    BY DEF IInv, SendsCounted
  <2>2. IInv => faults \in Nat /\ \A j \in Jobs : sheets[j] \in Nat
    BY BoundsAssumption DEF IInv, KInv, TypeInv, TypeOK
  <2> QED
    BY <2>1, <2>2 DEF NoDuplicateSend
<1>2. IInv /\ [Next]_vars => IInv'
  BY InvNext
<1> QED
  BY <1>1, <1>2, InvInit, PTL DEF Spec

(* A live or retried ticket never goes out ahead of one a drain claimed.   *)
THEOREM BacklogComesFirst == Timely => (Spec => []SendNeverOvertakesClaimed)
<1> SUFFICES ASSUME Timely PROVE Spec => []SendNeverOvertakesClaimed
  OBVIOUS
<1>1. IInv => SendNeverOvertakesClaimed
  BY DEF IInv, QueueIsFree, CheckedPcs, SendNeverOvertakesClaimed, Actors
<1>2. IInv /\ [Next]_vars => IInv'
  BY InvNext
<1> QED
  BY <1>1, <1>2, InvInit, PTL DEF Spec

-----------------------------------------------------------------------------
(* Action properties.                                                      *)

LEMMA SentKept ==
  ASSUME KInv, [Next]_vars, NEW j \in Jobs, job[j].status = "SENT"
  PROVE  job'[j].status = "SENT"
<1>0. job \in [Jobs -> JobDocs] /\ Clerks \subseteq Actors /\ Drains \subseteq Actors
  BY DEF KInv, TypeInv, TypeOK, Actors
<1>1. \A a \in Actors : act[a].pc \in OwnerPcs => act[a].job # j
  BY Owned DEF ClaimOf
<1>2. RecoveredLive(job[j]) = job[j] /\ ~StaleRetry(job[j]) /\ ~StaleClaim(job[j])
  BY DEF RecoveredLive, StaleLive, StaleRetry, StaleClaim
<1>3. ASSUME NEW c \in Clerks, LiveStep(c)
      PROVE  job'[j] = job[j]
  <2>1. act[c].pc \in OwnerPcs
    BY <1>3 DEF LiveStep, LiveClaim, LiveExists, LiveBacklog, LiveHold, LiveReject,
         LiveRefreshJob, LiveRefreshLease, LiveLost, LiveRecord, OwnerPcs, LivePcs
  <2>2. job' = job \/ \E w : job' = [job EXCEPT ![act[c].job] = w]
    BY <1>3, Zenon DEF LiveStep, LiveClaim, LiveExists, LiveBacklog, LiveHold, LiveReject,
         LiveRefreshJob, LiveRefreshLease, LiveLost, LiveRecord
  <2> QED
    BY <1>0, <1>1, <2>1, <2>2
<1>4. ASSUME NEW c \in Clerks, RetryStep(c)
      PROVE  job'[j] = job[j]
  <2>1. act[c].pc \in OwnerPcs
    BY <1>4 DEF RetryStep, RetryClaim, RetryBacklog, RetryAbort, RetryRecord, OwnerPcs, RetryPcs
  <2>2. job' = job \/ \E w : job' = [job EXCEPT ![act[c].job] = w]
    BY <1>4, Zenon DEF RetryStep, RetryClaim, RetryBacklog, RetryAbort, RetryRecord, RetryAborted
  <2> QED
    BY <1>0, <1>1, <2>1, <2>2
<1>5. ASSUME NEW c \in Clerks, ClerkStep(c)
      PROVE  job'[j] = job[j]
  <2>1. CASE RecoverLive(c)
    BY <1>0, <1>2, <2>1 DEF RecoverLive
  <2>2. CASE HoldUpdate(c)
    BY <2>2 DEF HoldUpdate
  <2>3. CASE AdminCheck(c) \/ AdminApply(c)
    BY <2>3 DEF AdminCheck, AdminApply
  <2> QED
    BY <1>3, <1>4, <1>5, <2>1, <2>2, <2>3 DEF ClerkStep
<1>6. ASSUME NEW c \in Clerks, ClerkBegin(c)
      PROVE  job'[j] = job[j]
  BY <1>0, <1>2, <1>6
  DEF ClerkBegin, LiveCreate, RetryBegin, RecoverRetry, HoldBegin, AdminBegin, AdminToKitchen
<1>7. ASSUME NEW d \in Drains, DrainStep(d)
      PROVE  job'[j] = job[j]
  <2>1. CASE DrainPick(d)
    <3>1. HeldOn(act[d].prn) \subseteq Jobs \ {j}
      BY DEF HeldOn
    <3>2. job' = job \/ \E k \in Jobs \ {j} : \E w : job' = [job EXCEPT ![k] = w]
      BY <2>1, <3>1, Zenon DEF DrainPick, Oldest
    <3> QED
      BY <1>0, <3>2
  <2>2. CASE DrainRecord(d)
    <3>1. act[d].pc \in OwnerPcs
      BY <2>2 DEF DrainRecord, OwnerPcs, OwnPcs
    <3>2. job' = job \/ \E w : job' = [job EXCEPT ![act[d].job] = w]
      BY <2>2, Zenon DEF DrainRecord
    <3> QED
      BY <1>0, <1>1, <3>1, <3>2
  <2> QED
    BY <1>7, <2>1, <2>2 DEF DrainStep, DrainClaim, DrainRefresh, DrainLoad
<1>8. ASSUME NEW a \in Actors,
             \/ SendOk(a) \/ SendFails(a) \/ SendUnanswered(a)
             \/ Release(a) \/ CallFails(a)
      PROVE  job'[j] = job[j]
  BY <1>8 DEF SendOk, SendFails, SendUnanswered, Release, CallFails
<1>9. ASSUME NEW q \in Pollers, PollStep(q)
      PROVE  job'[j] = job[j]
  BY <1>2, <1>9 DEF PollStep, PollRecoverClaims, PollRecoverLive, PollList, PollDone
<1>10. CASE Tick
  BY <1>0, <1>10 DEF Tick, Older, JobDocs
<1>11. CASE Crash \/ UNCHANGED vars \/ \E q \in Pollers : PollFails(q)
  BY <1>11 DEF Crash, vars, PollFails
<1> QED
  BY <1>5, <1>6, <1>7, <1>8, <1>9, <1>10, <1>11 DEF Next

(* No late write, of a retry, a drain or a recovery, takes a ticket out of *)
(* SENT.                                                                   *)
THEOREM SentStays == Timely => (Spec => SentIsFinal)
<1> SUFFICES ASSUME Timely PROVE Spec => SentIsFinal
  OBVIOUS
<1>1. KInv /\ [Next]_vars => [\A j \in Jobs : job[j].status = "SENT" => job'[j].status = "SENT"]_vars
  BY SentKept
<1>2. KInv /\ [Next]_vars => KInv'
  BY KeptNext
<1> QED
  BY <1>1, <1>2, KeptInit, PTL DEF Spec, SentIsFinal

(* A lease with time left changes hands through its holder's release only. *)
(* This one needs no timely holder: a release is guarded by the token.     *)
Yielded(p) == \E a \in Actors : /\ act[a].tok = printer[p].lease
                                /\ act[a].pc = "release" /\ act'[a] = Idle

LEMMA LeaseStep ==
  ASSUME TypeInv, [Next]_vars, NEW p \in Printers,
         printer[p].lease # NoToken, printer[p].lease # printer'[p].lease, printer[p].ttl > 0
  PROVE  Yielded(p)
<1>0. printer \in [Printers -> PrinterDocs] /\ act \in [Actors -> ActorStates]
  BY DEF TypeInv, TypeOK
<1>1. ~LeaseAvailable(p)
  BY DEF LeaseAvailable
<1>2. ASSUME NEW q, NEW t, NEW n, printer' = Claimed(q, t, n), LeaseAvailable(q)
      PROVE  FALSE
  BY <1>0, <1>1, <1>2 DEF Claimed
<1>3. ASSUME NEW q, NEW n, printer' = [printer EXCEPT ![q].ttl = n]
      PROVE  FALSE
  BY <1>0, <1>3 DEF PrinterDocs
<1>4. ASSUME NEW c \in Clerks, ClerkBegin(c)
      PROVE  FALSE
  <2>1. ASSUME NEW q \in Printers, AdminToKitchen(c, q)
        PROVE  FALSE
    BY <1>0, <2>1 DEF AdminToKitchen, PrinterDocs
  <2> QED
    BY <1>2, <1>4, <2>1
   , ZenonT(40) DEF ClerkBegin, LiveCreate, RetryBegin, RecoverRetry, HoldBegin, AdminBegin, Claimable
<1>5. ASSUME NEW c \in Clerks, ClerkStep(c)
      PROVE  FALSE
  <2>1. CASE LiveStep(c)
    BY <1>2, <1>3, <2>1 DEF LiveStep, LiveClaim, LiveExists, LiveBacklog, LiveHold, LiveReject,
         LiveRefreshJob, LiveRefreshLease, LiveLost, LiveRecord, Claimable
  <2>2. CASE RetryStep(c)
    BY <1>2, <2>2 DEF RetryStep, RetryClaim, RetryBacklog, RetryAbort, RetryRecord, Claimable
  <2>3. CASE AdminApply(c)
    BY <1>0, <1>1, <2>3 DEF AdminApply, PrinterDocs
  <2> QED
    BY <1>5, <2>1, <2>2, <2>3 DEF ClerkStep, RecoverLive, HoldUpdate, AdminCheck
<1>6. ASSUME NEW d \in Drains, DrainStep(d)
      PROVE  FALSE
  BY <1>2, <1>3, <1>6 DEF DrainStep, DrainClaim, DrainRefresh, DrainPick, DrainLoad, DrainRecord,
       Claimable
<1>7. ASSUME NEW a \in Actors, Release(a)
      PROVE  Yielded(p)
  BY <1>0, <1>7 DEF Release, Claimed, HoldsLease, Yielded
<1>8. CASE Tick
  BY <1>0, <1>8 DEF Tick, PrinterDocs
<1> QED
  BY <1>4, <1>5, <1>6, <1>7, <1>8
  DEF Next, SendOk, SendFails, SendUnanswered, CallFails, PollFails, PollStep,
      PollRecoverClaims, PollRecoverLive, PollList, PollDone, Crash, vars

(* LeaseIsYielded, printer.ts and print-queue.ts: a live lease is given up  *)
(* by its holder alone, whatever outlives what.                            *)
THEOREM LeasesAreYielded == Spec => LeaseIsYielded
<1>1. TypeInv /\ [Next]_vars =>
        [\A p \in Printers :
           /\ printer[p].lease \notin {NoToken, printer'[p].lease}
           /\ printer[p].ttl > 0
           => \E a \in Actors : /\ act[a].tok = printer[p].lease
                                /\ act[a].pc = "release" /\ act'[a] = Idle]_vars
  BY LeaseStep DEF Yielded
<1> QED
  BY <1>1, TypeInit, TypeNext, PTL DEF Spec, LeaseIsYielded

-----------------------------------------------------------------------------
(* What is reported SENT was acknowledged.  It takes no timely holder: a   *)
(* sender that records late has its acknowledgement all the same.          *)
Silent(s) == s.pc \in RecordPcs => s.out # "ok"
Answered == \A a \in Actors : Silent(act[a]) \/ act[a].job \in confirmed
AnswerInv == Answered /\ SentWasConfirmed

(* A job comes to be SENT by the record of an actor that has an answer.    *)
Reported(j) == \E a \in Actors : act[a].job = j /\ ~Silent(act[a])
JobsReported == \A j \in Jobs : job'[j].status = "SENT" => job[j].status = "SENT" \/ Reported(j)

LEMMA AnswersStay ==
  ASSUME AnswerInv, UNCHANGED confirmed, JobsReported,
         \A a \in Actors : act'[a] = act[a] \/ Silent(act'[a])
  PROVE  AnswerInv'
<1>1. Answered'
  BY DEF AnswerInv, Answered
<1>2. SentWasConfirmed'
  BY DEF AnswerInv, Answered, SentWasConfirmed, JobsReported, Reported
<1> QED
  BY <1>1, <1>2 DEF AnswerInv

(* One actor moves, and writes at most the job it works on.                *)
LEMMA AnswerMoves ==
  ASSUME TypeInv, NEW a \in Actors, NEW t, act' = [act EXCEPT ![a] = t], Silent(t)
  PROVE  \A b \in Actors : act'[b] = act[b] \/ Silent(act'[b])
  BY DEF TypeInv, TypeOK

LEMMA AnswerGoto ==
  ASSUME TypeInv, NEW a \in Actors, NEW pc, Goto(a, pc), pc \notin RecordPcs
  PROVE  \A b \in Actors : act'[b] = act[b] \/ Silent(act'[b])
<1> DEFINE t == [act[a] EXCEPT !.pc = pc]
<1>1. t.pc = pc
  BY DEF TypeInv, TypeOK, ActorStates
<1>2. act' = [act EXCEPT ![a] = t]
  BY DEF Goto
<1> HIDE DEF t
<1> QED
  BY <1>1, <1>2, AnswerMoves DEF Silent

LEMMA AnswerFinish ==
  ASSUME TypeInv, NEW a \in Actors, Finish(a)
  PROVE  \A b \in Actors : act'[b] = act[b] \/ Silent(act'[b])
<1> DEFINE r == [act[a] EXCEPT !.pc = "release", !.job = NoJob, !.out = "none"]
<1>1. r.out = "none" /\ Idle.out = "none"
  BY DEF TypeInv, TypeOK, ActorStates, Idle
<1>2. act' = [act EXCEPT ![a] = r] \/ act' = [act EXCEPT ![a] = Idle]
  BY DEF Finish
<1> HIDE DEF r
<1> QED
  BY <1>1, <1>2, AnswerMoves DEF Silent

LEMMA AnswerWrite ==
  ASSUME TypeInv, NEW j \in Jobs, NEW w, job' = [job EXCEPT ![j] = w],
         w.status = "SENT" => job[j].status = "SENT" \/ Reported(j)
  PROVE  JobsReported
  BY DEF JobsReported, TypeInv, TypeOK

LEMMA AnswerLiveStep ==
  ASSUME TypeInv, AnswerInv, NEW c \in Clerks, LiveStep(c)
  PROVE  AnswerInv'
<1> DEFINE r == job[act[c].job]
<1>0. c \in Actors /\ UNCHANGED confirmed
  BY DEF Actors, LiveStep, LiveClaim, LiveExists, LiveBacklog, LiveHold, LiveReject,
         LiveRefreshJob, LiveRefreshLease, LiveLost, LiveRecord
<1>1. act[c].pc \in LivePcs
  BY DEF LiveStep, LiveClaim, LiveExists, LiveBacklog, LiveHold, LiveReject,
         LiveRefreshJob, LiveRefreshLease, LiveLost, LiveRecord, LivePcs
<1>2. r \in JobDocs /\ act[c].job \in Jobs
  BY <1>0, <1>1 DEF TypeInv, TypeOK, PointsAt, OwnerPcs
<1>3. \A w \in {NoLiveClaim(Failed(r)), Held(r), r} :
         job' = [job EXCEPT ![act[c].job] = w] => JobsReported
  <2>1. NoLiveClaim(Failed(r)).status # "SENT" /\ Held(r).status # "SENT"
    BY <1>2, WriteFields
  <2> QED
    BY <1>2, <2>1, AnswerWrite
<1>4. UNCHANGED job => JobsReported
  BY DEF JobsReported
<1> HIDE DEF r
<1>5. CASE LiveClaim(c)
  <2>1. CASE Claimable(act[c].prn)
    <3> DEFINE t == [act[c] EXCEPT !.pc = "claimed", !.leased = TRUE]
    <3>1. act' = [act EXCEPT ![c] = t]
      BY <1>5, <2>1, Zenon DEF LiveClaim
    <3>2. t.pc = "claimed"
      BY <1>0 DEF TypeInv, TypeOK, ActorStates
    <3> HIDE DEF t
    <3>3. Silent(t)
      BY <3>2 DEF Silent, RecordPcs
    <3> QED
      BY <1>0, <1>4, <1>5, <3>1, <3>3, AnswerMoves, AnswersStay DEF LiveClaim
  <2>2. CASE ~Claimable(act[c].prn)
    BY <1>0, <1>4, <1>5, <2>2, AnswerGoto, AnswersStay DEF LiveClaim, RecordPcs
  <2> QED
    BY <2>1, <2>2
<1>6. CASE LiveExists(c)
  <2>1. CASE Goto(c, "holdBusy") /\ UNCHANGED job
    BY <1>0, <1>4, <2>1, AnswerGoto, AnswersStay DEF RecordPcs
  <2>2. CASE job' = [job EXCEPT ![act[c].job] = NoLiveClaim(Failed(r))] /\ Finish(c)
    BY <1>0, <1>3, <2>2, AnswerFinish, AnswersStay
  <2> QED
    BY <1>6, <2>1, <2>2 DEF LiveExists, r
<1>7. CASE LiveBacklog(c)
  <2>1. PICK pc \in {"holdBacklog", "checked"} : Goto(c, pc)
    BY <1>7 DEF LiveBacklog
  <2> QED
    BY <1>0, <1>4, <1>7, <2>1, AnswerGoto, AnswersStay DEF LiveBacklog, RecordPcs
<1>8. CASE LiveHold(c)
  <2>1. PICK w \in {Held(r), r} : job' = [job EXCEPT ![act[c].job] = w]
    BY <1>8 DEF LiveHold, r
  <2> QED
    BY <1>0, <1>3, <1>8, <2>1, AnswerFinish, AnswersStay DEF LiveHold
<1>9. CASE LiveReject(c) \/ LiveLost(c)
  BY <1>0, <1>3, <1>9, AnswerFinish, AnswersStay DEF LiveReject, LiveLost, r
<1>10. CASE LiveRefreshJob(c)
  <2>1. CASE job' = [job EXCEPT ![act[c].job].live = Lease] /\ Goto(c, "refreshed")
    <3> DEFINE w == [r EXCEPT !.live = Lease]
    <3>1. w.status = r.status
      BY <1>2 DEF JobDocs
    <3>2. job' = [job EXCEPT ![act[c].job] = w]
      BY <2>1 DEF r
    <3> HIDE DEF w
    <3>3. JobsReported
      BY <1>2, <3>1, <3>2, AnswerWrite DEF r
    <3> QED
      BY <1>0, <2>1, <3>3, AnswerGoto, AnswersStay DEF RecordPcs
  <2>2. CASE Goto(c, "lost") /\ UNCHANGED job
    BY <1>0, <1>4, <2>2, AnswerGoto, AnswersStay DEF RecordPcs
  <2> QED
    BY <1>10, <2>1, <2>2 DEF LiveRefreshJob
<1>11. CASE LiveRefreshLease(c)
  <2>1. PICK pc \in {"liveSend", "lost"} : Goto(c, pc)
    BY <1>11 DEF LiveRefreshLease
  <2> QED
    BY <1>0, <1>4, <1>11, <2>1, AnswerGoto, AnswersStay DEF LiveRefreshLease, RecordPcs
<1>12. CASE LiveRecord(c)
  <2>1. CASE act[c].out = "ok"
    <3>1. Reported(act[c].job)
      BY <1>0, <1>12, <2>1 DEF Reported, Silent, RecordPcs, LiveRecord
    <3>2. job' = [job EXCEPT ![act[c].job] = NoLiveClaim(Sent(r))]
      BY <1>12, <2>1 DEF LiveRecord, r
    <3>3. JobsReported
      BY <1>2, <3>1, <3>2, AnswerWrite
    <3> QED
      BY <1>0, <1>12, <3>3, AnswerFinish, AnswersStay DEF LiveRecord
  <2>2. CASE act[c].out # "ok"
    <3>1. PICK w \in {r, NoLiveClaim(Failed(r))} : job' = [job EXCEPT ![act[c].job] = w]
      BY <1>12, <2>2 DEF LiveRecord, r
    <3> QED
      BY <1>0, <1>3, <1>12, <3>1, AnswerFinish, AnswersStay DEF LiveRecord
  <2> QED
    BY <2>1, <2>2
<1> QED
  BY <1>5, <1>6, <1>7, <1>8, <1>9, <1>10, <1>11, <1>12 DEF LiveStep

LEMMA AnswerRetryStep ==
  ASSUME TypeInv, AnswerInv, NEW c \in Clerks, RetryStep(c)
  PROVE  AnswerInv'
<1> DEFINE r == job[act[c].job]
<1>0. c \in Actors /\ UNCHANGED confirmed
  BY DEF Actors, RetryStep, RetryClaim, RetryBacklog, RetryAbort, RetryRecord
<1>1. act[c].pc \in RetryPcs
  BY DEF RetryStep, RetryClaim, RetryBacklog, RetryAbort, RetryRecord, RetryPcs
<1>2. r \in JobDocs /\ act[c].job \in Jobs
  BY <1>0, <1>1 DEF TypeInv, TypeOK, PointsAt, OwnerPcs
<1>3. \A w \in {NoRetryClaim(Failed(r)), r} :
         job' = [job EXCEPT ![act[c].job] = w] => JobsReported
  <2>1. NoRetryClaim(Failed(r)).status # "SENT"
    BY <1>2, WriteFields
  <2> QED
    BY <1>2, <2>1, AnswerWrite
<1>4. UNCHANGED job => JobsReported
  BY DEF JobsReported
<1>5. RetryAborted(c) => JobsReported
  <2> SUFFICES ASSUME RetryAborted(c) PROVE JobsReported
    OBVIOUS
  <2>1. PICK w \in {NoRetryClaim(Failed(r)), r} : job' = [job EXCEPT ![act[c].job] = w]
    BY DEF RetryAborted
  <2> QED
    BY <1>3, <2>1
<1> HIDE DEF r
<1>6. CASE RetryClaim(c)
  <2>1. CASE Claimable(act[c].prn)
    <3> DEFINE t == [act[c] EXCEPT !.pc = "retryClaimed", !.leased = TRUE]
    <3>1. act' = [act EXCEPT ![c] = t]
      BY <1>6, <2>1, Zenon DEF RetryClaim
    <3>2. t.pc = "retryClaimed"
      BY <1>0 DEF TypeInv, TypeOK, ActorStates
    <3> HIDE DEF t
    <3>3. Silent(t)
      BY <3>2 DEF Silent, RecordPcs
    <3> QED
      BY <1>0, <1>4, <1>6, <3>1, <3>3, AnswerMoves, AnswersStay DEF RetryClaim
  <2>2. CASE ~Claimable(act[c].prn)
    BY <1>0, <1>4, <1>6, <2>2, AnswerGoto, AnswersStay DEF RetryClaim, RecordPcs
  <2> QED
    BY <2>1, <2>2
<1>7. CASE RetryBacklog(c)
  <2>1. PICK pc \in {"retryAbort", "retrySend"} : Goto(c, pc)
    BY <1>7 DEF RetryBacklog
  <2> QED
    BY <1>0, <1>4, <1>7, <2>1, AnswerGoto, AnswersStay DEF RetryBacklog, RecordPcs
<1>8. CASE RetryAbort(c)
  BY <1>0, <1>5, <1>8, AnswerFinish, AnswersStay DEF RetryAbort
<1>9. CASE RetryRecord(c)
  <2>1. CASE act[c].out = "ok"
    <3>1. Reported(act[c].job)
      BY <1>0, <1>9, <2>1 DEF Reported, Silent, RecordPcs, RetryRecord
    <3>2. job' = [job EXCEPT ![act[c].job] = NoRetryClaim(Sent(r))]
      BY <1>9, <2>1 DEF RetryRecord, r
    <3>3. JobsReported
      BY <1>2, <3>1, <3>2, AnswerWrite
    <3> QED
      BY <1>0, <1>9, <3>3, AnswerFinish, AnswersStay DEF RetryRecord
  <2>2. CASE act[c].out # "ok"
    <3>1. RetryAborted(c) \/ job' = [job EXCEPT ![act[c].job] = NoRetryClaim(Failed(r))]
      BY <1>9, <2>2 DEF RetryRecord, r
    <3> QED
      BY <1>0, <1>3, <1>5, <1>9, <3>1, AnswerFinish, AnswersStay DEF RetryRecord
  <2> QED
    BY <2>1, <2>2
<1> QED
  BY <1>6, <1>7, <1>8, <1>9 DEF RetryStep

LEMMA AnswerClerkStep ==
  ASSUME TypeInv, AnswerInv, NEW c \in Clerks, ClerkStep(c) \/ ClerkBegin(c)
  PROVE  AnswerInv'
<1>0. c \in Actors /\ job \in [Jobs -> JobDocs] /\ act \in [Actors -> ActorStates]
  BY DEF Actors, TypeInv, TypeOK
<1>1. /\ \A r \in JobDocs : /\ RecoveredLive(r).status = "SENT" => r.status = "SENT"
                            /\ NoRetryClaim(Failed(r)).status # "SENT"
                            /\ NoQueueClaim(Held(r)).status # "SENT"
  <2>1. \A r \in JobDocs : NoRetryClaim(Failed(r)).status # "SENT" /\ Held(r).status = "HELD" /\ Held(r) \in JobDocs
    BY WriteFields, JobWrites
  <2>2. \A r \in JobDocs : NoQueueClaim(r).status = r.status
    BY DEF NoQueueClaim, JobDocs
  <2>3. \A r \in JobDocs : RecoveredLive(r).status = "SENT" => r.status = "SENT"
    BY DEF RecoveredLive, JobDocs
  <2> QED
    BY <2>1, <2>2, <2>3
<1>2. UNCHANGED job => JobsReported
  BY DEF JobsReported
<1>3. \A t : t.pc \notin RecordPcs => Silent(t)
  BY DEF Silent
<1>4. \A t : act' = [act EXCEPT ![c] = t] /\ t.pc \notin RecordPcs
             => \A b \in Actors : act'[b] = act[b] \/ Silent(act'[b])
  BY <1>0, <1>3, AnswerMoves
<1>5. CASE RecoverLive(c)
  <2>1. JobsReported
    BY <1>0, <1>1, <1>5 DEF RecoverLive, JobsReported
  <2> QED
    BY <1>4, <1>5, <2>1, AnswersStay DEF RecoverLive, Idle, RecordPcs
<1>6. CASE HoldUpdate(c)
  <2>1. JobsReported
    BY <1>0, <1>1, <1>6 DEF HoldUpdate, JobsReported
  <2> QED
    BY <1>0, <1>6, <2>1, AnswerFinish, AnswersStay DEF HoldUpdate
<1>7. CASE AdminCheck(c)
  <2> DEFINE t == [act[c] EXCEPT !.pc = "adminApply"]
  <2>1. t.pc = "adminApply"
    BY <1>0 DEF ActorStates
  <2>2. act' = [act EXCEPT ![c] = t] \/ act' = [act EXCEPT ![c] = Idle]
    BY <1>7 DEF AdminCheck
  <2> HIDE DEF t
  <2> QED
    BY <1>2, <1>4, <1>7, <2>1, <2>2, AnswersStay DEF AdminCheck, Idle, RecordPcs
<1>8. CASE AdminApply(c)
  BY <1>2, <1>4, <1>8, AnswersStay DEF AdminApply, Idle, RecordPcs
<1>9. ASSUME NEW j \in Jobs, NEW t \in Tokens, LiveCreate(c, j, t)
      PROVE  AnswerInv'
  <2>1. job' = [job EXCEPT ![j] = [job[j] EXCEPT !.status = "QUEUED", !.live = Lease]]
    BY <1>0, <1>9 DEF LiveCreate
  <2>2. [job[j] EXCEPT !.status = "QUEUED", !.live = Lease].status = "QUEUED"
    BY <1>0 DEF JobDocs
  <2>3. JobsReported
    BY <2>1, <2>2, AnswerWrite
  <2> QED
    BY <1>4, <1>9, <2>3, AnswersStay DEF LiveCreate, RecordPcs
<1>10. ASSUME NEW j \in Jobs, NEW t \in Tokens, RetryBegin(c, j, t)
       PROVE  AnswerInv'
  <2> DEFINE w == [job[j] EXCEPT !.status = "QUEUED", !.retry = t, !.retryTtl = Lease]
  <2>1. job' = [job EXCEPT ![j] = w]
    BY <1>0, <1>10 DEF RetryBegin
  <2>2. w.status = "QUEUED"
    BY <1>0 DEF JobDocs
  <2> HIDE DEF w
  <2>3. JobsReported
    BY <2>1, <2>2, AnswerWrite
  <2> QED
    BY <1>4, <1>10, <2>3, AnswersStay DEF RetryBegin, RecordPcs
<1>11. ASSUME NEW j \in Jobs, RecoverRetry(c, j)
       PROVE  AnswerInv'
  <2>1. JobsReported
    BY <1>0, <1>1, <1>11 DEF RecoverRetry, JobsReported
  <2>2. [Idle EXCEPT !.pc = "recoverLive", !.job = j].pc = "recoverLive"
    BY DEF Idle
  <2> QED
    BY <1>4, <1>11, <2>1, <2>2, AnswersStay DEF RecoverRetry, RecordPcs
<1>12. ASSUME NEW p \in Printers, NEW t \in Tokens, HoldBegin(c, p, t)
       PROVE  AnswerInv'
  <2>1. [Idle EXCEPT !.pc = "holding", !.tok = t, !.leased = TRUE, !.prn = p].pc = "holding"
    BY DEF Idle
  <2> QED
    BY <1>2, <1>4, <1>12, <2>1, AnswersStay DEF HoldBegin, RecordPcs
<1>13. ASSUME NEW p \in Printers, AdminBegin(c, p)
       PROVE  AnswerInv'
  <2>1. JobsReported
    BY <1>0, <1>1, <1>13 DEF AdminBegin, JobsReported
  <2>2. [Idle EXCEPT !.pc = "adminCheck", !.prn = p].pc = "adminCheck"
    BY DEF Idle
  <2> QED
    BY <1>4, <1>13, <2>1, <2>2, AnswersStay DEF AdminBegin, RecordPcs
<1>14. ASSUME NEW p \in Printers, AdminToKitchen(c, p)
       PROVE  AnswerInv'
  BY <1>2, <1>14, AnswersStay DEF AdminToKitchen
<1> QED
  BY <1>5, <1>6, <1>7, <1>8, <1>9, <1>10, <1>11, <1>12, <1>13, <1>14, AnswerLiveStep, AnswerRetryStep
  DEF ClerkStep, ClerkBegin

LEMMA AnswerDrainStep ==
  ASSUME TypeInv, AnswerInv, NEW d \in Drains, DrainStep(d)
  PROVE  AnswerInv'
<1> DEFINE r == job[act[d].job]
<1>0. d \in Actors /\ job \in [Jobs -> JobDocs] /\ act[d] \in ActorStates /\ UNCHANGED confirmed
  BY DEF Actors, TypeInv, TypeOK, DrainStep, DrainClaim, DrainRefresh, DrainPick, DrainLoad, DrainRecord
<1>1. UNCHANGED job => JobsReported
  BY DEF JobsReported
<1>2. ASSUME NEW t \in Tokens, DrainClaim(d, t)
      PROVE  AnswerInv'
  <2>1. CASE Claimable(act[d].prn)
    <3> DEFINE s == [act[d] EXCEPT !.pc = "drainRefresh", !.tok = t, !.leased = TRUE]
    <3>1. act' = [act EXCEPT ![d] = s]
      BY <1>2, <2>1, Zenon DEF DrainClaim
    <3>2. s.pc = "drainRefresh"
      BY <1>0 DEF ActorStates
    <3> HIDE DEF s
    <3>3. Silent(s)
      BY <3>2 DEF Silent, RecordPcs
    <3> QED
      BY <1>0, <1>1, <1>2, <3>1, <3>3, AnswerMoves, AnswersStay DEF DrainClaim
  <2>2. CASE ~Claimable(act[d].prn)
    <3>1. Silent(Idle)
      BY DEF Silent, Idle
    <3> QED
      BY <1>0, <1>1, <1>2, <2>2, <3>1, AnswerMoves, AnswersStay DEF DrainClaim
  <2> QED
    BY <2>1, <2>2
<1>3. CASE DrainRefresh(d)
  <2>1. Goto(d, "drainPick") \/ Finish(d)
    BY <1>3 DEF DrainRefresh
  <2> QED
    BY <1>0, <1>1, <1>3, <2>1, AnswerGoto, AnswerFinish, AnswersStay DEF DrainRefresh, RecordPcs
<1>4. CASE DrainPick(d)
  <2>1. CASE Finish(d) /\ UNCHANGED job
    BY <1>0, <1>1, <2>1, AnswerFinish, AnswersStay
  <2>2. CASE ~(Finish(d) /\ UNCHANGED job)
    <3>1. PICK j \in Jobs :
            /\ job' = [job EXCEPT ![j] = [NoRetryClaim(@) EXCEPT
                  !.status = "QUEUED", !.claim = act[d].tok,
                  !.claimTtl = IF HoldsLease(d) THEN printer[act[d].prn].ttl ELSE 0]]
            /\ act' = [act EXCEPT ![d].pc = "drainLoad", ![d].job = j]
      BY <1>4, <2>2, Zenon DEF DrainPick, Oldest, HeldOn
    <3>2. NoRetryClaim(job[j]) \in JobDocs
      BY <1>0, JobWrites
    <3>3. \A x \in JobDocs : \A k, n : [x EXCEPT !.status = "QUEUED", !.claim = k, !.claimTtl = n].status = "QUEUED"
      BY DEF JobDocs
    <3>4. JobsReported
      BY <3>1, <3>2, <3>3, AnswerWrite
    <3> DEFINE s == [act[d] EXCEPT !.pc = "drainLoad", !.job = j]
    <3>5. act' = [act EXCEPT ![d] = s] /\ s.pc = "drainLoad"
      BY <1>0, <3>1 DEF ActorStates
    <3> HIDE DEF s
    <3>6. Silent(s)
      BY <3>5 DEF Silent, RecordPcs
    <3> QED
      BY <1>0, <3>4, <3>5, <3>6, AnswerMoves, AnswersStay
  <2> QED
    BY <2>1, <2>2
<1>5. CASE DrainLoad(d)
  <2>1. CASE Goto(d, "drainSend")
    BY <1>0, <1>1, <1>5, <2>1, AnswerGoto, AnswersStay DEF DrainLoad, RecordPcs
  <2>2. CASE act' = [act EXCEPT ![d].pc = "drainRecord", ![d].out = "unusable"]
    <3> DEFINE s == [act[d] EXCEPT !.pc = "drainRecord", !.out = "unusable"]
    <3>1. act' = [act EXCEPT ![d] = s] /\ s.out = "unusable"
      BY <1>0, <2>2 DEF ActorStates
    <3> HIDE DEF s
    <3>2. Silent(s)
      BY <3>1 DEF Silent
    <3> QED
      BY <1>0, <1>1, <1>5, <3>1, <3>2, AnswerMoves, AnswersStay DEF DrainLoad
  <2> QED
    BY <1>5, <2>1, <2>2 DEF DrainLoad
<1>6. CASE DrainRecord(d)
  <2>0. act[d].job \in Jobs /\ r \in JobDocs
    BY <1>0, <1>6 DEF DrainRecord, TypeInv, PointsAt, OwnerPcs, OwnPcs
  <2>1. CASE Finish(d) /\ UNCHANGED job
    BY <1>0, <1>1, <2>1, AnswerFinish, AnswersStay
  <2>2. CASE Finish(d) /\ job' = [job EXCEPT ![act[d].job] = Requeued(r)]
    <3>1. Requeued(r).status # "SENT"
      BY <2>0, WriteFields
    <3> HIDE DEF r
    <3>2. JobsReported
      BY <2>0, <2>2, <3>1, AnswerWrite
    <3> QED
      BY <1>0, <2>2, <3>2, AnswerFinish, AnswersStay
  <2>3. CASE /\ job' = [job EXCEPT ![act[d].job] = IF act[d].out = "ok" THEN DrainSent(r) ELSE DrainFailed(r)]
             /\ act' = [act EXCEPT ![d].pc = "drainRefresh", ![d].job = NoJob, ![d].out = "none"]
    <3> DEFINE s == [act[d] EXCEPT !.pc = "drainRefresh", !.job = NoJob, !.out = "none"]
    <3>1. act' = [act EXCEPT ![d] = s] /\ s.out = "none"
      BY <1>0, <2>3 DEF ActorStates
    <3> HIDE DEF s
    <3>2. act[d].out = "ok" => Reported(act[d].job)
      BY <1>0, <1>6 DEF Reported, Silent, RecordPcs, DrainRecord
    <3>3. DrainFailed(r).status # "SENT"
      BY <2>0, WriteFields
    <3> HIDE DEF r
    <3>4. PICK w : /\ job' = [job EXCEPT ![act[d].job] = w]
                   /\ w = DrainFailed(r) \/ act[d].out = "ok"
      BY <2>3
    <3>5. JobsReported
      BY <2>0, <3>2, <3>3, <3>4, AnswerWrite
    <3> QED
      BY <1>0, <3>1, <3>5, AnswerMoves, AnswersStay DEF Silent
  <2> QED
    BY <1>6, <2>1, <2>2, <2>3 DEF DrainRecord
<1> QED
  BY <1>2, <1>3, <1>4, <1>5, <1>6 DEF DrainStep

LEMMA AnswerSend ==
  ASSUME TypeInv, AnswerInv, NEW a \in Actors,
         SendOk(a) \/ SendFails(a) \/ SendUnanswered(a) \/ Release(a)
  PROVE  AnswerInv'
<1>0. act[a] \in ActorStates /\ UNCHANGED job
  BY DEF TypeInv, TypeOK, SendOk, SendFails, SendUnanswered, Release
<1>1. JobsReported
  BY <1>0 DEF JobsReported
<1>2. CASE SendOk(a)
  <2>1. confirmed' = confirmed \cup {act[a].job}
    BY <1>2 DEF SendOk
  <2>2. SentWasConfirmed'
    BY <1>0, <2>1 DEF AnswerInv, SentWasConfirmed
  <2>3. act'[a].job = act[a].job /\ \A b \in Actors : b # a => act'[b] = act[b]
    BY <1>2 DEF SendOk, Ends, TypeInv, TypeOK, ActorStates
  <2>4. Answered'
    BY <2>1, <2>3 DEF AnswerInv, Answered, Silent
  <2> QED
    BY <2>2, <2>4 DEF AnswerInv
<1>3. CASE SendFails(a) \/ SendUnanswered(a)
  <2>1. PICK o \in {"failed", "throw"} : act' = [act EXCEPT ![a].pc = Recording(@), ![a].out = o]
    BY <1>3 DEF SendFails, SendUnanswered, Ends
  <2> DEFINE s == [act[a] EXCEPT !.pc = Recording(@), !.out = o]
  <2>2. act' = [act EXCEPT ![a] = s] /\ s.out = o
    BY <1>0, <2>1 DEF ActorStates
  <2> HIDE DEF s
  <2>3. Silent(s)
    BY <2>2 DEF Silent
  <2> QED
    BY <1>1, <1>3, <2>2, <2>3, AnswerMoves, AnswersStay DEF SendFails, SendUnanswered
<1>4. CASE Release(a)
  <2>1. Silent(Idle)
    BY DEF Silent, Idle
  <2> QED
    BY <1>1, <1>4, <2>1, AnswerMoves, AnswersStay DEF Release
<1> QED
  BY <1>2, <1>3, <1>4

(* A call that fails leaves its actor with no answer to report.            *)
LEMMA AnswerFailure ==
  ASSUME TypeInv, AnswerInv, NEW a \in Actors, CallFails(a)
  PROVE  AnswerInv'
<1>0. act[a] \in ActorStates /\ UNCHANGED <<job, confirmed>>
  BY DEF TypeInv, TypeOK, CallFails
<1>1. JobsReported
  BY <1>0 DEF JobsReported
<1>2. CASE Goto(a, "retryAbort")
  BY <1>0, <1>1, <1>2, AnswerGoto, AnswersStay DEF RecordPcs
<1>3. CASE Finish(a)
  BY <1>0, <1>1, <1>3, AnswerFinish, AnswersStay
<1>4. CASE act' = [act EXCEPT ![a] = Idle]
  <2>1. Silent(Idle)
    BY DEF Silent, Idle
  <2> QED
    BY <1>0, <1>1, <1>4, <2>1, AnswerMoves, AnswersStay
<1>5. CASE act' = [act EXCEPT ![a].pc = "drainRecord", ![a].out = "failed"]
  <2> DEFINE u == [[act[a] EXCEPT !.pc = "drainRecord"] EXCEPT !.out = "failed"]
  <2>1. u.out = "failed"
    BY <1>0 DEF ActorStates
  <2>2. act' = [act EXCEPT ![a] = u]
    BY <1>5 DEF TypeInv, TypeOK
  <2> HIDE DEF u
  <2>3. Silent(u)
    BY <2>1 DEF Silent
  <2> QED
    BY <1>0, <1>1, <2>2, <2>3, AnswerMoves, AnswersStay
<1> QED
  BY <1>2, <1>3, <1>4, <1>5 DEF CallFails

(* The scheduler's own steps, deaths and the passing of time.              *)
LEMMA AnswerAround ==
  ASSUME TypeInv, AnswerInv,
         (\E q \in Pollers : PollStep(q) \/ PollFails(q)) \/ Crash \/ Tick \/ UNCHANGED vars
  PROVE  AnswerInv'
<1>0. job \in [Jobs -> JobDocs] /\ act \in [Actors -> ActorStates] /\ Clerks \subseteq Actors
  BY DEF TypeInv, TypeOK, Actors
<1>1. \A r \in JobDocs : /\ RecoveredLive(r).status = "SENT" => r.status = "SENT"
                         /\ Requeued(r).status # "SENT" /\ Older(r).status = r.status
  <2>1. \A r \in JobDocs : Requeued(r).status # "SENT"
    BY WriteFields
  <2>2. \A r \in JobDocs : RecoveredLive(r).status = "SENT" => r.status = "SENT"
    BY DEF RecoveredLive, JobDocs
  <2>3. \A r \in JobDocs : Older(r).status = r.status
    BY DEF Older, JobDocs
  <2> QED
    BY <2>1, <2>2, <2>3
<1>2. UNCHANGED confirmed
  BY DEF PollStep, PollRecoverClaims, PollRecoverLive, PollList, PollDone, PollFails,
         Crash, Tick, vars
<1>3. JobsReported
  BY <1>0, <1>1 DEF JobsReported, PollStep, PollRecoverClaims, PollRecoverLive, PollList,
                     PollDone, PollFails, Crash, Tick, vars
<1>4. Silent(Idle) /\ \A p : Silent([Idle EXCEPT !.pc = "drainClaim", !.prn = p])
  BY DEF Silent, Idle
<1>5. \A b \in Actors : act'[b] = act[b] \/ Silent(act'[b])
  <2>1. ASSUME NEW q \in Pollers, PollStep(q)
        PROVE  \A b \in Actors : act'[b] = act[b] \/ Silent(act'[b])
    <3>1. CASE PollList(q)
      <4>1. \A b \in Actors : act'[b] = act[b] \/ act'[b] = [Idle EXCEPT !.pc = "drainClaim", !.prn = b[2]]
        BY <3>1, Zenon DEF PollList
      <4> QED
        BY <1>4, <4>1, Zenon
    <3>2. CASE ~PollList(q)
      BY <2>1, <3>2 DEF PollStep, PollRecoverClaims, PollRecoverLive, PollDone
    <3> QED
      BY <3>1, <3>2
  <2>2. CASE Crash
    <3>1. \A b \in Actors : act'[b] = act[b] \/ act'[b] = Idle
      BY <1>0, <2>2 DEF Crash
    <3> QED
      BY <1>4, <3>1, Zenon
  <2>3. CASE Tick \/ UNCHANGED vars \/ \E q \in Pollers : PollFails(q)
    BY <2>3 DEF Tick, vars, PollFails
  <2> QED
    BY <2>1, <2>2, <2>3
<1> QED
  BY <1>2, <1>3, <1>5, AnswersStay

(* A ticket the screens show as SENT came out of the printer, however late *)
(* the live send, retry or drain that reported it, and whoever had taken   *)
(* its lease or claim meanwhile.                                           *)
THEOREM SentMeansPrinted == Spec => []SentWasConfirmed
<1>1. Init => AnswerInv
  <2> SUFFICES ASSUME Init PROVE AnswerInv
    OBVIOUS
  <2>1. Answered
    BY DEF Init, Answered, Silent, Idle, RecordPcs
  <2>2. SentWasConfirmed
    BY DEF Init, SentWasConfirmed, NewJob
  <2> QED
    BY <2>1, <2>2 DEF AnswerInv
<1>2. TypeInv /\ AnswerInv /\ [Next]_vars => AnswerInv'
  BY AnswerClerkStep, AnswerDrainStep, AnswerSend, AnswerFailure, AnswerAround DEF Next
<1>3. AnswerInv => SentWasConfirmed
  BY DEF AnswerInv
<1> QED
  BY <1>1, <1>2, <1>3, TypeInit, TypeNext, PTL DEF Spec
=============================================================================
