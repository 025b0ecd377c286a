---------------------------- MODULE FailedPrints ----------------------------
(***************************************************************************)
(* Printers that refuse, and what the clerk is told. The sheets of a paid  *)
(* order are sent, each printer's by a lane of its own; those that failed  *)
(* are listed in the message of the register, by printer. From there they  *)
(* are sent again, or left to the queue of the kitchen; the office sends   *)
(* one again from its list of print jobs. What the lanes of many orders do *)
(* to each other is OrderRouting's, leases that run out are PrintQueue's.  *)
(***************************************************************************)
EXTENDS Naturals, FiniteSets, FiniteSetsExt

CONSTANTS
    Slips,       \* the print jobs of the order, numbered as they are created
    Trestles,    \* printers
    clerk, office,
    MaxTries,    \* PRINTER_NOT_REACHABLE_RETRY_DELAYS_MS
    MaxAsks,     \* bound on what the clerk asks for
    MaxLooks,    \* bound on the lists the office loads, and what it asks for
    MaxSwitches, \* bound on printers that go on or off
    MaxFaults,   \* bound on sends, requests and database calls that fail
    NoTrestle

Retriers == {clerk, office}
Hands == Trestles \cup Retriers

ASSUME PrintsAssumption ==
    /\ IsFiniteSet(Slips) /\ Slips \subseteq Nat /\ NoTrestle \notin Hands
    /\ clerk # office /\ Trestles \cap Retriers = {}
    /\ \A n \in {MaxTries, MaxAsks, MaxLooks, MaxSwitches, MaxFaults} : n \in Nat

VARIABLES
    slip,    \* the jobs; out counts sheets on paper, asked who wanted one,
             \* stray those the queue sent and took for failed
    off,     \* printers that refuse connections
    lease,   \* printQueueLease of a printer
    hand,    \* lanes and requests at work
    routed,  \* routeOrderToPrinters
    notice,  \* the message at the register
    listed,  \* the office's list of print jobs
    spree    \* what the bounds have left

printsVars == <<slip, off, lease, hand, routed, notice, listed, spree>>

(* ------------------------------- jobs ---------------------------------- *)

\* A job the sale asks for; its kind tells what the queue takes.
NewSlip(at, kind) ==
    [at |-> at, kind |-> kind, status |-> "NONE", by |-> NoTrestle, out |-> 0, asked |-> 1, stray |-> 0]

SlipsAt(p, kinds) == {s \in Slips : slip[s].at = p /\ slip[s].kind \in kinds}
Unprinted == {s \in Slips : slip[s].status = "FAILED"}

\* The jobs an order may have. A printer of the kitchen prints nothing else,
\* as a register is given a printer for receipts.
Kinds == {"customer", "kitchen", "photo"}
Batches ==
    {batch \in [Slips -> {NewSlip(p, kind) : p \in Trestles, kind \in Kinds}] :
        \A s, t \in Slips : batch[s].at = batch[t].at /\ batch[s].kind = "kitchen"
                           => batch[t].kind = "kitchen"}

\* Jobs of the kitchen in the queue of their printer, and those the queue
\* has sent without that its outcome was written.
Queue(p) == {s \in SlipsAt(p, {"kitchen"}) : slip[s].status = "HELD"}
Backlog(p) == Queue(p) \cup {s \in SlipsAt(p, {"kitchen"}) : slip[s].status = "QUEUED" /\ slip[s].by = NoTrestle}
Blocked(p) == lease[p] # NoTrestle \/ Backlog(p) # {}

(* listFailedPrinterGroups, without its retries that died.                 *)
FailedGroups == {[at |-> p, slips |-> {s \in Unprinted : slip[s].at = p}] :
                   p \in {slip[s].at : s \in Unprinted}}

\* What a lookup tells; it may fail, and then tells of none.
Lookups ==
    {[groups |-> FailedGroups, faults |-> 0]}
    \cup IF spree.faults = 0 THEN {} ELSE {[groups |-> {}, faults |-> 1]}

Spend(field, n) == spree[field] >= n /\ spree' = [spree EXCEPT ![field] = @ - n]

(* ------------------------------ sending -------------------------------- *)

AtRest == [pc |-> "rest", todo |-> {}, tries |-> 0, missed |-> FALSE, groups |-> {}]
Begins(todo, pc) == [AtRest EXCEPT !.todo = todo, !.pc = pc]

PrintsInit(batch, dark) ==
    /\ slip = batch
    /\ off = dark
    /\ lease = [p \in Trestles |-> NoTrestle]
    /\ routed = [pc |-> "sheets", failed |-> FALSE, groups |-> {}]
    /\ hand = [h \in Hands |->
                 IF h \notin Trestles THEN AtRest
                 ELSE LET own == {s \in Slips : batch[s].at = h /\ batch[s].kind # "photo"}
                      IN  IF own = {} THEN AtRest ELSE Begins(own, "take")]
    /\ notice = [open |-> FALSE, busy |-> NoTrestle, said |-> "none", groups |-> {}]
    /\ listed = [failed |-> {}, held |-> {}]
    /\ spree = [asks |-> MaxAsks, looks |-> MaxLooks, switches |-> MaxSwitches, faults |-> MaxFaults]

\* Jobs are taken in the order in which they were created.
JobOf(h) == Min(hand[h].todo)
TrestleOf(h) == slip[JobOf(h)].at
ForKitchen(h) == slip[JobOf(h)].kind = "kitchen"

(* The job of a hand has come to its end. A lane goes on with its next     *)
(* sheet; the clerk's request goes on unless this one failed.              *)
Concludes(h, ok, status, sheets) ==
    LET s == JobOf(h)
        left == IF h \in Trestles \/ ok THEN hand[h].todo \ {s} ELSE {}
        pc == IF left # {} THEN IF h \in Trestles THEN "take" ELSE "claim"
              ELSE IF h = clerk THEN "lookup" ELSE IF h = office THEN "answer" ELSE "rest"
    IN  /\ slip' = [slip EXCEPT ![s].status = status, ![s].by = h, ![s].out = @ + sheets]
        /\ hand' = [hand EXCEPT ![h].todo = left, ![h].tries = 0, ![h].pc = pc, ![h].missed = @ \/ ~ok]
        /\ routed' = [routed EXCEPT !.failed = @ \/ (h \in Trestles /\ ~ok)]
        /\ lease' = [p \in Trestles |-> IF lease[p] = h THEN NoTrestle ELSE lease[p]]

(* printComanda, printRasterImage: the kitchen's sheets go through its     *)
(* lease, behind a backlog into the queue. After a failure the printer is  *)
(* not asked again, but for the photo.                                     *)
SheetIsTaken(p) ==
    /\ hand[p].pc = "take"
    /\ IF ForKitchen(p) /\ Blocked(p) THEN Concludes(p, TRUE, "HELD", 0)
       ELSE IF hand[p].missed THEN Concludes(p, FALSE, "FAILED", 0)
       ELSE /\ slip' = [slip EXCEPT ![JobOf(p)] = [@ EXCEPT !.status = "QUEUED", !.by = p]]
            /\ hand' = [hand EXCEPT ![p].pc = "reach"]
            /\ lease' = [lease EXCEPT ![p] = IF ForKitchen(p) THEN p ELSE @]
            /\ UNCHANGED routed
    /\ UNCHANGED <<off, notice, listed, spree>>

\* retryPrintJobById takes a job that failed.
SlipIsClaimed(h) ==
    /\ h \in Retriers /\ hand[h].pc = "claim"
    /\ IF slip[JobOf(h)].status = "FAILED"
       THEN /\ slip' = [slip EXCEPT ![JobOf(h)].status = "QUEUED", ![JobOf(h)].by = h,
                                    ![JobOf(h)].asked = @ + 1]
            /\ hand' = [hand EXCEPT ![h].pc = IF ForKitchen(h) THEN "lease" ELSE "reach"]
       ELSE /\ hand' = [hand EXCEPT ![h] = [@ EXCEPT !.todo = {}, !.missed = TRUE,
                                             !.pc = IF h = clerk THEN "lookup" ELSE "answer"]]
            /\ UNCHANGED slip
    /\ UNCHANGED <<off, lease, routed, notice, listed, spree>>

\* A sheet for the kitchen waits its turn: the job has failed again.
SlipIsLeased(h) ==
    /\ hand[h].pc = "lease"
    /\ IF Blocked(TrestleOf(h)) THEN Concludes(h, FALSE, "FAILED", 0)
       ELSE /\ lease' = [lease EXCEPT ![TrestleOf(h)] = h]
            /\ hand' = [hand EXCEPT ![h].pc = "reach"]
            /\ UNCHANGED <<slip, routed>>
    /\ UNCHANGED <<off, notice, listed, spree>>

\* Mutant: whatever went wrong, the sheet is sent again.
TriesOnAnyError(why, tries) == tries < MaxTries

(* Only a printer that was not reached is tried again: what else went      *)
(* wrong may have left the sheet on paper.                                 *)
TriesAgain(why, tries) == why = "Printer not reachable" /\ tries < MaxTries

SendFails(h, why, sheets) ==
    IF TriesAgain(why, hand[h].tries)
    THEN /\ hand' = [hand EXCEPT ![h].tries = @ + 1, ![h].pc = "reach"]
         /\ slip' = [slip EXCEPT ![JobOf(h)].out = @ + sheets]
         /\ UNCHANGED <<lease, routed>>
    ELSE Concludes(h, FALSE, "FAILED", sheets)

\* waitForPrinterReachable: it waits for a printer that refuses or is mute.
Reached(h) ==
    /\ hand[h].pc = "reach" /\ TrestleOf(h) \notin off
    /\ hand' = [hand EXCEPT ![h].pc = "send"]
    /\ UNCHANGED <<slip, off, lease, routed, notice, listed, spree>>

NotReached(h) ==
    /\ hand[h].pc = "reach" /\ TrestleOf(h) \in off
    /\ SendFails(h, "Printer not reachable", 0)
    /\ UNCHANGED <<off, notice, listed, spree>>

CheckBreaks(h) ==
    /\ hand[h].pc = "reach"
    /\ SendFails(h, "Printer connection timeout", 0)
    /\ Spend("faults", 1)
    /\ UNCHANGED <<off, notice, listed>>

\* executeWithConnectionRetry
SlipIsSent(h) ==
    /\ hand[h].pc = "send" /\ TrestleOf(h) \notin off
    /\ Concludes(h, TRUE, "SENT", 1)
    /\ UNCHANGED <<off, notice, listed, spree>>

SendIsRefused(h) ==
    /\ hand[h].pc = "send" /\ TrestleOf(h) \in off
    /\ SendFails(h, "Printer not reachable", 0)
    /\ UNCHANGED <<off, notice, listed, spree>>

(* The time is up, or the connection or the drawing breaks. What was sent  *)
(* is not called back: the sheet may be on paper, or come out later.       *)
SendBreaks(h) ==
    /\ hand[h].pc = "send"
    /\ \E why \in {"Printer execution timeout", "Printer execution error"}, sheets \in {0, 1} :
          SendFails(h, why, sheets)
    /\ Spend("faults", 1)
    /\ UNCHANGED <<off, notice, listed>>

(* The write of an outcome fails, which nobody learns of: the job stays    *)
(* QUEUED, whatever became of its sheet.                                   *)
OutcomeIsLost(h) ==
    /\ hand[h].pc = "send"
    /\ \E ok \in BOOLEAN, sheets \in {0, 1} :
        /\ ok => sheets = 1 /\ TrestleOf(h) \notin off
        /\ Concludes(h, ok, "QUEUED", sheets)
    /\ Spend("faults", 1)
    /\ UNCHANGED <<off, notice, listed>>

(* ----------------------------- the queue ------------------------------- *)

\* The worker of the kitchen's queue takes its jobs in order.
Drains(s, status, sheets) ==
    /\ s \in Queue(slip[s].at) /\ lease[slip[s].at] = NoTrestle
    /\ \A t \in Queue(slip[s].at) : s <= t
    /\ slip' = [slip EXCEPT ![s].status = status, ![s].by = NoTrestle, ![s].out = @ + sheets,
                            ![s].stray = IF status = "SENT" THEN @ ELSE @ + sheets]
    /\ UNCHANGED <<off, lease, hand, routed, notice, listed>>

SlipIsDrained(s) ==
    /\ slip[s].at \notin off
    /\ Drains(s, "SENT", 1)
    /\ UNCHANGED spree

(* A send that failed stays in the queue, its sheet on paper or not; one   *)
(* whose outcome cannot be written stays QUEUED. A job that cannot be      *)
(* sent at all, by its document or its printer, is given up.               *)
DrainBreaks(s) ==
    /\ \/ \E status \in {"HELD", "QUEUED"}, sheets \in {0, 1} : Drains(s, status, sheets)
       \/ Drains(s, "FAILED", 0)
    /\ Spend("faults", 1)

(* What stayed QUEUED is found when its claim is old. The queue's go back  *)
(* to the queue; the others, but for a sale's own sheets that are not the  *)
(* kitchen's, have failed.                                                 *)
SlipIsRecovered(s) ==
    /\ slip[s].status = "QUEUED"
    /\ \A h \in Hands : hand[h].pc \in {"lease", "reach", "send"} => JobOf(h) # s
    /\ slip[s].kind = "kitchen" \/ slip[s].by \in Retriers
    /\ slip' = [slip EXCEPT ![s].status = IF slip[s].by = NoTrestle THEN "HELD" ELSE "FAILED",
                            ![s].by = NoTrestle]
    /\ UNCHANGED <<off, lease, hand, routed, notice, listed, spree>>

TrestleSwitches(p) ==
    /\ Spend("switches", 1)
    /\ off' = IF p \in off THEN off \ {p} ELSE off \cup {p}
    /\ UNCHANGED <<slip, lease, hand, routed, notice, listed>>

(* ------------------------- the sale's answer --------------------------- *)

LanesRest == \A p \in Trestles : hand[p].pc = "rest"

\* The photo comes last, whatever became of the sheets.
PhotoFollows ==
    /\ routed.pc = "sheets" /\ LanesRest
    /\ routed' = [routed EXCEPT !.pc = "photo"]
    /\ hand' = [h \in Hands |->
                  IF h \notin Trestles \/ SlipsAt(h, {"photo"}) = {} THEN hand[h]
                  ELSE Begins(SlipsAt(h, {"photo"}), "take")]
    /\ UNCHANGED <<slip, off, lease, notice, listed, spree>>

\* summarizePrintDispatch; the failed jobs are looked up if there are any.
OrderIsRouted ==
    /\ routed.pc = "photo" /\ LanesRest
    /\ IF ~routed.failed
       THEN routed' = [routed EXCEPT !.pc = "done"] /\ UNCHANGED spree
       ELSE \E lookup \in Lookups :
              /\ routed' = [routed EXCEPT !.pc = "told", !.groups = lookup.groups]
              /\ Spend("faults", lookup.faults)
    /\ UNCHANGED <<slip, off, lease, hand, notice, listed>>

\* showFeedbackModal: the payment is booked, but sheets have failed.
NoticeOpens ==
    /\ routed.pc = "told"
    /\ routed' = [routed EXCEPT !.pc = "done", !.groups = {}]
    /\ notice' = [open |-> TRUE, busy |-> NoTrestle, said |-> "failed", groups |-> routed.groups]
    /\ UNCHANGED <<slip, off, lease, hand, listed, spree>>

NoticeIsClosed ==
    /\ notice.open /\ notice.busy = NoTrestle
    /\ notice' = [notice EXCEPT !.open = FALSE]
    /\ UNCHANGED <<slip, off, lease, hand, routed, listed, spree>>

(* ------------------------ the clerk's requests ------------------------- *)

CanHold(g) == \E s \in g.slips : slip[s].kind = "kitchen"

\* A press of a button, for the jobs of one printer: pc is what it asks.
ClerkAsks(g, pc) ==
    /\ notice.open /\ notice.busy = NoTrestle
    /\ pc = "hold" => CanHold(g)
    /\ Spend("asks", 1)
    /\ notice' = [notice EXCEPT !.busy = g.at]
    /\ hand' = [hand EXCEPT ![clerk] = Begins(g.slips, pc)]
    /\ UNCHANGED <<slip, off, lease, routed, listed>>

\* retryFailedOrderPrintJobs: those that are still failed, oldest first.
RetryIsFound ==
    LET todo == hand[clerk].todo \cap Unprinted
    IN  /\ hand[clerk].pc = "retry"
        /\ hand' = [hand EXCEPT ![clerk] = Begins(todo, IF todo = {} THEN "lookup" ELSE "claim")]
        /\ UNCHANGED <<slip, off, lease, routed, notice, listed, spree>>

RetryIsLookedUp ==
    /\ hand[clerk].pc = "lookup"
    /\ \E lookup \in Lookups :
        /\ hand' = [hand EXCEPT ![clerk] = [@ EXCEPT !.pc = "retried", !.groups = lookup.groups]]
        /\ Spend("faults", lookup.faults)
    /\ UNCHANGED <<slip, off, lease, routed, notice, listed>>

\* The asked for jobs that may still join the queue of the kitchen.
Holdable == {s \in hand[clerk].todo \cap Unprinted : slip[s].kind = "kitchen"}

(* holdFailedKitchenPrintJobs: under the lease of their printer, the       *)
(* kitchen's failed jobs join its queue.                                   *)
SlipsAreHeld ==
    /\ hand[clerk].pc = "hold" /\ Holdable # {} /\ lease[notice.busy] = NoTrestle
    /\ slip' = [s \in Slips |-> IF s \in Holdable THEN [slip[s] EXCEPT !.status = "HELD", !.asked = @ + 1]
                                ELSE slip[s]]
    /\ hand' = [hand EXCEPT ![clerk].pc = "heldup"]
    /\ UNCHANGED <<off, lease, routed, notice, listed, spree>>

HoldIsLookedUp ==
    /\ hand[clerk].pc = "heldup"
    /\ \E lookup \in Lookups :
        /\ hand' = [hand EXCEPT ![clerk] = [@ EXCEPT !.pc = "held", !.groups = lookup.groups]]
        /\ Spend("faults", lookup.faults)
    /\ UNCHANGED <<slip, off, lease, routed, notice, listed>>

\* Nothing was held, as a sheet is under way or no job is failed any more.
HoldIsRefused ==
    /\ hand[clerk].pc = "hold"
    /\ lease[notice.busy] # NoTrestle \/ Holdable = {}
    /\ hand' = [hand EXCEPT ![clerk] = AtRest]
    /\ notice' = [notice EXCEPT !.busy = NoTrestle]
    /\ UNCHANGED <<slip, off, lease, routed, listed, spree>>

(* An answer that is an error or is lost: what was done stays done, and    *)
(* the message as it is.                                                   *)
RequestIsLost ==
    /\ hand[clerk].pc \in {"retry", "hold", "retried", "held"}
    /\ hand' = [hand EXCEPT ![clerk] = AtRest]
    /\ notice' = [notice EXCEPT !.busy = NoTrestle]
    /\ Spend("faults", 1)
    /\ UNCHANGED <<slip, off, lease, routed, listed>>

\* The printers that stay in the message when a lookup tells of none.
KeptGroups(groups, p, missed) == IF missed THEN groups ELSE {g \in groups : g.at # p}

\* What the clerk is told now; done is said when no printer is left.
Tells(missed, done) ==
    LET found == hand[clerk].groups
        left == IF found # {} THEN found ELSE KeptGroups(notice.groups, notice.busy, missed)
    IN  /\ notice' = [notice EXCEPT !.busy = NoTrestle, !.groups = left,
                                    !.said = IF left = {} THEN done ELSE "left"]
        /\ hand' = [hand EXCEPT ![clerk] = AtRest]
        /\ UNCHANGED <<slip, off, lease, routed, listed, spree>>

RetryIsAnswered == hand[clerk].pc = "retried" /\ Tells(hand[clerk].missed, "all sent")
HoldIsAnswered == hand[clerk].pc = "held" /\ Tells(FALSE, "in the queue")

(* -------------------------- the office's list -------------------------- *)

\* GET /api/admin/print-jobs: the failed ones, and queues of the kitchen.
ListNow ==
    [failed |-> Unprinted, held |-> {<<p, Cardinality(Queue(p))>> : p \in Trestles}]

OfficePolls ==
    /\ Spend("looks", 1)
    /\ listed' = ListNow
    /\ UNCHANGED <<slip, off, lease, hand, routed, notice>>

\* retrySelectedJob, of a job the list shows as failed.
OfficeAsks(s) ==
    /\ s \in listed.failed /\ hand[office].pc = "rest"
    /\ Spend("looks", 1)
    /\ hand' = [hand EXCEPT ![office] = Begins({s}, "claim")]
    /\ UNCHANGED <<slip, off, lease, routed, notice, listed>>

\* Only a retry that went well loads the list again.
OfficeIsAnswered ==
    /\ hand[office].pc = "answer"
    /\ listed' = IF hand[office].missed THEN listed ELSE ListNow
    /\ hand' = [hand EXCEPT ![office] = AtRest]
    /\ UNCHANGED <<slip, off, lease, routed, notice, spree>>

PrintsNext ==
    \/ \E p \in Trestles : SheetIsTaken(p) \/ TrestleSwitches(p)
    \/ \E h \in Hands :
        \/ SlipIsClaimed(h) \/ SlipIsLeased(h)
        \/ Reached(h) \/ NotReached(h) \/ CheckBreaks(h)
        \/ SlipIsSent(h) \/ SendIsRefused(h) \/ SendBreaks(h) \/ OutcomeIsLost(h)
    \/ \E s \in Slips : SlipIsDrained(s) \/ DrainBreaks(s) \/ SlipIsRecovered(s) \/ OfficeAsks(s)
    \/ \E g \in notice.groups, pc \in {"retry", "hold"} : ClerkAsks(g, pc)
    \/ PhotoFollows \/ OrderIsRouted \/ NoticeOpens \/ NoticeIsClosed
    \/ RetryIsFound \/ RetryIsLookedUp \/ RetryIsAnswered
    \/ SlipsAreHeld \/ HoldIsLookedUp \/ HoldIsAnswered \/ HoldIsRefused \/ RequestIsLost
    \/ OfficePolls \/ OfficeIsAnswered

PrintsSpec(batch, dark) == PrintsInit(batch, dark) /\ [][PrintsNext]_printsVars

(* ----------------------------- properties ------------------------------ *)

(* A job said to be SENT is on paper, and no sheet comes out more often    *)
(* than it was asked for, by the sale or in a request: what may already be *)
(* on paper is sent again on request only, but by the queue, which sends   *)
(* again what it took for failed. While the message is open, a job that    *)
(* the clerk's requests or the sale left FAILED is listed in it, unless    *)
(* its first lookup failed; so all is sent, or in the queue, when it says  *)
(* so. What the office did since, or the queue gave up, is not known to    *)
(* it. (dispatchPrintDocumentWithAutomaticRetry,                           *)
(* handleRetryFailedPrintsFromModal, handleHoldFailedPrintsFromModal)      *)
SheetsAreAccounted ==
    /\ \A s \in Slips :
        /\ slip[s].out <= slip[s].asked + slip[s].stray
        /\ slip[s].status = "SENT" => slip[s].out > 0
    /\ notice.open /\ notice.busy = NoTrestle =>
        \/ notice.said = "failed" /\ notice.groups = {}
        \/ {s \in Unprinted : slip[s].by \notin {office, NoTrestle}} \subseteq UNION {g.slips : g \in notice.groups}

=============================================================================
