------------------------- MODULE FailedPrintsProofs --------------------------
(***************************************************************************)
(* SheetsAreAccounted in every instance of FailedPrints, with any jobs and *)
(* printers, whatever fails, as long as the printers of the kitchen print  *)
(* nothing else (Batches).                                                 *)
(***************************************************************************)
EXTENDS FailedPrints, WellFoundedInduction, TLAPS

(* A set of jobs has a first one.                                          *)
LEMMA LeastJob ==
    ASSUME NEW S, S \subseteq Nat, S # {}
    PROVE  Min(S) \in S
<1>1. PICK x \in S : \A y \in S : ~(<<y, x>> \in OpToRel(<, Nat))
  BY NatLessThanWellFounded, WFMin
<1>2. \A y \in S : ~(y < x)
  <2> SUFFICES ASSUME NEW y \in S, y < x PROVE FALSE
    OBVIOUS
  <2>1. <<y, x>> \in Nat \X Nat /\ <<y, x>>[1] < <<y, x>>[2]
    OBVIOUS
  <2>2. <<y, x>> \in OpToRel(<, Nat)
    BY <2>1 DEF OpToRel
  <2>. QED
    BY <1>1, <2>2
<1>3. \A y \in S : x =< y
  BY <1>2
<1>. QED
  BY <1>1, <1>3 DEF Min

-----------------------------------------------------------------------------
(* Types. Steps at which a hand has a job before it; those at which it has *)
(* made the job its own.                                                   *)
Statuses == {"NONE", "QUEUED", "SENT", "FAILED", "HELD"}
Working == {"lease", "reach", "send"}
LaneSteps == {"rest", "take", "reach", "send"}
OfficeSteps == Working \cup {"rest", "claim", "answer"}
ClerkSteps == Working \cup {"rest", "retry", "claim", "lookup", "retried", "hold", "heldup", "held"}

Groups == [at : Trestles, slips : SUBSET Slips]
AnySlip == [at : Trestles, kind : Kinds, status : Statuses, by : Hands \cup {NoTrestle}, out : Nat, asked : Nat,
             stray : Nat]
AnyHand == [pc : LaneSteps \cup OfficeSteps \cup ClerkSteps, todo : SUBSET Slips, tries : Nat,
            missed : BOOLEAN, groups : SUBSET Groups]

Answers == [pc : {"sheets", "photo", "told", "done"}, failed : BOOLEAN, groups : SUBSET Groups]
Notices == [open : BOOLEAN, busy : Trestles \cup {NoTrestle},
            said : {"none", "failed", "left", "all sent", "in the queue"}, groups : SUBSET Groups]

PrintsTypeOK ==
    /\ slip \in [Slips -> AnySlip] /\ hand \in [Hands -> AnyHand]
    /\ listed.failed \subseteq Slips
    /\ \A p \in Trestles : hand[p].pc \in LaneSteps
    /\ hand[clerk].pc \in ClerkSteps /\ hand[office].pc \in OfficeSteps
    /\ routed \in Answers
    /\ notice \in Notices

(* The kitchen has printers of its own.                                    *)
Apart ==
    \A s, t \in Slips : slip[s].at = slip[t].at /\ slip[s].kind = "kitchen" => slip[t].kind = "kitchen"

(* What is on paper was asked for, or the queue took it for failed; a job  *)
(* that is a hand's own, or waits in the queue, may still come out once. A *)
(* lane holds jobs of its printer, and all but its first are still to be   *)
(* created, as photos are until they follow.                               *)
Fresh(s) == slip[s].status = "NONE"
Own(h, s) == slip[s].status = "QUEUED" /\ slip[s].by = h /\ slip[s].out < slip[s].asked + slip[s].stray

Waits(s) == slip[s].status = "HELD" \/ (slip[s].status = "QUEUED" /\ slip[s].by = NoTrestle)

SheetsOK ==
    \A s \in Slips :
        /\ Waits(s) => slip[s].out < slip[s].asked + slip[s].stray
        /\ slip[s].out <= slip[s].asked + slip[s].stray
        /\ slip[s].status = "SENT" => slip[s].out > 0
        /\ Fresh(s) => slip[s].out = 0 /\ slip[s].asked = 1
        /\ slip[s].kind = "photo" /\ routed.pc = "sheets" => Fresh(s)

HandsOK ==
    /\ \A h \in Hands :
        /\ hand[h].pc \in Working \cup {"take", "claim"} => hand[h].todo # {}
        /\ hand[h].pc \in Working => Own(h, JobOf(h))
    /\ \A p \in Trestles : \A s \in hand[p].todo :
        /\ slip[s].at = p /\ (routed.pc = "sheets" => slip[s].kind # "photo")
        /\ hand[p].pc = "rest" \/ Fresh(s) \/ (s = JobOf(p) /\ hand[p].pc \in Working)

(* The message comes when the lanes are at rest, and is busy as long as    *)
(* the clerk's request is.                                                 *)
NoticeOK ==
    /\ routed.pc \in {"told", "done"} => LanesRest
    /\ notice.open => routed.pc = "done"
    /\ notice.busy # NoTrestle <=> hand[clerk].pc # "rest"
    /\ notice.busy # NoTrestle => notice.open

(* Groups as a lookup tells them: one for each printer, of its jobs.       *)
Told(groups) ==
    /\ \A g \in groups : \A s \in g.slips : slip[s].at = g.at
    /\ \A g, d \in groups : g.at = d.at => g = d

(* The jobs the message is responsible for, and what lists them.           *)
Missing == {s \in Unprinted : slip[s].by \notin {office, NoTrestle}}
Lists(groups) == Missing \subseteq UNION {g.slips : g \in groups}
MissingAt(p) == {s \in Missing : slip[s].at = p}

(* The clerk's request works on jobs of the message, of one printer, and   *)
(* unless a job failed again, on all of them that are missing there.       *)
ClerkOK ==
    LET at == notice.busy  job == hand[clerk]  IN
    /\ Told(notice.groups) /\ Told(routed.groups) /\ Told(job.groups)
    /\ routed.pc = "told" => routed.groups = {} \/ Lists(routed.groups)
    /\ notice.open => \/ Lists(notice.groups)
                      \/ notice.groups = {} /\ notice.said = "failed" /\ at = NoTrestle
    /\ at # NoTrestle => \A s \in job.todo : slip[s].at = at /\ s \in UNION {g.slips : g \in notice.groups}
    /\ job.pc \in Working \cup {"claim"} /\ ~job.missed => MissingAt(at) \subseteq job.todo
    /\ job.pc \in {"retry", "hold"} => MissingAt(at) \subseteq job.todo
    /\ job.pc \in {"lookup", "retried"} /\ ~job.missed => MissingAt(at) = {}
    /\ job.pc \in {"heldup", "held"} => MissingAt(at) = {}
    /\ job.pc \in {"retried", "held"} => job.groups = {} \/ Lists(job.groups)

PrintsInv == PrintsTypeOK /\ Apart /\ SheetsOK /\ HandsOK /\ NoticeOK /\ ClerkOK

-----------------------------------------------------------------------------
(* A hand at work. Its record becomes r, its job d.                        *)
Turns(h, r, d) ==
    LET j == JobOf(h)  job == hand[h]  IN
    /\ job.pc \in Working \cup {"take", "claim"}
    /\ hand' = [hand EXCEPT ![h] = r] /\ slip' = [slip EXCEPT ![j] = d]
    /\ routed' \in Answers /\ routed'.pc = routed.pc /\ routed'.groups = routed.groups
    /\ notice' = notice /\ listed' = listed
    \* the job
    /\ d.at = slip[j].at /\ d.kind = slip[j].kind
    /\ \/ d = slip[j]
       \/ /\ d.by = h /\ d.status # "NONE"
          /\ d.out <= d.asked + d.stray /\ (d.status = "SENT" => d.out > 0)
          /\ d.status = "HELD" => d.out < d.asked + d.stray
          /\ \/ Fresh(j) /\ h \in Trestles
             \/ slip[j].status = "FAILED" \/ Own(h, j)
    \* the hand
    /\ r.groups = job.groups /\ r.todo \subseteq job.todo
    /\ r.pc \in IF h \in Trestles THEN LaneSteps
                ELSE Working \cup {"claim", IF h = clerk THEN "lookup" ELSE "answer"}
    /\ r.pc \in Working => /\ r.todo = job.todo
                           /\ d.status = "QUEUED" /\ d.by = h /\ d.out < d.asked + d.stray
    /\ r.pc \notin Working => j \notin r.todo
    /\ r.pc \in {"take", "claim"} <=> r.todo # {} /\ r.pc \notin Working
    /\ h = clerk /\ ~r.missed => ~job.missed /\ job.todo \subseteq r.todo \cup {j} /\ d.status # "FAILED"

LEMMA JobIsHeld ==
    ASSUME PrintsTypeOK, HandsOK, NEW h \in Hands, hand[h].pc \in Working \cup {"take", "claim"}
    PROVE  JobOf(h) \in hand[h].todo /\ JobOf(h) \in Slips
<1>1. hand[h].todo # {} /\ hand[h].todo \subseteq Slips
  BY DEF PrintsTypeOK, HandsOK, AnyHand
<1>2. JobOf(h) \in hand[h].todo
  BY <1>1, LeastJob, PrintsAssumption DEF JobOf
<1>. QED
  BY <1>1, <1>2

LEMMA TurnsTypes ==
    ASSUME PrintsInv, NEW h \in Hands, NEW r \in AnyHand, NEW d \in AnySlip, Turns(h, r, d)
    PROVE  PrintsTypeOK' /\ Apart'
<1> DEFINE j == JobOf(h)
<1>1. j \in Slips
  BY JobIsHeld DEF PrintsInv, Turns
<1> HIDE DEF j
<1>2. slip' = [slip EXCEPT ![j] = d] /\ hand' = [hand EXCEPT ![h] = r]
  BY DEF Turns, j
<1>3. slip \in [Slips -> AnySlip] /\ hand \in [Hands -> AnyHand]
  BY DEF PrintsInv, PrintsTypeOK
<1>4. slip' \in [Slips -> AnySlip] /\ hand' \in [Hands -> AnyHand]
  BY <1>1, <1>2, <1>3
<1>5. listed'.failed \subseteq Slips /\ routed' \in Answers /\ notice' = notice
  BY DEF PrintsInv, PrintsTypeOK, Turns
<1>6. \A p \in Trestles : hand'[p].pc \in LaneSteps
  BY <1>2, <1>3 DEF PrintsInv, PrintsTypeOK, Turns, Hands
<1>7. clerk \notin Trestles /\ office \notin Trestles /\ clerk # office /\ clerk \in Hands /\ office \in Hands
  BY PrintsAssumption DEF Hands, Retriers
<1>8. hand'[clerk].pc \in ClerkSteps
  <2>1. CASE h = clerk
    <3>1. hand'[clerk] = r
      BY <1>2, <1>3, <1>7, <2>1
    <3>. QED
      BY <3>1, <1>7, <2>1 DEF Turns, ClerkSteps
  <2>2. CASE h # clerk
    BY <1>2, <1>3, <1>7, <2>2 DEF PrintsInv, PrintsTypeOK
  <2>. QED
    BY <2>1, <2>2
<1>9. hand'[office].pc \in OfficeSteps
  <2>1. CASE h = office
    <3>1. hand'[office] = r
      BY <1>2, <1>3, <1>7, <2>1
    <3>. QED
      BY <3>1, <1>7, <2>1 DEF Turns, OfficeSteps
  <2>2. CASE h # office
    BY <1>2, <1>3, <1>7, <2>2 DEF PrintsInv, PrintsTypeOK
  <2>. QED
    BY <2>1, <2>2
<1>10. PrintsTypeOK'
  BY <1>4, <1>5, <1>6, <1>8, <1>9 DEF PrintsInv, PrintsTypeOK
<1>11. \A s \in Slips : slip'[s].at = slip[s].at /\ slip'[s].kind = slip[s].kind
  <2>1. d.at = slip[j].at /\ d.kind = slip[j].kind
    BY DEF Turns, j
  <2>. QED
    BY <1>2, <1>3, <2>1
<1>12. Apart'
  BY <1>11 DEF PrintsInv, Apart
<1>. QED
  BY <1>10, <1>12

(* What a turn does to the jobs and the hands.                             *)
LEMMA TurnsShape ==
    ASSUME PrintsInv, NEW h \in Hands, NEW r \in AnyHand, NEW d \in AnySlip, Turns(h, r, d)
    PROVE  /\ JobOf(h) \in Slips /\ JobOf(h) \in hand[h].todo
           /\ slip'[JobOf(h)] = d /\ \A s \in Slips \ {JobOf(h)} : slip'[s] = slip[s]
           /\ \A s \in Slips : slip'[s].at = slip[s].at /\ slip'[s].kind = slip[s].kind
           /\ hand'[h] = r /\ \A k \in Hands \ {h} : hand'[k] = hand[k]
           /\ r.todo # {} => Min(r.todo) \in r.todo
<1>1. JobOf(h) \in Slips /\ JobOf(h) \in hand[h].todo
  BY JobIsHeld DEF PrintsInv, Turns
<1>2. slip' = [slip EXCEPT ![JobOf(h)] = d] /\ hand' = [hand EXCEPT ![h] = r]
  BY DEF Turns
<1>3. slip \in [Slips -> AnySlip] /\ hand \in [Hands -> AnyHand]
  BY DEF PrintsInv, PrintsTypeOK
<1>4. d.at = slip[JobOf(h)].at /\ d.kind = slip[JobOf(h)].kind
  BY DEF Turns
<1>5. r.todo # {} => Min(r.todo) \in r.todo
  BY LeastJob, PrintsAssumption DEF AnyHand
<1> DEFINE j == JobOf(h)
<1> HIDE DEF j
<1>6. slip'[j] = d /\ \A s \in Slips \ {j} : slip'[s] = slip[s]
  BY <1>1, <1>2, <1>3 DEF j
<1>7. \A s \in Slips : slip'[s].at = slip[s].at /\ slip'[s].kind = slip[s].kind
  BY <1>4, <1>6 DEF j
<1>8. hand'[h] = r /\ \A k \in Hands \ {h} : hand'[k] = hand[k]
  BY <1>2, <1>3
<1>. QED
  BY <1>1, <1>5, <1>6, <1>7, <1>8 DEF j

LEMMA TurnsSheets ==
    ASSUME PrintsInv, NEW h \in Hands, NEW r \in AnyHand, NEW d \in AnySlip, Turns(h, r, d)
    PROVE  SheetsOK'
<1> DEFINE j == JobOf(h)
<1>1. /\ j \in Slips /\ slip'[j] = d /\ \A s \in Slips \ {j} : slip'[s] = slip[s]
      /\ d.kind = slip[j].kind /\ routed'.pc = routed.pc /\ j \in hand[h].todo
  BY TurnsShape DEF Turns
<1>2. \/ d = slip[j]
      \/ /\ d.by = h /\ d.status # "NONE"
         /\ d.out <= d.asked + d.stray /\ (d.status = "SENT" => d.out > 0)
         /\ d.status = "HELD" => d.out < d.asked + d.stray
         /\ Fresh(j) => h \in Trestles
  BY DEF Turns, Own, Fresh
<1>2a. h # NoTrestle
  BY PrintsAssumption
<1>3. h \in Trestles /\ routed.pc = "sheets" => slip[j].kind # "photo"
  BY <1>1 DEF PrintsInv, HandsOK
<1> HIDE DEF j
<1> SUFFICES ASSUME NEW s \in Slips
             PROVE  /\ \/ slip'[s].status = "HELD"
                       \/ slip'[s].status = "QUEUED" /\ slip'[s].by = NoTrestle
                       => slip'[s].out < slip'[s].asked + slip'[s].stray
                    /\ slip'[s].out <= slip'[s].asked + slip'[s].stray
                    /\ slip'[s].status = "SENT" => slip'[s].out > 0
                    /\ slip'[s].status = "NONE" => slip'[s].out = 0 /\ slip'[s].asked = 1
                    /\ slip'[s].kind = "photo" /\ routed'.pc = "sheets" => slip'[s].status = "NONE"
  BY DEF SheetsOK, Fresh, Waits
<1>4. SheetsOK
  BY DEF PrintsInv
<1>5. CASE s # j \/ d = slip[j]
  BY <1>1, <1>4, <1>5 DEF SheetsOK, Fresh, Waits
<1>6. CASE s = j /\ d # slip[j]
  BY <1>1, <1>2, <1>2a, <1>3, <1>4, <1>6 DEF SheetsOK, Fresh
<1>. QED
  BY <1>5, <1>6

LEMMA TurnsHands ==
    ASSUME PrintsInv, NEW h \in Hands, NEW r \in AnyHand, NEW d \in AnySlip, Turns(h, r, d)
    PROVE  HandsOK'
<1> DEFINE j == JobOf(h)
<1>1. /\ j \in Slips /\ slip'[j] = d /\ \A s \in Slips \ {j} : slip'[s] = slip[s]
      /\ \A s \in Slips : slip'[s].at = slip[s].at /\ slip'[s].kind = slip[s].kind
      /\ hand'[h] = r /\ \A k \in Hands \ {h} : hand'[k] = hand[k]
      /\ j \in hand[h].todo
  BY TurnsShape
<1>2. d = slip[j] \/ (Fresh(j) /\ h \in Trestles) \/ slip[j].status = "FAILED" \/ Own(h, j)
  BY DEF Turns, Own, Fresh
<1>3. /\ r.todo \subseteq hand[h].todo
      /\ r.pc \in Working => r.todo = hand[h].todo /\ d.status = "QUEUED" /\ d.by = h /\ d.out < d.asked + d.stray
      /\ r.pc \notin Working => j \notin r.todo
      /\ r.pc \in {"take", "claim"} => r.todo # {}
      /\ hand[h].pc \in Working \cup {"take", "claim"}
  BY DEF Turns
<1>4. (h \in Trestles => r.pc \in LaneSteps) /\ routed'.pc = routed.pc
  BY DEF Turns
<1> DEFINE first(k) == Min(hand'[k].todo)
<1>5. \A k \in Hands : JobOf(k)' = first(k)
  BY DEF JobOf
<1>6. first(h) = Min(r.todo) /\ j = Min(hand[h].todo)
  BY <1>1 DEF JobOf
<1> HIDE DEF j, first
<1>7. HandsOK
  BY DEF PrintsInv
<1>8. ASSUME NEW k \in Hands
      PROVE  /\ hand'[k].pc \in Working \cup {"take", "claim"} => hand'[k].todo # {}
             /\ hand'[k].pc \in Working => /\ slip'[first(k)].status = "QUEUED" /\ slip'[first(k)].by = k
                                           /\ slip'[first(k)].out < slip'[first(k)].asked + slip'[first(k)].stray
  <2>1. CASE k = h
    BY <1>1, <1>3, <1>6, <2>1
  <2>2. CASE k # h
    <3>1. hand'[k] = hand[k]
      BY <1>1, <2>2
    <3>2. first(k) = JobOf(k)
      BY <3>1 DEF first, JobOf
    <3>3. hand'[k].pc \in Working \cup {"take", "claim"} => hand'[k].todo # {}
      BY <1>7, <3>1 DEF HandsOK
    <3>4. ASSUME hand'[k].pc \in Working
          PROVE  /\ slip'[first(k)].status = "QUEUED" /\ slip'[first(k)].by = k
                 /\ slip'[first(k)].out < slip'[first(k)].asked + slip'[first(k)].stray
      <4>1. Own(k, JobOf(k)) /\ JobOf(k) \in Slips
        BY <1>7, <3>1, <3>4, JobIsHeld DEF HandsOK, PrintsInv
      <4>2. CASE JobOf(k) = j /\ d # slip[j]
        BY <1>2, <2>2, <4>1, <4>2 DEF Own, Fresh
      <4>3. CASE JobOf(k) # j \/ d = slip[j]
        BY <1>1, <3>2, <4>1, <4>3 DEF Own
      <4>. QED
        BY <4>2, <4>3
    <3>. QED
      BY <3>3, <3>4
  <2>. QED
    BY <2>1, <2>2
<1>9. ASSUME NEW p \in Trestles, NEW s \in hand'[p].todo
      PROVE  /\ slip'[s].at = p /\ (routed'.pc = "sheets" => slip'[s].kind # "photo")
             /\ hand'[p].pc = "rest" \/ slip'[s].status = "NONE" \/ (s = first(p) /\ hand'[p].pc \in Working)
  <2>1. p \in Hands /\ s \in hand[p].todo /\ s \in Slips
    BY <1>1, <1>3, <1>9 DEF Hands, PrintsInv, PrintsTypeOK, AnyHand
  <2>2. slip'[s].at = p /\ (routed'.pc = "sheets" => slip'[s].kind # "photo")
    BY <1>1, <1>4, <1>7, <2>1 DEF HandsOK
  <2>3. hand[p].pc = "rest" \/ Fresh(s) \/ (s = JobOf(p) /\ hand[p].pc \in Working)
    BY <1>7, <2>1 DEF HandsOK
  <2>4. CASE p = h
    <3>1. Fresh(s) \/ s = j
      BY <1>3, <2>3, <2>4 DEF Working, j
    <3>2. CASE s # j
      BY <2>1, <2>2, <1>1, <3>1, <3>2 DEF Fresh
    <3>3. CASE s = j
      <4>1. hand'[h].pc \in Working /\ r.todo = hand[h].todo
        BY <1>1, <1>3, <1>9, <2>4, <3>3
      <4>. QED
        BY <2>1, <2>2, <1>6, <2>4, <3>3, <4>1, <1>1
    <3>. QED
      BY <2>2, <3>2, <3>3
  <2>5. CASE p # h
    <3>1. hand'[p] = hand[p] /\ first(p) = JobOf(p)
      BY <1>1, <2>1, <2>5 DEF first, JobOf
    <3>2. CASE s # j \/ d = slip[j]
      BY <1>1, <2>1, <2>2, <2>3, <3>1, <3>2 DEF Fresh
    <3>3. CASE s = j /\ d # slip[j]
      <4>1. h \in Trestles => slip[j].at = h
        BY <1>1, <1>7 DEF HandsOK
      <4>2. slip[j].at = p
        BY <1>7, <2>1, <3>3 DEF HandsOK
      <4>3. h \notin Trestles /\ ~Fresh(j)
        BY <1>2, <2>5, <3>3, <4>1, <4>2 DEF Own, Fresh
      <4>4. hand[p].pc \in Working => Own(p, JobOf(p))
        BY <1>7, <2>1 DEF HandsOK
      <4>. QED
        BY <1>2, <2>2, <2>3, <2>5, <3>1, <3>3, <4>3, <4>4 DEF Own, Fresh
    <3>. QED
      BY <3>2, <3>3
  <2>. QED
    BY <2>4, <2>5
<1>. QED
  BY <1>5, <1>8, <1>9 DEF HandsOK, Own, Fresh, Hands

LEMMA TurnsNotice ==
    ASSUME PrintsInv, NEW h \in Hands, NEW r \in AnyHand, NEW d \in AnySlip, Turns(h, r, d)
    PROVE  NoticeOK' /\ (h \in Trestles => routed.pc \notin {"told", "done"})
<1>1. hand'[h] = r /\ \A k \in Hands \ {h} : hand'[k] = hand[k]
  BY TurnsShape
<1>2. notice' = notice /\ routed'.pc = routed.pc /\ hand[h].pc # "rest"
  BY DEF Turns, Working
<1>3. Trestles \subseteq Hands /\ clerk \in Hands /\ clerk \notin Trestles /\ office # clerk
  BY PrintsAssumption DEF Hands, Retriers
<1>4. h = clerk => r.pc # "rest"
  BY <1>3 DEF Turns, Working
<1>5. NoticeOK
  BY DEF PrintsInv
<1>6. h \in Trestles => routed.pc \notin {"told", "done"}
  BY <1>2, <1>5 DEF NoticeOK, LanesRest
<1>7. routed'.pc \in {"told", "done"} => LanesRest'
  BY <1>1, <1>2, <1>3, <1>5, <1>6 DEF NoticeOK, LanesRest
<1>8. notice.busy # NoTrestle <=> hand'[clerk].pc # "rest"
  <2>1. CASE h = clerk
    BY <1>1, <1>2, <1>4, <1>5, <2>1 DEF NoticeOK
  <2>2. CASE h # clerk
    BY <1>1, <1>3, <1>5, <2>2 DEF NoticeOK
  <2>. QED
    BY <2>1, <2>2
<1>9. (notice.open => routed.pc = "done") /\ (notice.busy # NoTrestle => notice.open)
  BY <1>5 DEF NoticeOK
<1>. QED
  BY <1>2, <1>6, <1>7, <1>8, <1>9 DEF NoticeOK

LEMMA ToldStays ==
    ASSUME \A s \in Slips : slip'[s].at = slip[s].at, NEW groups \in SUBSET Groups, Told(groups)
    PROVE  /\ \A g \in groups : \A s \in g.slips : slip'[s].at = g.at
           /\ \A g, e \in groups : g.at = e.at => g = e
BY DEF Told, Groups

(* What is missing never grows but by a job that fails again.              *)
LEMMA TurnsMissing ==
    ASSUME PrintsInv, NEW h \in Hands, NEW r \in AnyHand, NEW d \in AnySlip, Turns(h, r, d)
    PROVE  /\ h # office /\ d.status = "FAILED" => Missing' \subseteq Missing \cup {JobOf(h)}
           /\ d.status # "FAILED" => Missing' \subseteq Missing \ {JobOf(h)}
           /\ h = office => Missing' \subseteq Missing
<1> DEFINE j == JobOf(h)
<1>1. /\ j \in Slips /\ slip'[j] = d /\ \A s \in Slips \ {j} : slip'[s] = slip[s]
      /\ \A s \in Slips : slip'[s].at = slip[s].at
  BY TurnsShape
<1>2. d = slip[j] \/ d.by = h
  BY DEF Turns
<1> HIDE DEF j
<1>3. Missing' = {s \in Slips : slip'[s].status = "FAILED" /\ slip'[s].by \notin {office, NoTrestle}}
  BY DEF Missing, Unprinted
<1>4. Missing = {s \in Slips : slip[s].status = "FAILED" /\ slip[s].by \notin {office, NoTrestle}}
  BY DEF Missing, Unprinted
<1>5. Missing' \subseteq Missing \cup {j} /\ (d.status # "FAILED" => j \notin Missing')
  BY <1>1, <1>3, <1>4
<1>6. h = office => Missing' \subseteq Missing
  BY <1>1, <1>2, <1>3, <1>4
<1>. QED
  BY <1>5, <1>6 DEF j

LEMMA TurnsClerk ==
    ASSUME PrintsInv, NEW h \in Hands, NEW r \in AnyHand, NEW d \in AnySlip, Turns(h, r, d)
    PROVE  ClerkOK'
<1> DEFINE j == JobOf(h)  at == notice.busy  job == hand[clerk]  next == hand'[clerk]
           listed_(groups) == Missing' \subseteq UNION {g.slips : g \in groups}
           gone == {s \in Missing' : slip[s].at = at}
<1>1. /\ j \in Slips /\ slip'[j] = d /\ \A s \in Slips : slip'[s].at = slip[s].at
      /\ hand'[h] = r /\ \A k \in Hands \ {h} : hand'[k] = hand[k]
      /\ j \in hand[h].todo
  BY TurnsShape
<1>2. notice' = notice /\ routed'.pc = routed.pc /\ routed'.groups = routed.groups /\ r.groups = hand[h].groups
  BY DEF Turns
<1>3. clerk \in Hands /\ office \in Hands /\ clerk \notin Trestles /\ office \notin Trestles /\ clerk # office
  BY PrintsAssumption DEF Hands, Retriers
<1>4. ClerkOK /\ NoticeOK /\ PrintsTypeOK
  BY DEF PrintsInv
<1>5. next.groups = job.groups
  BY <1>1, <1>2, <1>3
<1>6. Told(notice.groups)' /\ Told(routed.groups)' /\ Told(hand[clerk].groups)'
  <2>1. notice.groups \subseteq Groups /\ routed.groups \subseteq Groups /\ job.groups \subseteq Groups
    BY <1>3, <1>4 DEF PrintsTypeOK, Answers, Notices, AnyHand
  <2>2. Told(notice.groups) /\ Told(routed.groups) /\ Told(job.groups)
    BY <1>4 DEF ClerkOK
  <2>3. \A groups \in SUBSET Groups : Told(groups) =>
            /\ \A g \in groups : \A s \in g.slips : slip'[s].at = g.at
            /\ \A g, e \in groups : g.at = e.at => g = e
    BY <1>1, ToldStays
  <2>4. /\ \A g \in notice.groups \cup routed.groups \cup job.groups : \A s \in g.slips : slip'[s].at = g.at
        /\ \A groups \in {notice.groups, routed.groups, job.groups} :
              \A g, e \in groups : g.at = e.at => g = e
    BY <2>1, <2>2, <2>3
  <2> HIDE DEF job, next
  <2>5. Told(notice.groups)' /\ Told(routed.groups)'
    BY <1>2, <2>4 DEF Told
  <2>6. Told(hand[clerk].groups)'
    BY <1>5, <2>4 DEF Told, next
  <2>. QED
    BY <2>5, <2>6
<1>7. /\ h # office /\ d.status = "FAILED" => Missing' \subseteq Missing \cup {j}
      /\ d.status # "FAILED" => Missing' \subseteq Missing \ {j}
      /\ h = office => Missing' \subseteq Missing
  BY TurnsMissing
<1>8. \A p : MissingAt(p) = {s \in Missing : slip[s].at = p}
  BY DEF MissingAt
<1>8a. MissingAt(notice.busy)' = gone
  BY <1>1, <1>2 DEF MissingAt, Missing, Unprinted
<1> HIDE DEF j
<1> SUFFICES /\ routed.pc = "told" => routed.groups = {} \/ listed_(routed.groups)
             /\ notice.open => \/ listed_(notice.groups)
                               \/ notice.groups = {} /\ notice.said = "failed" /\ at = NoTrestle
             /\ at # NoTrestle => \A s \in next.todo :
                                     slip[s].at = at /\ s \in UNION {g.slips : g \in notice.groups}
             /\ next.pc \in Working \cup {"claim"} /\ ~next.missed => gone \subseteq next.todo
             /\ next.pc \in {"retry", "hold"} => gone \subseteq next.todo
             /\ next.pc \in {"lookup", "retried"} /\ ~next.missed => gone = {}
             /\ next.pc \in {"heldup", "held"} => gone = {}
             /\ next.pc \in {"retried", "held"} => job.groups = {} \/ listed_(job.groups)
  <2>1. \A s \in next.todo : slip'[s].at = slip[s].at
    BY <1>1, <1>3, <1>4 DEF PrintsTypeOK, AnyHand
  <2>. QED
    BY <1>2, <1>5, <1>6, <1>8a, <2>1 DEF ClerkOK, Lists
\* A lane is at work before there is a message.
<1>9. CASE h \in Trestles
  <2>1. routed.pc \notin {"told", "done"}
    BY <1>9, TurnsNotice
  <2>2. ~notice.open /\ at = NoTrestle /\ job.pc = "rest"
    BY <1>4, <2>1 DEF NoticeOK
  <2>3. next = job
    BY <1>1, <1>3, <1>9
  <2>. QED
    BY <2>1, <2>2, <2>3 DEF Working
<1>10. CASE h = office
  <2>1. next = job /\ Missing' \subseteq Missing
    BY <1>1, <1>3, <1>7, <1>8, <1>10
  <2>2. \A groups : Lists(groups) => listed_(groups)
    BY <2>1 DEF Lists
  <2>3. at # NoTrestle => \A s \in job.todo : slip[s].at = at /\ s \in UNION {g.slips : g \in notice.groups}
    BY <1>4 DEF ClerkOK
  <2>4. /\ routed.pc = "told" => routed.groups = {} \/ Lists(routed.groups)
        /\ notice.open => \/ Lists(notice.groups)
                          \/ notice.groups = {} /\ notice.said = "failed" /\ at = NoTrestle
        /\ job.pc \in Working \cup {"claim"} /\ ~job.missed => MissingAt(at) \subseteq job.todo
        /\ job.pc \in {"retry", "hold"} => MissingAt(at) \subseteq job.todo
        /\ job.pc \in {"lookup", "retried"} /\ ~job.missed => MissingAt(at) = {}
        /\ job.pc \in {"heldup", "held"} => MissingAt(at) = {}
        /\ job.pc \in {"retried", "held"} => job.groups = {} \/ Lists(job.groups)
    BY <1>4 DEF ClerkOK
  <2>5. gone \subseteq MissingAt(at)
    BY <1>8, <2>1
  <2> HIDE DEF listed_
  <2>. QED
    BY <2>1, <2>2, <2>3, <2>4, <2>5
<1>11. CASE h = clerk
  <2>1. next = r /\ job.pc \in Working \cup {"claim"} /\ r.pc \in Working \cup {"claim", "lookup"}
    <3>1. next = r
      BY <1>1, <1>11
    <3>2. job.pc \in Working \cup {"take", "claim"} /\ r.pc \in Working \cup {"claim", "lookup"}
      BY <1>3, <1>11 DEF Turns
    <3>3. job.pc \in ClerkSteps
      BY <1>4 DEF PrintsTypeOK
    <3>. QED
      BY <3>1, <3>2, <3>3 DEF ClerkSteps, Working
  <2>2. at # NoTrestle /\ notice.open /\ routed.pc = "done"
    BY <1>4, <2>1 DEF NoticeOK, Working
  <2>3. \A s \in job.todo : slip[s].at = at /\ s \in UNION {g.slips : g \in notice.groups}
    BY <1>4, <2>2 DEF ClerkOK
  <2>4. r.todo \subseteq job.todo /\ j \in job.todo
    BY <1>1, <1>11 DEF Turns
  <2>5. Lists(notice.groups)
    BY <1>4, <2>2 DEF ClerkOK
  <2>6. listed_(notice.groups)
    BY <1>3, <1>7, <1>11, <2>3, <2>4, <2>5 DEF Lists
  <2>7. ASSUME ~r.missed PROVE gone \subseteq r.todo
    <3>1. ~job.missed /\ job.todo \subseteq r.todo \cup {j} /\ d.status # "FAILED"
      BY <1>11, <2>7 DEF Turns, j
    <3>2. MissingAt(at) \subseteq job.todo
      BY <1>4, <2>1, <3>1 DEF ClerkOK
    <3>. QED
      BY <1>7, <1>8, <3>1, <3>2
  <2>8. r.pc = "lookup" => r.todo = {}
    BY <1>11, <1>3 DEF Turns, Working
  <2>. QED
    BY <2>1, <2>2, <2>3, <2>4, <2>6, <2>7, <2>8 DEF Working
<1>. QED
  BY <1>9, <1>10, <1>11 DEF Hands, Retriers

LEMMA TurnsInv ==
    ASSUME PrintsInv, NEW h \in Hands, NEW r \in AnyHand, NEW d \in AnySlip, Turns(h, r, d)
    PROVE  PrintsInv'
BY TurnsTypes, TurnsSheets, TurnsHands, TurnsNotice, TurnsClerk DEF PrintsInv

-----------------------------------------------------------------------------
(* Each step of a hand at work is a turn.                                  *)
LEMMA ConcludesTurns ==
    ASSUME PrintsInv, NEW h \in Hands, NEW ok \in BOOLEAN, NEW status \in {"SENT", "FAILED", "HELD", "QUEUED"},
           NEW sheets \in {0, 1}, Concludes(h, ok, status, sheets), notice' = notice, listed' = listed,
           \/ h \in Trestles /\ hand[h].pc = "take" /\ sheets = 0 /\ status # "SENT"
           \/ hand[h].pc \in Working /\ status # "HELD" /\ (status = "SENT" => sheets = 1),
           ok => status # "FAILED"
    PROVE  PrintsInv'
<1> DEFINE s == JobOf(h)
           left == IF h \in Trestles \/ ok THEN hand[h].todo \ {s} ELSE {}
           pc == IF left # {} THEN IF h \in Trestles THEN "take" ELSE "claim"
                 ELSE IF h = clerk THEN "lookup" ELSE IF h = office THEN "answer" ELSE "rest"
           r == [hand[h] EXCEPT !.todo = left, !.tries = 0, !.pc = pc, !.missed = @ \/ ~ok]
           d == [slip[s] EXCEPT !.status = status, !.by = h, !.out = @ + sheets]
<1>1. slip \in [Slips -> AnySlip] /\ hand \in [Hands -> AnyHand] /\ routed \in Answers
  BY DEF PrintsInv, PrintsTypeOK
<1>2. s \in Slips /\ s \in hand[h].todo
  BY JobIsHeld DEF PrintsInv
<1>3. slip[s] \in AnySlip /\ hand[h] \in AnyHand
  BY <1>1, <1>2
<1>4. hand' = [hand EXCEPT ![h] = r] /\ slip' = [slip EXCEPT ![s] = d]
  BY <1>1, <1>2, <1>3 DEF Concludes
<1>5. routed' \in Answers /\ routed'.pc = routed.pc /\ routed'.groups = routed.groups
  BY <1>1 DEF Concludes, Answers
<1>6. /\ d \in AnySlip /\ d.at = slip[s].at /\ d.kind = slip[s].kind /\ d.asked = slip[s].asked /\ d.stray = slip[s].stray
      /\ d.status = status /\ d.by = h /\ d.out = slip[s].out + sheets
  <2>1. slip[s].out + sheets \in Nat
    BY <1>3 DEF AnySlip
  <2> HIDE DEF s
  <2>2. d \in AnySlip
    BY <1>3, <2>1 DEF AnySlip, Statuses
  <2>. QED
    BY <1>3, <2>2 DEF AnySlip
<1>7. left \subseteq hand[h].todo /\ left \subseteq Slips /\ s \notin left
  BY <1>3 DEF AnyHand
<1>8. pc \in LaneSteps \cup OfficeSteps \cup ClerkSteps
  BY DEF LaneSteps, OfficeSteps, ClerkSteps
<1>9. /\ r \in AnyHand /\ r.todo = left /\ r.pc = pc /\ r.groups = hand[h].groups
      /\ r.missed = (hand[h].missed \/ ~ok)
  <2> HIDE DEF left, pc, s
  <2>. QED
    BY <1>3, <1>7, <1>8 DEF AnyHand
<1>10. /\ s \in Slips => slip[s].out <= slip[s].asked + slip[s].stray
       /\ hand[h].pc \in Working => Own(h, s)
       /\ h \in Trestles /\ hand[h].pc = "take" => Fresh(s)
  BY <1>2 DEF PrintsInv, SheetsOK, HandsOK, Working
<1>11. /\ d.out <= d.asked + d.stray /\ (d.status = "SENT" => d.out > 0)
       /\ d.status = "HELD" => d.out < d.asked + d.stray
  <2>1. slip[s].out \in Nat /\ slip[s].asked \in Nat /\ slip[s].stray \in Nat
    BY <1>3 DEF AnySlip
  <2>2. CASE hand[h].pc \in Working
    BY <1>6, <1>10, <2>1, <2>2 DEF Own, Working
  <2>3. CASE hand[h].pc = "take"
    <3>1. slip[s].out = 0 /\ slip[s].asked = 1 /\ sheets = 0 /\ status # "SENT"
      BY <1>2, <1>10, <2>3 DEF PrintsInv, SheetsOK, Working
    <3>. QED
      BY <1>6, <2>1, <3>1
  <2>. QED
    BY <2>2, <2>3
<1>12. pc \notin Working /\ (pc \in {"take", "claim"} <=> left # {})
       /\ pc \in IF h \in Trestles THEN LaneSteps
                 ELSE Working \cup {"claim", IF h = clerk THEN "lookup" ELSE "answer"}
  BY PrintsAssumption DEF Working, LaneSteps, Hands, Retriers
<1>13. h = clerk /\ ~r.missed => ~hand[h].missed /\ hand[h].todo \subseteq left \cup {s} /\ status # "FAILED"
  BY <1>9
<1>14. hand[h].pc \in Working \cup {"take", "claim"}
  OBVIOUS
<1> HIDE DEF r, d, left, pc
<1>15. Turns(h, r, d)
  BY <1>4, <1>5, <1>6, <1>7, <1>9, <1>10, <1>11, <1>12, <1>13, <1>14 DEF Turns
<1>. QED
  BY <1>6, <1>9, <1>15, TurnsInv

(* A hand goes on with a job that is its own.                              *)
LEMMA GoesTurns ==
    ASSUME PrintsInv, NEW h \in Hands, NEW pc \in Working, NEW tries \in Nat,
           hand[h].pc \in Working, h \in Trestles => pc \in LaneSteps,
           hand' = [hand EXCEPT ![h] = [hand[h] EXCEPT !.pc = pc, !.tries = tries]],
           slip' = slip, routed' = routed, notice' = notice, listed' = listed
    PROVE  PrintsInv'
<1> DEFINE s == JobOf(h)  r == [hand[h] EXCEPT !.pc = pc, !.tries = tries]  d == slip[s]
<1>1. slip \in [Slips -> AnySlip] /\ hand \in [Hands -> AnyHand] /\ routed \in Answers
  BY DEF PrintsInv, PrintsTypeOK
<1>2. s \in Slips /\ s \in hand[h].todo
  BY JobIsHeld DEF PrintsInv
<1>3. d \in AnySlip /\ hand[h] \in AnyHand
  BY <1>1, <1>2
<1>4. pc \in LaneSteps \cup OfficeSteps \cup ClerkSteps
  BY DEF OfficeSteps
<1>5. /\ r \in AnyHand /\ r.todo = hand[h].todo /\ r.pc = pc /\ r.groups = hand[h].groups
      /\ r.missed = hand[h].missed
  BY <1>3, <1>4 DEF AnyHand
<1>6. slip' = [slip EXCEPT ![s] = d]
  BY <1>1, <1>2
<1>7. Own(h, s)
  BY DEF PrintsInv, HandsOK
<1>8. hand' = [hand EXCEPT ![h] = r]
  OBVIOUS
<1>9. "take" \notin Working /\ "claim" \notin Working
  BY DEF Working
<1> HIDE DEF r, d
<1>10. d.status = "QUEUED" /\ d.by = h /\ d.out < d.asked + d.stray
  BY <1>7 DEF Own, d
<1>11. Turns(h, r, d)
  BY <1>1, <1>5, <1>6, <1>8, <1>9, <1>10 DEF Turns, d
<1>. QED
  BY <1>3, <1>5, <1>11, TurnsInv

(* A hand makes the job before it its own: a lane's is created, the others *)
(* have failed.                                                            *)
LEMMA TakesTurns ==
    ASSUME PrintsInv, NEW h \in Hands, NEW pc \in Working, NEW asked \in Nat,
           h \in Trestles => pc \in LaneSteps,
           hand' = [hand EXCEPT ![h].pc = pc],
           slip' = [slip EXCEPT ![JobOf(h)] = [slip[JobOf(h)] EXCEPT !.status = "QUEUED", !.by = h, !.asked = asked]],
           slip[JobOf(h)].out < asked + slip[JobOf(h)].stray,
           \/ h \in Trestles /\ hand[h].pc = "take"
           \/ hand[h].pc = "claim" /\ slip[JobOf(h)].status = "FAILED",
           routed' = routed, notice' = notice, listed' = listed
    PROVE  PrintsInv'
<1> DEFINE s == JobOf(h)  r == [hand[h] EXCEPT !.pc = pc]
           d == [slip[s] EXCEPT !.status = "QUEUED", !.by = h, !.asked = asked]
<1>1. slip \in [Slips -> AnySlip] /\ hand \in [Hands -> AnyHand] /\ routed \in Answers
  BY DEF PrintsInv, PrintsTypeOK
<1>2. s \in Slips /\ s \in hand[h].todo
  BY JobIsHeld DEF PrintsInv
<1>3. slip[s] \in AnySlip /\ hand[h] \in AnyHand
  BY <1>1, <1>2
<1>4. pc \in LaneSteps \cup OfficeSteps \cup ClerkSteps
  BY DEF OfficeSteps
<1>5. /\ r \in AnyHand /\ r.todo = hand[h].todo /\ r.pc = pc /\ r.groups = hand[h].groups
      /\ r.missed = hand[h].missed
  BY <1>3, <1>4 DEF AnyHand
<1>6. slip' = [slip EXCEPT ![s] = d] /\ hand' = [hand EXCEPT ![h] = r]
  BY <1>1
<1>7. /\ d \in AnySlip /\ d.at = slip[s].at /\ d.kind = slip[s].kind
      /\ d.status = "QUEUED" /\ d.by = h /\ d.out = slip[s].out /\ d.asked = asked
      /\ d.stray = slip[s].stray
  <2> HIDE DEF s
  <2>1. d \in AnySlip
    BY <1>3 DEF AnySlip, Statuses
  <2>. QED
    BY <1>3, <2>1 DEF AnySlip
<1>8. d.out < d.asked + d.stray /\ d.out <= d.asked + d.stray
  BY <1>3, <1>7 DEF AnySlip
<1>9. h \in Trestles /\ hand[h].pc = "take" => Fresh(s)
  BY <1>2 DEF PrintsInv, HandsOK, Working
<1>10. "take" \notin Working /\ "claim" \notin Working
  BY DEF Working
<1> HIDE DEF r, d
<1>11. Turns(h, r, d)
  BY <1>1, <1>5, <1>6, <1>7, <1>8, <1>9, <1>10 DEF Turns
<1>. QED
  BY <1>5, <1>7, <1>11, TurnsInv

(* A job that is not failed any more is given up.                          *)
LEMMA GivesUpTurns ==
    ASSUME PrintsInv, NEW h \in Retriers, hand[h].pc = "claim",
           hand' = [hand EXCEPT ![h] = [hand[h] EXCEPT !.todo = {}, !.missed = TRUE,
                                                       !.pc = IF h = clerk THEN "lookup" ELSE "answer"]],
           slip' = slip, routed' = routed, notice' = notice, listed' = listed
    PROVE  PrintsInv'
<1> DEFINE s == JobOf(h)  pc == IF h = clerk THEN "lookup" ELSE "answer"
           r == [hand[h] EXCEPT !.todo = {}, !.missed = TRUE, !.pc = pc]  d == slip[s]
<1>1. slip \in [Slips -> AnySlip] /\ hand \in [Hands -> AnyHand] /\ routed \in Answers
  BY DEF PrintsInv, PrintsTypeOK
<1>2. h \in Hands /\ h \notin Trestles
  BY PrintsAssumption DEF Hands
<1>3. s \in Slips
  BY <1>2, JobIsHeld DEF PrintsInv
<1>4. d \in AnySlip /\ hand[h] \in AnyHand
  BY <1>1, <1>2, <1>3
<1>5. pc \in LaneSteps \cup OfficeSteps \cup ClerkSteps
  BY DEF OfficeSteps, ClerkSteps
<1>6. r \in AnyHand /\ r.todo = {} /\ r.pc = pc /\ r.groups = hand[h].groups /\ r.missed
  BY <1>4, <1>5 DEF AnyHand
<1>7. slip' = [slip EXCEPT ![s] = d]
  BY <1>1, <1>3
<1>8. hand' = [hand EXCEPT ![h] = r]
  OBVIOUS
<1>9. pc \notin Working \cup {"take", "claim"}
  BY DEF Working
<1> HIDE DEF r, pc
<1>10. pc = IF h = clerk THEN "lookup" ELSE "answer"
  BY DEF pc
<1>11. Turns(h, r, d)
  BY <1>1, <1>2, <1>6, <1>7, <1>8, <1>9, <1>10 DEF Turns
<1>. QED
  BY <1>2, <1>4, <1>6, <1>11, TurnsInv

LEMMA NextTry == \A n \in Nat : n + 1 \in Nat
  OBVIOUS

LEMMA SendFailsKeeps ==
    ASSUME PrintsInv, NEW h \in Hands, hand[h].pc \in {"reach", "send"}, NEW why, NEW sheets \in {0, 1},
           sheets = 0 \/ why # "Printer not reachable", SendFails(h, why, sheets),
           notice' = notice, listed' = listed
    PROVE  PrintsInv'
<1>1. hand[h] \in AnyHand /\ JobOf(h) \in Slips /\ slip[JobOf(h)] \in AnySlip
  BY JobIsHeld DEF PrintsInv, PrintsTypeOK, Working
<1>2. CASE TriesAgain(why, hand[h].tries)
  <2>1. /\ hand' = [hand EXCEPT ![h].tries = @ + 1, ![h].pc = "reach"]
        /\ slip' = [slip EXCEPT ![JobOf(h)].out = @ + sheets] /\ routed' = routed
    BY <1>2 DEF SendFails
  <2>2. hand[h].tries + 1 \in Nat
    <3>1. hand[h].tries \in Nat
      BY <1>1 DEF AnyHand
    <3>. QED
      BY <3>1, NextTry
  <2>3. hand' = [hand EXCEPT ![h] = [hand[h] EXCEPT !.pc = "reach", !.tries = hand[h].tries + 1]]
    BY <1>1, <2>1 DEF AnyHand, PrintsInv, PrintsTypeOK
  <2>4. sheets = 0
    BY <1>2 DEF TriesAgain
  <2>5. slip[JobOf(h)].out \in Nat
    BY <1>1 DEF AnySlip
  <2> DEFINE s == JobOf(h)
  <2> HIDE DEF s
  <2>6. slip' = [slip EXCEPT ![s].out = slip[s].out + 0] /\ slip[s].out + 0 = slip[s].out
    BY <2>1, <2>4, <2>5 DEF s
  <2>7. s \in Slips /\ slip \in [Slips -> AnySlip] /\ slip[s] \in AnySlip
    BY <1>1 DEF s, PrintsInv, PrintsTypeOK
  <2>8. [slip[s] EXCEPT !.out = slip[s].out] = slip[s]
    BY <2>7 DEF AnySlip
  <2>9. slip' = slip
    BY <2>6, <2>7, <2>8
  <2>10. "reach" \in Working /\ "reach" \in LaneSteps /\ hand[h].pc \in Working
    BY DEF Working, LaneSteps
  <2>. QED
    BY <2>1, <2>2, <2>3, <2>9, <2>10, GoesTurns
<1>3. CASE ~TriesAgain(why, hand[h].tries)
  <2>1. Concludes(h, FALSE, "FAILED", sheets)
    BY <1>3 DEF SendFails
  <2>. QED
    BY <2>1, ConcludesTurns DEF Working
<1>. QED
  BY <1>2, <1>3

LEMMA WorkKeeps ==
    ASSUME PrintsInv, NEW h \in Hands,
           \/ h \in Trestles /\ SheetIsTaken(h)
           \/ SlipIsClaimed(h) \/ SlipIsLeased(h) \/ Reached(h) \/ NotReached(h) \/ CheckBreaks(h)
           \/ SlipIsSent(h) \/ SendIsRefused(h) \/ SendBreaks(h) \/ OutcomeIsLost(h)
    PROVE  PrintsInv'
<1>0. /\ hand \in [Hands -> AnyHand] /\ slip \in [Slips -> AnySlip] /\ hand[h] \in AnyHand
      /\ hand[h].tries \in Nat
  BY DEF PrintsInv, PrintsTypeOK, AnyHand
<1>1. ASSUME h \in Trestles, SheetIsTaken(h) PROVE PrintsInv'
  <2>1. hand[h].pc = "take" /\ notice' = notice /\ listed' = listed
    BY <1>1 DEF SheetIsTaken
  <2>2. CASE Concludes(h, TRUE, "HELD", 0)
    BY <1>1, <2>1, <2>2, ConcludesTurns
  <2>3. CASE Concludes(h, FALSE, "FAILED", 0)
    BY <1>1, <2>1, <2>3, ConcludesTurns
  <2>4. CASE /\ slip' = [slip EXCEPT ![JobOf(h)] = [@ EXCEPT !.status = "QUEUED", !.by = h]]
             /\ hand' = [hand EXCEPT ![h].pc = "reach"] /\ routed' = routed
    <3>1. JobOf(h) \in Slips /\ Fresh(JobOf(h))
      BY <1>1, <2>1, JobIsHeld DEF PrintsInv, HandsOK, Working
    <3>2. slip[JobOf(h)].out < 1 + slip[JobOf(h)].stray /\ slip[JobOf(h)].asked = 1
      BY <1>0, <3>1 DEF PrintsInv, SheetsOK, AnySlip
    <3> DEFINE s == JobOf(h)
    <3> HIDE DEF s
    <3>3. slip' = [slip EXCEPT ![s] = [slip[s] EXCEPT !.status = "QUEUED", !.by = h, !.asked = 1]]
      <4>1. slip' = [slip EXCEPT ![s] = [slip[s] EXCEPT !.status = "QUEUED", !.by = h]]
        BY <2>4 DEF s
      <4>2. s \in Slips /\ slip[s] \in AnySlip /\ slip[s].asked = 1
        BY <1>0, <3>1, <3>2 DEF s
      <4>3. [slip[s] EXCEPT !.status = "QUEUED", !.by = h, !.asked = 1] = [slip[s] EXCEPT !.status = "QUEUED", !.by = h]
        BY <4>2 DEF AnySlip
      <4>. QED
        BY <4>1, <4>3
    <3>4. "reach" \in Working /\ "reach" \in LaneSteps
      BY DEF Working, LaneSteps
    <3>. QED
      BY <1>1, <2>1, <2>4, <3>2, <3>3, <3>4, TakesTurns DEF s
  <2>. QED
    BY <1>1, <2>2, <2>3, <2>4 DEF SheetIsTaken
<1>2. ASSUME SlipIsClaimed(h) PROVE PrintsInv'
  <2>1. /\ h \in Retriers /\ h \notin Trestles /\ hand[h].pc = "claim"
        /\ notice' = notice /\ listed' = listed /\ routed' = routed
    BY <1>2, PrintsAssumption DEF SlipIsClaimed
  <2>2. CASE slip[JobOf(h)].status = "FAILED"
    <3> DEFINE pc == IF ForKitchen(h) THEN "lease" ELSE "reach"  s == JobOf(h)
    <3>1. s \in Slips
      BY <2>1, JobIsHeld DEF PrintsInv
    <3>2. /\ slip' = [slip EXCEPT ![s].status = "QUEUED", ![s].by = h, ![s].asked = @ + 1]
          /\ hand' = [hand EXCEPT ![h].pc = pc]
      BY <1>2, <2>2 DEF SlipIsClaimed
    <3>3. pc \in Working
      BY DEF Working
    <3> HIDE DEF pc, s
    <3>4. slip[s].out <= slip[s].asked + slip[s].stray /\ slip[s] \in AnySlip
      BY <1>0, <3>1 DEF PrintsInv, SheetsOK
    <3>5. slip[s].asked + 1 \in Nat /\ slip[s].out < slip[s].asked + 1 + slip[s].stray
      BY <3>4 DEF AnySlip
    <3>6. slip' = [slip EXCEPT ![s] = [slip[s] EXCEPT !.status = "QUEUED", !.by = h, !.asked = slip[s].asked + 1]]
      BY <1>0, <3>1, <3>2, <3>4 DEF AnySlip
    <3>7. slip' = [slip EXCEPT ![JobOf(h)] = [slip[JobOf(h)] EXCEPT !.status = "QUEUED", !.by = h,
                                                                   !.asked = slip[s].asked + 1]]
          /\ slip[JobOf(h)].out < slip[s].asked + 1 + slip[JobOf(h)].stray
      BY <3>5, <3>6 DEF s
    <3>. QED
      BY <2>1, <2>2, <3>2, <3>3, <3>5, <3>7, TakesTurns
  <2>3. CASE slip[JobOf(h)].status # "FAILED"
    <3>1. /\ slip' = slip
          /\ hand' = [hand EXCEPT ![h] = [hand[h] EXCEPT !.todo = {}, !.missed = TRUE,
                                                         !.pc = IF h = clerk THEN "lookup" ELSE "answer"]]
      BY <1>2, <2>3 DEF SlipIsClaimed
    <3>. QED
      BY <2>1, <3>1, GivesUpTurns
  <2>. QED
    BY <2>2, <2>3
<1>3. ASSUME SlipIsLeased(h) PROVE PrintsInv'
  <2>1. hand[h].pc = "lease" /\ "lease" \in Working /\ notice' = notice /\ listed' = listed
    BY <1>3 DEF SlipIsLeased, Working
  <2>2. CASE Concludes(h, FALSE, "FAILED", 0)
    BY <2>1, <2>2, ConcludesTurns
  <2>3. CASE hand' = [hand EXCEPT ![h].pc = "reach"] /\ slip' = slip /\ routed' = routed
    <3>1. hand' = [hand EXCEPT ![h] = [hand[h] EXCEPT !.pc = "reach", !.tries = hand[h].tries]]
      BY <1>0, <2>3 DEF AnyHand
    <3>2. "reach" \in Working /\ "reach" \in LaneSteps
      BY DEF Working, LaneSteps
    <3>. QED
      BY <1>0, <2>1, <2>3, <3>1, <3>2, GoesTurns
  <2>. QED
    BY <1>3, <2>2, <2>3 DEF SlipIsLeased
<1>4. ASSUME Reached(h) PROVE PrintsInv'
  <2>1. /\ hand[h].pc = "reach" /\ "reach" \in Working /\ "send" \in Working /\ "send" \in LaneSteps
        /\ notice' = notice /\ listed' = listed /\ slip' = slip /\ routed' = routed
    BY <1>4 DEF Reached, Working, LaneSteps
  <2>2. hand' = [hand EXCEPT ![h] = [hand[h] EXCEPT !.pc = "send", !.tries = hand[h].tries]]
    BY <1>0, <1>4 DEF Reached, AnyHand
  <2>. QED
    BY <1>0, <2>1, <2>2, GoesTurns
<1>5. ASSUME NotReached(h) \/ SendIsRefused(h) PROVE PrintsInv'
  <2>1. /\ hand[h].pc \in {"reach", "send"} /\ SendFails(h, "Printer not reachable", 0)
        /\ notice' = notice /\ listed' = listed
    BY <1>5 DEF NotReached, SendIsRefused
  <2>. QED
    BY <2>1, SendFailsKeeps
<1>6. ASSUME CheckBreaks(h) PROVE PrintsInv'
  <2>1. /\ hand[h].pc \in {"reach", "send"} /\ SendFails(h, "Printer connection timeout", 0)
        /\ notice' = notice /\ listed' = listed
    BY <1>6 DEF CheckBreaks
  <2>. QED
    BY <2>1, SendFailsKeeps
<1>7. ASSUME SlipIsSent(h) PROVE PrintsInv'
  <2>1. hand[h].pc \in Working /\ Concludes(h, TRUE, "SENT", 1) /\ notice' = notice /\ listed' = listed
    BY <1>7 DEF SlipIsSent, Working
  <2>. QED
    BY <2>1, ConcludesTurns
<1>8. ASSUME SendBreaks(h) PROVE PrintsInv'
  <2>1. PICK why \in {"Printer execution timeout", "Printer execution error"}, sheets \in {0, 1} :
           SendFails(h, why, sheets)
    BY <1>8 DEF SendBreaks
  <2>2. hand[h].pc \in {"reach", "send"} /\ notice' = notice /\ listed' = listed
    BY <1>8 DEF SendBreaks
  <2>. QED
    BY <2>1, <2>2, SendFailsKeeps
<1>9. ASSUME OutcomeIsLost(h) PROVE PrintsInv'
  <2>1. PICK ok \in BOOLEAN, sheets \in {0, 1} : Concludes(h, ok, "QUEUED", sheets)
    BY <1>9 DEF OutcomeIsLost
  <2>2. hand[h].pc \in Working /\ notice' = notice /\ listed' = listed
    BY <1>9 DEF OutcomeIsLost, Working
  <2>. QED
    BY <2>1, <2>2, ConcludesTurns
<1>. QED
  BY <1>1, <1>2, <1>3, <1>4, <1>5, <1>6, <1>7, <1>8, <1>9

-----------------------------------------------------------------------------
(* The other steps: no lane changes, nor a job that a hand works at.       *)
\* No hand is at work on the job.
Loose(s) == \A h \in Hands : hand[h].pc \in Working => JobOf(h) # s

Settles ==
    /\ slip' \in [Slips -> AnySlip] /\ hand' \in [Hands -> AnyHand]
    /\ routed' \in Answers /\ notice' \in Notices /\ listed'.failed \subseteq Slips
    /\ \A s \in Slips :
        \/ slip'[s] = slip[s]
        \/ /\ ~Fresh(s) /\ slip'[s].status # "NONE" /\ Loose(s)
           /\ slip'[s].at = slip[s].at /\ slip'[s].kind = slip[s].kind
           /\ slip'[s].out <= slip'[s].asked + slip'[s].stray
           /\ slip'[s].status = "SENT" => slip'[s].out > 0
           /\ slip'[s].status = "FAILED" => slip'[s].by = NoTrestle
           /\ slip'[s].status \in {"HELD", "QUEUED"} => slip'[s].out < slip'[s].asked + slip'[s].stray
    /\ \A p \in Trestles : hand'[p] = hand[p]
    /\ \A h \in Retriers :
        \/ hand'[h] = hand[h]
        \/ hand'[h].pc \notin Working /\ (hand'[h].pc = "claim" => hand'[h].todo # {})
    /\ hand'[clerk].pc \in ClerkSteps /\ hand'[office].pc \in OfficeSteps
    /\ routed'.pc = "sheets" => routed.pc = "sheets"

LEMMA SettlesKeeps ==
    ASSUME PrintsInv, Settles
    PROVE  PrintsTypeOK' /\ Apart' /\ SheetsOK' /\ HandsOK'
<1>1. PrintsTypeOK'
  BY DEF Settles, PrintsInv, PrintsTypeOK
<1>2. \A s \in Slips : slip'[s].at = slip[s].at /\ slip'[s].kind = slip[s].kind
  BY DEF Settles
<1>3. Apart'
  BY <1>2 DEF PrintsInv, Apart
<1>4. \A s \in Slips :
        \/ slip'[s] = slip[s]
        \/ /\ slip[s].status # "NONE" /\ slip'[s].status # "NONE" /\ Loose(s)
           /\ slip'[s].out <= slip'[s].asked + slip'[s].stray
           /\ slip'[s].status = "SENT" => slip'[s].out > 0
           /\ slip'[s].status \in {"HELD", "QUEUED"} => slip'[s].out < slip'[s].asked + slip'[s].stray
  BY DEF Settles, Fresh
<1>5. routed'.pc = "sheets" => routed.pc = "sheets"
  BY DEF Settles
<1>6. SheetsOK'
  <2> SUFFICES ASSUME NEW s \in Slips
               PROVE  /\ \/ slip'[s].status = "HELD"
                         \/ slip'[s].status = "QUEUED" /\ slip'[s].by = NoTrestle
                         => slip'[s].out < slip'[s].asked + slip'[s].stray
                      /\ slip'[s].out <= slip'[s].asked + slip'[s].stray
                      /\ slip'[s].status = "SENT" => slip'[s].out > 0
                      /\ slip'[s].status = "NONE" => slip'[s].out = 0 /\ slip'[s].asked = 1
                      /\ slip'[s].kind = "photo" /\ routed'.pc = "sheets" => slip'[s].status = "NONE"
    BY DEF SheetsOK, Fresh, Waits
  <2>1. /\ \/ slip[s].status = "HELD"
           \/ slip[s].status = "QUEUED" /\ slip[s].by = NoTrestle
           => slip[s].out < slip[s].asked + slip[s].stray
        /\ slip[s].out <= slip[s].asked + slip[s].stray
        /\ slip[s].status = "SENT" => slip[s].out > 0
        /\ slip[s].status = "NONE" => slip[s].out = 0 /\ slip[s].asked = 1
        /\ slip[s].kind = "photo" /\ routed.pc = "sheets" => slip[s].status = "NONE"
    BY DEF PrintsInv, SheetsOK, Fresh, Waits
  <2>2. CASE slip'[s] = slip[s]
    BY <1>5, <2>1, <2>2
  <2>3. CASE slip'[s] # slip[s]
    BY <1>2, <1>4, <1>5, <2>1, <2>3
  <2>. QED
    BY <2>2, <2>3
<1>7. HandsOK
  BY DEF PrintsInv
<1> DEFINE first(k) == Min(hand'[k].todo)
<1>8. \A k \in Hands : hand'[k] = hand[k] => first(k) = JobOf(k)
  BY DEF JobOf
<1>9. \A k \in Hands : JobOf(k)' = first(k)
  BY DEF JobOf
<1> HIDE DEF first
<1>10. ASSUME NEW k \in Hands
       PROVE  /\ hand'[k].pc \in Working \cup {"take", "claim"} => hand'[k].todo # {}
              /\ hand'[k].pc \in Working => /\ slip'[first(k)].status = "QUEUED" /\ slip'[first(k)].by = k
                                            /\ slip'[first(k)].out < slip'[first(k)].asked + slip'[first(k)].stray
  <2>1. CASE hand'[k] = hand[k]
    <3>1. hand[k].pc \in Working \cup {"take", "claim"} => hand[k].todo # {}
      BY <1>7 DEF HandsOK
    <3>2. ASSUME hand[k].pc \in Working
          PROVE  /\ slip'[first(k)].status = "QUEUED" /\ slip'[first(k)].by = k
                 /\ slip'[first(k)].out < slip'[first(k)].asked + slip'[first(k)].stray
      <4>1. Own(k, JobOf(k)) /\ JobOf(k) \in Slips
        BY <1>7, <3>2, JobIsHeld DEF HandsOK, PrintsInv
      <4>2. slip'[JobOf(k)] = slip[JobOf(k)]
        BY <1>4, <3>2, <4>1 DEF Loose
      <4>. QED
        BY <1>8, <2>1, <4>1, <4>2 DEF Own
    <3>. QED
      BY <2>1, <3>1, <3>2
  <2>2. CASE hand'[k] # hand[k]
    <3>1. k \in Retriers
      BY <2>2 DEF Settles, Hands
    <3>2. hand'[k].pc \notin Working /\ (hand'[k].pc = "claim" => hand'[k].todo # {})
      BY <2>2, <3>1 DEF Settles
    <3>3. hand'[k].pc # "take"
      BY <3>1 DEF Settles, Retriers, ClerkSteps, OfficeSteps, Working
    <3>. QED
      BY <3>2, <3>3
  <2>. QED
    BY <2>1, <2>2
<1>11. ASSUME NEW p \in Trestles, NEW s \in hand'[p].todo
       PROVE  /\ slip'[s].at = p /\ (routed'.pc = "sheets" => slip'[s].kind # "photo")
              /\ hand'[p].pc = "rest" \/ slip'[s].status = "NONE" \/ (s = first(p) /\ hand'[p].pc \in Working)
  <2>1. p \in Hands /\ hand'[p] = hand[p]
    BY DEF Settles, Hands
  <2>2. first(p) = JobOf(p) /\ s \in hand[p].todo
    BY <1>8, <1>11, <2>1
  <2>3. s \in Slips
    BY <2>1, <2>2 DEF PrintsInv, PrintsTypeOK, AnyHand
  <2>4. /\ slip[s].at = p /\ (routed.pc = "sheets" => slip[s].kind # "photo")
        /\ hand[p].pc = "rest" \/ Fresh(s) \/ (s = JobOf(p) /\ hand[p].pc \in Working)
    BY <1>7, <2>2 DEF HandsOK
  <2>5. Fresh(s) => slip'[s] = slip[s]
    BY <1>4, <2>3 DEF Fresh
  <2>. QED
    BY <1>2, <1>5, <2>1, <2>2, <2>3, <2>4, <2>5 DEF Fresh
<1>12. HandsOK'
  BY <1>9, <1>10, <1>11 DEF HandsOK, Own, Fresh, Hands
<1>. QED
  BY <1>1, <1>3, <1>6, <1>12

(* Then nothing more is missing, and what was listed still is.             *)
LEMMA SettlesLists ==
    ASSUME PrintsInv, Settles
    PROVE  /\ Missing' \subseteq Missing /\ \A s \in Slips : slip'[s].at = slip[s].at
           /\ \A groups \in SUBSET Groups : Told(groups) =>
                /\ \A g \in groups : \A s \in g.slips : slip'[s].at = g.at
                /\ \A g, e \in groups : g.at = e.at => g = e
           /\ \A groups \in SUBSET Groups : Lists(groups) => Missing' \subseteq UNION {g.slips : g \in groups}
<1>1. \A s \in Slips : /\ slip'[s].at = slip[s].at
                       /\ slip'[s].status = "FAILED" /\ slip'[s].by # NoTrestle => slip'[s] = slip[s]
  BY DEF Settles
<1>2. Missing' \subseteq Missing
  BY <1>1 DEF Missing, Unprinted
<1>3. \A groups \in SUBSET Groups : Told(groups) =>
         /\ \A g \in groups : \A s \in g.slips : slip'[s].at = g.at
         /\ \A g, e \in groups : g.at = e.at => g = e
  BY <1>1, ToldStays
<1>. QED
  BY <1>1, <1>2, <1>3 DEF Lists

(* What is as it was for the message and the clerk stays right.            *)
LEMMA ClerkRests ==
    ASSUME PrintsInv, Settles, hand'[clerk] = hand[clerk], notice' = notice,
           routed'.pc = routed.pc, routed'.groups = routed.groups
    PROVE  PrintsInv'
<1>1. PrintsTypeOK' /\ Apart' /\ SheetsOK' /\ HandsOK'
  BY SettlesKeeps
<1>2. NoticeOK'
  <2>1. LanesRest => LanesRest'
    BY DEF LanesRest, Settles
  <2>. QED
    BY <2>1 DEF PrintsInv, NoticeOK
<1>3. /\ Missing' \subseteq Missing /\ \A s \in Slips : slip'[s].at = slip[s].at
      /\ \A groups \in SUBSET Groups : Told(groups) =>
           /\ \A g \in groups : \A s \in g.slips : slip'[s].at = g.at
           /\ \A g, e \in groups : g.at = e.at => g = e
      /\ \A groups \in SUBSET Groups : Lists(groups) => Missing' \subseteq UNION {g.slips : g \in groups}
  BY SettlesLists
<1> DEFINE at == notice.busy  job == hand[clerk]
           listed_(groups) == Missing' \subseteq UNION {g.slips : g \in groups}
           gone == {s \in Missing' : slip[s].at = at}
<1>4. notice.groups \subseteq Groups /\ routed.groups \subseteq Groups /\ job.groups \subseteq Groups /\ job.todo \subseteq Slips
  BY DEF PrintsInv, PrintsTypeOK, Answers, Notices, AnyHand, Hands, Retriers
<1>5. ClerkOK
  BY DEF PrintsInv
<1>6. Told(notice.groups)' /\ Told(routed.groups)' /\ Told(hand[clerk].groups)'
  BY <1>3, <1>4, <1>5 DEF ClerkOK, Told
<1>7. MissingAt(notice.busy)' = gone
  BY <1>3 DEF MissingAt, Missing, Unprinted
<1>8. gone \subseteq MissingAt(at)
  BY <1>3 DEF MissingAt
<1>9. \A s \in job.todo : slip'[s].at = slip[s].at
  BY <1>3, <1>4
<1>10. /\ routed.pc = "told" => routed.groups = {} \/ listed_(routed.groups)
       /\ notice.open => \/ listed_(notice.groups)
                         \/ notice.groups = {} /\ notice.said = "failed" /\ at = NoTrestle
       /\ job.pc \in {"retried", "held"} => job.groups = {} \/ listed_(job.groups)
  BY <1>3, <1>4, <1>5 DEF ClerkOK
<1> HIDE DEF gone
<1>11. /\ at # NoTrestle => \A s \in job.todo : slip[s].at = at /\ s \in UNION {g.slips : g \in notice.groups}
       /\ job.pc \in Working \cup {"claim"} /\ ~job.missed => gone \subseteq job.todo
       /\ job.pc \in {"retry", "hold"} => gone \subseteq job.todo
       /\ job.pc \in {"lookup", "retried"} /\ ~job.missed => gone = {}
       /\ job.pc \in {"heldup", "held"} => gone = {}
  BY <1>5, <1>8 DEF ClerkOK
<1>12. ClerkOK'
  BY <1>6, <1>7, <1>9, <1>10, <1>11 DEF ClerkOK, Lists
<1>. QED
  BY <1>1, <1>2, <1>12 DEF PrintsInv

(* A lookup tells of all that failed, or of none.                          *)
LEMMA LookupTells ==
    ASSUME PrintsTypeOK, NEW lookup \in Lookups
    PROVE  /\ lookup.groups \subseteq Groups /\ Told(lookup.groups)
           /\ lookup.groups = {} \/ Lists(lookup.groups)
<1>1. lookup.groups = {} \/ lookup.groups = FailedGroups
  BY DEF Lookups
<1>2. \A s \in Unprinted : s \in Slips /\ slip[s].at \in Trestles
  BY DEF Unprinted, PrintsTypeOK, AnySlip
<1> DEFINE of(p) == {s \in Unprinted : slip[s].at = p}
<1>3. FailedGroups \subseteq Groups /\ Told(FailedGroups)
  <2>1. ASSUME NEW g \in FailedGroups PROVE g \in Groups /\ g = [at |-> g.at, slips |-> of(g.at)]
    <3>1. PICK p \in {slip[s].at : s \in Unprinted} : g = [at |-> p, slips |-> of(p)]
      BY DEF FailedGroups
    <3>2. p \in Trestles /\ of(p) \subseteq Slips
      BY <1>2
    <3>. QED
      BY <3>1, <3>2 DEF Groups
  <2>2. \A g \in FailedGroups : g.slips = of(g.at)
    <3> SUFFICES ASSUME NEW g \in FailedGroups PROVE g.slips = of(g.at)
      OBVIOUS
    <3>1. PICK p : g = [at |-> p, slips |-> of(p)]
      BY <2>1
    <3>. QED
      BY <3>1
  <2>3. \A g, e \in FailedGroups : g.at = e.at => g = e
    <3> HIDE DEF of
    <3>. QED
      BY <2>1
  <2>. QED
    BY <2>1, <2>2, <2>3 DEF Told
<1>4. Lists(FailedGroups)
  <2> SUFFICES ASSUME NEW s \in Unprinted PROVE \E g \in FailedGroups : s \in g.slips
    BY DEF Lists, Missing
  <2>1. [at |-> slip[s].at, slips |-> of(slip[s].at)] \in FailedGroups
    BY DEF FailedGroups
  <2>2. s \in of(slip[s].at)
    OBVIOUS
  <2> HIDE DEF of
  <2>. QED
    BY <2>1, <2>2
<1>. QED
  BY <1>1, <1>3, <1>4 DEF Told

LEMMA OfficeKeeps ==
    ASSUME PrintsInv,
           \/ \E s \in Slips : OfficeAsks(s)
           \/ \E p \in Trestles : TrestleSwitches(p)
           \/ OfficePolls \/ OfficeIsAnswered
    PROVE  PrintsInv'
<1>0. /\ slip \in [Slips -> AnySlip] /\ hand \in [Hands -> AnyHand] /\ routed \in Answers /\ notice \in Notices
      /\ listed.failed \subseteq Slips /\ hand[clerk].pc \in ClerkSteps /\ hand[office].pc \in OfficeSteps
  BY DEF PrintsInv, PrintsTypeOK
<1>00. /\ clerk \in Hands /\ office \in Hands /\ clerk # office /\ office \notin Trestles
       /\ Trestles \subseteq Hands /\ Retriers = {clerk, office}
  BY PrintsAssumption DEF Hands, Retriers
<1>2. ASSUME NEW s \in Slips, OfficeAsks(s) PROVE PrintsInv'
  <2> DEFINE r == Begins({s}, "claim")
  <2>1. r \in AnyHand /\ r.pc = "claim" /\ r.todo # {} /\ "claim" \notin Working /\ "claim" \in OfficeSteps
    BY DEF Begins, AtRest, AnyHand, Working, OfficeSteps
  <2>2. hand' = [hand EXCEPT ![office] = r] /\ slip' = slip /\ routed' = routed /\ notice' = notice /\ listed' = listed
    BY <1>2 DEF OfficeAsks
  <2> HIDE DEF r
  <2>3. hand'[office] = r /\ \A h \in Hands \ {office} : hand'[h] = hand[h]
    BY <1>0, <1>00, <2>2
  <2>4. hand' \in [Hands -> AnyHand]
    BY <1>0, <1>00, <2>1, <2>2
  <2>5. Settles
    BY <1>0, <1>00, <2>1, <2>2, <2>3, <2>4 DEF Settles
  <2>. QED
    BY <1>00, <2>2, <2>3, <2>5, ClerkRests
<1>3. ASSUME NEW p \in Trestles, TrestleSwitches(p) PROVE PrintsInv'
  <2>1. hand' = hand /\ slip' = slip /\ routed' = routed /\ notice' = notice /\ listed' = listed
    BY <1>3 DEF TrestleSwitches
  <2>2. Settles
    BY <1>0, <2>1 DEF Settles
  <2>. QED
    BY <2>1, <2>2, ClerkRests
<1>4. ListNow.failed \subseteq Slips
  BY DEF ListNow, Unprinted
<1>5. ASSUME OfficePolls PROVE PrintsInv'
  <2>1. hand' = hand /\ slip' = slip /\ routed' = routed /\ notice' = notice /\ listed' = ListNow
    BY <1>5 DEF OfficePolls
  <2>2. Settles
    BY <1>0, <1>4, <2>1 DEF Settles
  <2>. QED
    BY <2>1, <2>2, ClerkRests
<1>6. ASSUME OfficeIsAnswered PROVE PrintsInv'
  <2>1. AtRest \in AnyHand /\ AtRest.pc = "rest" /\ "rest" \notin Working /\ "rest" \in OfficeSteps
    BY DEF AtRest, AnyHand, Working, OfficeSteps
  <2>2. /\ hand' = [hand EXCEPT ![office] = AtRest] /\ slip' = slip /\ routed' = routed /\ notice' = notice
        /\ listed' = listed \/ listed' = ListNow
    BY <1>6 DEF OfficeIsAnswered
  <2>3. hand'[office] = AtRest /\ \A h \in Hands \ {office} : hand'[h] = hand[h]
    BY <1>0, <1>00, <2>2
  <2>4. hand' \in [Hands -> AnyHand]
    BY <1>0, <1>00, <2>1, <2>2
  <2>5. Settles
    BY <1>0, <1>00, <1>4, <2>1, <2>2, <2>3, <2>4 DEF Settles
  <2>. QED
    BY <1>00, <2>2, <2>3, <2>5, ClerkRests
<1>. QED
  BY <1>2, <1>3, <1>5, <1>6

(* A job of the queue is no hand's.                                        *)
LEMMA DrainKeeps ==
    ASSUME PrintsInv, NEW s \in Slips, NEW status \in {"SENT", "HELD", "QUEUED", "FAILED"}, NEW sheets \in {0, 1},
           Drains(s, status, sheets), status = "SENT" => sheets = 1
    PROVE  PrintsInv'
<1> DEFINE out == slip[s].out + sheets
           stray == IF status = "SENT" THEN slip[s].stray ELSE slip[s].stray + sheets
           d == [slip[s] EXCEPT !.status = status, !.by = NoTrestle, !.out = out, !.stray = stray]
<1>1. /\ slip \in [Slips -> AnySlip] /\ hand \in [Hands -> AnyHand] /\ routed \in Answers /\ notice \in Notices
      /\ listed.failed \subseteq Slips /\ hand[clerk].pc \in ClerkSteps /\ hand[office].pc \in OfficeSteps
  BY DEF PrintsInv, PrintsTypeOK
<1>2. slip[s] \in AnySlip
  BY <1>1
<1>3. slip[s].status = "HELD"
  BY DEF Drains, Queue
<1>4. /\ slip' = [slip EXCEPT ![s] = d]
      /\ hand' = hand /\ routed' = routed /\ notice' = notice /\ listed' = listed
  BY <1>1, <1>2 DEF Drains, AnySlip
<1>5. out \in Nat /\ stray \in Nat /\ slip[s].asked \in Nat /\ (status = "SENT" => out > 0)
  BY <1>2 DEF AnySlip
<1>6. Loose(s)
  BY <1>3 DEF Loose, PrintsInv, HandsOK, Own
<1>7. out <= slip[s].asked + stray /\ (status # "SENT" => out < slip[s].asked + stray)
  <2>1. slip[s].out \in Nat /\ slip[s].asked \in Nat /\ slip[s].stray \in Nat
    BY <1>2 DEF AnySlip
  <2>2. slip[s].out < slip[s].asked + slip[s].stray
    BY <1>3 DEF PrintsInv, SheetsOK, Waits
  <2>. QED
    BY <2>1, <2>2
<1> HIDE DEF out, stray
<1>8. /\ d \in AnySlip /\ d.status = status /\ d.by = NoTrestle /\ d.at = slip[s].at /\ d.kind = slip[s].kind
      /\ d.out = out /\ d.asked = slip[s].asked /\ d.stray = stray
  BY <1>2, <1>5 DEF AnySlip, Statuses
<1> HIDE DEF d
<1>9. Settles
  BY <1>1, <1>3, <1>4, <1>5, <1>6, <1>7, <1>8 DEF Settles, Fresh
<1>. QED
  BY <1>4, <1>9, ClerkRests

(* What stayed QUEUED is found when its claim is old.                      *)
LEMMA RecoveryKeeps ==
    ASSUME PrintsInv, NEW s \in Slips, SlipIsRecovered(s)
    PROVE  PrintsInv'
<1> DEFINE status == IF slip[s].by = NoTrestle THEN "HELD" ELSE "FAILED"
           d == [slip[s] EXCEPT !.status = status, !.by = NoTrestle]
<1>1. /\ slip \in [Slips -> AnySlip] /\ hand \in [Hands -> AnyHand] /\ routed \in Answers /\ notice \in Notices
      /\ listed.failed \subseteq Slips /\ hand[clerk].pc \in ClerkSteps /\ hand[office].pc \in OfficeSteps
  BY DEF PrintsInv, PrintsTypeOK
<1>2. slip[s] \in AnySlip
  BY <1>1
<1>3. slip[s].status = "QUEUED" /\ Loose(s)
  BY DEF SlipIsRecovered, Loose, Working
<1>4. /\ slip' = [slip EXCEPT ![s] = d]
      /\ hand' = hand /\ routed' = routed /\ notice' = notice /\ listed' = listed
  <2>1. slip' = [slip EXCEPT ![s].status = status, ![s].by = NoTrestle]
    BY DEF SlipIsRecovered
  <2> HIDE DEF status
  <2>2. slip' = [slip EXCEPT ![s] = d]
    BY <1>1, <1>2, <2>1 DEF AnySlip
  <2>. QED
    BY <2>2 DEF SlipIsRecovered
<1>5. /\ slip[s].out <= slip[s].asked + slip[s].stray
      /\ status = "HELD" => slip[s].out < slip[s].asked + slip[s].stray
  BY <1>3 DEF PrintsInv, SheetsOK, Waits
<1>6. status \in {"HELD", "FAILED"}
  OBVIOUS
<1> HIDE DEF status
<1>7. /\ d \in AnySlip /\ d.status = status /\ d.by = NoTrestle /\ d.at = slip[s].at /\ d.kind = slip[s].kind
      /\ d.out = slip[s].out /\ d.asked = slip[s].asked /\ d.stray = slip[s].stray
  BY <1>2, <1>6 DEF AnySlip, Statuses
<1> HIDE DEF d
<1>8. Settles
  BY <1>1, <1>3, <1>4, <1>5, <1>6, <1>7 DEF Settles, Fresh
<1>. QED
  BY <1>4, <1>8, ClerkRests

LEMMA QueueKeeps ==
    ASSUME PrintsInv, NEW s \in Slips, SlipIsDrained(s) \/ DrainBreaks(s) \/ SlipIsRecovered(s)
    PROVE  PrintsInv'
<1>1. CASE SlipIsDrained(s)
  BY <1>1, DrainKeeps DEF SlipIsDrained
<1>2. CASE DrainBreaks(s)
  <2>1. PICK status \in {"HELD", "QUEUED", "FAILED"}, sheets \in {0, 1} : Drains(s, status, sheets)
    BY <1>2 DEF DrainBreaks
  <2>. QED
    BY <2>1, DrainKeeps
<1>3. CASE SlipIsRecovered(s)
  BY <1>3, RecoveryKeeps
<1>. QED
  BY <1>1, <1>2, <1>3

(* What a step has to leave, by what was missing before it.                *)
LEMMA ClerkMoves ==
    ASSUME PrintsInv, Settles, NoticeOK', NEW gone, NEW r \in AnyHand, NEW n \in Notices,
           hand'[clerk] = r, notice' = n,
           {s \in Missing' : slip[s].at = n.busy} \subseteq gone,
           Told(n.groups), Told(routed'.groups), Told(r.groups),
           routed'.pc = "told" => routed'.groups = {} \/ Lists(routed'.groups),
           n.open => Lists(n.groups) \/ (n.groups = {} /\ n.said = "failed" /\ n.busy = NoTrestle),
           n.busy # NoTrestle => \A s \in r.todo : slip[s].at = n.busy /\ s \in UNION {g.slips : g \in n.groups},
           r.pc \in Working \cup {"claim"} /\ ~r.missed => gone \subseteq r.todo,
           r.pc \in {"retry", "hold"} => gone \subseteq r.todo,
           r.pc \in {"lookup", "retried"} /\ ~r.missed => gone = {},
           r.pc \in {"heldup", "held"} => gone = {},
           r.pc \in {"retried", "held"} => r.groups = {} \/ Lists(r.groups)
    PROVE  PrintsInv'
<1>1. PrintsTypeOK' /\ Apart' /\ SheetsOK' /\ HandsOK'
  BY SettlesKeeps
<1>2. /\ Missing' \subseteq Missing /\ \A s \in Slips : slip'[s].at = slip[s].at
      /\ \A groups \in SUBSET Groups : Told(groups) =>
           /\ \A g \in groups : \A s \in g.slips : slip'[s].at = g.at
           /\ \A g, e \in groups : g.at = e.at => g = e
      /\ \A groups \in SUBSET Groups : Lists(groups) => Missing' \subseteq UNION {g.slips : g \in groups}
  BY SettlesLists
<1>3. n.groups \subseteq Groups /\ routed'.groups \subseteq Groups /\ r.groups \subseteq Groups /\ r.todo \subseteq Slips
  BY DEF Settles, Answers, Notices, AnyHand
<1>4. Told(notice.groups)' /\ Told(routed.groups)' /\ Told(hand[clerk].groups)'
  BY <1>2, <1>3 DEF Told
<1> DEFINE missed == {s \in Missing' : slip[s].at = n.busy}
<1>5. MissingAt(notice.busy)' = missed
  BY <1>2 DEF MissingAt, Missing, Unprinted
<1> DEFINE listed_(groups) == Missing' \subseteq UNION {g.slips : g \in groups}
<1>6. /\ routed'.pc = "told" => routed'.groups = {} \/ listed_(routed'.groups)
      /\ n.open => listed_(n.groups) \/ (n.groups = {} /\ n.said = "failed" /\ n.busy = NoTrestle)
      /\ r.pc \in {"retried", "held"} => r.groups = {} \/ listed_(r.groups)
  BY <1>2, <1>3
<1>7. \A s \in r.todo : slip'[s].at = slip[s].at
  BY <1>2, <1>3
<1> HIDE DEF missed
<1>8. /\ r.pc \in Working \cup {"claim"} /\ ~r.missed => missed \subseteq r.todo
      /\ r.pc \in {"retry", "hold"} => missed \subseteq r.todo
      /\ r.pc \in {"lookup", "retried"} /\ ~r.missed => missed = {}
      /\ r.pc \in {"heldup", "held"} => missed = {}
  BY DEF missed
<1>9. ClerkOK'
  BY <1>4, <1>5, <1>6, <1>7, <1>8 DEF ClerkOK, Lists
<1>. QED
  BY <1>1, <1>9 DEF PrintsInv

(* A step of the clerk's request that changes no job.                      *)
LEMMA ClerkGoes ==
    ASSUME PrintsInv, NEW r \in AnyHand, NEW n \in Notices,
           hand' = [hand EXCEPT ![clerk] = r], notice' = n, slip' = slip, routed' = routed, listed' = listed,
           r.pc \in ClerkSteps \ Working, r.pc = "claim" => r.todo # {},
           n.open => notice.open, n.busy # NoTrestle <=> r.pc # "rest", n.busy # NoTrestle => n.open,
           Told(n.groups), Told(r.groups),
           n.open => Lists(n.groups) \/ (n.groups = {} /\ n.said = "failed" /\ n.busy = NoTrestle),
           n.busy # NoTrestle => \A s \in r.todo : slip[s].at = n.busy /\ s \in UNION {g.slips : g \in n.groups},
           r.pc \in {"retry", "hold", "claim"} => MissingAt(n.busy) \subseteq r.todo,
           r.pc \in {"lookup", "retried"} /\ ~r.missed => MissingAt(n.busy) = {},
           r.pc \in {"heldup", "held"} => MissingAt(n.busy) = {},
           r.pc \in {"retried", "held"} => r.groups = {} \/ Lists(r.groups)
    PROVE  PrintsInv'
<1>0. /\ slip \in [Slips -> AnySlip] /\ hand \in [Hands -> AnyHand] /\ routed \in Answers
      /\ listed.failed \subseteq Slips /\ hand[office].pc \in OfficeSteps
  BY DEF PrintsInv, PrintsTypeOK
<1>1. /\ clerk \in Hands /\ office \in Hands /\ clerk # office /\ clerk \notin Trestles
      /\ Trestles \subseteq Hands /\ Retriers = {clerk, office}
  BY PrintsAssumption DEF Hands, Retriers
<1>2. hand'[clerk] = r /\ \A h \in Hands \ {clerk} : hand'[h] = hand[h]
  BY <1>0, <1>1
<1>3. hand' \in [Hands -> AnyHand]
  BY <1>0, <1>1
<1>4. Settles
  BY <1>0, <1>1, <1>2, <1>3 DEF Settles
<1>5. LanesRest => LanesRest'
  BY <1>1, <1>2 DEF LanesRest
<1>6. NoticeOK'
  BY <1>2, <1>5 DEF PrintsInv, NoticeOK
<1>7. {s \in Missing' : slip[s].at = n.busy} \subseteq MissingAt(n.busy)
  BY DEF MissingAt, Missing, Unprinted
<1>8. Told(routed'.groups) /\ (routed'.pc = "told" => routed'.groups = {} \/ Lists(routed'.groups))
  BY DEF PrintsInv, ClerkOK
<1> DEFINE gone == MissingAt(n.busy)
<1>9. /\ r.pc \in Working \cup {"claim"} /\ ~r.missed => gone \subseteq r.todo
      /\ r.pc \in {"retry", "hold"} => gone \subseteq r.todo
      /\ r.pc \in {"lookup", "retried"} /\ ~r.missed => gone = {}
      /\ r.pc \in {"heldup", "held"} => gone = {}
  OBVIOUS
<1> HIDE DEF gone
<1>10. {s \in Missing' : slip[s].at = n.busy} \subseteq gone
  BY <1>7 DEF gone
<1>. QED
  BY <1>2, <1>4, <1>6, <1>8, <1>9, <1>10, ClerkMoves

LEMMA AskKeeps ==
    ASSUME PrintsInv, NEW g \in notice.groups, NEW pc \in {"retry", "hold"}, ClerkAsks(g, pc)
    PROVE  PrintsInv'
<1> DEFINE r == Begins(g.slips, pc)  n == [notice EXCEPT !.busy = g.at]
<1>1. notice \in Notices /\ g \in Groups /\ Told(notice.groups)
  BY DEF PrintsInv, PrintsTypeOK, Notices, ClerkOK
<1>2. g.at \in Trestles /\ g.slips \subseteq Slips /\ g.at # NoTrestle
  BY <1>1, PrintsAssumption DEF Groups, Hands
<1>3. /\ n \in Notices /\ n.busy = g.at /\ n.open = notice.open /\ n.groups = notice.groups
      /\ n.said = notice.said
  BY <1>1, <1>2 DEF Notices
<1>4. r \in AnyHand /\ r.pc = pc /\ r.todo = g.slips /\ r.groups = {} /\ ~r.missed
  BY <1>2 DEF Begins, AtRest, AnyHand, ClerkSteps
<1>5. /\ notice.open /\ hand' = [hand EXCEPT ![clerk] = r] /\ notice' = n
      /\ slip' = slip /\ routed' = routed /\ listed' = listed
  BY DEF ClerkAsks
<1>6. Lists(notice.groups)
  BY <1>5 DEF PrintsInv, ClerkOK
<1>7. MissingAt(g.at) \subseteq g.slips
  <2> SUFFICES ASSUME NEW s \in MissingAt(g.at) PROVE s \in g.slips
    OBVIOUS
  <2>1. PICK e \in notice.groups : s \in e.slips
    BY <1>6 DEF MissingAt, Lists
  <2>2. e.at = g.at
    BY <1>1, <2>1 DEF MissingAt, Told
  <2>. QED
    BY <1>1, <2>1, <2>2 DEF Told
<1>8. \A s \in g.slips : slip[s].at = g.at /\ s \in UNION {e.slips : e \in notice.groups}
  BY <1>1 DEF Told
<1>9. Told({})
  BY DEF Told
<1> HIDE DEF r, n
<1>10. pc \in ClerkSteps \ Working /\ pc \notin {"rest", "claim", "lookup", "retried", "heldup", "held"}
  BY DEF ClerkSteps, Working
<1>. QED
  BY <1>1, <1>2, <1>3, <1>4, <1>5, <1>6, <1>7, <1>8, <1>9, <1>10, ClerkGoes

(* What a clerk's request at work has.                                     *)
LEMMA ClerkBusy ==
    ASSUME PrintsInv, hand[clerk].pc # "rest"
    PROVE  /\ notice \in Notices /\ hand[clerk] \in AnyHand
           /\ notice.open /\ notice.busy # NoTrestle /\ Lists(notice.groups)
           /\ Told(notice.groups) /\ Told(hand[clerk].groups) /\ Told({})
           /\ \A s \in hand[clerk].todo : slip[s].at = notice.busy /\ s \in UNION {g.slips : g \in notice.groups}
<1>1. notice \in Notices /\ hand[clerk] \in AnyHand
  BY DEF PrintsInv, PrintsTypeOK, Hands, Retriers
<1>2. notice.open /\ notice.busy # NoTrestle
  BY DEF PrintsInv, NoticeOK
<1>. QED
  BY <1>1, <1>2 DEF PrintsInv, ClerkOK, Told

LEMMA RetryKeeps ==
    ASSUME PrintsInv, RetryIsFound
    PROVE  PrintsInv'
<1> DEFINE todo == hand[clerk].todo \cap Unprinted
           pc == IF todo = {} THEN "lookup" ELSE "claim"
           r == Begins(todo, pc)  n == notice
<1>1. hand[clerk].pc = "retry"
  BY DEF RetryIsFound
<1>2. /\ notice \in Notices /\ hand[clerk] \in AnyHand
      /\ notice.open /\ notice.busy # NoTrestle /\ Lists(notice.groups) /\ Told(notice.groups) /\ Told({})
      /\ \A s \in hand[clerk].todo : slip[s].at = notice.busy /\ s \in UNION {g.slips : g \in notice.groups}
  BY <1>1, ClerkBusy
<1>3. todo \subseteq Slips
  BY DEF Unprinted
<1>4. r \in AnyHand /\ r.pc = pc /\ r.todo = todo /\ r.groups = {} /\ ~r.missed
  BY <1>3 DEF Begins, AtRest, AnyHand, ClerkSteps, OfficeSteps
<1>5. /\ hand' = [hand EXCEPT ![clerk] = r] /\ notice' = n
      /\ slip' = slip /\ routed' = routed /\ listed' = listed
  BY DEF RetryIsFound
<1>6. MissingAt(notice.busy) \subseteq hand[clerk].todo
  BY <1>1 DEF PrintsInv, ClerkOK
<1>7. MissingAt(notice.busy) \subseteq Unprinted
  BY DEF MissingAt, Missing
<1>8. MissingAt(notice.busy) \subseteq todo
  BY <1>6, <1>7
<1>9. \A s \in todo : slip[s].at = notice.busy /\ s \in UNION {g.slips : g \in notice.groups}
  BY <1>2
<1>10. (pc = "claim" /\ todo # {}) \/ (pc = "lookup" /\ todo = {})
  OBVIOUS
<1> HIDE DEF r, pc, todo
<1>11. pc \in ClerkSteps \ Working /\ pc \notin {"rest", "retry", "hold", "retried", "heldup", "held"}
  BY <1>10 DEF ClerkSteps, Working
<1>. QED
  BY <1>2, <1>4, <1>5, <1>8, <1>9, <1>10, <1>11, ClerkGoes

LEMMA LookupKeeps ==
    ASSUME PrintsInv, RetryIsLookedUp \/ HoldIsLookedUp
    PROVE  PrintsInv'
<1>1. PICK pc \in {"retried", "held"}, lookup \in Lookups :
         /\ (pc = "retried" /\ hand[clerk].pc = "lookup") \/ (pc = "held" /\ hand[clerk].pc = "heldup")
         /\ hand' = [hand EXCEPT ![clerk] = [hand[clerk] EXCEPT !.pc = pc, !.groups = lookup.groups]]
         /\ notice' = notice /\ slip' = slip /\ routed' = routed /\ listed' = listed
  BY DEF RetryIsLookedUp, HoldIsLookedUp
<1> DEFINE r == [hand[clerk] EXCEPT !.pc = pc, !.groups = lookup.groups]
<1>2. /\ notice \in Notices /\ hand[clerk] \in AnyHand
      /\ notice.open /\ notice.busy # NoTrestle /\ Lists(notice.groups) /\ Told(notice.groups)
      /\ \A s \in hand[clerk].todo : slip[s].at = notice.busy /\ s \in UNION {g.slips : g \in notice.groups}
  BY <1>1, ClerkBusy
<1>3. /\ lookup.groups \subseteq Groups /\ Told(lookup.groups)
      /\ lookup.groups = {} \/ Lists(lookup.groups)
  BY LookupTells DEF PrintsInv
<1>4. pc \in LaneSteps \cup OfficeSteps \cup ClerkSteps
  BY DEF ClerkSteps
<1>5. /\ r \in AnyHand /\ r.pc = pc /\ r.todo = hand[clerk].todo /\ r.groups = lookup.groups
      /\ r.missed = hand[clerk].missed
  BY <1>2, <1>3, <1>4 DEF AnyHand
<1>6. hand[clerk].pc = "lookup" /\ ~hand[clerk].missed => MissingAt(notice.busy) = {}
  BY DEF PrintsInv, ClerkOK
<1>7. hand[clerk].pc = "heldup" => MissingAt(notice.busy) = {}
  BY DEF PrintsInv, ClerkOK
<1>8. hand' = [hand EXCEPT ![clerk] = r]
  BY <1>1
<1> HIDE DEF r
<1>9. pc \in ClerkSteps \ Working /\ pc \notin {"rest", "retry", "hold", "claim", "lookup", "heldup"}
  BY DEF ClerkSteps, Working
<1>. QED
  BY <1>1, <1>2, <1>3, <1>5, <1>6, <1>7, <1>8, <1>9, ClerkGoes

(* The clerk's request is over.                                            *)
LEMMA AnswerKeeps ==
    ASSUME PrintsInv, hand[clerk].pc # "rest", NEW left \in SUBSET Groups, NEW said,
           said \in {"none", "failed", "left", "all sent", "in the queue"},
           hand' = [hand EXCEPT ![clerk] = AtRest],
           notice' = [notice EXCEPT !.busy = NoTrestle, !.groups = left, !.said = said],
           slip' = slip, routed' = routed, listed' = listed, Told(left), Lists(left)
    PROVE  PrintsInv'
<1> DEFINE r == AtRest  n == [notice EXCEPT !.busy = NoTrestle, !.groups = left, !.said = said]
<1>1. notice \in Notices /\ notice.open /\ Told({})
  BY ClerkBusy
<1>2. n \in Notices /\ n.busy = NoTrestle /\ n.open = notice.open /\ n.groups = left
  BY <1>1 DEF Notices
<1>3. r \in AnyHand /\ r.pc = "rest" /\ r.groups = {}
  BY DEF AtRest, AnyHand, LaneSteps
<1> HIDE DEF r, n
<1>4. "rest" \in ClerkSteps \ Working
  BY DEF ClerkSteps, Working
<1>5. hand' = [hand EXCEPT ![clerk] = r] /\ notice' = n
  BY DEF r, n
<1>. QED
  BY <1>1, <1>2, <1>3, <1>4, <1>5, ClerkGoes

LEMMA RefusalKeeps ==
    ASSUME PrintsInv, HoldIsRefused \/ RequestIsLost
    PROVE  PrintsInv'
<1>1. /\ hand[clerk].pc # "rest" /\ hand' = [hand EXCEPT ![clerk] = AtRest]
      /\ notice' = [notice EXCEPT !.busy = NoTrestle]
      /\ slip' = slip /\ routed' = routed /\ listed' = listed
  BY DEF HoldIsRefused, RequestIsLost
<1>2. notice \in Notices /\ Told(notice.groups) /\ Lists(notice.groups)
  BY <1>1, ClerkBusy
<1>3. /\ notice.groups \subseteq Groups
      /\ notice.said \in {"none", "failed", "left", "all sent", "in the queue"}
  BY <1>2 DEF Notices
<1>4. notice' = [notice EXCEPT !.busy = NoTrestle, !.groups = notice.groups, !.said = notice.said]
  BY <1>1, <1>2 DEF Notices
<1>. QED
  BY <1>1, <1>2, <1>3, <1>4, AnswerKeeps

LEMMA TellsKeeps ==
    ASSUME PrintsInv, RetryIsAnswered \/ HoldIsAnswered
    PROVE  PrintsInv'
<1>1. PICK missed : /\ \E done \in {"all sent", "in the queue"} : Tells(missed, done)
                    /\ hand[clerk].pc \in {"retried", "held"}
                    /\ ~missed => MissingAt(notice.busy) = {}
  <2>1. /\ hand[clerk].pc = "retried" /\ ~hand[clerk].missed => MissingAt(notice.busy) = {}
        /\ hand[clerk].pc = "held" => MissingAt(notice.busy) = {}
    BY DEF PrintsInv, ClerkOK
  <2>2. CASE RetryIsAnswered
    <3>1. Tells(hand[clerk].missed, "all sent") /\ hand[clerk].pc = "retried"
      BY <2>2 DEF RetryIsAnswered
    <3>. QED
      BY <2>1, <3>1
  <2>3. CASE HoldIsAnswered
    <3>1. Tells(FALSE, "in the queue") /\ hand[clerk].pc = "held"
      BY <2>3 DEF HoldIsAnswered
    <3>. QED
      BY <2>1, <3>1
  <2>. QED
    BY <2>2, <2>3
<1>1a. PICK done \in {"all sent", "in the queue"} : Tells(missed, done)
  BY <1>1
<1>2. /\ notice \in Notices /\ hand[clerk] \in AnyHand
      /\ notice.open /\ notice.busy # NoTrestle /\ Lists(notice.groups)
      /\ Told(notice.groups) /\ Told(hand[clerk].groups)
  BY <1>1, ClerkBusy
<1> DEFINE found == hand[clerk].groups
           left == IF found # {} THEN found ELSE KeptGroups(notice.groups, notice.busy, missed)
           said == IF left = {} THEN done ELSE "left"
<1>3. found \subseteq Groups /\ notice.groups \subseteq Groups /\ left \subseteq Groups
  BY <1>2 DEF AnyHand, Notices, KeptGroups
<1>4. Told(left)
  BY <1>2 DEF Told, KeptGroups
<1>5. Lists(left)
  <2>1. CASE found # {}
    BY <1>1, <2>1 DEF PrintsInv, ClerkOK
  <2>2. CASE found = {} /\ missed
    BY <1>2, <2>2 DEF KeptGroups
  <2>3. CASE found = {} /\ ~missed
    <3> SUFFICES ASSUME NEW s \in Missing PROVE \E g \in left : s \in g.slips
      BY DEF Lists
    <3>1. PICK g \in notice.groups : s \in g.slips
      BY <1>2 DEF Lists
    <3>2. slip[s].at = g.at /\ slip[s].at # notice.busy
      BY <1>1, <1>2, <2>3, <3>1 DEF Told, MissingAt
    <3>. QED
      BY <2>3, <3>1, <3>2 DEF KeptGroups
  <2>. QED
    BY <2>1, <2>2, <2>3
<1>6. /\ hand' = [hand EXCEPT ![clerk] = AtRest] /\ slip' = slip /\ routed' = routed /\ listed' = listed
      /\ notice' = [notice EXCEPT !.busy = NoTrestle, !.groups = left, !.said = said]
  BY <1>1a DEF Tells
<1>7. said \in {"none", "failed", "left", "all sent", "in the queue"} /\ hand[clerk].pc # "rest"
  BY <1>1
<1> HIDE DEF left, said
<1>. QED
  BY <1>3, <1>4, <1>5, <1>6, <1>7, AnswerKeeps

(* Jobs missing at a printer of the kitchen are all the kitchen's.         *)
LEMMA HoldKeeps ==
    ASSUME PrintsInv, SlipsAreHeld
    PROVE  PrintsInv'
<1> DEFINE job == hand[clerk]  at == notice.busy  r == [job EXCEPT !.pc = "heldup"]  n == notice
<1>0. /\ slip \in [Slips -> AnySlip] /\ hand \in [Hands -> AnyHand] /\ routed \in Answers
      /\ listed.failed \subseteq Slips /\ hand[office].pc \in OfficeSteps
  BY DEF PrintsInv, PrintsTypeOK
<1>1. /\ clerk \in Hands /\ office \in Hands /\ clerk # office /\ clerk \notin Trestles
      /\ Trestles \subseteq Hands /\ Retriers = {clerk, office}
  BY PrintsAssumption DEF Hands, Retriers
<1>2. /\ job.pc = "hold" /\ Holdable # {} /\ hand' = [hand EXCEPT ![clerk].pc = "heldup"]
      /\ notice' = n /\ routed' = routed /\ listed' = listed
      /\ slip' = [s \in Slips |-> IF s \in Holdable THEN [slip[s] EXCEPT !.status = "HELD", !.asked = @ + 1]
                                  ELSE slip[s]]
  BY DEF SlipsAreHeld
<1>3. /\ notice \in Notices /\ job \in AnyHand
      /\ notice.open /\ notice.busy # NoTrestle /\ Lists(notice.groups)
      /\ Told(notice.groups) /\ Told(job.groups)
      /\ \A s \in job.todo : slip[s].at = at /\ s \in UNION {g.slips : g \in notice.groups}
  BY <1>2, ClerkBusy
<1>4. r \in AnyHand /\ r.pc = "heldup" /\ r.todo = job.todo /\ r.groups = job.groups
  BY <1>3 DEF AnyHand, ClerkSteps
<1>5. hand' = [hand EXCEPT ![clerk] = r]
  BY <1>0, <1>1, <1>2
<1> HIDE DEF r
<1>6. hand'[clerk] = r /\ \A h \in Hands \ {clerk} : hand'[h] = hand[h]
  BY <1>0, <1>1, <1>5
<1>7. hand' \in [Hands -> AnyHand]
  BY <1>0, <1>1, <1>4, <1>5
<1>8. \A s \in Slips :
        /\ slip'[s] \in AnySlip
        /\ slip'[s].at = slip[s].at /\ slip'[s].kind = slip[s].kind
        /\ s \in Holdable => slip'[s].out < slip'[s].asked + slip'[s].stray
        /\ s \in Holdable => slip[s].status = "FAILED" /\ slip'[s].status = "HELD"
        /\ s \notin Holdable => slip'[s] = slip[s]
  <2> SUFFICES ASSUME NEW s \in Slips
               PROVE  /\ slip'[s] \in AnySlip
                      /\ slip'[s].at = slip[s].at /\ slip'[s].kind = slip[s].kind
                      /\ s \in Holdable => slip'[s].out < slip'[s].asked + slip'[s].stray
                      /\ s \in Holdable => slip[s].status = "FAILED" /\ slip'[s].status = "HELD"
                      /\ s \notin Holdable => slip'[s] = slip[s]
    OBVIOUS
  <2> DEFINE asked == slip[s].asked + 1
             d == [slip[s] EXCEPT !.status = "HELD", !.asked = asked]
  <2>1. slip[s] \in AnySlip
    BY <1>0
  <2>1a. asked \in Nat /\ slip[s].out < asked + slip[s].stray
    BY <2>1 DEF AnySlip, PrintsInv, SheetsOK
  <2> HIDE DEF asked
  <2>2. /\ d \in AnySlip /\ d.status = "HELD" /\ d.at = slip[s].at /\ d.kind = slip[s].kind
        /\ d.out = slip[s].out /\ d.asked = asked /\ d.stray = slip[s].stray
    BY <2>1, <2>1a DEF AnySlip, Statuses
  <2>3. slip'[s] = IF s \in Holdable THEN d ELSE slip[s]
    BY <1>2 DEF asked
  <2>4. s \in Holdable => slip[s].status = "FAILED"
    BY DEF Holdable, Unprinted
  <2> HIDE DEF d
  <2>. QED
    BY <2>1, <2>1a, <2>2, <2>3, <2>4
<1>9. slip' \in [Slips -> AnySlip]
  BY <1>2, <1>8
<1>10. "heldup" \in ClerkSteps /\ "heldup" \notin Working
  BY DEF ClerkSteps, Working
<1>10a. \A s \in Holdable : ~Fresh(s) /\ Loose(s)
  BY DEF Holdable, Unprinted, Fresh, Loose, PrintsInv, HandsOK, Own
<1>10b. \A s \in Slips : s \in Holdable => slip'[s].out <= slip'[s].asked + slip'[s].stray
  BY <1>8 DEF AnySlip
<1>10c. ASSUME NEW s \in Slips, s \in Holdable
        PROVE  /\ ~Fresh(s) /\ slip'[s].status = "HELD" /\ Loose(s)
               /\ slip'[s].at = slip[s].at /\ slip'[s].kind = slip[s].kind
               /\ slip'[s].out <= slip'[s].asked + slip'[s].stray
               /\ slip'[s].out < slip'[s].asked + slip'[s].stray
  BY <1>8, <1>10a, <1>10b, <1>10c
<1>10d. \A s \in Slips : s \notin Holdable => slip'[s] = slip[s]
  BY <1>8
<1>10e. \A p \in Trestles : hand'[p] = hand[p]
  BY <1>1, <1>6
<1>10f. \A h \in Retriers :
          \/ hand'[h] = hand[h]
          \/ hand'[h].pc \notin Working /\ (hand'[h].pc = "claim" => hand'[h].todo # {})
  <2>1. hand'[clerk].pc = "heldup" /\ hand'[office] = hand[office]
    BY <1>1, <1>4, <1>6
  <2>2. hand'[clerk].pc \notin Working /\ hand'[clerk].pc # "claim"
    BY <1>10, <2>1
  <2>3. Retriers = {clerk, office}
    BY <1>1
  <2>. QED
    BY <2>1, <2>2, <2>3
<1>10g. hand'[clerk].pc \in ClerkSteps /\ hand'[office].pc \in OfficeSteps
  BY <1>0, <1>1, <1>4, <1>6, <1>10
<1>10h. /\ routed' \in Answers /\ notice' \in Notices /\ listed'.failed \subseteq Slips
        /\ (routed'.pc = "sheets" => routed.pc = "sheets")
  BY <1>0, <1>2, <1>3
<1>10i. \A s \in Slips :
         \/ slip'[s] = slip[s]
         \/ /\ ~Fresh(s) /\ slip'[s].status # "NONE" /\ Loose(s)
            /\ slip'[s].at = slip[s].at /\ slip'[s].kind = slip[s].kind
            /\ slip'[s].out <= slip'[s].asked + slip'[s].stray
            /\ slip'[s].status = "SENT" => slip'[s].out > 0
            /\ slip'[s].status = "FAILED" => slip'[s].by = NoTrestle
            /\ slip'[s].status \in {"HELD", "QUEUED"} => slip'[s].out < slip'[s].asked + slip'[s].stray
  BY <1>10c, <1>10d
<1>11. Settles
  BY <1>7, <1>9, <1>10e, <1>10f, <1>10g, <1>10h, <1>10i DEF Settles
<1>12. LanesRest => LanesRest'
  BY <1>1, <1>6 DEF LanesRest
<1>13. NoticeOK'
  BY <1>2, <1>3, <1>4, <1>6, <1>12 DEF PrintsInv, NoticeOK
<1>14. {s \in Missing' : slip[s].at = notice.busy} \subseteq {}
  <2> SUFFICES ASSUME NEW s \in Missing', slip[s].at = at PROVE FALSE
    OBVIOUS
  <2>1. s \in Slips /\ slip'[s].status = "FAILED" /\ slip'[s].by \notin {office, NoTrestle}
    BY DEF Missing, Unprinted
  <2>2. s \notin Holdable /\ slip'[s] = slip[s]
    BY <1>8, <2>1
  <2>3. s \in MissingAt(at)
    BY <2>1, <2>2 DEF MissingAt, Missing, Unprinted
  <2>4. MissingAt(at) \subseteq job.todo
    BY <1>2 DEF PrintsInv, ClerkOK
  <2>5. PICK t \in Slips : slip[t].at = at /\ slip[t].kind = "kitchen"
    BY <1>2, <1>3 DEF Holdable, Unprinted
  <2>6. slip[s].kind = "kitchen"
    BY <2>1, <2>5 DEF PrintsInv, Apart
  <2>. QED
    BY <2>1, <2>2, <2>3, <2>4, <2>6 DEF Holdable, Unprinted
<1>15. Told(routed'.groups) /\ (routed'.pc = "told" => routed'.groups = {} \/ Lists(routed'.groups))
  BY <1>2 DEF PrintsInv, ClerkOK
<1>16. "heldup" \notin Working \cup {"claim", "retry", "hold", "lookup", "retried", "held"}
  BY DEF Working
<1>. QED
  BY <1>2, <1>3, <1>4, <1>6, <1>11, <1>13, <1>14, <1>15, <1>16, ClerkMoves

(* The sale's answer: the message opens when the lanes are at rest.        *)
LEMMA SaleKeeps ==
    ASSUME PrintsInv, OrderIsRouted \/ NoticeOpens \/ NoticeIsClosed
    PROVE  PrintsInv'
<1>0. /\ slip \in [Slips -> AnySlip] /\ hand \in [Hands -> AnyHand] /\ routed \in Answers /\ notice \in Notices
      /\ listed.failed \subseteq Slips /\ hand[clerk].pc \in ClerkSteps /\ hand[office].pc \in OfficeSteps
      /\ hand[clerk] \in AnyHand
  BY DEF PrintsInv, PrintsTypeOK, Hands, Retriers
<1>1. hand' = hand /\ slip' = slip /\ listed' = listed
  BY DEF OrderIsRouted, NoticeOpens, NoticeIsClosed
<1> DEFINE n == notice'  r == hand[clerk]  at == notice.busy
<1>2. ClerkOK /\ NoticeOK
  BY DEF PrintsInv
<1>3. ASSUME n \in Notices, routed' \in Answers, routed'.pc # "sheets", NoticeOK',
             Told(n.groups), Told(routed'.groups), n.busy = at,
             routed'.pc = "told" => routed'.groups = {} \/ Lists(routed'.groups),
             n.open => Lists(n.groups) \/ (n.groups = {} /\ n.said = "failed" /\ n.busy = NoTrestle),
             at # NoTrestle => n.groups = notice.groups
      PROVE  PrintsInv'
  <2>1. Settles
    BY <1>0, <1>1, <1>3 DEF Settles
  <2>2. {s \in Missing' : slip[s].at = n.busy} \subseteq MissingAt(at)
    BY <1>1, <1>3 DEF MissingAt, Missing, Unprinted
  <2>3. Told(r.groups) /\ (at # NoTrestle => \A s \in r.todo :
                              slip[s].at = at /\ s \in UNION {g.slips : g \in notice.groups})
    BY <1>2 DEF ClerkOK
  <2> DEFINE gone == MissingAt(at)
  <2>4. /\ r.pc \in Working \cup {"claim"} /\ ~r.missed => gone \subseteq r.todo
        /\ r.pc \in {"retry", "hold"} => gone \subseteq r.todo
        /\ r.pc \in {"lookup", "retried"} /\ ~r.missed => gone = {}
        /\ r.pc \in {"heldup", "held"} => gone = {}
        /\ r.pc \in {"retried", "held"} => r.groups = {} \/ Lists(r.groups)
    BY <1>2 DEF ClerkOK
  <2>5. hand'[clerk] = r
    BY <1>1
  <2> HIDE DEF gone, r
  <2>6. {s \in Missing' : slip[s].at = n.busy} \subseteq gone /\ r \in AnyHand
    BY <1>0, <2>2 DEF gone, r
  <2>. QED
    BY <1>3, <2>1, <2>3, <2>4, <2>5, <2>6, ClerkMoves
<1>4. CASE OrderIsRouted
  <2>1. PICK groups \in SUBSET Groups, pc \in {"told", "done"} :
           /\ Told(groups) /\ (pc = "told" => groups = {} \/ Lists(groups))
           /\ routed' = [routed EXCEPT !.pc = pc, !.groups = groups]
    <3>1. CASE routed' = [routed EXCEPT !.pc = "done"]
      <4>1. routed' = [routed EXCEPT !.pc = "done", !.groups = routed.groups]
        BY <1>0, <3>1 DEF Answers
      <4>2. routed.groups \in SUBSET Groups /\ Told(routed.groups)
        BY <1>0, <1>2 DEF Answers, ClerkOK
      <4>. QED
        BY <4>1, <4>2
    <3>2. CASE \E lookup \in Lookups : routed' = [routed EXCEPT !.pc = "told", !.groups = lookup.groups]
      <4>1. PICK lookup \in Lookups : routed' = [routed EXCEPT !.pc = "told", !.groups = lookup.groups]
        BY <3>2
      <4>2. /\ lookup.groups \in SUBSET Groups /\ Told(lookup.groups)
            /\ lookup.groups = {} \/ Lists(lookup.groups)
        BY LookupTells DEF PrintsInv
      <4>. QED
        BY <4>1, <4>2
    <3>. QED
      BY <1>4, <3>1, <3>2 DEF OrderIsRouted
  <2>2. routed' \in Answers /\ routed'.pc = pc /\ routed'.groups = groups
    BY <1>0, <2>1 DEF Answers
  <2>3. n = notice /\ LanesRest /\ routed.pc = "photo"
    BY <1>4 DEF OrderIsRouted
  <2>4. ~notice.open /\ at = NoTrestle /\ Told(notice.groups)
    BY <1>2, <2>3 DEF NoticeOK, ClerkOK
  <2>5. NoticeOK'
    BY <1>1, <1>2, <2>3, <2>4 DEF NoticeOK, LanesRest
  <2>. QED
    BY <1>0, <1>3, <2>1, <2>2, <2>3, <2>4, <2>5
<1>5. CASE NoticeOpens
  <2>1. /\ routed.pc = "told" /\ routed' = [routed EXCEPT !.pc = "done", !.groups = {}]
        /\ n = [open |-> TRUE, busy |-> NoTrestle, said |-> "failed", groups |-> routed.groups]
    BY <1>5 DEF NoticeOpens
  <2>2. routed' \in Answers /\ routed'.pc = "done" /\ routed'.groups = {}
    BY <1>0, <2>1 DEF Answers
  <2>3. n \in Notices /\ n.open /\ n.busy = NoTrestle /\ n.said = "failed" /\ n.groups = routed.groups
    BY <1>0, <2>1 DEF Answers, Notices
  <2>4. ~notice.open /\ at = NoTrestle /\ LanesRest /\ hand[clerk].pc = "rest"
    BY <1>2, <2>1 DEF NoticeOK
  <2>5. NoticeOK'
    BY <1>1, <2>2, <2>3, <2>4 DEF NoticeOK, LanesRest
  <2>6. Told(routed.groups) /\ Told({}) /\ (routed.groups = {} \/ Lists(routed.groups))
    BY <1>2, <2>1 DEF ClerkOK, Told
  <2>. QED
    BY <1>3, <2>2, <2>3, <2>4, <2>5, <2>6
<1>6. CASE NoticeIsClosed
  <2>1. n = [notice EXCEPT !.open = FALSE] /\ routed' = routed /\ notice.open /\ at = NoTrestle
    BY <1>6 DEF NoticeIsClosed
  <2>2. n \in Notices /\ ~n.open /\ n.busy = at /\ n.groups = notice.groups
    BY <1>0, <2>1 DEF Notices
  <2>3. routed.pc = "done"
    BY <1>2, <2>1 DEF NoticeOK
  <2>4. NoticeOK'
    BY <1>1, <1>2, <2>1, <2>2, <2>3 DEF NoticeOK, LanesRest
  <2>5. Told(notice.groups) /\ Told(routed.groups)
    BY <1>2 DEF ClerkOK
  <2>. QED
    BY <1>0, <1>3, <2>1, <2>2, <2>3, <2>4, <2>5
<1>. QED
  BY <1>4, <1>5, <1>6

(* The photos follow to lanes at rest.                                     *)
LEMMA PhotoKeeps ==
    ASSUME PrintsInv, PhotoFollows
    PROVE  PrintsInv'
<1>0. /\ slip \in [Slips -> AnySlip] /\ hand \in [Hands -> AnyHand] /\ routed \in Answers
      /\ listed.failed \subseteq Slips /\ notice \in Notices
      /\ hand[clerk].pc \in ClerkSteps /\ hand[office].pc \in OfficeSteps
  BY DEF PrintsInv, PrintsTypeOK
<1>1. /\ clerk \in Hands /\ office \in Hands /\ clerk \notin Trestles /\ office \notin Trestles
      /\ Trestles \subseteq Hands
  BY PrintsAssumption DEF Hands, Retriers
<1>2. /\ routed.pc = "sheets" /\ LanesRest /\ routed' = [routed EXCEPT !.pc = "photo"]
      /\ slip' = slip /\ notice' = notice /\ listed' = listed
  BY DEF PhotoFollows
<1>3. routed' \in Answers /\ routed'.pc = "photo" /\ routed'.groups = routed.groups
  BY <1>0, <1>2 DEF Answers
<1> DEFINE photos(h) == SlipsAt(h, {"photo"})
<1>4. hand' = [h \in Hands |-> IF h \notin Trestles \/ photos(h) = {} THEN hand[h] ELSE Begins(photos(h), "take")]
  BY DEF PhotoFollows
<1>5. \A h : /\ photos(h) \subseteq Slips
             /\ \A s \in photos(h) : slip[s].at = h /\ slip[s].kind = "photo"
  BY DEF SlipsAt
<1>6. \A h : /\ Begins(photos(h), "take") \in AnyHand /\ Begins(photos(h), "take").pc = "take"
             /\ Begins(photos(h), "take").todo = photos(h)
  BY <1>5 DEF Begins, AtRest, AnyHand, LaneSteps
<1> HIDE DEF photos
<1>7. \A h \in Hands : hand'[h] = hand[h] \/ (h \in Trestles /\ photos(h) # {} /\ hand'[h] = Begins(photos(h), "take"))
  BY <1>4
<1>8. hand'[clerk] = hand[clerk] /\ hand'[office] = hand[office]
  BY <1>1, <1>4
<1>9. hand' \in [Hands -> AnyHand]
  BY <1>0, <1>4, <1>6
<1>10. \A p \in Trestles : hand'[p].pc \in LaneSteps
  BY <1>1, <1>6, <1>7 DEF PrintsInv, PrintsTypeOK, LaneSteps
<1>11. PrintsTypeOK'
  BY <1>0, <1>2, <1>3, <1>8, <1>9, <1>10 DEF PrintsTypeOK
<1>12. Apart' /\ SheetsOK'
  BY <1>2, <1>3 DEF PrintsInv, Apart, SheetsOK, Fresh, Waits
<1>13. HandsOK'
  <2>1. \A s \in Slips : slip[s].kind = "photo" => Fresh(s)
    BY <1>2 DEF PrintsInv, SheetsOK
  <2>2. HandsOK
    BY DEF PrintsInv
  <2>3. ASSUME NEW h \in Hands
        PROVE  /\ hand'[h].pc \in Working \cup {"take", "claim"} => hand'[h].todo # {}
               /\ hand'[h].pc \in Working => /\ slip[Min(hand'[h].todo)].status = "QUEUED"
                                             /\ slip[Min(hand'[h].todo)].by = h
                                             /\ slip[Min(hand'[h].todo)].out < slip[Min(hand'[h].todo)].asked + slip[Min(hand'[h].todo)].stray
    <3>1. CASE hand'[h] = hand[h]
      BY <2>2, <3>1 DEF HandsOK, Own, JobOf
    <3>2. CASE hand'[h] # hand[h]
      BY <1>6, <1>7, <3>2 DEF Working
    <3>. QED
      BY <3>1, <3>2
  <2>4. ASSUME NEW p \in Trestles, NEW s \in hand'[p].todo
        PROVE  slip[s].at = p /\ (hand'[p].pc = "rest" \/ slip[s].status = "NONE")
    <3>1. CASE hand'[p] = hand[p]
      <4>1. hand[p].pc = "rest"
        BY <1>2 DEF LanesRest
      <4>. QED
        BY <2>2, <2>4, <3>1, <4>1 DEF HandsOK
    <3>2. CASE hand'[p] # hand[p]
      <4>1. s \in photos(p)
        BY <1>1, <1>6, <1>7, <2>4, <3>2
      <4>. QED
        BY <1>5, <2>1, <4>1 DEF Fresh
    <3>. QED
      BY <3>1, <3>2
  <2>. QED
    BY <1>2, <1>3, <2>3, <2>4 DEF HandsOK, Own, Fresh, JobOf
<1>14. NoticeOK'
  BY <1>2, <1>3, <1>8 DEF PrintsInv, NoticeOK
<1>15. ClerkOK'
  BY <1>2, <1>3, <1>8 DEF PrintsInv, ClerkOK, Told, Lists, Missing, MissingAt, Unprinted
<1>. QED
  BY <1>11, <1>12, <1>13, <1>14, <1>15 DEF PrintsInv

-----------------------------------------------------------------------------
LEMMA PrintsBegin ==
    ASSUME NEW batch \in Batches, NEW dark, PrintsInit(batch, dark)
    PROVE  PrintsInv
<1>0. /\ clerk \in Hands /\ office \in Hands /\ clerk \notin Trestles /\ office \notin Trestles
      /\ Trestles \subseteq Hands
  BY PrintsAssumption DEF Hands, Retriers
<1>1. /\ batch \in [Slips -> {NewSlip(p, kind) : p \in Trestles, kind \in Kinds}]
      /\ \A s, t \in Slips : batch[s].at = batch[t].at /\ batch[s].kind = "kitchen" => batch[t].kind = "kitchen"
  BY DEF Batches
<1>2. \A s \in Slips : /\ batch[s] \in AnySlip /\ batch[s].status = "NONE"
                       /\ batch[s].out = 0 /\ batch[s].asked = 1 /\ batch[s].stray = 0
  <2> SUFFICES ASSUME NEW s \in Slips
               PROVE  /\ batch[s] \in AnySlip /\ batch[s].status = "NONE"
                      /\ batch[s].out = 0 /\ batch[s].asked = 1 /\ batch[s].stray = 0
    OBVIOUS
  <2>1. PICK p \in Trestles, kind \in Kinds : batch[s] = NewSlip(p, kind)
    BY <1>1
  <2>. QED
    BY <2>1 DEF NewSlip, AnySlip, Statuses
<1>3. slip = batch /\ slip \in [Slips -> AnySlip]
  BY <1>1, <1>2 DEF PrintsInit
<1> DEFINE own(h) == {s \in Slips : batch[s].at = h /\ batch[s].kind # "photo"}
<1>4. hand = [h \in Hands |-> IF h \notin Trestles THEN AtRest
                              ELSE IF own(h) = {} THEN AtRest ELSE Begins(own(h), "take")]
  BY DEF PrintsInit
<1>5. \A h : /\ own(h) \subseteq Slips
             /\ \A s \in own(h) : batch[s].at = h /\ batch[s].kind # "photo"
  OBVIOUS
<1>6. AtRest \in AnyHand /\ AtRest.pc = "rest" /\ AtRest.todo = {} /\ AtRest.groups = {}
  BY DEF AtRest, AnyHand, LaneSteps
<1>7. \A h : /\ Begins(own(h), "take") \in AnyHand /\ Begins(own(h), "take").pc = "take"
             /\ Begins(own(h), "take").todo = own(h)
  BY <1>5 DEF Begins, AtRest, AnyHand, LaneSteps
<1> HIDE DEF own
<1>8. \A h \in Hands : \/ hand[h] = AtRest
                       \/ h \in Trestles /\ own(h) # {} /\ hand[h] = Begins(own(h), "take")
  BY <1>4
<1>9. hand[clerk] = AtRest /\ hand[office] = AtRest
  BY <1>0, <1>4
<1>10. hand \in [Hands -> AnyHand]
  BY <1>4, <1>6, <1>7
<1>11. /\ routed \in Answers /\ routed.pc = "sheets" /\ routed.groups = {} /\ listed.failed = {}
       /\ notice \in Notices /\ ~notice.open /\ notice.busy = NoTrestle /\ notice.groups = {}
  BY DEF PrintsInit, Answers, Notices
<1>12. PrintsTypeOK
  <2>1. "rest" \in ClerkSteps /\ "rest" \in OfficeSteps /\ "rest" \in LaneSteps /\ "take" \in LaneSteps
    BY DEF ClerkSteps, OfficeSteps, LaneSteps
  <2>. QED
    BY <1>0, <1>3, <1>6, <1>7, <1>8, <1>9, <1>10, <1>11, <2>1 DEF PrintsTypeOK
<1>13. Apart
  BY <1>1, <1>3 DEF Apart
<1>14. SheetsOK
  BY <1>2, <1>3 DEF SheetsOK, Fresh, Waits
<1>15. HandsOK
  <2>1. \A h \in Hands : hand[h].pc \in {"rest", "take"} /\ (hand[h].pc = "take" => hand[h].todo # {})
    BY <1>6, <1>7, <1>8
  <2>2. \A p \in Trestles : \A s \in hand[p].todo :
           /\ slip[s].at = p /\ (routed.pc = "sheets" => slip[s].kind # "photo") /\ Fresh(s)
    <3> SUFFICES ASSUME NEW p \in Trestles, NEW s \in hand[p].todo
                 PROVE  slip[s].at = p /\ slip[s].kind # "photo" /\ Fresh(s)
      OBVIOUS
    <3>1. s \in own(p)
      BY <1>0, <1>6, <1>7, <1>8
    <3>. QED
      BY <1>2, <1>3, <1>5, <3>1 DEF Fresh
  <2>. QED
    BY <2>1, <2>2 DEF HandsOK, Working
<1>16. NoticeOK
  BY <1>6, <1>9, <1>11, PrintsAssumption DEF NoticeOK
<1>17. ClerkOK
  BY <1>6, <1>9, <1>11 DEF ClerkOK, Told, Working
<1>. QED
  BY <1>12, <1>13, <1>14, <1>15, <1>16, <1>17 DEF PrintsInv

LEMMA PrintsKeep ==
    ASSUME PrintsInv, PrintsNext
    PROVE  PrintsInv'
<1>1. ASSUME NEW p \in Trestles, SheetIsTaken(p) \/ TrestleSwitches(p) PROVE PrintsInv'
  BY <1>1, WorkKeeps, OfficeKeeps DEF Hands
<1>2. ASSUME NEW h \in Hands,
             \/ SlipIsClaimed(h) \/ SlipIsLeased(h) \/ Reached(h) \/ NotReached(h) \/ CheckBreaks(h)
             \/ SlipIsSent(h) \/ SendIsRefused(h) \/ SendBreaks(h) \/ OutcomeIsLost(h)
      PROVE  PrintsInv'
  BY <1>2, WorkKeeps
<1>3. ASSUME NEW s \in Slips, SlipIsDrained(s) \/ DrainBreaks(s) \/ SlipIsRecovered(s) \/ OfficeAsks(s)
      PROVE  PrintsInv'
  BY <1>3, QueueKeeps, OfficeKeeps
<1>4. ASSUME NEW g \in notice.groups, NEW pc \in {"retry", "hold"}, ClerkAsks(g, pc) PROVE PrintsInv'
  BY <1>4, AskKeeps
<1>5. CASE PhotoFollows \/ OrderIsRouted \/ NoticeOpens \/ NoticeIsClosed
  BY <1>5, PhotoKeeps, SaleKeeps
<1>6. CASE RetryIsFound \/ RetryIsLookedUp \/ RetryIsAnswered
  BY <1>6, RetryKeeps, LookupKeeps, TellsKeeps
<1>7. CASE SlipsAreHeld \/ HoldIsLookedUp \/ HoldIsAnswered \/ HoldIsRefused \/ RequestIsLost
  BY <1>7, HoldKeeps, LookupKeeps, TellsKeeps, RefusalKeeps
<1>8. CASE OfficePolls \/ OfficeIsAnswered
  BY <1>8, OfficeKeeps
<1>. QED
  BY <1>1, <1>2, <1>3, <1>4, <1>5, <1>6, <1>7, <1>8 DEF PrintsNext

(* Whatever becomes of the sheets of an order, what is said to be sent is  *)
(* on paper, none comes out that nobody asked for but those the queue took *)
(* for failed, and the message lists what the sale and the clerk's         *)
(* requests left failed.                                                   *)
(* (dispatchPrintDocumentWithAutomaticRetry,                               *)
(* handleRetryFailedPrintsFromModal, handleHoldFailedPrintsFromModal)      *)
THEOREM SheetsStayAccounted ==
    \A batch \in Batches, dark \in SUBSET Trestles : PrintsSpec(batch, dark) => []SheetsAreAccounted
<1> SUFFICES ASSUME NEW CONSTANT batch \in Batches, NEW CONSTANT dark \in SUBSET Trestles
             PROVE  PrintsSpec(batch, dark) => []SheetsAreAccounted
  OBVIOUS
<1>1. PrintsInit(batch, dark) => PrintsInv
  BY PrintsBegin
<1>2. PrintsInv /\ [PrintsNext]_printsVars => PrintsInv'
  <2> SUFFICES ASSUME PrintsInv, [PrintsNext]_printsVars PROVE PrintsInv'
    OBVIOUS
  <2>1. CASE PrintsNext
    BY <2>1, PrintsKeep
  <2>2. CASE UNCHANGED printsVars
    <3>1. slip' = slip /\ hand' = hand /\ routed' = routed /\ notice' = notice /\ listed' = listed
      BY <2>2 DEF printsVars
    <3>2. Settles
      BY <3>1 DEF Settles, PrintsInv, PrintsTypeOK
    <3>. QED
      BY <3>1, <3>2, ClerkRests
  <2>. QED
    BY <2>1, <2>2
<1>3. PrintsInv => SheetsAreAccounted
  <2> SUFFICES ASSUME PrintsInv PROVE SheetsAreAccounted
    OBVIOUS
  <2>1. \A s \in Slips : /\ slip[s].out <= slip[s].asked + slip[s].stray
                         /\ slip[s].status = "SENT" => slip[s].out > 0
    BY DEF PrintsInv, SheetsOK
  <2>2. notice.open /\ notice.busy = NoTrestle =>
          \/ notice.said = "failed" /\ notice.groups = {}
          \/ Missing \subseteq UNION {g.slips : g \in notice.groups}
    BY DEF PrintsInv, ClerkOK, Lists
  <2>. QED
    BY <2>1, <2>2 DEF SheetsAreAccounted, Missing
<1>. QED
  BY <1>1, <1>2, <1>3, PTL DEF PrintsSpec

=============================================================================
