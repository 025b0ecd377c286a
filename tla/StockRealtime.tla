--------------------------- MODULE StockRealtime ---------------------------
(***************************************************************************)
(* How the quantities on a register's screen follow the stock: the writers *)
(* of the stock publish an invalidation, the server-sent-events route      *)
(* forwards it to the streams subscribed in its process, and a hook in the *)
(* page answers every message by fetching a snapshot. A stream may break   *)
(* without either side noticing at once; the hook then polls.              *)
(*                                                                         *)
(* A quantity is a version of a product's stock: every write makes a new   *)
(* one. Version 0 is a product that is not there (any more).               *)
(***************************************************************************)
EXTENDS Naturals, FiniteSets

CONSTANTS
    Registers,   \* pages that mount the hook
    Shelf,       \* products the pages were loaded with
    MaxVersion,  \* bound on the versions of one product's stock
    MaxStreams,  \* bound on the streams the server starts
    MaxOutages   \* bound on streams that break, fetches that fail, restarts

ASSUME RealtimeAssumption ==
    /\ IsFiniteSet(Registers) /\ IsFiniteSet(Shelf)
    /\ MaxVersion \in Nat \ {0} /\ MaxStreams \in Nat \ {0} /\ MaxOutages \in Nat

VARIABLES
    level,       \* stock documents of the event
    announce,    \* writes whose request has not published yet
    eventActive, \* the event is the active one: its routes answer
    stream,      \* server side of a stream
    entry,       \* the Set of listeners the Map holds for the event, 0 for none
    screen,      \* the hook of a register
    outages

realtimeVars == <<level, announce, eventActive, stream, entry, screen, outages>>

Streams == 1..MaxStreams
Versions == [Shelf -> 0..MaxVersion]

NoStream == [state |-> "none", owner |-> {}, set |-> 0, listed |-> FALSE]

\* getPosStockSnapshot: the products of the event that exist.
Snapshot == [p \in {q \in Shelf : level[q] # 0} |-> level[p]]

(***************************************************************************)
(* The listeners: a Map from the event to a Set. An entry whose Set became *)
(* empty is deleted, and the next subscriber starts a new Set.             *)
(***************************************************************************)

FreshMembers(f) == 1 + Cardinality({s \in Streams : f[s].state # "none"})

Members(f, set) == {s \in Streams : f[s].listed /\ f[s].set = set}

\* subscribeStockInvalidation, for a stream that starts: the callback of its
\* route is put in the Set of the entry, or in a new one.
Subscribe(s, c) ==
    LET set == IF entry = 0 THEN FreshMembers(stream) ELSE entry
    IN  /\ stream' = [stream EXCEPT ![s] =
                        [state |-> "open", owner |-> {c}, set |-> set, listed |-> TRUE]]
        /\ entry' = set

\* cleanup of the route, which abort, cancel and a failed write all reach: the
\* first one unsubscribes, the others return at once.
Cleaned(f, s) ==
    IF f[s].state = "closed" THEN f
    ELSE [f EXCEPT ![s].state = "closed", ![s].listed = FALSE]

EntryAfter(f, s, e) ==
    IF f[s].state = "closed" THEN e
    ELSE IF Members(Cleaned(f, s), f[s].set) = {} THEN 0 ELSE e

Cleanup(s) ==
    /\ stream' = Cleaned(stream, s)
    /\ entry' = EntryAfter(stream, s, entry)

(***************************************************************************)
(* The hook. A fetch in flight makes later requests for one pending.       *)
(***************************************************************************)

IdleSync == [state |-> "idle", snap |-> <<>>]
Asked == [state |-> "asked", snap |-> <<>>]

\* syncSnapshot up to the fetch.
Sync(h) ==
    IF h.disposed THEN h
    ELSE IF h.fetch = IdleSync THEN [h EXCEPT !.fetch = Asked] ELSE [h EXCEPT !.syncPending = TRUE]

StartPolling(h) ==
    IF h.disposed \/ h.polling THEN h
    ELSE [h EXCEPT !.reconciling = FALSE, !.status = "polling", !.polling = TRUE]

\* Mutant: no reconciliation timer while the stream is up.
GoLiveOnly(h) == [h EXCEPT !.polling = FALSE, !.status = "live"]

\* stopPolling, startReconciliation and the status that goes with them.
GoLive(h) == [h EXCEPT !.polling = FALSE, !.reconciling = TRUE, !.status = "live"]

\* mergePosStockSnapshot: products the snapshot does not list keep their stock.
Merge(view, snap) == [p \in DOMAIN view |-> IF p \in DOMAIN snap THEN snap[p] ELSE view[p]]

\* The finally of syncSnapshot.
FetchIsOver(h) ==
    LET g == [h EXCEPT !.fetch = IdleSync]
    IN  IF g.syncPending /\ ~g.disposed THEN Sync([g EXCEPT !.syncPending = FALSE]) ELSE g

\* syncSnapshot from the answer on.
Answered(h) ==
    LET merged == [h EXCEPT !.view = Merge(@, h.fetch.snap)]
    IN  FetchIsOver(IF h.disposed THEN h ELSE IF h.connected THEN GoLive(merged) ELSE merged)

Refused(h) == FetchIsOver(StartPolling(h))

OnOpen(h) == Sync(GoLive([h EXCEPT !.connected = TRUE]))

OnError(h) == Sync(StartPolling([h EXCEPT !.connected = FALSE, !.reconciling = FALSE]))

\* The cleanup of the effect: timers stopped, source closed.
Dispose(h) == [h EXCEPT !.disposed = TRUE, !.polling = FALSE, !.reconciling = FALSE,
                        !.source = "closed", !.inbox = 0]

\* The effect when it is mounted: with EventSource it waits for the stream,
\* without it it polls from the start.
Mounted(source) ==
    LET h == [status |-> "connecting", source |-> source, via |-> 0, inbox |-> 0,
              connected |-> FALSE, polling |-> FALSE, reconciling |-> FALSE,
              fetch |-> IdleSync, syncPending |-> FALSE, disposed |-> FALSE,
              view |-> level]
    IN  IF source = "absent" THEN Sync(StartPolling(h)) ELSE h

RealtimeInit ==
    /\ level = [p \in Shelf |-> 1]
    /\ announce = 0
    /\ eventActive = TRUE
    /\ stream = [s \in Streams |-> NoStream]
    /\ entry = 0
    /\ screen = [c \in Registers |-> Mounted("connecting")]
    /\ outages = 0

Outage == outages < MaxOutages /\ outages' = outages + 1

Hook(c, h) == screen' = [screen EXCEPT ![c] = h]

\* A page whose browser has no EventSource.
MountWithoutStream(c) ==
    /\ screen[c] = Mounted("connecting")
    /\ Hook(c, Mounted("absent"))
    /\ UNCHANGED <<level, announce, eventActive, stream, entry, outages>>

(***************************************************************************)
(* Writers of the stock.                                                   *)
(***************************************************************************)

\* A sale, storno or webhook: it publishes when it is done.
WriteStock(p) ==
    /\ level[p] \in 1..(MaxVersion - 1)
    /\ level' = [level EXCEPT ![p] = @ + 1]
    /\ announce' = announce + 1
    /\ UNCHANGED <<eventActive, stream, entry, screen, outages>>

\* The forms of the catalogue publish nothing, and what another process
\* publishes is not heard in this one.
EditStock(p) ==
    /\ level[p] \in 1..(MaxVersion - 1)
    /\ \E v \in {0, level[p] + 1} : level' = [level EXCEPT ![p] = v]
    /\ UNCHANGED <<announce, eventActive, stream, entry, screen, outages>>

\* publishStockInvalidation: each listener writes into its stream. A stream the
\* client has left may take the message (lost) or refuse it and be cleaned up.
Publish ==
    /\ announce > 0
    /\ announce' = announce - 1
    /\ \E dead \in SUBSET {s \in Members(stream, entry) : stream[s].state = "cut"} :
        LET reached == {s \in Members(stream, entry) : stream[s].state = "open"}
        IN  /\ stream' = [s \in Streams |->
                            IF s \in dead THEN Cleaned(stream, s)[s] ELSE stream[s]]
            /\ entry' = IF Members(stream, entry) = dead THEN 0 ELSE entry
            /\ screen' = [c \in Registers |->
                            IF screen[c].via \in reached /\ screen[c].inbox < 2
                            THEN [screen[c] EXCEPT !.inbox = @ + 1] ELSE screen[c]]
    /\ UNCHANGED <<level, eventActive, outages>>

(***************************************************************************)
(* Streams.                                                                *)
(***************************************************************************)

\* GET of the stream route, up to the first message it sends.
StreamStart(c, s) ==
    /\ screen[c].source = "connecting" /\ eventActive
    /\ s = FreshMembers(stream)
    /\ Subscribe(s, c)
    /\ Hook(c, [screen[c] EXCEPT !.source = "answered", !.via = s, !.inbox = 1])
    /\ UNCHANGED <<level, announce, eventActive, outages>>

\* authorizePosStockRequest refuses: EventSource gives up for good.
StreamRefused(c) ==
    /\ screen[c].source = "connecting" /\ ~eventActive
    /\ Hook(c, OnError([screen[c] EXCEPT !.source = "closed"]))
    /\ UNCHANGED <<level, announce, eventActive, stream, entry, outages>>

SourceOpens(c) ==
    /\ screen[c].source = "answered" /\ stream[screen[c].via].state = "open"
    /\ Hook(c, OnOpen([screen[c] EXCEPT !.source = "open"]))
    /\ UNCHANGED <<level, announce, eventActive, stream, entry, outages>>

\* onStock.
Receive(c) ==
    /\ screen[c].source = "open" /\ screen[c].inbox > 0
    /\ Hook(c, Sync([screen[c] EXCEPT !.inbox = @ - 1]))
    /\ UNCHANGED <<level, announce, eventActive, stream, entry, outages>>

\* The connection breaks: what is under way is lost, neither side knows.
StreamBreaks(s) ==
    /\ stream[s].state = "open"
    /\ Outage
    /\ stream' = [stream EXCEPT ![s].state = "cut"]
    /\ screen' = [c \in Registers |->
                    IF screen[c].via = s THEN [screen[c] EXCEPT !.inbox = 0] ELSE screen[c]]
    /\ UNCHANGED <<level, announce, eventActive, entry>>

\* The client notices; EventSource reconnects by itself.
SourceErrs(c) ==
    /\ screen[c].source \in {"answered", "open"} /\ stream[screen[c].via].state # "open"
    /\ Hook(c, OnError([screen[c] EXCEPT !.source = "connecting", !.via = 0]))
    /\ UNCHANGED <<level, announce, eventActive, stream, entry, outages>>

\* The server notices: abort, cancel, or a heartbeat that cannot be written.
StreamEnds(s) ==
    /\ stream[s].state \in {"cut", "closed"} /\ stream[s].set # 0
    /\ Cleanup(s)
    /\ UNCHANGED <<level, announce, eventActive, screen, outages>>

\* The server process restarts: listeners and unpublished invalidations are
\* gone.
Restart ==
    /\ Outage
    /\ stream' = [s \in Streams |-> IF stream[s].state = "none" THEN NoStream
                                    ELSE [stream[s] EXCEPT !.state = "closed", !.listed = FALSE,
                                                           !.set = 0]]
    /\ entry' = 0
    /\ announce' = 0
    /\ screen' = [c \in Registers |-> [screen[c] EXCEPT !.inbox = 0]]
    /\ UNCHANGED <<level, eventActive>>

(***************************************************************************)
(* Fetches and timers of a register.                                       *)
(***************************************************************************)

\* The snapshot route reads the stock; the answer arrives later.
SnapshotRead(c) ==
    /\ screen[c].fetch = Asked
    /\ IF eventActive
       THEN Hook(c, [screen[c] EXCEPT !.fetch = [state |-> "ok", snap |-> Snapshot]])
       ELSE Hook(c, [screen[c] EXCEPT !.fetch = [state |-> "failed", snap |-> <<>>]])
    /\ UNCHANGED <<level, announce, eventActive, stream, entry, outages>>

SnapshotFails(c) ==
    /\ screen[c].fetch = Asked
    /\ Outage
    /\ Hook(c, [screen[c] EXCEPT !.fetch = [state |-> "failed", snap |-> <<>>]])
    /\ UNCHANGED <<level, announce, eventActive, stream, entry>>

SyncEnds(c) ==
    /\ \/ screen[c].fetch.state = "ok" /\ Hook(c, Answered(screen[c]))
       \/ screen[c].fetch.state = "failed" /\ Hook(c, Refused(screen[c]))
    /\ UNCHANGED <<level, announce, eventActive, stream, entry, outages>>

\* The interval of the polling timer, or of the reconciliation timer.
Timer(c) ==
    /\ screen[c].polling \/ screen[c].reconciling
    /\ Hook(c, Sync(screen[c]))
    /\ UNCHANGED <<level, announce, eventActive, stream, entry, outages>>

Unmount(c) ==
    /\ ~screen[c].disposed
    /\ Hook(c, Dispose(screen[c]))
    /\ stream' = [s \in Streams |-> IF screen[c].via = s /\ stream[s].state = "open"
                                    THEN [stream[s] EXCEPT !.state = "cut"] ELSE stream[s]]
    /\ UNCHANGED <<level, announce, eventActive, entry, outages>>

\* Another event becomes the active one.
Deactivate ==
    /\ eventActive
    /\ eventActive' = FALSE
    /\ UNCHANGED <<level, announce, stream, entry, screen, outages>>

\* What goes on by itself: browsers, requests under way, timers.
RealtimeProgress ==
    \/ Publish
    \/ \E s \in Streams : StreamEnds(s)
    \/ \E c \in Registers :
        \/ \E s \in Streams : StreamStart(c, s)
        \/ StreamRefused(c) \/ SourceOpens(c) \/ Receive(c) \/ SourceErrs(c)
        \/ SnapshotRead(c) \/ SyncEnds(c) \/ Timer(c)

RealtimeNext ==
    \/ RealtimeProgress
    \/ \E p \in Shelf : WriteStock(p) \/ EditStock(p)
    \/ \E s \in Streams : StreamBreaks(s)
    \/ Restart \/ Deactivate
    \/ \E c \in Registers : MountWithoutStream(c) \/ SnapshotFails(c) \/ Unmount(c)

(***************************************************************************)
(* Properties.                                                             *)
(***************************************************************************)

\* What a register that stays open should show: the stock of the active event.
ShowsStock(c) ==
    \/ screen[c].disposed \/ ~eventActive
    \/ \A p \in Shelf : level[p] # 0 => screen[c].view[p] = level[p]
=============================================================================
