----------------------- MODULE HistoricalReconciliation -----------------------
(***************************************************************************)
(* Historical reconciliation of all streams, from the start of the process *)
(* to their admission: one bounded pass per stream at startup, then a      *)
(* worker that gives unfinished streams their turns.  A pass discovers the *)
(* stream's lower bound behind a durable cursor, pins one interval, and    *)
(* audits and repairs that interval until no bar is missing.  A flagged    *)
(* stream's open interest is a second track, with a lower bound, a cursor  *)
(* and an audit of its own, proven in the same pass by the same operations *)
(* and without the stream's lifecycle.  The process may end between any    *)
(* two transactions; only the database survives.                           *)
(*                                                                         *)
(* Times are bars: bars 0..now-1 have closed, bar now is open, bar 0 is    *)
(* the launch of every instrument, and first[s][track] is the first bar    *)
(* of a track of which REST has a valid row: the bars below it are missing *)
(* or fail validation, whenever they are asked for.                        *)
(***************************************************************************)
EXTENDS Integers, Sequences, FiniteSets, StreamLifecycle

CONSTANTS
    Order,        \* enabled streams, in configuration order
    OIStreams,    \* streams with an open-interest track
    MaxNow,       \* bound: bars that close
    MaxFirst,     \* bound: the latest bar a stream's history starts with
    MaxCandles,   \* bars per REST window
    ProbeBudget,  \* discovery_windows_per_pass
    RepairBudget, \* repair_windows_per_pass
    MaxPoints,    \* open-interest points per REST window
    OIBudget,     \* oi_track_windows_per_pass, for the search and for the repair
    MaxCrashes,   \* bound: ends of the process
    Faults        \* failures REST may answer with

Streams == {Order[i] : i \in DOMAIN Order}

ASSUME OrderAssumption ==
    /\ Order \in Seq(Streams) /\ Order # <<>>
    /\ \A i, j \in DOMAIN Order : Order[i] = Order[j] => i = j
ASSUME OIAssumption == OIStreams \subseteq Streams
ASSUME TimeAssumption == MaxNow \in Nat \ {0} /\ MaxFirst \in Nat /\ MaxCrashes \in Nat
ASSUME BudgetAssumption == /\ MaxCandles \in Nat \ {0}
                           /\ ProbeBudget \in Nat \ {0}
                           /\ RepairBudget \in Nat \ {0}
                           /\ MaxPoints \in Nat \ {0}
                           /\ OIBudget \in Nat \ {0}
ASSUME HistoricalFaultAssumption == Faults \subseteq {"recoverable", "fatal"}

VARIABLES
    now,      \* the clock: bars that have closed
    first,    \* the first bar with a valid row of each track of each stream
    db,       \* the rows of each stream
    process,  \* "startup", "running" or "down"
    starting, \* startup: the streams whose pass is still to come
    queue,    \* the worker's deque
    pass,     \* the pass in progress
    gate,     \* who holds operation_gate
    admitted, \* RealtimeAdmissionGate
    reason,   \* the blocking reason the status store shows
    crashes,  \* bound on Crash
    bootNow   \* history: the clock when the process started

vars == <<now, first, db, process, starting, queue, pass, gate, admitted,
          reason, crashes, bootNow>>
mem == <<starting, queue, gate, admitted, reason>>

Bars == 0..(MaxNow - 1)
NoBar == -1

Tracks == {"candles", "oi"}
TracksOf(s) == IF s \in OIStreams THEN Tracks ELSE {"candles"}
Available(s, t) == first[s][t]..(now - 1)

\* Half-open intervals of bars; NoWindow while none is pinned.
Windows == [start : 0..MaxNow, end : 0..MaxNow]
NoWindow == [start |-> 0, end |-> 0]

\* What a pass reports of its progress: the discovery cursor, or what is left
\* of the interval that ends at end.  track is a history field: the code's
\* markers do not say which track they are about.
Markers == [kind : {"none", "cursor", "repair"}, at : -1..MaxNow,
            missing : 0..MaxNow, end : 0..MaxNow, track : Tracks]
NoMarker == [kind |-> "none", at |-> NoBar, missing |-> 0, end |-> 0,
             track |-> "candles"]

\* latest_committed_open_time_ms is the newest row (CanonicalStore).
TrackRow == [earliest : Bars \cup {NoBar}, cursor : {NoBar} \cup 0..MaxNow,
             bars : SUBSET Bars]
NewTrack == [earliest |-> NoBar, cursor |-> NoBar, bars |-> {}]
StreamRow == [state : LifecycleStates, candles : TrackRow, oi : TrackRow]
NewRow == [state |-> "uninitialized", candles |-> NewTrack, oi |-> NewTrack]

Classes == {"connecting", "incomplete", "recoverable", "fatal"}

\* _PendingStream; due is due_at against the clock.
Pending == [stream : Streams, window : Windows, marker : Markers, due : BOOLEAN]

\* pc: the next transaction of HistoricalStreamReconciler.execute; track: the
\* track it is about; window: the candles' interval, given or pinned by this
\* pass; at, end: what is left to search, then the points' interval;
\* used: REST windows spent; todo: missing bars not asked for yet; class, kept,
\* outMarker: the outcome, whose interval is the given one until a repair ends.
Passes == [pc : {"idle", "gate", "prepare", "bootstrap", "resolve", "probe",
                 "pin", "mark_auditing", "preaudit", "to_repairing", "repair",
                 "postaudit", "connect", "record_failure", "done", "raised"},
           stream : Streams, track : Tracks, window : Windows, marker : Markers,
           at : 0..MaxNow, end : 0..MaxNow, used : Nat, todo : SUBSET Bars,
           class : Classes, kept : Windows, outMarker : Markers]
PassIdle == [pc |-> "idle", stream |-> Order[1], track |-> "candles",
             window |-> NoWindow,
             marker |-> NoMarker, at |-> 0, end |-> 0, used |-> 0, todo |-> {},
             class |-> "incomplete", kept |-> NoWindow, outMarker |-> NoMarker]

Reasons == {"none", "historical_reconciliation", "historical_backoff",
            "historical_no_progress_backoff", "historical_fatal_failure",
            "realtime_admission_missing_anchor"}

\* The database is new; more bars may close before the first pass.
Init ==
    /\ now = 1
    /\ first \in [Streams -> [Tracks -> 0..MaxFirst]]
    /\ \A s \in Streams \ OIStreams : first[s]["oi"] = 0
    /\ db = [s \in Streams |-> NewRow]
    /\ process = "startup"
    /\ starting = Order
    /\ queue = <<>>
    /\ pass = PassIdle
    /\ gate = "free"
    /\ admitted = {}
    /\ reason = [s \in Streams |-> "none"]
    /\ crashes = 0
    /\ bootNow = now

-----------------------------------------------------------------------------
(* The environment.                                                        *)

\* A bar closes.
Tick ==
    /\ now < MaxNow
    /\ now' = now + 1
    /\ UNCHANGED <<first, db, process, pass, crashes, bootNow, mem>>

\* The realtime runtime of an admitted stream stores bars and moves its
\* lifecycle; a session may leave any of them behind.  Only the next process
\* reads what it leaves, hence the bound.
Realtime(s) ==
    /\ process = "running"
    /\ crashes < MaxCrashes
    /\ s \in admitted
    /\ \E st \in LifecycleStates \ {"uninitialized", "bootstrapping"},
          b \in Available(s, "candles") :
          db' = [db EXCEPT ![s].state = st, ![s].candles.bars = @ \cup {b}]
    /\ UNCHANGED <<now, first, process, pass, crashes, bootNow, mem>>

\* So does its open interest: the prefetch stores the point of the open bar.
RealtimePoint(s) ==
    /\ process = "running"
    /\ crashes < MaxCrashes
    /\ s \in admitted \cap OIStreams
    /\ \E b \in Available(s, "oi") \cup ({now} \cap Bars) :
          db' = [db EXCEPT ![s].oi.bars = @ \cup {b}]
    /\ UNCHANGED <<now, first, process, pass, crashes, bootNow, mem>>

\* The realtime recovery worker holds the operation gate for one attempt.
RecoveryTakesGate ==
    /\ process = "running"
    /\ admitted # {}
    /\ gate = "free"
    /\ gate' = "recovery"
    /\ UNCHANGED <<now, first, db, process, pass, crashes, bootNow,
                   starting, queue, admitted, reason>>

RecoveryReleasesGate ==
    /\ gate = "recovery"
    /\ gate' = "free"
    /\ UNCHANGED <<now, first, db, process, pass, crashes, bootNow,
                   starting, queue, admitted, reason>>

\* The process ends; the open transaction, if any, leaves nothing.
Crash ==
    /\ process # "down"
    /\ crashes < MaxCrashes
    /\ crashes' = crashes + 1
    /\ process' = "down"
    /\ pass' = PassIdle
    /\ starting' = <<>> /\ queue' = <<>> /\ gate' = "free" /\ admitted' = {}
    /\ reason' = [s \in Streams |-> "none"]
    /\ UNCHANGED <<now, first, db, bootNow>>

Boot ==
    /\ process = "down"
    /\ process' = "startup"
    /\ starting' = Order
    /\ bootNow' = now
    /\ UNCHANGED <<now, first, db, pass, crashes, queue, gate, admitted, reason>>

-----------------------------------------------------------------------------
(* Startup, and the worker.                                                *)

\* StartupCoordinator.execute: the next stream, without a window.
StartupPass ==
    /\ process = "startup"
    /\ pass.pc = "idle"
    /\ starting # <<>>
    /\ pass' = [PassIdle EXCEPT !.pc = "prepare", !.stream = Head(starting)]
    /\ starting' = Tail(starting)
    /\ UNCHANGED <<now, first, db, process, crashes, bootNow, queue, gate,
                   admitted, reason>>

\* Mutant of Unfinished: a failed startup pass leaves the stream to nobody.
UnfinishedOnlyIncomplete(class) == class = "incomplete"

Unfinished(class) == class \in {"incomplete", "recoverable"}

\* The worker's queue is built from the unfinished outcomes, in order; the
\* proven streams are admitted when the realtime coordinator is built.
StartupOutcome ==
    /\ process = "startup"
    /\ pass.pc = "done"
    /\ pass' = PassIdle
    /\ queue' = IF Unfinished(pass.class)
                THEN Append(queue, [stream |-> pass.stream, window |-> pass.kept,
                                    marker |-> pass.outMarker, due |-> TRUE])
                ELSE queue
    /\ admitted' = IF pass.class = "connecting" THEN admitted \cup {pass.stream}
                   ELSE admitted
    /\ reason' = [reason EXCEPT ![pass.stream] =
                    CASE pass.class = "connecting" -> "none"
                      [] pass.class = "incomplete" -> "historical_reconciliation"
                      [] pass.class = "recoverable" -> "historical_backoff"
                      [] pass.class = "fatal" -> "historical_fatal_failure"]
    /\ UNCHANGED <<now, first, db, process, crashes, bootNow, starting, gate>>

StartRuntime ==
    /\ process = "startup"
    /\ pass.pc = "idle"
    /\ starting = <<>>
    /\ process' = "running"
    /\ UNCHANGED <<now, first, db, pass, crashes, bootNow, mem>>

\* The backoff of a queued stream ends.
BackoffEnds(i) ==
    /\ i \in DOMAIN queue
    /\ ~queue[i].due
    /\ queue' = [queue EXCEPT ![i].due = TRUE]
    /\ UNCHANGED <<now, first, db, process, pass, crashes, bootNow, starting,
                   gate, admitted, reason>>

WorkerIdle == process = "running" /\ pass.pc = "idle" /\ queue # <<>>

\* Nothing is left to reconcile: the worker waits.
NothingQueued == process = "running" /\ queue = <<>> /\ UNCHANGED vars

\* A stream in backoff goes to the back.
Rotate ==
    /\ WorkerIdle
    /\ ~Head(queue).due
    /\ queue' = Append(Tail(queue), Head(queue))
    /\ UNCHANGED <<now, first, db, process, pass, crashes, bootNow, starting,
                   gate, admitted, reason>>

TakeTurn ==
    /\ WorkerIdle
    /\ Head(queue).due
    /\ pass' = [PassIdle EXCEPT !.pc = "gate", !.stream = Head(queue).stream,
                   !.window = Head(queue).window, !.kept = Head(queue).window,
                   !.marker = Head(queue).marker]
    /\ queue' = Tail(queue)
    /\ reason' = [reason EXCEPT ![Head(queue).stream] = "historical_reconciliation"]
    /\ UNCHANGED <<now, first, db, process, crashes, bootNow, starting, gate, admitted>>

GateAcquired ==
    /\ pass.pc = "gate"
    /\ gate = "free"
    /\ gate' = "historical"
    /\ pass' = [pass EXCEPT !.pc = "prepare"]
    /\ UNCHANGED <<now, first, db, process, crashes, bootNow, starting, queue,
                   admitted, reason>>

\* Mutant of Kept: every pass derives its interval again.
KeptUnpinned(p) == NoWindow

\* pending.window = outcome.window or pending.window.
Kept(p) == p.kept

\* Mutant of Progressed: every pass that reports a marker counts as progress.
ProgressedAlways(p) == p.outMarker # NoMarker

\* Two markers are equal if their fields are: the code's have no track.
Shown(m) == <<m.kind, m.at, m.missing, m.end>>

Progressed(p) == p.outMarker # NoMarker /\ Shown(p.outMarker) # Shown(p.marker)

\* Mutant of Requeued: the stream takes the next turn again.
RequeuedFirst(q, pending) == <<pending>> \o q

Requeued(q, pending) == Append(q, pending)

\* The stream goes back to the queue, due at once or after a backoff.
Requeue(p) ==
    LET again == p.class = "incomplete" /\ Progressed(p)
    IN  /\ queue' = Requeued(queue,
                      [stream |-> p.stream, window |-> Kept(p), due |-> again,
                       marker |-> IF p.class = "incomplete" THEN p.outMarker
                                  ELSE p.marker])
        /\ reason' = [reason EXCEPT ![p.stream] =
                        CASE p.class = "recoverable" -> "historical_backoff"
                          [] again -> "historical_reconciliation"
                          [] OTHER -> "historical_no_progress_backoff"]

\* What happens to the stream after a pass: admission needs a latest pointer.
WorkerOutcome ==
    /\ process = "running"
    /\ pass.pc = "done"
    /\ pass' = PassIdle
    /\ gate' = "free"
    /\ \/ /\ pass.class = "connecting"
          /\ IF db[pass.stream].candles.bars = {}
             THEN /\ reason' = [reason EXCEPT ![pass.stream] =
                                  "realtime_admission_missing_anchor"]
                  /\ UNCHANGED admitted
             ELSE /\ reason' = [reason EXCEPT ![pass.stream] = "none"]
                  /\ admitted' = admitted \cup {pass.stream}
          /\ UNCHANGED queue
       \/ /\ pass.class = "fatal"
          /\ reason' = [reason EXCEPT ![pass.stream] = "historical_fatal_failure"]
          /\ UNCHANGED <<queue, admitted>>
       \/ /\ pass.class \in {"incomplete", "recoverable"}
          /\ Requeue(pass)
          /\ UNCHANGED admitted
    /\ UNCHANGED <<now, first, db, process, crashes, bootNow, starting>>

-----------------------------------------------------------------------------
(* HistoricalStreamReconciler.execute, one transaction at a time.          *)

Row == db[pass.stream]
Track == Row[pass.track]
OnPoints == pass.track = "oi"
At(pc) == pass.pc = pc
Goto(pc) == pass' = [pass EXCEPT !.pc = pc]
InPass == UNCHANGED <<now, first, process, crashes, bootNow, mem>>

\* The outcome of the pass, with its interval and its marker.
Outcome(class, window, marker) ==
    pass' = [pass EXCEPT !.pc = "done", !.class = class, !.kept = window,
                         !.outMarker = marker]

\* _open_interest_not_proven: a second track that fails, or is not proven yet,
\* holds the stream with the candles' interval and its lifecycle as it is.
Held(class, marker) == Outcome(class, pass.window, marker)

\* An exception: its class is recorded in the lifecycle before the outcome.
Raises(class, window) ==
    pass' = [pass EXCEPT !.pc = "record_failure", !.class = class, !.kept = window]

\* The search or a REST request fails.
Fails(class, window) == IF OnPoints THEN Held(class, NoMarker) ELSE Raises(class, window)

\* The search has not found the first bar yet.
Unproven(marker) ==
    IF OnPoints THEN Held("incomplete", marker) ELSE Outcome("incomplete", pass.kept, marker)

\* transition_stream_state raises unless the table allows the step.
MoveTo(state, next) ==
    IF CanTransition(Row.state, state)
    THEN db' = [db EXCEPT ![pass.stream].state = state] /\ Goto(next)
    ELSE UNCHANGED db /\ Raises("fatal", pass.kept)

\* The transitions of a track's recorder: the points' recorder does nothing.
RecorderMoves(state, next) ==
    IF OnPoints THEN Goto(next) /\ UNCHANGED db ELSE MoveTo(state, next)

\* After the lifecycle is "bootstrapping".
Prepared == IF pass.window = NoWindow THEN "resolve" ELSE "mark_auditing"

\* Mutant of PrepareTarget: a persisted ready stream restarts at once.
PrepareTargetAtOnce(state) == IF state = "failed" THEN "uninitialized" ELSE "bootstrapping"

\* The first transition of prepare_for_bootstrap.
PrepareTarget(state) ==
    CASE state = "failed" -> "uninitialized"
      [] state \in {"uninitialized", "degraded"} -> "bootstrapping"
      [] OTHER -> "degraded"

PrepareForBootstrap ==
    /\ At("prepare")
    /\ IF Row.state = "bootstrapping"
       THEN Goto(Prepared) /\ UNCHANGED db
       ELSE LET target == PrepareTarget(Row.state)
            IN  MoveTo(target, IF target = "bootstrapping" THEN Prepared ELSE "bootstrap")
    /\ InPass

ToBootstrapping ==
    /\ At("bootstrap")
    /\ MoveTo("bootstrapping", Prepared)
    /\ InPass

\* discovery_start.
SearchStart(row) == IF row.cursor = NoBar THEN 0 ELSE row.cursor
CursorMarker(bar) == [NoMarker EXCEPT !.kind = "cursor", !.at = bar, !.track = pass.track]

\* ResolveHistoricalLowerBound.execute, up to its first probe.
ResolveLowerBound ==
    /\ At("resolve")
    /\ \/ /\ Track.earliest # NoBar
          /\ Goto("pin")
       \/ /\ Track.earliest = NoBar
          /\ SearchStart(Track) >= now
          /\ Unproven(CursorMarker(SearchStart(Track)))
       \/ /\ Track.earliest = NoBar
          /\ SearchStart(Track) < now
          /\ pass' = [pass EXCEPT !.pc = "probe", !.at = SearchStart(Track),
                                  !.end = now, !.used = 0]
    /\ UNCHANGED db
    /\ InPass

WindowSize == IF OnPoints THEN MaxPoints ELSE MaxCandles
ProbeLimit == IF OnPoints THEN OIBudget ELSE ProbeBudget
RepairLimit == IF OnPoints THEN OIBudget ELSE RepairBudget

ProbeEnd == IF pass.at + WindowSize < pass.end THEN pass.at + WindowSize ELSE pass.end
\* The valid rows of an answer that leaves none of them out; rows that fail
\* validation beside valid ones are passed over, alone they are ResolveFails.
ProbeAnswer == Available(pass.stream, pass.track) \cap (pass.at..(ProbeEnd - 1))

\* Budget and end of the search.
ProbeEnds ==
    /\ At("probe")
    /\ pass.used >= ProbeLimit \/ pass.at >= pass.end
    /\ Unproven(CursorMarker(Track.cursor))
    /\ UNCHANGED db
    /\ InPass

\* Mutant of AdvanceDiscovery: the cursor moves to the end of the search.
AdvanceDiscoveryToEnd(row) == [row EXCEPT !.cursor = pass.end]

AdvanceDiscovery(row) == [row EXCEPT !.cursor = ProbeEnd]

Resolve(row, bar) == [row EXCEPT !.earliest = bar, !.cursor = NoBar]

\* One probe: an empty answer moves the durable cursor past the window, and the
\* earliest valid row of one that is not becomes the bound.
Probe ==
    /\ At("probe")
    /\ pass.used < ProbeLimit /\ pass.at < pass.end
    /\ \/ /\ ProbeAnswer = {}
          /\ db' = [db EXCEPT ![pass.stream][pass.track] = AdvanceDiscovery(@)]
          /\ pass' = [pass EXCEPT !.at = ProbeEnd, !.used = @ + 1]
       \/ \E bar \in ProbeAnswer :
             /\ \A b \in ProbeAnswer : bar <= b
             /\ db' = [db EXCEPT ![pass.stream][pass.track] = Resolve(@, bar)]
             /\ pass' = [pass EXCEPT !.pc = "pin", !.at = 0, !.end = 0, !.used = 0]
    /\ InPass

\* The instrument's metadata or a probe fails, or the probe answers without a
\* valid candle: before any probe of the pass the two leave the same behind.
ResolveFails(fault) ==
    /\ At("probe")
    /\ pass.used < ProbeLimit /\ pass.at < pass.end
    /\ Fails(fault, pass.kept)
    /\ UNCHANGED db
    /\ InPass

TargetEnd == now

\* _window_from_lower_bound: the interval of the whole cycle.
PinWindow ==
    /\ At("pin")
    /\ ~OnPoints
    /\ IF Track.earliest >= TargetEnd
       THEN Outcome("incomplete", pass.kept, NoMarker)
       ELSE pass' = [pass EXCEPT !.pc = "mark_auditing",
                       !.window = [start |-> Track.earliest, end |-> TargetEnd]]
    /\ UNCHANGED db
    /\ InPass

\* OpenInterestTrackReconciler._window: the points' interval, of this pass only.
PointsWindow ==
    /\ At("pin")
    /\ OnPoints
    /\ pass' = IF Track.earliest >= TargetEnd THEN [pass EXCEPT !.pc = "connect"]
               ELSE [pass EXCEPT !.pc = "preaudit", !.at = Track.earliest,
                                 !.end = TargetEnd]
    /\ UNCHANGED db
    /\ InPass

\* RuntimeLifecycleRecorder.mark_auditing.
MarkAuditing ==
    /\ At("mark_auditing")
    /\ IF Row.state = "auditing" THEN Goto("preaudit") /\ UNCHANGED db
       ELSE MoveTo("auditing", "preaudit")
    /\ InPass

-----------------------------------------------------------------------------
(* RepairStreamGaps.execute over the pinned interval.                      *)

Missing ==
    (IF OnPoints THEN pass.at..(pass.end - 1)
     ELSE pass.window.start..(pass.window.end - 1)) \ Track.bars
RepairMarker ==
    [kind |-> "repair", at |-> CHOOSE b \in Missing : \A c \in Missing : b <= c,
     missing |-> Cardinality(Missing),
     end |-> IF OnPoints THEN pass.end ELSE pass.window.end, track |-> pass.track]

\* _open_interest_not_proven: a flagged stream goes on to its second track.
AfterCandles == IF pass.stream \in OIStreams THEN "resolve" ELSE "connect"

\* The repair is complete.
TrackProven ==
    pass' = IF OnPoints THEN [pass EXCEPT !.pc = "connect", !.at = 0, !.end = 0, !.used = 0]
            ELSE [pass EXCEPT !.pc = AfterCandles, !.used = 0,
                     !.track = IF AfterCandles = "resolve" THEN "oi" ELSE @]

PreAudit ==
    /\ At("preaudit")
    /\ IF Missing = {} THEN TrackProven
       ELSE pass' = [pass EXCEPT !.pc = "to_repairing", !.todo = Missing, !.used = 0]
    /\ UNCHANGED db
    /\ InPass

TransitionToRepairing ==
    /\ At("to_repairing")
    /\ RecorderMoves("repairing", "repair")
    /\ InPass

\* The next REST window: the oldest gap not asked for, cut to its size.
NextWindow ==
    {b \in pass.todo : \A c \in pass.todo : c < b =>
        b - c < WindowSize /\ c..b \subseteq pass.todo}

\* One window is imported; REST may return only a part of its closed bars.
RepairWindow(served) ==
    /\ At("repair")
    /\ pass.used < RepairLimit /\ pass.todo # {}
    /\ served \subseteq NextWindow \cap Available(pass.stream, pass.track)
    /\ db' = [db EXCEPT ![pass.stream][pass.track].bars = @ \cup served]
    /\ pass' = [pass EXCEPT !.todo = @ \ NextWindow, !.used = @ + 1]
    /\ InPass

RepairEnds ==
    /\ At("repair")
    /\ pass.used >= RepairLimit \/ pass.todo = {}
    /\ RecorderMoves("auditing", "postaudit")
    /\ InPass

\* record_failure: the candles' recorder moves the lifecycle, the points' one
\* only notes the error; the outcome keeps the pinned interval.
RepairFails(fault) ==
    /\ At("repair")
    /\ pass.used < RepairLimit /\ pass.todo # {}
    /\ db' = IF OnPoints THEN db
             ELSE [db EXCEPT ![pass.stream].state =
                      IF fault = "fatal" THEN "failed" ELSE "degraded"]
    /\ Fails(fault, pass.window)
    /\ InPass

\* Mutant of Proven: the repair stops when every missing bar was asked for.
ProvenWhenAsked == pass.todo = {}

\* The post-repair audit finds no gap in the interval.
Proven == Missing = {}

PostAudit ==
    /\ At("postaudit")
    /\ \/ Proven /\ TrackProven
       \/ ~Proven /\ Outcome("incomplete", pass.window, RepairMarker)
    /\ UNCHANGED db
    /\ InPass

MarkConnecting ==
    /\ At("connect")
    /\ IF Row.state = "connecting" \/ CanTransition(Row.state, "connecting")
       THEN /\ db' = [db EXCEPT ![pass.stream].state = "connecting"]
            /\ Outcome("connecting", pass.window, NoMarker)
       ELSE UNCHANGED db /\ Raises("fatal", pass.kept)
    /\ InPass

\* _record_failure_state; an illegal transition here ends the process.
RecordFailureState ==
    /\ At("record_failure")
    /\ LET target == IF pass.class = "fatal" THEN "failed" ELSE "degraded"
       IN  IF Row.state = target THEN Goto("done") /\ UNCHANGED db
           ELSE IF CanTransition(Row.state, target)
           THEN Goto("done") /\ db' = [db EXCEPT ![pass.stream].state = target]
           ELSE Goto("raised") /\ UNCHANGED db
    /\ InPass

-----------------------------------------------------------------------------
Step ==
    \/ PrepareForBootstrap \/ ToBootstrapping
    \/ ResolveLowerBound \/ ProbeEnds \/ Probe \/ PinWindow \/ PointsWindow
    \/ MarkAuditing \/ PreAudit \/ TransitionToRepairing
    \/ \E served \in SUBSET NextWindow : RepairWindow(served)
    \/ RepairEnds \/ PostAudit
    \/ MarkConnecting
    \/ \E fault \in Faults : ResolveFails(fault) \/ RepairFails(fault)
    \/ RecordFailureState

Startup == StartupPass \/ StartupOutcome \/ StartRuntime

Worker == Rotate \/ TakeTurn \/ GateAcquired \/ WorkerOutcome

Next ==
    \/ Tick \/ Crash \/ Boot
    \/ RecoveryTakesGate \/ RecoveryReleasesGate
    \/ \E s \in Streams : Realtime(s) \/ RealtimePoint(s)
    \/ Startup
    \/ \E i \in DOMAIN queue : BackoffEnds(i)
    \/ Worker \/ NothingQueued
    \/ Step

Spec == Init /\ [][Next]_vars

-----------------------------------------------------------------------------
(* Properties.                                                             *)

\* Every variable stays in its domain; in particular no window, cursor or
\* marker lies beyond the last closed bar.  Part of QueueInv.
TypeOK ==
    /\ now \in 1..MaxNow
    /\ first \in [Streams -> [Tracks -> 0..MaxFirst]]
    /\ db \in [Streams -> StreamRow]
    /\ process \in {"startup", "running", "down"}
    /\ starting \in Seq(Streams)
    /\ queue \in Seq(Pending)
    /\ pass \in Passes
    /\ gate \in {"free", "historical", "recovery"}
    /\ admitted \subseteq Streams
    /\ reason \in [Streams -> Reasons]
    /\ crashes \in 0..MaxCrashes
    /\ bootNow \in 1..now

\* The durable search of either track skips nothing, wherever the process
\* ends: no bar that REST has lies below the cursor, a resolved lower bound is
\* the first bar, and a row never has both (the CHECK constraint).
SearchSkipsNothing ==
    \A s \in Streams, t \in Tracks :
        /\ db[s][t].cursor <= first[s][t]
        /\ db[s][t].earliest \in {NoBar, first[s][t]}
        /\ db[s][t].earliest # NoBar => db[s][t].cursor = NoBar

\* The frontier a proven track is handed over with: its newest bar.
HandedFrontier(s, t) == {b \in db[s][t].bars : \A c \in db[s][t].bars : c <= b}

\* A stream is handed to realtime only in "connecting", with every bar of both
\* tracks stored that REST had when this process started, and with frontiers
\* below which nothing is missing: a persisted state, an interval of an earlier
\* process or a point prefetched by it proves nothing.
AdmissionIsProven ==
    [][ \A s \in admitted' \ admitted :
          /\ db[s].state = "connecting"
          /\ \A t \in TracksOf(s) :
                /\ db[s][t].bars # {}
                /\ first[s][t]..(bootNow - 1) \subseteq db[s][t].bars
                /\ \A b \in HandedFrontier(s, t) :
                      first[s][t]..b \subseteq db[s][t].bars ]_vars

\* The places that own stream s: its turn at startup, the pass, the queue,
\* realtime, or a fatal failure on display.
Owners(s) ==
    Cardinality({i \in DOMAIN starting : starting[i] = s})
    + Cardinality({i \in DOMAIN queue : queue[i].stream = s})
    + (IF pass.pc # "idle" /\ pass.stream = s THEN 1 ELSE 0)
    + (IF s \in admitted THEN 1 ELSE 0)
    + (IF reason[s] = "historical_fatal_failure" THEN 1 ELSE 0)

\* No stream is dropped or worked on twice: while the process lives, exactly
\* one place owns it.
OwnedOnce == process # "down" => \A s \in Streams : Owners(s) = 1

\* Every stream's state is well formed, and exactly one place owns it, whatever
\* the startup, the worker's outcomes and a crash make of the queue.
QueueInv == TypeOK /\ OwnedOnce

\* The interval of stream s while its cycle lasts.
PinnedOf(s) ==
    {queue[i].window : i \in {j \in DOMAIN queue : queue[j].stream = s}}
    \cup {pass.window : p \in {q \in {pass} : q.pc \notin {"idle", "done"} /\ q.stream = s}}
    \cup {pass.kept : p \in {q \in {pass} : q.pc = "done" /\ q.stream = s}}

\* "one fixed target": a requeued stream keeps the interval its cycle fixed,
\* through repairs, failures and holds, until it is admitted or given up.
IntervalIsFixed ==
    [][ \A s \in Streams :
          \A w \in PinnedOf(s) \ {NoWindow} :
             PinnedOf(s)' \subseteq {w} ]_vars

\* Closer to the end: on to the second track, later in the search, or the
\* search done, or fewer bars missing; the points' interval is derived again by
\* every pass, so that a bar that closed meanwhile is another thing to do.
Better(new, old) ==
    \/ old.kind = "none"
    \/ old.track = "candles" /\ new.track = "oi"
    \/ /\ old.track = new.track
       /\ \/ old.kind = "cursor" /\ new.kind = "cursor" /\ new.at > old.at
          \/ old.kind = "cursor" /\ new.kind = "repair"
          \/ old.kind = "repair" /\ new.kind = "repair" /\ new.missing < old.missing
          \/ new.track = "oi" /\ new.kind = "repair" /\ new.end > old.end

\* A stream gets its next turn without a backoff only when its pass came
\* closer to the end than the last one: an answer that never changes cannot
\* keep the worker busy.
RetryMeansProgress ==
    [][ \A i \in DOMAIN queue' :
          (Len(queue') > Len(queue) /\ i = Len(queue') /\ queue'[i].due
             /\ process = "running")
          => Better(queue'[i].marker, pass.marker) ]_vars

\* The state that the pass's next transaction moves the stream to.
Target ==
    CASE At("prepare") -> PrepareTarget(Row.state)
      [] At("bootstrap") -> "bootstrapping"
      [] At("mark_auditing") -> "auditing"
      [] At("to_repairing") /\ ~OnPoints -> "repairing"
      [] At("repair") /\ ~OnPoints -> "auditing"
      [] At("connect") -> "connecting"
      [] At("record_failure") -> IF pass.class = "fatal" THEN "failed" ELSE "degraded"
      [] OTHER -> Row.state

\* Whatever state an earlier process or realtime left behind, every lifecycle
\* transition a pass comes to is in the table: reconciliation never fails a
\* stream, or ends the process, with InvalidStreamTransition.
PassIsLegal ==
    /\ pass.pc # "raised"
    /\ Target = Row.state \/ CanTransition(Row.state, Target)

\* The main task and the pass's thread go on; the lock is fair and recovery
\* attempts end; delays end; REST, asked again and again, answers in full.
Fairness ==
    /\ WF_vars(Boot \/ Startup \/ Worker \/ Step)
    /\ SF_vars(GateAcquired)
    /\ WF_vars(RecoveryReleasesGate)
    /\ \A s \in Streams :
          /\ WF_vars(\E i \in DOMAIN queue : queue[i].stream = s /\ BackoffEnds(i))
          /\ \A t \in TracksOf(s) :
                /\ SF_vars(pass.stream = s /\ pass.track = t /\ RepairWindow(NextWindow))
                /\ SF_vars(pass.stream = s /\ pass.track = t /\ Probe)

FairSpec == Spec /\ Fairness

\* Every stream with history is eventually handed to realtime by the worker's
\* queue, though a stream without history is searched for ever, as long as REST
\* keeps answering and no failure is fatal.
AllAdmitted ==
    <>[](\A s \in Streams :
           (\A t \in TracksOf(s) : first[s][t] < now) => s \in admitted)
=============================================================================
