------------------------- MODULE RealtimeRecovery -------------------------
(***************************************************************************)
(* The realtime runtime of ONE candle stream: the supervisor's in-memory   *)
(* facts, the recovery worker's single intent, the recovery attempt that   *)
(* runs in its own thread, and the durable lifecycle both of them write.   *)
(*                                                                         *)
(* Two actors interleave.  The event loop runs one handler at a time and   *)
(* every handler runs to its end without suspending, so what a handler     *)
(* does to the in-memory state is one step; but each SQLite read or        *)
(* transaction it makes afterwards (synchronize_stream_lifecycle) is a     *)
(* step of its own, because the recovery thread's transactions fall        *)
(* between them.  The recovery thread takes one step per transaction.      *)
(*                                                                         *)
(* Bars are numbered from the stream's earliest available candle (bar 0),  *)
(* one per timeframe step; `bar` is the bar that is open now, so bars      *)
(* below it are closed.  NoBar stands for None.                            *)
(***************************************************************************)
EXTENDS Integers, FiniteSets, StreamLifecycle

CONSTANTS
    MaxBar,        \* bound: the clock stops at this bar
    FirstBars,     \* the bars that may be open when the runtime starts
    MaxWindows,    \* realtime_recovery_windows_per_stream
    MaxCandles,    \* max_candles_per_window of one REST request
    Lead,          \* bars by which the exchange's clock may be ahead of ours
    Faults,        \* the failures the environment may inject
    AdmittedAtStart \* TRUE: the startup pass already proved the history

ASSUME BarAssumption == /\ MaxBar \in Nat
                        /\ FirstBars \subseteq 1..MaxBar
ASSUME WindowAssumption == MaxWindows \in Nat \ {0} /\ MaxCandles \in Nat \ {0}
\* A confirmed candle can reach us while our own clock still shows its bar
\* open, but no earlier: the two clocks agree to within one bar.
ASSUME LeadAssumption == Lead \in {0, 1}
\* rejected: a live candle fails validation; failed: its transaction raises;
\* recoverable, fatal: a REST import raises; storage: any other exception of
\* the attempt.
ASSUME FaultAssumption ==
    Faults \subseteq {"rejected", "failed", "recoverable", "fatal", "storage"}
ASSUME AdmittedAssumption == AdmittedAtStart \in BOOLEAN

NoBar == -1
Bars == 0..(MaxBar + 1)
OptBars == Bars \cup {NoBar}

VARIABLES
    bar,          \* align_to_grid(now): the bar that is open
    inGrace,      \* now is within stale_grace_ms of that bar's open
    candles,      \* bars with a canonical candle row
    latest,       \* stream_state.latest_committed_open_time_ms
    durable,      \* stream_state.state
    history,      \* "open" until the historical worker proves continuity
    admitted,     \* RealtimeAdmissionGate
    disconnected, \* RealtimeSupervisor._disconnected
    facts,        \* RealtimeStreamFacts of the stream
    intent,       \* RealtimeRecoveryWorker._intents[stream]
    thread,       \* the attempt: locals of _execute / _execute_sync
    loop,         \* the event loop: which handler it is in, and its locals
    published,    \* RuntimeStatusStore: the projection readers see
    notified      \* highest bar handed to the committed-bar notifier

vars == <<bar, inGrace, candles, latest, durable, history, admitted,
          disconnected, facts, intent, thread, loop, published, notified>>

-----------------------------------------------------------------------------
(* Time.                                                                   *)

\* _expected_open_ms: the last bar closed for longer than the grace period
\* (which is shorter than a bar).
Expected == IF inGrace THEN bar - 2 ELSE bar - 1

Later(a, b) == IF a > b THEN a ELSE b
Earlier(a, b) == IF a < b THEN a ELSE b

-----------------------------------------------------------------------------
(* RealtimeStreamFacts and the updates the supervisor makes to it.         *)

Statuses == {"expected", "subscribed", "live", "stale", "disconnected",
             "recovery_required", "failed"}

\* frontier = last_successful_open_time_ms, awaited = pending_expected_open_ms,
\* checked = last_checked_expected_open_ms.
Facts == [status : Statuses, sub : BOOLEAN, pending : BOOLEAN,
          restored : BOOLEAN, fatal : BOOLEAN, frontier : OptBars,
          checked : OptBars, awaited : OptBars]

Current(f, expected) == f.frontier # NoBar /\ f.frontier >= expected

\* Mutant of DataReady: freshness against the expected bar is not asked for.
DataReadyUnfresh(f, expected) == f.sub /\ f.restored /\ ~f.pending /\ ~f.fatal

DataReady(f, expected) ==
    /\ f.sub
    /\ f.restored
    /\ ~f.pending
    /\ ~f.fatal
    /\ Current(f, expected)

\* Mutant of ExtendFrontier: any newer bar is taken.
ExtendFrontierOverGap(previous, open) == Later(previous, open)

\* A live bar extends proven continuity only when it is the next bar.
ExtendFrontier(previous, open) ==
    IF previous # NoBar /\ open > previous + 1 THEN previous
    ELSE Later(previous, open)

RequireRecovery(f, status, expected) ==
    [f EXCEPT !.status = status, !.pending = TRUE, !.restored = FALSE,
              !.awaited = IF expected # NoBar THEN expected ELSE @]

\* synchronize_successful_open_time: what the history has already proven.
SynchronizeSuccessful(f, open) == [f EXCEPT !.frontier = Later(@, open)]

MarkDisconnected(f) ==
    [f EXCEPT !.status = "disconnected", !.sub = FALSE, !.restored = FALSE]

RecordSuccess(f, open) ==
    [f EXCEPT !.status = "live", !.frontier = ExtendFrontier(@, open)]

RecordRejected(f) ==
    [f EXCEPT !.status = "recovery_required", !.pending = TRUE,
              !.restored = FALSE]

RecordFailed(f) == [f EXCEPT !.status = "failed", !.fatal = TRUE]

\* Mutant of CommitChecked: the bar expected when the result arrives.
CommitCheckedNow(f) == Later(f.checked, Expected)

\* _commit_checked: the bar stored when the signal was raised, not a later one.
CommitChecked(f) == Later(f.checked, f.awaited)

RecordRecoveryResult(f, restored, fatal, through) ==
    IF fatal
    THEN [f EXCEPT !.status = "failed", !.pending = FALSE,
                   !.restored = FALSE, !.fatal = TRUE]
    ELSE IF restored
    THEN [f EXCEPT !.status = IF f.sub THEN "subscribed"
                                       ELSE "recovery_required",
                   !.pending = FALSE, !.restored = TRUE,
                   !.checked = CommitChecked(f), !.awaited = NoBar,
                   !.frontier = Later(@, through)]
    ELSE [f EXCEPT !.status = "recovery_required", !.pending = TRUE,
                   !.restored = FALSE]

\* _signal: recovery starts no later than the bar after proven continuity.
SignalHint(f, suspected) ==
    IF f.frontier = NoBar THEN suspected
    ELSE IF suspected = NoBar THEN f.frontier + 1
    ELSE Earlier(suspected, f.frontier + 1)

-----------------------------------------------------------------------------
(* RecoveryIntent: at most one per stream.                                 *)

Windows == [start : Bars, end : Bars]
NoWindow == [start |-> 0, end |-> 0]

\* revised: the revision moved since the running attempt took the intent.
Intents == [exists : BOOLEAN, hint : OptBars,
            urgent : BOOLEAN, revised : BOOLEAN, window : Windows,
            retry : BOOLEAN]
NoIntent == [exists |-> FALSE, hint |-> NoBar, urgent |-> FALSE,
             revised |-> FALSE, window |-> NoWindow, retry |-> FALSE]

FromSignal(hint, background) ==
    [NoIntent EXCEPT !.exists = TRUE, !.hint = hint, !.urgent = ~background]

\* Mutant of Absorb: the requirement moves, the revision does not.
AbsorbUnrevised(i, hint, background) ==
    IF hint # NoBar /\ (i.hint = NoBar \/ hint < i.hint)
    THEN [i EXCEPT !.hint = hint, !.window = NoWindow]
    ELSE i

Absorb(i, hint, background) ==
    LET lower    == hint # NoBar /\ (i.hint = NoBar \/ hint < i.hint)
        escalate == ~background /\ ~i.urgent
    IN  IF lower \/ escalate
        THEN [i EXCEPT !.hint = IF lower THEN hint ELSE @,
                       !.urgent = @ \/ escalate,
                       !.revised = TRUE,
                       !.window = NoWindow]
        ELSE i

Enqueue(i, hint, background) ==
    IF i.exists THEN Absorb(i, hint, background)
                ELSE FromSignal(hint, background)

-----------------------------------------------------------------------------
(* The two program counters.                                               *)

\* exp: the expected bar frozen by all_facts() when the sweep began; target:
\* the state mark_x wants; origin: who sees an exception; then: what follows.
Loops == [pc : {"idle", "sync", "mark", "commit", "ingest", "outcome", "down"},
          exp : OptBars, target : LifecycleStates,
          origin : {"task", "session"}, then : {"idle", "ingest"},
          open : Bars,
          class : {"none", "committed", "known", "rejected", "failed"}]
Idle == [pc |-> "idle", exp |-> 0, target |-> "ready", origin |-> "task",
         then |-> "idle", open |-> 0, class |-> "none"]

Syncing(origin) == [Idle EXCEPT !.pc = "sync", !.exp = Expected,
                                !.origin = origin]

Threads == [pc : {"idle", "gate", "unavailable", "read", "plan", "ensure",
                  "repair", "audit", "repairing", "import",
                  "postaudit", "target", "restore", "done"},
            hint : OptBars, known : OptBars,
            window : Windows, todo : SUBSET Bars, used : 0..MaxWindows,
            committed : BOOLEAN,
            result : {"none", "restored", "incomplete", "recoverable", "fatal"}]
ThreadIdle == [pc |-> "idle", hint |-> NoBar, known |-> NoBar,
               window |-> NoWindow, todo |-> {}, used |-> 0,
               committed |-> FALSE, result |-> "none"]

Published == [ready : BOOLEAN, through : OptBars]
NotReady == [ready |-> FALSE, through |-> NoBar]

-----------------------------------------------------------------------------
(* RuntimeService._startup has run: an admitted stream was proven          *)
(* continuous through a recent bar and left in `connecting`.               *)
Init ==
    /\ bar \in FirstBars
    /\ inGrace \in BOOLEAN
    /\ IF AdmittedAtStart
       THEN /\ latest \in {bar - 2, bar - 1} \ {NoBar}
            /\ durable = "connecting"
            /\ history = "proven"
       ELSE /\ latest \in {NoBar} \cup 0..(bar - 2)
            /\ durable = "bootstrapping"
            /\ history = "open"
    /\ candles = 0..latest
    /\ admitted = AdmittedAtStart
    /\ disconnected = FALSE
    /\ facts = [status |-> "expected", sub |-> FALSE, pending |-> FALSE,
                restored |-> FALSE, fatal |-> FALSE, frontier |-> latest,
                checked |-> NoBar, awaited |-> NoBar]
    /\ intent = NoIntent
    /\ thread = ThreadIdle
    /\ loop = Idle
    /\ published = NotReady
    /\ notified = latest

-----------------------------------------------------------------------------
(* Environment: the clock and the historical worker.                       *)

Tick ==
    /\ loop.pc # "down"
    /\ IF inGrace THEN inGrace' = FALSE /\ bar' = bar
                  ELSE bar < MaxBar /\ inGrace' = TRUE /\ bar' = bar + 1
    /\ UNCHANGED <<candles, latest, durable, history, admitted, disconnected,
                   facts, intent, thread, loop, published, notified>>

\* HistoricalStreamReconciler.execute completed a window that ends at a bar
\* which was the open one when the window was pinned.
HistoricalProof ==
    /\ history = "open"
    /\ loop.pc # "down"
    /\ \E end \in (latest + 1)..bar :
          /\ end > 0
          /\ candles' = candles \cup 0..(end - 1)
          /\ latest' = end - 1
          /\ notified' = end - 1
    /\ durable' = "connecting"
    /\ history' = "proven"
    /\ UNCHANGED <<bar, inGrace, admitted, disconnected, facts, intent,
                   thread, loop, published>>

-----------------------------------------------------------------------------
(* Event-loop handlers.  Each starts when the loop is idle and ends in the *)
(* lifecycle sweep.                                                        *)

\* RuntimeRealtimeCoordinator.admit, called when the history is proven.
Admit ==
    /\ loop.pc = "idle"
    /\ history = "proven"
    /\ ~admitted
    /\ admitted' = TRUE
    /\ facts' = SynchronizeSuccessful(facts, latest)
    /\ intent' = IF facts.sub /\ ~facts.pending
                 THEN Enqueue(intent, NoBar, FALSE) ELSE intent
    /\ loop' = Syncing("task")
    /\ UNCHANGED <<bar, inGrace, candles, latest, durable, history,
                   disconnected, thread, published, notified>>

\* on_event(SubscriptionConfirmed): the session's one acknowledgement.
SubscriptionConfirmed ==
    /\ loop.pc = "idle"
    /\ ~facts.sub
    /\ LET subscribed == [facts EXCEPT !.status = "subscribed", !.sub = TRUE]
           known == IF disconnected
                    THEN RequireRecovery(subscribed, "recovery_required", NoBar)
                    ELSE subscribed
           started == IF admitted /\ ~known.restored
                      THEN Enqueue(intent, NoBar, FALSE) ELSE intent
       IN  /\ facts' = known
           /\ intent' = IF admitted /\ disconnected
                        THEN Enqueue(started, SignalHint(known, NoBar), FALSE)
                        ELSE started
    /\ disconnected' = FALSE
    /\ loop' = Syncing("session")
    /\ UNCHANGED <<bar, inGrace, candles, latest, durable, history, admitted,
                   thread, published, notified>>

\* on_event(Disconnected / TransportFailed) from the connector's handlers.
Disconnect ==
    /\ loop.pc = "idle"
    /\ disconnected' = TRUE
    /\ facts' = MarkDisconnected(facts)
    /\ loop' = Syncing("task")
    /\ UNCHANGED <<bar, inGrace, candles, latest, durable, history, admitted,
                   intent, thread, published, notified>>

\* on_event(CandleObserved) for a confirmed candle: only activity times move,
\* but the full sweep runs before the candle is ingested.  A candle of a
\* stream that is not admitted is dropped.
LiveCandle ==
    /\ loop.pc = "idle"
    /\ admitted
    /\ \E open \in 0..(bar - 1 + Lead) :
          loop' = [Syncing("session") EXCEPT !.then = "ingest", !.open = open]
    /\ UNCHANGED <<bar, inGrace, candles, latest, durable, history, admitted,
                   disconnected, facts, intent, thread, published, notified>>

\* RealtimeCandleHandler.handle: one ingestion transaction, or its failure.
IngestLive ==
    /\ loop.pc = "ingest"
    /\ \/ /\ candles' = candles \cup {loop.open}
          /\ latest' = Later(latest, loop.open)
          /\ loop' = [loop EXCEPT !.pc = "outcome", !.class =
                         IF loop.open \in candles THEN "known" ELSE "committed"]
       \/ /\ \E class \in {"rejected", "failed"} \cap Faults :
                loop' = [loop EXCEPT !.pc = "outcome", !.class = class]
          /\ UNCHANGED <<candles, latest>>
    /\ UNCHANGED <<bar, inGrace, durable, history, admitted, disconnected,
                   facts, intent, thread, published, notified>>

\* on_outcome: supervisor, intent, live-commit mark and notification.
OutcomeFacts ==
    CASE loop.class = "failed"   -> RecordFailed(facts)
      [] loop.class = "rejected" -> RecordRejected(facts)
      [] OTHER ->
           IF facts.frontier # NoBar /\ loop.open > facts.frontier + 1
           THEN RequireRecovery(RecordSuccess(facts, loop.open),
                                "recovery_required", NoBar)
           ELSE RecordSuccess(facts, loop.open)

OutcomeSignals ==
    \/ loop.class = "rejected"
    \/ /\ loop.class \in {"committed", "known"}
       /\ facts.frontier # NoBar
       /\ loop.open > facts.frontier + 1

OnOutcome ==
    /\ loop.pc = "outcome"
    /\ facts' = OutcomeFacts
    /\ LET signalled == IF OutcomeSignals
                        THEN Enqueue(intent, SignalHint(OutcomeFacts, loop.open),
                                     FALSE)
                        ELSE intent
       IN  intent' = [signalled EXCEPT !.retry =
                        @ \/ (loop.class = "committed" /\ signalled.exists)]
    /\ notified' = IF loop.class = "committed" THEN Later(notified, loop.open)
                                               ELSE notified
    /\ loop' = Syncing("session")
    /\ UNCHANGED <<bar, inGrace, candles, latest, durable, history, admitted,
                   disconnected, thread, published>>

\* _stale_worker: detect_stale, then the full sweep.
StaleNow ==
    /\ facts.sub
    /\ ~facts.pending
    /\ ~facts.fatal
    /\ facts.frontier # NoBar
    /\ facts.frontier < Expected
    /\ (facts.checked = NoBar \/ Expected > facts.checked)

StaleCheck ==
    /\ loop.pc = "idle"
    /\ IF StaleNow
       THEN /\ facts' = RequireRecovery(facts, "stale", Expected)
            /\ intent' = IF admitted
                         THEN Enqueue(intent,
                                SignalHint(facts, facts.frontier + 1), TRUE)
                         ELSE intent
       ELSE UNCHANGED <<facts, intent>>
    /\ loop' = Syncing("task")
    /\ UNCHANGED <<bar, inGrace, candles, latest, durable, history, admitted,
                   disconnected, thread, published, notified>>

-----------------------------------------------------------------------------
(* synchronize_stream_lifecycle, one SQLite access per step.               *)

\* What the sweep decides to write, given the snapshot it read.
SyncTarget(state, f, expected) ==
    CASE f.fatal /\ state # "failed" -> "failed"
      [] ~f.fatal /\ DataReady(f, expected) /\ state = "degraded" -> "connecting"
      [] ~f.fatal /\ DataReady(f, expected) /\ state = "connecting" -> "ready"
      [] /\ ~f.fatal
         /\ ~DataReady(f, expected)
         /\ \/ f.pending
            \/ ~Current(f, expected)
            \/ f.status \in {"disconnected", "stale", "recovery_required"}
         /\ state \in {"connecting", "ready"} -> "degraded"
      [] OTHER -> "none"

\* status.update_stream ends the sweep; a confirmed candle is ingested next.
FinishSync(state) ==
    /\ published' = IF state = "ready" /\ DataReady(facts, loop.exp)
                    THEN [ready |-> TRUE, through |-> loop.exp]
                    ELSE NotReady
    /\ loop' = IF loop.then = "ingest"
               THEN [Idle EXCEPT !.pc = "ingest", !.open = loop.open,
                                 !.origin = "session"]
               ELSE Idle

\* The first snapshot.
SyncRead ==
    /\ loop.pc = "sync"
    /\ LET target == IF admitted THEN SyncTarget(durable, facts, loop.exp)
                                 ELSE "none"
       IN  IF target = "none"
           THEN FinishSync(durable)
           ELSE /\ loop' = [loop EXCEPT !.pc = "mark", !.target = target]
                /\ UNCHANGED published
    /\ UNCHANGED <<bar, inGrace, candles, latest, durable, history, admitted,
                   disconnected, facts, intent, thread, notified>>

\* After mark_connecting the sweep goes on to mark_ready.
Marked ==
    IF loop.target = "connecting"
    THEN /\ loop' = [loop EXCEPT !.pc = "mark", !.target = "ready"]
         /\ UNCHANGED published
    ELSE FinishSync(loop.target)

\* mark_connecting / mark_ready / mark_degraded / mark_failed read again.
MarkRead ==
    /\ loop.pc = "mark"
    /\ IF durable = loop.target
       THEN Marked
       ELSE /\ loop' = [loop EXCEPT !.pc = "commit"]
            /\ UNCHANGED published
    /\ UNCHANGED <<bar, inGrace, candles, latest, durable, history, admitted,
                   disconnected, facts, intent, thread, notified>>

\* RuntimeLifecycleRecorder._transition re-reads inside its transaction.
MarkCommit ==
    /\ loop.pc = "commit"
    /\ CanTransition(durable, loop.target)
    /\ durable' = loop.target
    /\ Marked
    /\ UNCHANGED <<bar, inGrace, candles, latest, history, admitted,
                   disconnected, facts, intent, thread, notified>>

\* InvalidStreamTransition out of the sweep: a session handler's exception
\* becomes TransportFailed; any other task's ends the process.
MarkRaises ==
    /\ loop.pc = "commit"
    /\ ~CanTransition(durable, loop.target)
    /\ IF loop.origin = "session"
       THEN /\ facts' = MarkDisconnected(facts)
            /\ disconnected' = TRUE
            /\ loop' = Syncing("task")
       ELSE /\ loop' = [Idle EXCEPT !.pc = "down"]
            /\ UNCHANGED <<facts, disconnected>>
    /\ UNCHANGED <<bar, inGrace, candles, latest, durable, history, admitted,
                   intent, thread, published, notified>>

-----------------------------------------------------------------------------
(* RealtimeRecoveryWorker, on the event loop.                              *)

\* run: a due intent is taken from the queue and its revision remembered.
\* (How long a backoff lasts is left open: the step may come at any time.)
WorkerTake ==
    /\ loop.pc = "idle"
    /\ intent.exists
    /\ thread.pc = "idle"
    /\ thread' = [ThreadIdle EXCEPT !.pc = "gate"]
    /\ intent' = [intent EXCEPT !.revised = FALSE]
    /\ UNCHANGED <<bar, inGrace, candles, latest, durable, history, admitted,
                   disconnected, facts, loop, published, notified>>

\* _execute: the operation gate is ours; only now is the request built.
GateAcquired ==
    /\ loop.pc = "idle"
    /\ thread.pc = "gate"
    /\ thread' = [thread EXCEPT !.pc = "unavailable", !.hint = intent.hint,
                                !.window = intent.window]
    /\ UNCHANGED <<bar, inGrace, candles, latest, durable, history, admitted,
                   disconnected, facts, intent, loop, published, notified>>

\* Mutant of IntentAfter: a restored result ends an episode that changed.
IntentAfterUnasked(i, t) ==
    IF t.result \in {"fatal", "restored"} THEN NoIntent
    ELSE [i EXCEPT !.retry = @ \/ t.committed, !.revised = FALSE,
                   !.window = IF t.result = "incomplete" THEN t.window ELSE @]

\* Mutant of IntentAfter: what an earlier attempt committed is forgotten.
IntentAfterForgets(i, t) ==
    IF t.result = "fatal" \/ (t.result = "restored" /\ ~i.revised) THEN NoIntent
    ELSE [i EXCEPT !.revised = FALSE,
                   !.window = IF ~i.revised /\ t.result = "incomplete"
                              THEN t.window ELSE @]

\* The episode ends when the attempt is fatal, or restored an unchanged intent.
\* An incomplete attempt freezes its window; a recoverable one leaves nothing.
IntentAfter(i, t) ==
    IF t.result = "fatal" \/ (t.result = "restored" /\ ~i.revised) THEN NoIntent
    ELSE [i EXCEPT !.retry = @ \/ t.committed,
                   !.revised = FALSE,
                   !.window = IF ~i.revised /\ t.result = "incomplete"
                              THEN t.window ELSE @]

\* _execute after the thread returned, and the rest of run's iteration.  The
\* sweep that follows blocks the loop, so the notification is taken with it.
WorkerResult ==
    /\ loop.pc = "idle"
    /\ thread.pc = "done"
    /\ LET fatal    == thread.result = "fatal"
           restored == thread.result = "restored" /\ ~intent.revised
           through  == thread.window.end - 1
           retry    == intent.retry \/ thread.committed
       IN  /\ facts' = RecordRecoveryResult(facts, restored, fatal, through)
           /\ notified' = IF restored /\ retry THEN Later(notified, through)
                                               ELSE notified
           /\ published' = IF fatal \/ restored THEN published ELSE NotReady
    /\ intent' = IntentAfter(intent, thread)
    /\ thread' = ThreadIdle
    /\ loop' = Syncing("task")
    /\ UNCHANGED <<bar, inGrace, candles, latest, durable, history, admitted,
                   disconnected>>

-----------------------------------------------------------------------------
(* RealtimeRecoveryCoordinator._execute_sync, in the worker thread.        *)

Goto(pc) == thread' = [thread EXCEPT !.pc = pc]
Return(result) == thread' = [thread EXCEPT !.pc = "done", !.result = result,
                                           !.todo = {}, !.used = 0]

\* One transaction that moves the durable state, or raises when it may not:
\* the coordinator's `except Exception` turns that into a fatal result.
Transition(from, to, next) ==
    IF durable \in from /\ CanTransition(durable, to)
    THEN durable' = to /\ Goto(next)
    ELSE Return("fatal") /\ UNCHANGED durable

MarkUnavailable ==
    /\ thread.pc = "unavailable"
    /\ durable' = IF durable \in {"ready", "connecting"} THEN "degraded"
                                                         ELSE durable
    /\ thread' = IF thread.window = NoWindow
                 THEN [thread EXCEPT !.pc = "read"]
                 ELSE [ThreadIdle EXCEPT !.pc = "ensure", !.window = thread.window]
    /\ UNCHANGED <<bar, inGrace, candles, latest, history, admitted,
                   disconnected, facts, intent, loop, published, notified>>

\* derive_window reads the snapshot, then the clock.
DeriveRead ==
    /\ thread.pc = "read"
    /\ thread' = [thread EXCEPT !.pc = "plan", !.known = latest]
    /\ UNCHANGED <<bar, inGrace, candles, latest, durable, history, admitted,
                   disconnected, facts, intent, loop, published, notified>>

\* Mutant of DeriveWindow: the signal's hint is not consulted.
DeriveWindowHintless(hint, known, now) ==
    IF known + 1 >= now THEN [start |-> known, end |-> known + 1]
                        ELSE [start |-> known + 1, end |-> now]

DeriveWindow(hint, known, now) ==
    LET start == IF hint = NoBar THEN known + 1 ELSE Earlier(known + 1, hint)
    IN  IF start >= now THEN [start |-> known, end |-> known + 1]
                        ELSE [start |-> start, end |-> now]

DerivePlan ==
    /\ thread.pc = "plan"
    /\ IF thread.known = NoBar
       THEN Return("incomplete")
       ELSE thread' = [ThreadIdle EXCEPT !.pc = "ensure",
                          !.window = DeriveWindow(thread.hint, thread.known, bar)]
    /\ UNCHANGED <<bar, inGrace, candles, latest, durable, history, admitted,
                   disconnected, facts, intent, loop, published, notified>>

\* RealtimeRecoveryStateRecorder.ensure_auditing.
EnsureAuditing ==
    /\ thread.pc = "ensure"
    /\ IF durable = "auditing"
       THEN Goto("repair") /\ UNCHANGED durable
       ELSE Transition({"degraded", "repairing"}, "auditing", "repair")
    /\ UNCHANGED <<bar, inGrace, candles, latest, history, admitted,
                   disconnected, facts, intent, loop, published, notified>>

\* RepairStateRecorder.ensure_auditing: a failed stream is accepted here.
RepairEnsureAuditing ==
    /\ thread.pc = "repair"
    /\ IF durable = "auditing"
       THEN Goto("audit") /\ UNCHANGED durable
       ELSE Transition({"degraded", "repairing", "failed"}, "auditing", "audit")
    /\ UNCHANGED <<bar, inGrace, candles, latest, history, admitted,
                   disconnected, facts, intent, loop, published, notified>>

Missing(w) == (w.start..(w.end - 1)) \ candles

\* The audit before the repair, and record_audit.
PreAudit ==
    /\ thread.pc = "audit"
    /\ thread' = IF Missing(thread.window) = {}
                 THEN [thread EXCEPT !.pc = "target"]
                 ELSE [thread EXCEPT !.pc = "repairing",
                                     !.todo = Missing(thread.window)]
    /\ UNCHANGED <<bar, inGrace, candles, latest, durable, history, admitted,
                   disconnected, facts, intent, loop, published, notified>>

TransitionToRepairing ==
    /\ thread.pc = "repairing"
    /\ Transition(LifecycleStates, "repairing", "import")
    /\ UNCHANGED <<bar, inGrace, candles, latest, history, admitted,
                   disconnected, facts, intent, loop, published, notified>>

\* The next planned window: the head of the first gap, at most MaxCandles long.
NextWindow(todo) ==
    {b \in todo : \A c \in todo : c < b =>
        /\ b - c < MaxCandles
        /\ \A d \in c..b : d \in todo}

\* _window_importer.execute and record_rest_success: REST may return any part
\* of the window, in one transaction.
RepairWindow(served) ==
    /\ thread.pc = "import"
    /\ thread.todo # {}
    /\ thread.used < MaxWindows
    /\ served \subseteq NextWindow(thread.todo)
    /\ candles' = candles \cup served
    /\ \E newest \in {latest} \cup (served \ candles) :
          /\ newest >= latest
          /\ \A b \in served \ candles : b <= newest
          /\ latest' = newest
    /\ thread' = [thread EXCEPT
                    !.todo = @ \ NextWindow(@),
                    !.used = @ + 1,
                    !.committed = @ \/ served \ candles # {}]
    /\ UNCHANGED <<bar, inGrace, durable, history, admitted, disconnected,
                   facts, intent, loop, published, notified>>

\* The import raised: record_failure moves the stream if it legally can.
RepairFails ==
    /\ thread.pc = "import"
    /\ thread.todo # {}
    /\ thread.used < MaxWindows
    /\ \E result \in {"recoverable", "fatal"} \cap Faults :
          LET target == IF result = "recoverable" THEN "degraded" ELSE "failed"
          IN  /\ durable' = IF CanTransition(durable, target) THEN target
                                                             ELSE durable
              /\ Return(result)
    /\ UNCHANGED <<bar, inGrace, candles, latest, history, admitted,
                   disconnected, facts, intent, loop, published, notified>>

\* The window budget or the plan is used up: transition_repairing_to_auditing.
RepairingToAuditing ==
    /\ thread.pc = "import"
    /\ thread.todo = {} \/ thread.used = MaxWindows
    /\ durable' = IF durable = "repairing" THEN "auditing" ELSE durable
    /\ thread' = [thread EXCEPT !.pc = "postaudit", !.todo = {}, !.used = 0]
    /\ UNCHANGED <<bar, inGrace, candles, latest, history, admitted,
                   disconnected, facts, intent, loop, published, notified>>

PostAudit ==
    /\ thread.pc = "postaudit"
    /\ IF Missing(thread.window) = {} THEN Goto("target")
                                      ELSE Return("incomplete")
    /\ UNCHANGED <<bar, inGrace, candles, latest, durable, history, admitted,
                   disconnected, facts, intent, loop, published, notified>>

\* Did a bar close while we repaired?  Then the next window starts at our end.
CheckTarget ==
    /\ thread.pc = "target"
    /\ IF bar > thread.window.end
       THEN thread' = [thread EXCEPT !.pc = "done", !.result = "incomplete",
                         !.window = [start |-> thread.window.end, end |-> bar]]
       ELSE Goto("restore")
    /\ UNCHANGED <<bar, inGrace, candles, latest, durable, history, admitted,
                   disconnected, facts, intent, loop, published, notified>>

\* Mutant of MarkRestored: the durable state is left in auditing.
MarkRestoredInMemory ==
    /\ thread.pc = "restore"
    /\ Return("restored")
    /\ UNCHANGED <<bar, inGrace, candles, latest, durable, history, admitted,
                   disconnected, facts, intent, loop, published, notified>>

MarkRestored ==
    /\ thread.pc = "restore"
    /\ durable' = IF durable = "auditing" THEN "connecting" ELSE durable
    /\ Return("restored")
    /\ UNCHANGED <<bar, inGrace, candles, latest, history, admitted,
                   disconnected, facts, intent, loop, published, notified>>

\* Any other exception inside the attempt is fatal (classify_source_failure).
ThreadFault ==
    /\ "storage" \in Faults
    /\ thread.pc \in {"read", "ensure", "repair", "audit", "repairing",
                      "postaudit", "restore"}
    /\ Return("fatal")
    /\ UNCHANGED <<bar, inGrace, candles, latest, durable, history, admitted,
                   disconnected, facts, intent, loop, published, notified>>

-----------------------------------------------------------------------------
Sweep == SyncRead \/ MarkRead \/ MarkCommit \/ MarkRaises

Attempt ==
    \/ MarkUnavailable \/ DeriveRead \/ DerivePlan
    \/ EnsureAuditing \/ RepairEnsureAuditing \/ PreAudit
    \/ TransitionToRepairing
    \/ \E served \in SUBSET NextWindow(thread.todo) : RepairWindow(served)
    \/ RepairFails \/ RepairingToAuditing \/ PostAudit
    \/ CheckTarget \/ MarkRestored \/ ThreadFault

\* The process has ended; nothing happens any more.
Ended == loop.pc = "down" /\ UNCHANGED vars

Next ==
    \/ Tick \/ HistoricalProof
    \/ Admit \/ SubscriptionConfirmed \/ Disconnect
    \/ LiveCandle \/ IngestLive \/ OnOutcome \/ StaleCheck
    \/ Sweep
    \/ WorkerTake \/ GateAcquired \/ WorkerResult
    \/ (loop.pc # "down" /\ Attempt)
    \/ Ended

Spec == Init /\ [][Next]_vars

-----------------------------------------------------------------------------
(* Properties.                                                             *)

\* Every variable stays in its domain.
TypeOK ==
    /\ bar \in 1..MaxBar
    /\ inGrace \in BOOLEAN
    /\ candles \subseteq Bars
    /\ latest \in OptBars
    /\ durable \in LifecycleStates
    /\ history \in {"open", "proven"}
    /\ admitted \in BOOLEAN
    /\ disconnected \in BOOLEAN
    /\ facts \in Facts
    /\ intent \in Intents
    /\ thread \in Threads
    /\ loop \in Loops
    /\ published \in Published
    /\ notified \in OptBars

\* The supervisor's frontier never claims a bar that is not stored: every bar
\* from the earliest one through last_successful_open_time_ms has a canonical
\* row, whatever order live commits, signals and recovery results come in.
FrontierProven ==
    admitted /\ ~facts.fatal => 0..facts.frontier \subseteq candles

\* A stream is published ready only with every bar through the one expected
\* at that moment stored (RuntimeStatusStore.update_stream).
ReadyIsContinuous ==
    published.ready => 0..published.through \subseteq candles

\* last_checked_expected_open_ms silences the stale check for a bar only once
\* the frontier has passed it, so it can never hide a missing bar.
CheckedIsProven ==
    admitted /\ ~facts.fatal => facts.checked <= facts.frontier

\* An admitted, subscribed stream that is not restored has an intent: somebody
\* will run its recovery.  It does not hold for a stream that asked before its
\* admission (README, "Divergences"), so no passing run lists it.
RecoveryOwned ==
    admitted /\ facts.sub /\ ~facts.restored /\ ~facts.fatal => intent.exists

\* `auditing` and `repairing` of an admitted stream belong to an attempt: the
\* lifecycle is never left in them with nobody to move it on.
LifecycleOwned ==
    admitted /\ ~facts.fatal /\ durable \in {"auditing", "repairing"}
        => intent.exists

\* When no episode is open every committed bar was announced, or a later one
\* was: mark_live_commit and committed_bars keep the episode's promise.
Announced ==
    admitted /\ ~intent.exists /\ ~facts.fatal /\ loop.pc # "outcome"
        => latest <= notified

\* The stored rows and the latest pointer only grow, and `ready` is entered
\* only while no recovery is wanted and every expected bar is stored.
ReadyEnteredProven ==
    [][ /\ candles \subseteq candles'
        /\ latest <= latest'
        /\ durable # "ready" /\ durable' = "ready" =>
              ~intent.exists /\ 0..loop.exp \subseteq candles ]_vars

\* "Persist runtime-owned lifecycle transitions through legal state paths":
\* when the sweep commits a transition, the table allows it.  It does not hold
\* (README, "Divergences"), so no passing run lists it.
SweepIsLegal == loop.pc = "commit" => CanTransition(durable, loop.target)

\* Fairness: the event loop serves its ready callbacks in turn (so a task that
\* is ready again and again is served), the thread runs, the stale worker wakes
\* every second, and REST, asked again and again, serves a whole window.
Fairness ==
    /\ WF_vars(Sweep) /\ WF_vars(IngestLive) /\ WF_vars(OnOutcome)
    /\ SF_vars(WorkerTake) /\ SF_vars(GateAcquired) /\ SF_vars(WorkerResult)
    /\ SF_vars(StaleCheck)
    /\ WF_vars(Attempt)
    /\ SF_vars(RepairWindow(NextWindow(thread.todo)))

FairSpec == Spec /\ Fairness

\* A pending recovery ends: the stream is restored, or turned fatal, or lost
\* its subscription, or the process ended.
RecoveryEnds ==
    (admitted /\ facts.pending) ~>
        (~facts.pending \/ facts.fatal \/ ~facts.sub \/ loop.pc = "down")
=============================================================================
