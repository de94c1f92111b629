--------------------------- MODULE BarPublication ---------------------------
(***************************************************************************)
(* What a receiver hears about one admitted stream: the bounded queue of   *)
(* committed bars and its single worker, and, for a stream with open       *)
(* interest, the second track: the live append before a send, the prefetch *)
(* during the bar, and the repair of both tracks by one recovery.  The     *)
(* event loop takes one step per handler, a thread one per repair, append  *)
(* or send.  A bar is its number on the grid; bar 0 was proven in both     *)
(* tracks when the stream was admitted.                                    *)
(***************************************************************************)
EXTENDS Integers, Sequences, FiniteSetsExt

CONSTANTS
    Capacity,     \* runtime_webhook_queue_capacity
    MaxNow,       \* bound: the last bar that opens
    Faults,       \* the classes of REST failure a recovery meets
    Events        \* bound: which of outage, stop and cancel happen

ASSUME PublicationAssumption ==
    /\ Capacity \in Nat \ {0}
    /\ MaxNow \in Nat \ {0}
    /\ Faults \subseteq {"recoverable_failure", "fatal_failure"}
    /\ Events \subseteq {"outage", "stop", "cancel"}

VARIABLES
    now,       \* the bar open now
    expected,  \* the newest bar that is overdue when missing (after the grace)
    candles,   \* bars in the candles table
    points,    \* bars in the open-interest table
    facts,     \* the supervisor's RealtimeStreamFacts
    intent,    \* the recovery worker's RecoveryIntent
    thread,    \* the recovery attempt
    queue,     \* the notification queue
    worker,    \* the notification worker
    prefetch,  \* OpenInterestPrefetch: the state of the open bar
    flight,    \* its attempts, by bar
    stop,      \* stop_event
    owed       \* the newest bar held back and not announced since, or NoBar

vars == <<now, expected, candles, points, facts, intent, thread, queue, worker,
          prefetch, flight, stop, owed>>

clock == <<now, expected>>
recovery == <<intent, thread>>
notifying == <<queue, worker, owed>>
fetching == <<prefetch, flight>>

Bars == 0..MaxNow
NoBar == -1
Window(a, b) == [start |-> a, end |-> b]
NoWindow == Window(0, 0)
Lower(a, b) == IF a < b THEN a ELSE b
Higher(a, b) == IF a < b THEN b ELSE a

-----------------------------------------------------------------------------
(* The supervisor's facts.                                                 *)

\* continuity_frontier_ms: the lower of the two frontiers of a flagged stream.
Frontier(f) == IF f.flagged THEN Lower(f.candle, f.oi) ELSE f.candle

DataReady(f) ==
    f.subscribed /\ f.restored /\ ~f.pending /\ ~f.fatal /\ Frontier(f) >= expected

\* Mutant of PublishedThrough: only the candle track is asked for the bar.
PublishedThroughCandles(f, bar) ==
    f.subscribed /\ f.restored /\ ~f.pending /\ ~f.fatal /\ f.candle >= bar

PublishedThrough(f, bar) == DataReady(f) /\ Frontier(f) >= bar

\* Mutant of ExtendFrontier: a live point moves the frontier over a hole.
ExtendFrontierAlways(previous, bar) == Higher(previous, bar)

ExtendFrontier(previous, bar) ==
    IF bar > previous + 1 THEN previous ELSE Higher(previous, bar)

RequireRecovery(f) == [f EXCEPT !.pending = TRUE, !.restored = FALSE]

\* _signal: recovery starts no later than the bar after the proven ones.
Hint(f, suspected) ==
    IF suspected = NoBar THEN Frontier(f) + 1 ELSE Lower(suspected, Frontier(f) + 1)

\* record_recovery_result.
Recorded(f, restored, fatal, through) ==
    IF fatal THEN [f EXCEPT !.pending = FALSE, !.restored = FALSE, !.fatal = TRUE]
    ELSE IF restored
    THEN [f EXCEPT !.pending = FALSE, !.restored = TRUE,
                   !.checked = Higher(f.checked, f.awaited), !.awaited = NoBar,
                   !.candle = Higher(f.candle, through),
                   !.oi = IF f.flagged THEN Higher(f.oi, through) ELSE f.oi]
    ELSE [f EXCEPT !.pending = TRUE, !.restored = FALSE]

-----------------------------------------------------------------------------
(* The recovery intent, the queue.                                         *)

NoIntent == [active |-> FALSE, hint |-> NoBar, urgent |-> FALSE,
             changed |-> FALSE, window |-> NoWindow, need |-> FALSE]

\* enqueue: the first signal makes the intent; a later one is absorbed, and
\* drops the frozen window only when it really asks for more.
Enqueue(i, hint, urgent) ==
    LET earlier == hint # NoBar /\ (i.hint = NoBar \/ hint < i.hint)
    IN  IF ~i.active
        THEN [NoIntent EXCEPT !.active = TRUE, !.hint = hint, !.urgent = urgent]
        ELSE IF earlier \/ (urgent /\ ~i.urgent)
        THEN [i EXCEPT !.hint = IF earlier THEN hint ELSE i.hint,
                       !.urgent = i.urgent \/ urgent,
                       !.changed = TRUE, !.window = NoWindow]
        ELSE i

NoAttempt == [pc |-> "idle", window |-> NoWindow, hint |-> NoBar,
              committed |-> FALSE, class |-> "none", next |-> NoWindow]

\* Mutant of PutNowait: the queue is not bounded.
PutNowaitUnbounded(q, bar) == Append(q, bar)

\* A full queue drops the notification.
PutNowait(q, bar) == IF Len(q) < Capacity THEN Append(q, bar) ELSE q

Init ==
    /\ now = 1
    /\ expected = 0
    /\ candles = {0}
    /\ points = {0}
    /\ \E flagged \in BOOLEAN :
          facts = [flagged |-> flagged, candle |-> 0, oi |-> 0,
                   subscribed |-> TRUE, restored |-> TRUE,
                   pending |-> FALSE, fatal |-> FALSE,
                   checked |-> NoBar, awaited |-> NoBar]
    /\ intent = NoIntent
    /\ thread = NoAttempt
    /\ queue = <<>>
    /\ worker = [pc |-> "idle", bar |-> NoBar, stored |-> FALSE, sending |-> FALSE,
                 hit |-> FALSE, raises |-> FALSE, cancelled |-> FALSE, late |-> 0]
    /\ prefetch = [bar |-> 1, stored |-> FALSE, busy |-> FALSE]
    /\ flight = [b \in Bars |-> "none"]
    /\ stop = FALSE
    /\ owed = NoBar

-----------------------------------------------------------------------------
(* The clock, and the events of the WebSocket session.                     *)

\* A bar closes and the next one opens; the closed one is not overdue yet.
Tick ==
    /\ now < MaxNow
    /\ now' = now + 1
    /\ UNCHANGED <<expected, candles, points, facts, recovery, notifying,
                   fetching, stop>>

GraceEnds ==
    /\ expected < now - 1
    /\ expected' = now - 1
    /\ UNCHANGED <<now, candles, points, facts, recovery, notifying, fetching, stop>>

\* on_outcome of a confirmed candle, stored by its handler just before.  The
\* exchange may close a bar a moment before this clock does; the last bar of
\* the model never closes.
Outcome(bar) ==
    LET committed == bar \notin candles
        gap == bar > facts.candle + 1
        extended == [facts EXCEPT !.candle = ExtendFrontier(facts.candle, bar)]
        asked == IF gap THEN Enqueue(intent, Hint(extended, facts.candle + 1), TRUE)
                 ELSE intent
    IN  /\ ~stop
        /\ bar <= now /\ bar < MaxNow
        /\ candles' = candles \cup {bar}
        /\ queue' = IF committed THEN PutNowait(queue, bar) ELSE queue
        /\ facts' = IF gap THEN RequireRecovery(extended) ELSE extended
        /\ intent' = [asked EXCEPT !.need = asked.need \/ (committed /\ asked.active)]
        /\ UNCHANGED <<clock, points, thread, worker, owed, fetching, stop>>

Disconnected ==
    /\ "outage" \in Events
    /\ ~stop
    /\ facts.subscribed
    /\ facts' = [facts EXCEPT !.subscribed = FALSE, !.restored = FALSE]
    /\ UNCHANGED <<clock, candles, points, recovery, notifying, fetching, stop>>

\* The new session's confirmation asks for recovery twice: the startup request
\* of a stream that is not restored, and the signal for the disconnect.
SubscriptionConfirmed ==
    /\ ~stop
    /\ ~facts.subscribed
    /\ facts' = RequireRecovery([facts EXCEPT !.subscribed = TRUE])
    /\ intent' = Enqueue(Enqueue(intent, NoBar, TRUE), Hint(facts, NoBar), TRUE)
    /\ UNCHANGED <<clock, candles, points, thread, notifying, fetching, stop>>

\* Mutant of Overdue: the stale check looks at the candle track only.
OverdueCandles == facts.candle < expected

Overdue == Frontier(facts) < expected

\* detect_stale: each overdue bar asks once for a recovery.
DetectStale ==
    /\ ~stop
    /\ facts.subscribed /\ ~facts.pending /\ ~facts.fatal
    /\ Overdue
    /\ expected > facts.checked
    /\ facts' = [RequireRecovery(facts) EXCEPT !.awaited = expected]
    /\ intent' = Enqueue(intent, Hint(facts, Frontier(facts) + 1), FALSE)
    /\ UNCHANGED <<clock, candles, points, thread, notifying, fetching, stop>>

-----------------------------------------------------------------------------
(* The recovery attempt: one window, both tracks.                          *)

\* The gate is taken and the request made.  A signal that comes while the worker
\* waits for the gate counts as one that comes after: the attempt then asks from
\* the earlier hint, and its outcome is incomplete either way.
AttemptStarts ==
    /\ ~stop
    /\ intent.active
    /\ thread.pc = "idle"
    /\ thread' = [NoAttempt EXCEPT !.pc = "plan", !.window = intent.window,
                                   !.hint = intent.hint]
    /\ intent' = [intent EXCEPT !.changed = FALSE]
    /\ UNCHANGED <<clock, candles, points, facts, notifying, fetching, stop>>

\* derive_window, unless an earlier attempt froze it.
Derived ==
    LET latest == Max(candles)
        start == IF thread.hint = NoBar THEN latest + 1
                 ELSE Lower(latest + 1, thread.hint)
    IN  IF start < now THEN Window(start, now) ELSE Window(latest, latest + 1)

Plan ==
    /\ thread.pc = "plan"
    /\ thread' = [thread EXCEPT !.pc = "candles",
                                !.window = IF @ = NoWindow THEN Derived ELSE @]
    /\ UNCHANGED <<clock, candles, points, facts, intent, notifying, fetching, stop>>

InWindow == thread.window.start..(thread.window.end - 1)

\* RepairStreamGaps over the window: REST returns any of the closed bars that
\* are missing, a request or the record of its success may fail, and a second
\* audit judges.
Repair(stored, got, track) ==
    LET want == {b \in InWindow : b \notin stored /\ b < now}
        whole == InWindow \subseteq stored \cup got
    IN  /\ thread.pc = track
        /\ got \subseteq want
        /\ \E class \in {"none", "incomplete"} \cup Faults :
              /\ class = "none" => whole
              /\ class = "incomplete" => ~whole
              /\ class \in Faults => InWindow \ stored # {}
              /\ thread' = [thread EXCEPT
                    !.pc = IF class # "none" THEN "done"
                           ELSE IF track = "candles" /\ facts.flagged THEN "points"
                           ELSE "finish",
                    !.committed = @ \/ got # {},
                    !.class = class]

RepairCandles(got) ==
    /\ Repair(candles, got, "candles")
    /\ candles' = candles \cup got
    /\ UNCHANGED <<clock, points, facts, intent, notifying, fetching, stop>>

RepairPoints(got) ==
    /\ Repair(points, got, "points")
    /\ points' = points \cup got
    /\ UNCHANGED <<clock, candles, facts, intent, notifying, fetching, stop>>

\* Both tracks are whole over the window; a bar that closed since is next.
Finish ==
    /\ thread.pc = "finish"
    /\ thread' = [thread EXCEPT
          !.pc = "done",
          !.class = IF now > thread.window.end THEN "incomplete" ELSE "restored",
          !.next = IF now > thread.window.end THEN Window(thread.window.end, now)
                   ELSE NoWindow]
    /\ UNCHANGED <<clock, candles, points, facts, intent, notifying, fetching, stop>>

\* The worker resumes on the loop: a changed requirement makes the result
\* incomplete; a restored episode that has something to tell enqueues its bar.
AttemptEnds ==
    LET fatal == thread.class = "fatal_failure"
        restored == thread.class = "restored" /\ ~intent.changed
        through == thread.window.end - 1
        need == intent.need \/ thread.committed
        window == IF intent.changed \/ thread.class = "recoverable_failure"
                  THEN intent.window
                  ELSE IF thread.next # NoWindow THEN thread.next ELSE thread.window
    IN  /\ thread.pc = "done"
        /\ ~worker.cancelled
        /\ thread' = NoAttempt
        /\ facts' = Recorded(facts, restored, fatal, through)
        /\ intent' = IF fatal \/ restored \/ stop THEN NoIntent
                     ELSE [intent EXCEPT !.window = window, !.need = need]
        /\ queue' = IF restored /\ need THEN PutNowait(queue, through) ELSE queue
        /\ UNCHANGED <<clock, candles, points, worker, owed, fetching, stop>>

-----------------------------------------------------------------------------
(* The notification worker.  A cancellation is two steps: task.cancel, which *)
(* any sibling or shutdown may call again and again, and the CancelledError   *)
(* that the worker then meets where it waits (hit: it is on its way).         *)

\* The POST starts in its thread; late counts those begun since stop_event.
Posted(w) == [w EXCEPT !.pc = "send", !.sending = TRUE,
                       !.late = IF stop THEN @ + 1 ELSE @]

\* A send starts at once when nothing has to be prepared.
Begin(w, bar) ==
    IF facts.flagged THEN [w EXCEPT !.pc = "append", !.bar = bar, !.stored = FALSE]
    ELSE Posted([w EXCEPT !.bar = bar])

\* Mutant of TakenUp: stop_event is not read again once the queue gave a bar.
TakenUpAnyway(w, bar) == Begin(w, bar)

TakenUp(w, bar) == IF stop THEN [w EXCEPT !.pc = "ended"] ELSE Begin(w, bar)

Take ==
    /\ worker.pc = "idle" /\ ~worker.hit
    /\ queue # <<>>
    /\ queue' = Tail(queue)
    /\ worker' = TakenUp(worker, Head(queue))
    /\ UNCHANGED <<clock, candles, points, facts, recovery, owed, fetching, stop>>

\* Queued notifications are dropped at shutdown.
WorkerStops ==
    /\ worker.pc = "idle" /\ ~worker.hit
    /\ stop
    /\ worker' = [worker EXCEPT !.pc = "ended"]
    /\ UNCHANGED <<clock, candles, points, facts, recovery, queue, owed, fetching, stop>>

\* How an append ends: the point came, REST does not have it yet, or the
\* request or the database failed (a stored point needs no request).
Replies == {"point", "none", "error"}

\* AppendLiveOpenInterest, in a thread; REST has the points of closed bars.
\* After an error the worker takes the point for missing, stored or not.  The
\* thread of a worker that was cancelled meanwhile goes on all the same.
AppendLive(reply) ==
    /\ worker.pc \in {"append", "ended"} /\ worker.bar # NoBar
    /\ reply = "point" => worker.bar < now
    /\ points' = IF reply = "point" THEN points \cup {worker.bar} ELSE points
    /\ worker' = IF worker.pc = "ended" THEN [worker EXCEPT !.bar = NoBar]
                 ELSE [worker EXCEPT !.pc = "observe",
                                     !.stored = reply # "error" /\ worker.bar \in points']
    /\ UNCHANGED <<clock, candles, facts, recovery, queue, owed, fetching, stop>>

\* Mutant of AskedByPoint: the signal of the second track is not passed on.
AskedByPointLost(gap, extended) == intent

\* request_recovery, for the hole a live point reveals.
AskedByPoint(gap, extended) ==
    IF gap THEN Enqueue(intent, Hint(extended, facts.oi + 1), TRUE) ELSE intent

\* prepare resumes on the loop: a stored point extends the open-interest
\* frontier or reveals a hole, and the bar is sent only when the stream is
\* data-ready through it.
PrepareEnds ==
    LET gap == worker.stored /\ worker.bar > facts.oi + 1
        extended == IF worker.stored
                    THEN [facts EXCEPT !.oi = ExtendFrontier(facts.oi, worker.bar)]
                    ELSE facts
    IN  /\ worker.pc = "observe" /\ ~worker.hit
        /\ facts' = IF gap THEN RequireRecovery(extended) ELSE extended
        /\ intent' = AskedByPoint(gap, extended)
        /\ \/ /\ PublishedThrough(facts', worker.bar)
              /\ worker' = Posted(worker)
              /\ owed' = IF owed <= worker.bar THEN NoBar ELSE owed
           \/ /\ ~PublishedThrough(facts', worker.bar)
              /\ worker' = [worker EXCEPT !.pc = "idle", !.bar = NoBar, !.stored = FALSE]
              /\ owed' = Higher(owed, worker.bar)
        /\ UNCHANGED <<clock, candles, points, thread, queue, fetching, stop>>

\* The one POST is over, delivered or not.
SendReturns ==
    /\ worker.sending
    /\ worker' = [worker EXCEPT !.sending = FALSE]
    /\ UNCHANGED <<clock, candles, points, facts, recovery, queue, owed, fetching, stop>>

\* _wait_for_send returns: a cancellation it has met is raised only now.
SendObserved ==
    /\ worker.pc = "send" /\ ~worker.sending /\ ~worker.hit
    /\ worker' = [worker EXCEPT !.pc = IF worker.raises THEN "ended" ELSE "idle",
                                !.bar = NoBar, !.stored = FALSE, !.raises = FALSE]
    /\ UNCHANGED <<clock, candles, points, facts, recovery, queue, owed, fetching, stop>>

\* A sibling of the task group failed, or the group is torn down once more.
Cancel ==
    /\ "cancel" \in Events
    /\ worker.pc # "ended" /\ ~worker.hit
    /\ worker' = [worker EXCEPT !.hit = TRUE, !.cancelled = TRUE]
    /\ stop' = TRUE
    /\ UNCHANGED <<clock, candles, points, facts, recovery, queue, owed, fetching>>

\* Mutant of Shielded: the wait after the first cancellation is a bare await.
ShieldedOnce(w) ==
    IF w.sending /\ ~w.raises THEN [w EXCEPT !.raises = TRUE]
    ELSE [w EXCEPT !.pc = "ended", !.raises = FALSE, !.stored = FALSE,
                   !.bar = IF w.pc = "append" THEN @ ELSE NoBar]

\* CancelledError: the wait for a send in flight remembers it and goes on behind
\* a new shield; anywhere else the worker ends.
Shielded(w) ==
    IF w.sending THEN [w EXCEPT !.raises = TRUE]
    ELSE [w EXCEPT !.pc = "ended", !.raises = FALSE, !.stored = FALSE,
                   !.bar = IF w.pc = "append" THEN @ ELSE NoBar]

Interrupted ==
    /\ worker.hit
    /\ worker' = [Shielded(worker) EXCEPT !.hit = FALSE]
    /\ UNCHANGED <<clock, candles, points, facts, recovery, queue, owed, fetching, stop>>

-----------------------------------------------------------------------------
(* The prefetch of the open bar's point.                                   *)

Eligible == facts.subscribed /\ ~facts.pending

\* tick: at most one attempt per bar; a new bar starts afresh.
PrefetchTick ==
    LET state == IF prefetch.bar = now THEN prefetch
                 ELSE [bar |-> now, stored |-> FALSE, busy |-> FALSE]
    IN  /\ facts.flagged
        /\ ~stop
        /\ Eligible
        /\ ~state.stored /\ ~state.busy
        /\ prefetch' = [state EXCEPT !.busy = TRUE]
        /\ flight' = [flight EXCEPT ![now] = "queued"]
        /\ UNCHANGED <<clock, candles, points, facts, recovery, notifying, stop>>

Settled(bar, stored) ==
    IF prefetch.bar = bar THEN [prefetch EXCEPT !.busy = FALSE, !.stored = @ \/ stored]
    ELSE prefetch

\* The slot is free: the attempt asks again whether the bar is still its own.
PrefetchStarts(bar) ==
    LET due == now = bar /\ Eligible
    IN  /\ flight[bar] = "queued"
        /\ flight' = [flight EXCEPT ![bar] = IF due THEN "fetching" ELSE "none"]
        /\ prefetch' = IF due THEN prefetch ELSE Settled(bar, FALSE)
        /\ UNCHANGED <<clock, candles, points, facts, recovery, notifying, stop>>

\* The append, which also takes the point of the bar still open.
PrefetchEnds(bar, reply) ==
    /\ flight[bar] = "fetching"
    /\ flight' = [flight EXCEPT ![bar] = "none"]
    /\ points' = IF reply = "point" THEN points \cup {bar} ELSE points
    /\ prefetch' = Settled(bar, reply # "error" /\ bar \in points')
    /\ UNCHANGED <<clock, candles, facts, recovery, notifying, stop>>

-----------------------------------------------------------------------------
(* Shutdown.                                                               *)

\* SIGTERM, or a task that ended.
Stop ==
    /\ "stop" \in Events
    /\ ~stop
    /\ stop' = TRUE
    /\ UNCHANGED <<clock, candles, points, facts, recovery, notifying, fetching>>

Session ==
    \/ \E bar \in Bars : Outcome(bar)
    \/ Disconnected
    \/ SubscriptionConfirmed

Attempt ==
    \/ Plan
    \/ \E got \in SUBSET InWindow : RepairCandles(got) \/ RepairPoints(got)
    \/ Finish

Notify ==
    \/ Take \/ WorkerStops
    \/ PrepareEnds
    \/ SendObserved
    \/ Interrupted

NotifyThread == SendReturns \/ \E reply \in Replies : AppendLive(reply)

Prefetching ==
    \/ PrefetchTick
    \/ \E bar \in Bars :
          PrefetchStarts(bar) \/ \E reply \in Replies : PrefetchEnds(bar, reply)

Next ==
    \/ Tick \/ GraceEnds
    \/ Session
    \/ DetectStale
    \/ AttemptStarts \/ Attempt \/ AttemptEnds
    \/ Notify \/ NotifyThread
    \/ Prefetching
    \/ Stop \/ Cancel

Spec == Init /\ [][Next]_vars

\* The clock goes on; the loop serves the stale check, both workers and the end
\* of an attempt in turn, threads run, and REST, asked for the missing bars of
\* a window again and again, at some point returns all of them.
Fairness ==
    /\ WF_vars(Tick) /\ WF_vars(GraceEnds) /\ WF_vars(DetectStale)
    /\ WF_vars(AttemptStarts) /\ WF_vars(Attempt) /\ WF_vars(AttemptEnds)
    /\ SF_vars(RepairCandles(InWindow \ candles) /\ thread'.class = "none")
    /\ SF_vars(RepairPoints(InWindow \ points) /\ thread'.class = "none")
    /\ WF_vars(Notify) /\ WF_vars(NotifyThread)

FairSpec == Spec /\ Fairness

-----------------------------------------------------------------------------
(* Properties.                                                             *)

Windows == [start : 0..(MaxNow + 1), end : 0..(MaxNow + 1)]
Hints == -1..(MaxNow + 1)

\* Every variable stays in its domain; the queue within its capacity.
PublicationTypeOK ==
    /\ now \in Bars /\ expected \in Bars /\ candles \subseteq Bars /\ points \subseteq Bars
    /\ facts \in [flagged : BOOLEAN, candle : Bars, oi : Bars, subscribed : BOOLEAN, restored : BOOLEAN,
                  pending : BOOLEAN, fatal : BOOLEAN, checked : Hints, awaited : Hints]
    /\ intent \in [active : BOOLEAN, hint : Hints, urgent : BOOLEAN,
                   changed : BOOLEAN, window : Windows, need : BOOLEAN]
    /\ thread \in [pc : {"idle", "plan", "candles", "points", "finish", "done"},
                   window : Windows, hint : Hints, committed : BOOLEAN,
                   class : {"none", "incomplete", "restored"} \cup Faults, next : Windows]
    /\ queue \in Seq(Bars) /\ Len(queue) <= Capacity
    /\ worker \in [pc : {"idle", "append", "observe", "send", "ended"}, bar : Hints,
                   stored : BOOLEAN, sending : BOOLEAN, hit : BOOLEAN,
                   raises : BOOLEAN, cancelled : BOOLEAN, late : Nat]
    /\ prefetch \in [bar : Bars, stored : BOOLEAN, busy : BOOLEAN]
    /\ flight \in [Bars -> {"none", "queued", "fetching"}]
    /\ stop \in BOOLEAN
    /\ owed \in Hints

\* Neither frontier claims a bar its table misses, although live points, the
\* prefetch, live candles and recovery write in any order and the frontiers
\* move on results that are late.
FrontiersProven ==
    /\ 0..facts.candle \subseteq candles
    /\ facts.flagged => 0..facts.oi \subseteq points

\* A receiver that is told of a bar of a flagged stream finds every bar up to
\* it in both tracks.
SentIsWhole ==
    facts.flagged /\ worker.pc = "send" => 0..worker.bar \subseteq candles \cap points

\* A recovery that the stream waits for is owned by the recovery worker,
\* whichever track asked for it.
PendingIsOwned == facts.pending /\ ~stop => intent.active

\* However many cancellations arrive, and wherever they meet the worker, a POST
\* in flight has its worker waiting for it, and none of the cancellations is
\* lost: one is on its way, or will be raised after the send, or the worker ended.
SendIsObserved ==
    /\ worker.sending => worker.pc = "send"
    /\ worker.cancelled => worker.hit \/ worker.raises \/ worker.pc = "ended"

\* A bar that the worker held back is announced, itself or by a newer one, by
\* the time the stream is data-ready through it and nothing is left to do.  It
\* does not hold (README, "Divergences"), so no passing run lists it.
HeldIsAnnounced ==
    /\ owed # NoBar /\ PublishedThrough(facts, owed)
    /\ ~intent.active /\ queue = <<>> /\ worker.pc = "idle"
    => stop

\* Every bar that closes is reached by both frontiers: a missing or late point
\* of the second track is noticed and repaired like a missing candle.
CatchesUp ==
    \A bar \in 1..(MaxNow - 1) : bar < now
        ~> (Frontier(facts) >= bar \/ ~facts.subscribed \/ facts.fatal \/ stop)

\* Shutdown ends the worker, cancelled once, often or not at all; after it was
\* asked for no POST of a stream without open interest begins, and of one with
\* open interest only that of the bar in preparation.
ShutdownEnds ==
    /\ [](worker.late <= IF facts.flagged THEN 1 ELSE 0)
    /\ stop ~> worker.pc = "ended"
=============================================================================
