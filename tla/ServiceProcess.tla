--------------------------- MODULE ServiceProcess ---------------------------
(***************************************************************************)
(* The daemon as a process: RuntimeService.run, the WebSocket connector,   *)
(* the two task groups that run the connector and the workers, the status  *)
(* store they write, and the HTTP threads that read it.  The tasks share   *)
(* one event loop: a handler runs from one await to the next, and its      *)
(* lifecycle sweep refreshes the streams one after the other; only the     *)
(* HTTP threads see the sweep half done.  A task may fail, a session may   *)
(* fail anywhere, a sweep may raise, and a stop may be asked for at any    *)
(* time.  What recovery does is in RealtimeRecovery; here it only ends.    *)
(***************************************************************************)
EXTENDS Integers, FiniteSets

CONSTANTS
    Streams,     \* the enabled streams
    Inner,       \* tasks of RuntimeRealtimeCoordinator.run, the connector aside
    Outer,       \* tasks of RuntimeService.run, the coordinator aside
    MaxAttempts  \* max_attempts of the ReconnectPolicy

ASSUME TaskAssumption ==
    /\ Inner \cap Outer = {} /\ "recovery" \in Inner
    /\ {"connector", "realtime"} \cap (Inner \cup Outer) = {}
ASSUME AttemptAssumption == MaxAttempts \in Nat \ {0}
ASSUME StreamAssumption == Streams # {}

VARIABLES
    proc,   \* RuntimeService.run: where it is, the exit code, the HTTP server
    health, \* _healthy and _fatal_error
    stop,   \* stop_event
    task,   \* the tasks of both groups
    conn,   \* RealtimeConnector.run
    wire,   \* the session as the exchange sees it
    facts,  \* the supervisor's facts of each stream, and its _disconnected
    sweep,  \* the streams a lifecycle sweep has still to refresh, and for whom
    shown,  \* the streams the status store calls ready, and _aggregate_ready
    ask     \* one request of GET /health

vars == <<proc, health, stop, task, conn, wire, facts, sweep, shown, ask>>

Tasks == Inner \cup Outer \cup {"connector", "realtime"}

\* steady: healthy_session_seconds have passed since the session was connected.
Conns == [pc : {"connect", "subscribe", "receive", "closing", "failed", "wait",
                "exhausted", "stopped", "done"},
          failures : 0..MaxAttempts, steady : BOOLEAN]

\* asked: the subscription is unanswered; on: the streams it was granted for.
Wires == [asked : BOOLEAN, on : SUBSET Streams]
NoSession == [asked |-> FALSE, on |-> {}]

\* owed: a recovery episode is queued or runs.
FactSets == [sub : SUBSET Streams, restored : SUBSET Streams,
             owed : SUBSET Streams, disconnected : BOOLEAN]

Sweeps == [todo : SUBSET Streams, by : {"none", "session", "connector", "recovery", "realtime"}]
NoSweep == [todo |-> {}, by |-> "none"]
SweepBy(who) == [todo |-> Streams, by |-> who]

Asks == [body : {"none", "unhealthy", "healthy", "fatal"}, code : {0, 200, 503}]
NoAsk == [body |-> "none", code |-> 0]

Free == sweep.todo = {}                      \* the event loop can be taken
Runs(t) == task[t] = "running"
Ended(t) == task[t] \in {"ended", "raised"}

\* A group cancels its tasks when one of them raised, or when it is cancelled.
OuterFails == \E t \in Outer \cup {"realtime"} : task[t] = "raised"
InnerFails == OuterFails \/ \E t \in Inner \cup {"connector"} : task[t] = "raised"
Cancelled(t) == IF t \in Outer THEN OuterFails ELSE InnerFails

Init ==
    /\ proc = [pc |-> "startup", code |-> "none", serving |-> TRUE]
    /\ health = [ok |-> FALSE, fatal |-> FALSE]
    /\ stop = FALSE
    /\ task = [t \in Tasks |-> "off"]
    /\ conn = [pc |-> "connect", failures |-> 0, steady |-> FALSE]
    /\ wire = NoSession
    /\ facts = [sub |-> {}, restored |-> {}, owed |-> {}, disconnected |-> FALSE]
    /\ sweep = NoSweep
    /\ shown = [ready |-> {}, all |-> FALSE]
    /\ ask = NoAsk

-----------------------------------------------------------------------------
(* RuntimeService.run.                                                     *)

MarkFatal == health' = [ok |-> FALSE, fatal |-> TRUE]

\* _startup, synchronous on the event loop, then mark_healthy and the tasks.
Startup ==
    /\ proc.pc = "startup"
    /\ \/ /\ health' = [ok |-> TRUE, fatal |-> FALSE]
          /\ proc' = [proc EXCEPT !.pc = "run"]
          /\ task' = [t \in Tasks |-> "running"]
          /\ UNCHANGED stop
       \/ /\ MarkFatal
          /\ proc' = [proc EXCEPT !.pc = "close", !.code = "error"]
          /\ stop' = TRUE
          /\ UNCHANGED task
    /\ UNCHANGED <<conn, wire, facts, sweep, shown, ask>>

\* SIGINT or SIGTERM; the handler is run by the event loop, so not in _startup.
Signal ==
    /\ proc.pc = "run"
    /\ Free
    /\ ~stop
    /\ stop' = TRUE
    /\ UNCHANGED <<proc, health, task, conn, wire, facts, sweep, shown, ask>>

\* Both groups are empty: the exception, if there is one, is marked and raised.
RunReturns ==
    /\ proc.pc = "run"
    /\ Free
    /\ \A t \in Outer \cup {"realtime"} : Ended(t)
    /\ stop' = TRUE
    /\ IF OuterFails
       THEN MarkFatal /\ proc' = [proc EXCEPT !.pc = "close", !.code = "error"]
       ELSE UNCHANGED health /\ proc' = [proc EXCEPT !.pc = "close", !.code = "ok"]
    /\ UNCHANGED <<task, conn, wire, facts, sweep, shown, ask>>

\* RuntimeHttpServer.close, and the end of the process.
Close ==
    /\ proc.pc = "close"
    /\ proc' = [proc EXCEPT !.pc = "exited", !.serving = FALSE]
    /\ UNCHANGED <<health, stop, task, conn, wire, facts, sweep, shown, ask>>

-----------------------------------------------------------------------------
(* The tasks.                                                              *)

TaskGoes(t, state) == task' = [task EXCEPT ![t] = state]
TaskStep == UNCHANGED <<proc, health, conn, wire, facts, shown, ask>>

\* A worker's loop reads stop_event, or its wait ends with it.
WorkerStops(t) ==
    /\ Runs(t) /\ Free
    /\ stop
    /\ TaskGoes(t, "ended")
    /\ UNCHANGED <<stop, sweep>>
    /\ TaskStep

WorkerRaises(t) ==
    /\ Runs(t) /\ Free
    /\ TaskGoes(t, "raised")
    /\ UNCHANGED <<stop, sweep>>
    /\ TaskStep

\* CancelledError at the task's next await; _run_connector sets stop_event.
WorkerCancelled(t) ==
    /\ Runs(t) /\ Free
    /\ Cancelled(t)
    /\ TaskGoes(t, "ended")
    /\ stop' = (stop \/ t = "connector")
    /\ UNCHANGED sweep
    /\ TaskStep

\* Mutant of RaisesOn: the group swallows what a task of its own raised.
RaisesOnNever == FALSE

\* An exception of a task leaves the group; a cancellation alone does not.
RaisesOn == \E t \in Inner \cup {"connector"} : task[t] = "raised"

\* RuntimeRealtimeCoordinator.run: its group is empty; stop_event, and
\* _refresh_status as a last sweep.
RealtimeReturns ==
    /\ Runs("realtime") /\ Free
    /\ \A t \in Inner \cup {"connector"} : Ended(t)
    /\ TaskGoes("realtime", IF RaisesOn THEN "raised" ELSE "ended")
    /\ stop' = TRUE
    /\ sweep' = SweepBy("realtime")
    /\ TaskStep

-----------------------------------------------------------------------------
(* The status store and the sweep.                                         *)

\* data_ready, as far as sessions decide it: recovery_pending is only ever set
\* with recovery_restored cleared.  The fatal flag, the frontier and the durable
\* lifecycle can only take readiness away; without them more is shown as ready.
DataReady(s) == s \in facts.sub /\ s \in facts.restored

\* _replace_stream_locked.
Aggregate(ready) == ready = Streams

UpdateStream(s) ==
    LET ready == IF DataReady(s) THEN shown.ready \cup {s} ELSE shown.ready \ {s}
    IN  shown' = [ready |-> ready, all |-> Aggregate(ready)]

SweepStream ==
    /\ \E s \in sweep.todo :
          /\ UpdateStream(s)
          /\ sweep' = IF sweep.todo = {s} THEN NoSweep ELSE [sweep EXCEPT !.todo = @ \ {s}]
    /\ UNCHANGED <<proc, health, stop, task, conn, wire, facts, ask>>

-----------------------------------------------------------------------------
(* RealtimeConnector.run.                                                  *)

ConnStep == UNCHANGED <<proc, health, stop, task, shown, ask>>
ConnAt(pc) == Runs("connector") /\ Free /\ conn.pc = pc

\* The transport connects; Connected changes no readiness.
ConnectSucceeds ==
    /\ ConnAt("connect")
    /\ conn' = [conn EXCEPT !.pc = "subscribe"]
    /\ UNCHANGED <<wire, facts, sweep>>
    /\ ConnStep

Subscribe ==
    /\ ConnAt("subscribe")
    /\ conn' = [conn EXCEPT !.pc = "receive"]
    /\ wire' = [wire EXCEPT !.asked = TRUE]
    /\ UNCHANGED <<facts, sweep>>
    /\ ConnStep

\* SubscriptionConfirmed for the granted topics: supervisor and coordinator.
Confirmed(topics) ==
    LET cleared == IF facts.disconnected THEN facts.restored \ topics ELSE facts.restored
    IN  [facts EXCEPT !.sub = @ \cup topics, !.restored = cleared, !.disconnected = FALSE,
           !.owed = @ \cup (IF facts.disconnected THEN topics ELSE {})
                         \cup {s \in facts.sub \cup topics : s \notin cleared}]

SubscriptionConfirmed ==
    /\ ConnAt("receive") /\ ~stop
    /\ wire.asked
    /\ \E topics \in SUBSET Streams :
          /\ wire' = [asked |-> FALSE, on |-> topics]
          /\ facts' = Confirmed(topics)
    /\ sweep' = SweepBy("session")
    /\ UNCHANGED conn
    /\ ConnStep

\* Mutant of MarkDisconnected: the subscriptions survive the session.
MarkDisconnectedKeeps == [facts EXCEPT !.restored = {}, !.disconnected = TRUE]

\* Disconnected, TransportFailed and ReconnectExhausted.
MarkDisconnected == [facts EXCEPT !.sub = {}, !.restored = {}, !.disconnected = TRUE]

\* The exchange refuses the subscription: TransportFailed, but the session goes
\* on, and nothing asks again in it.
SubscriptionRefused ==
    /\ ConnAt("receive") /\ ~stop
    /\ wire.asked
    /\ wire' = NoSession
    /\ facts' = MarkDisconnected
    /\ sweep' = SweepBy("session")
    /\ UNCHANGED conn
    /\ ConnStep

\* A confirmed candle or its outcome: a sweep, the facts as they are.
CandleSwept ==
    /\ ConnAt("receive") /\ ~stop
    /\ wire.on # {}
    /\ sweep' = SweepBy("session")
    /\ UNCHANGED <<conn, wire, facts>>
    /\ ConnStep

SessionGrowsSteady ==
    /\ ConnAt("subscribe") \/ ConnAt("receive") \/ ConnAt("closing")
    /\ conn' = [conn EXCEPT !.steady = TRUE]
    /\ UNCHANGED <<wire, facts, sweep>>
    /\ ConnStep

\* Mutant of Failures: any session that was granted a stream resets the count.
FailuresResetEarly == IF facts.sub # {} THEN 1 ELSE conn.failures + 1

Failures == IF conn.steady THEN 1 ELSE conn.failures + 1

\* Mutant of Exhausts: one attempt more.
ExhaustsLate == Failures > MaxAttempts

Exhausts == Failures >= MaxAttempts

\* The connection cannot be made, breaks, or brings a payload parse refuses.  A
\* session is closed before run hears of it, and other tasks go on meanwhile.
SessionFails ==
    /\ \/ ConnAt("connect") /\ conn' = [conn EXCEPT !.pc = "failed"]
       \/ /\ ConnAt("subscribe") \/ ConnAt("receive")
          /\ conn' = [conn EXCEPT !.pc = "closing"]
    /\ wire' = NoSession
    /\ UNCHANGED <<facts, sweep>>
    /\ ConnStep

\* The close is over; WebSocketDisconnected, unlike other errors, is told apart.
SessionClosed ==
    /\ ConnAt("closing")
    /\ conn' = [conn EXCEPT !.pc = "failed"]
    /\ \/ facts' = MarkDisconnected /\ sweep' = SweepBy("connector")
       \/ UNCHANGED <<facts, sweep>>
    /\ UNCHANGED wire
    /\ ConnStep

\* TransportFailed, and the budget is counted.
TransportFailed ==
    /\ ConnAt("failed")
    /\ facts' = MarkDisconnected
    /\ sweep' = SweepBy("connector")
    /\ conn' = [pc |-> IF Exhausts THEN "exhausted" ELSE "wait",
                failures |-> Failures, steady |-> FALSE]
    /\ UNCHANGED wire
    /\ ConnStep

\* _wait_or_stop ends, and the loop goes on or not.
WaitEnds ==
    /\ ConnAt("wait")
    /\ conn' = [conn EXCEPT !.pc = IF stop THEN "stopped" ELSE "connect"]
    /\ UNCHANGED <<wire, facts, sweep>>
    /\ ConnStep

\* A stop is only looked for between two messages: unsubscribe and close.
SessionStops ==
    /\ ConnAt("receive") /\ stop
    /\ conn' = [conn EXCEPT !.pc = "stopped"]
    /\ wire' = NoSession
    /\ UNCHANGED <<facts, sweep>>
    /\ ConnStep

\* ReconnectExhausted.
ReconnectExhausted ==
    /\ ConnAt("exhausted")
    /\ facts' = MarkDisconnected
    /\ sweep' = SweepBy("connector")
    /\ conn' = [conn EXCEPT !.pc = "stopped"]
    /\ UNCHANGED wire
    /\ ConnStep

\* Stopped: mark_stopped leaves recovery_restored alone.
Stopped ==
    /\ ConnAt("stopped")
    /\ facts' = [facts EXCEPT !.sub = {}]
    /\ sweep' = SweepBy("connector")
    /\ conn' = [conn EXCEPT !.pc = "done"]
    /\ UNCHANGED wire
    /\ ConnStep

\* Mutant of StopsAll: the workers are left running.
StopsAllNever == stop

\* The finally of _run_connector.
StopsAll == TRUE

ConnectorReturns ==
    /\ ConnAt("done")
    /\ TaskGoes("connector", "ended")
    /\ stop' = StopsAll
    /\ UNCHANGED sweep
    /\ TaskStep

-----------------------------------------------------------------------------
(* Recovery, and sweeps that raise.                                        *)

\* The recovery worker ends an episode, restored or to be tried again; it may
\* have begun before the session was lost.
RecoveryResult(s) ==
    /\ Runs("recovery") /\ Free
    /\ s \in facts.owed
    /\ facts' = [facts EXCEPT !.owed = @ \ {s}, !.restored = @ \cup {s}]
    /\ sweep' = SweepBy("recovery")
    /\ UNCHANGED <<proc, health, stop, task, conn, wire, shown, ask>>

\* A sweep raises before a stream is refreshed.  In a session that is a failed
\* session, anywhere else the end of the task.
SweepRaises ==
    /\ sweep.todo # {}
    /\ IF sweep.by = "session"
       THEN /\ conn' = [conn EXCEPT !.pc = "closing"]
            /\ wire' = NoSession
            /\ UNCHANGED <<stop, task, facts>>
       ELSE /\ TaskGoes(sweep.by, "raised")
            /\ stop' = (stop \/ sweep.by = "connector")
            /\ UNCHANGED <<conn, wire, facts>>
    /\ sweep' = NoSweep
    /\ UNCHANGED <<proc, health, shown, ask>>

-----------------------------------------------------------------------------
(* An HTTP thread: the document and the flag are read one after the other. *)

ThreadStep == UNCHANGED <<proc, health, stop, task, conn, wire, facts, sweep, shown>>

HealthDocument ==
    IF health.ok THEN "healthy" ELSE IF health.fatal THEN "fatal" ELSE "unhealthy"

ReadDocument ==
    /\ proc.serving
    /\ ask = NoAsk
    /\ ask' = [ask EXCEPT !.body = HealthDocument]
    /\ ThreadStep

Answer ==
    /\ ask.body # "none" /\ ask.code = 0
    /\ ask' = [ask EXCEPT !.code = IF health.ok THEN 200 ELSE 503]
    /\ ThreadStep

Answered ==
    /\ ask.code # 0
    /\ ask' = NoAsk
    /\ ThreadStep

-----------------------------------------------------------------------------
Connector ==
    \/ ConnectSucceeds \/ Subscribe \/ SessionClosed \/ TransportFailed
    \/ WaitEnds \/ SessionStops \/ ReconnectExhausted \/ Stopped \/ ConnectorReturns

Exchange == SubscriptionConfirmed \/ SubscriptionRefused \/ CandleSwept
            \/ SessionFails \/ SessionGrowsSteady

Run == Startup \/ RealtimeReturns \/ RunReturns \/ Close

Http == ReadDocument \/ Answer \/ Answered

Gone == proc.pc = "exited" /\ ask = NoAsk /\ UNCHANGED vars

Next ==
    \/ Run \/ Signal \/ Connector \/ Exchange \/ SweepStream \/ SweepRaises \/ Http
    \/ \E t \in Inner \cup Outer : WorkerStops(t) \/ WorkerRaises(t)
    \/ \E t \in Tasks \ {"realtime"} : WorkerCancelled(t)
    \/ \E s \in Streams : RecoveryResult(s)
    \/ Gone

Spec == Init /\ [][Next]_vars

\* The event loop runs every task that can go on; a connection attempt and a
\* startup end, a worker looks at stop_event again after a bounded pass.
Fairness ==
    /\ WF_vars(Run)
    /\ WF_vars(SweepStream \/ SweepRaises)
    /\ SF_vars(Connector) /\ SF_vars(WorkerCancelled("connector"))
    /\ \A t \in Inner \cup Outer : SF_vars(WorkerStops(t) \/ WorkerCancelled(t))

FairSpec == Spec /\ Fairness

-----------------------------------------------------------------------------
(* Properties.                                                             *)

\* Every variable stays in its domain: the failures counted never pass the
\* budget of the reconnect policy.
ServiceTypeOK ==
    /\ proc \in [pc : {"startup", "run", "close", "exited"},
                 code : {"none", "ok", "error"}, serving : BOOLEAN]
    /\ health \in [ok : BOOLEAN, fatal : BOOLEAN]
    /\ stop \in BOOLEAN
    /\ task \in [Tasks -> {"off", "running", "ended", "raised"}]
    /\ conn \in Conns
    /\ wire \in Wires
    /\ facts \in FactSets
    /\ sweep \in Sweeps
    /\ shown \in [ready : SUBSET Streams, all : BOOLEAN]
    /\ ask \in Asks

\* While the connector runs, a stream that a finished sweep shows as ready is
\* one the exchange granted in the session of now, and the aggregate needs all
\* of them: once run has told the supervisor that a session failed, nothing of it
\* is shown, whatever recovery results come late.  (Until then, while the session
\* is being closed, it is.)
ReadyIsSubscribed ==
    Runs("connector") /\ Free /\ conn.pc \notin {"closing", "failed", "stopped"} =>
        shown.ready \subseteq wire.on /\ (shown.all => wire.on = Streams)

\* A body that names a fatal error never comes with 200, though code and body
\* are read apart; and the process exits with an error, its health fatal to the
\* last, exactly when a task or the startup raised.
FatalIsTold ==
    /\ ask.body = "fatal" /\ ask.code # 0 => ask.code = 503
    /\ proc.pc = "exited" =>
          /\ proc.code = "error" <=> health.fatal
          /\ health.fatal <=> \/ \A t \in Tasks : task[t] = "off"
                              \/ \E t \in Tasks : task[t] = "raised"

\* A stop, a connector that gave up and a failed task end the process: no task
\* is left waiting for another.
ProcessEnds ==
    (stop \/ conn.pc = "done" \/ \E t \in Tasks : task[t] = "raised") ~> proc.pc = "exited"

\* The reconnect budget counts short sessions in a row: with a budget of two or
\* more a session that had grown steady never spends the last of it, and the
\* connector retries without end only if sessions grow steady without end.
ReconnectBudget ==
    /\ [][conn.pc' = "exhausted" /\ conn.pc # "exhausted" /\ MaxAttempts > 1
            => ~conn.steady]_vars
    /\ []<>(Runs("connector") /\ conn.pc = "wait") => []<>conn.steady
=============================================================================
