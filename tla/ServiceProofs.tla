---------------------------- MODULE ServiceProofs ----------------------------
(***************************************************************************)
(* The daemon as a process, for any number of streams, workers and         *)
(* reconnect attempts: no readiness outlives a session, and a fatal error  *)
(* is told by the health document and by the exit code.                    *)
(***************************************************************************)
EXTENDS ServiceProcess, TLAPS

InGroup == Inner \cup {"connector"}

\* The records the variables hold, by name.
Procs == [pc : {"startup", "run", "close", "exited"},
          code : {"none", "ok", "error"}, serving : BOOLEAN]
Healths == [ok : BOOLEAN, fatal : BOOLEAN]
TaskTables == [Tasks -> {"off", "running", "ended", "raised"}]
Showns == [ready : SUBSET Streams, all : BOOLEAN]
Types ==
    /\ proc \in Procs /\ health \in Healths /\ stop \in BOOLEAN
    /\ task \in TaskTables /\ conn \in Conns /\ wire \in Wires
    /\ facts \in FactSets /\ sweep \in Sweeps /\ shown \in Showns /\ ask \in Asks

\* Where RuntimeService.run is, against the tasks and the exit code.
PhaseHolds ==
    /\ proc.pc = "startup" =>
          (\A t \in Tasks : task[t] = "off") /\ Free /\ conn.pc = "connect" /\ ~health.fatal
    /\ proc.pc = "run" => (\A t \in Tasks : task[t] # "off") /\ ~health.fatal
    /\ proc.pc \in {"close", "exited"} =>
          /\ Free
          /\ (\A t \in Tasks : task[t] = "off") \/ (\A t \in Tasks : Ended(t))
          /\ proc.code = "error" <=> health.fatal
          /\ health.fatal <=> \/ \A t \in Tasks : task[t] = "off"
                              \/ \E t \in Tasks : task[t] = "raised"

\* The coordinator returns last, and with what its tasks raised.
GroupHolds ==
    Ended("realtime") =>
        /\ \A t \in InGroup : Ended(t)
        /\ (\E t \in InGroup : task[t] = "raised") => task["realtime"] = "raised"

\* A sweep belongs to a task that waits for it.
SweepHolds ==
    /\ Free <=> sweep.by = "none"
    /\ sweep.by \in {"session", "connector"} => Runs("connector")
    /\ sweep.by = "session" => conn.pc = "receive"
    /\ sweep.by = "recovery" => Runs("recovery")
    /\ sweep.by = "realtime" => Ended("realtime")

\* The session is over and the supervisor has not been told yet.
Untold == conn.pc \in {"closing", "failed"}

\* The connector: the budget is spent only at its end, a session begins with no
\* grant, and the supervisor knows no subscription the exchange did not grant.
ConnHolds ==
    /\ conn.failures = MaxAttempts => conn.pc \in {"exhausted", "stopped", "done"}
    /\ conn.pc \notin {"receive", "stopped", "done"} => wire = NoSession
    /\ wire.asked => wire.on = {}
    /\ ~Untold /\ conn.pc # "stopped" => facts.sub \subseteq wire.on

\* The streams whose readiness a sweep that can lower it has not looked at yet.
Unswept == IF sweep.by \in {"none", "recovery"} THEN {} ELSE sweep.todo

ShownHolds ==
    /\ shown.all => shown.ready = Streams
    /\ ~Ended("connector") /\ ~Untold => shown.ready \ Unswept \subseteq facts.sub

\* The health document and the answers that were read from it.
ToldHolds ==
    /\ health.fatal => ~health.ok /\ proc.pc # "startup"
    /\ ask.body = "fatal" => health.fatal
    /\ ask.body = "fatal" /\ ask.code # 0 => ask.code = 503

\* The inductive invariant.
ServInv ==
    /\ Types
    /\ PhaseHolds
    /\ GroupHolds
    /\ SweepHolds
    /\ ConnHolds
    /\ ShownHolds
    /\ ToldHolds

-----------------------------------------------------------------------------
\* The tasks of the two groups.
LEMMA TaskFacts ==
    /\ Inner \subseteq Tasks /\ Outer \subseteq Tasks /\ InGroup \subseteq Tasks
    /\ "connector" \in InGroup /\ "recovery" \in InGroup /\ "realtime" \in Tasks
    /\ "realtime" \notin InGroup /\ "realtime" \notin Outer /\ "connector" \notin Outer
    /\ "recovery" # "connector" /\ "connector" \in Tasks /\ "recovery" \in Tasks
    /\ Tasks = InGroup \cup Outer \cup {"realtime"} /\ InGroup \cap Outer = {}
BY TaskAssumption DEF Tasks, InGroup

\* Tasks and sweeps are only there while RuntimeService.run waits for them.
LEMMA RunningPhase ==
    ASSUME ServInv, (\E t \in Tasks : Runs(t)) \/ ~Free
    PROVE  proc.pc = "run" /\ ~health.fatal /\ \A t \in Tasks : task[t] # "off"
<1>1. proc.pc \in {"startup", "run", "close", "exited"}
  BY DEF ServInv, Types, Procs
<1>2. proc.pc = "run"
  BY <1>1 DEF ServInv, PhaseHolds, Runs, Ended
<1> QED
  BY <1>2 DEF ServInv, PhaseHolds

\* A step of the event loop that leaves the process, the health and the answers.
LEMMA LoopFrame ==
    ASSUME ServInv, (\E t \in Tasks : Runs(t)) \/ ~Free, UNCHANGED <<proc, health, ask>>,
           \A t \in Tasks : task'[t] # "off"
    PROVE  PhaseHolds' /\ ToldHolds' /\ proc' \in Procs /\ health' \in Healths /\ ask' \in Asks
<1>1. proc.pc = "run" /\ ~health.fatal
  BY RunningPhase
<1>2. PhaseHolds'
  BY <1>1 DEF PhaseHolds
<1>3. ToldHolds'
  BY DEF ServInv, ToldHolds
<1> QED
  BY <1>2, <1>3 DEF ServInv, Types

\* RuntimeService.run.
LEMMA RunKeeps == ASSUME ServInv, Startup \/ Signal \/ RunReturns \/ Close PROVE ServInv'
<1>0. /\ proc \in Procs /\ health \in Healths /\ stop \in BOOLEAN
      /\ task \in TaskTables /\ conn \in Conns /\ wire \in Wires
      /\ facts \in FactSets /\ sweep \in Sweeps /\ shown \in Showns /\ ask \in Asks
      /\ PhaseHolds /\ GroupHolds /\ SweepHolds /\ ConnHolds /\ ShownHolds /\ ToldHolds
  BY DEF ServInv, Types
<1>1. UNCHANGED <<conn, wire, facts, sweep, shown, ask>>
  BY DEF Startup, Signal, RunReturns, Close
<1>2. ConnHolds'
  BY <1>0, <1>1 DEF ConnHolds, Untold
<1>3. CASE Startup
  <2>0. proc.pc = "startup" /\ (\A t \in Tasks : task[t] = "off") /\ Free /\ ~health.fatal
        /\ sweep.by = "none"
    BY <1>0, <1>3 DEF Startup, PhaseHolds, SweepHolds
  <2>1. CASE /\ health' = [ok |-> TRUE, fatal |-> FALSE] /\ proc' = [proc EXCEPT !.pc = "run"]
             /\ task' = [t \in Tasks |-> "running"] /\ UNCHANGED stop
    <3>1. /\ proc' \in Procs /\ proc'.pc = "run" /\ health' \in Healths /\ ~health'.fatal
          /\ health'.ok /\ task' \in TaskTables /\ stop' \in BOOLEAN
          /\ \A t \in Tasks : task'[t] = "running"
      BY <1>0, <2>1 DEF Procs, Healths, TaskTables
    <3>2. PhaseHolds'
      BY <3>1 DEF PhaseHolds
    <3>3. GroupHolds' /\ SweepHolds'
      BY <1>1, <2>0, <3>1, TaskFacts DEF GroupHolds, SweepHolds, Ended, Free
    <3>4. ShownHolds'
      BY <1>0, <1>1, <2>0, TaskFacts DEF ShownHolds, Untold, Unswept, Ended
    <3>5. ToldHolds'
      BY <1>0, <1>1, <2>0, <3>1 DEF ToldHolds
    <3> QED
      BY <1>0, <1>1, <1>2, <3>1, <3>2, <3>3, <3>4, <3>5 DEF ServInv, Types
  <2>2. CASE /\ MarkFatal /\ proc' = [proc EXCEPT !.pc = "close", !.code = "error"]
             /\ stop' = TRUE /\ UNCHANGED task
    <3>1. /\ proc' \in Procs /\ proc'.pc = "close" /\ proc'.code = "error" /\ health' \in Healths
          /\ health'.fatal /\ ~health'.ok
      BY <1>0, <2>2 DEF Procs, Healths, MarkFatal
    <3>2. PhaseHolds'
      BY <1>1, <2>0, <2>2, <3>1 DEF PhaseHolds, Free
    <3>3. GroupHolds' /\ SweepHolds'
      BY <1>0, <1>1, <2>2 DEF GroupHolds, SweepHolds, Ended, Free, Runs
    <3>4. ShownHolds'
      BY <1>0, <1>1, <2>2 DEF ShownHolds, Untold, Unswept, Ended
    <3>5. ToldHolds'
      BY <1>0, <1>1, <3>1 DEF ToldHolds
    <3> QED
      BY <1>0, <1>1, <1>2, <2>2, <3>1, <3>2, <3>3, <3>4, <3>5 DEF ServInv, Types
  <2> QED
    BY <1>3, <2>1, <2>2 DEF Startup
<1>4. ASSUME UNCHANGED task PROVE GroupHolds' /\ SweepHolds' /\ ShownHolds'
  <2>1. GroupHolds' /\ SweepHolds'
    BY <1>0, <1>1, <1>4 DEF GroupHolds, SweepHolds, Ended, Free, Runs
  <2>2. ShownHolds'
    BY <1>0, <1>1, <1>4 DEF ShownHolds, Untold, Unswept, Ended
  <2> QED
    BY <2>1, <2>2
<1>5. CASE Signal
  <2>1. UNCHANGED <<proc, health, task>> /\ stop' \in BOOLEAN
    BY <1>5 DEF Signal
  <2>2. PhaseHolds' /\ ToldHolds'
    BY <1>0, <1>1, <2>1 DEF PhaseHolds, Free, Ended, ToldHolds
  <2> QED
    BY <1>0, <1>1, <1>2, <1>4, <2>1, <2>2 DEF ServInv, Types
<1>6. CASE RunReturns
  <2>0. /\ proc.pc = "run" /\ Free /\ (\A t \in Outer \cup {"realtime"} : Ended(t))
        /\ stop' = TRUE /\ UNCHANGED task
    BY <1>6 DEF RunReturns
  <2>1. \A t \in Tasks : Ended(t)
    BY <1>0, <2>0, TaskFacts DEF GroupHolds
  <2>2. OuterFails <=> \E t \in Tasks : task[t] = "raised"
    BY <1>0, <2>0, TaskFacts DEF GroupHolds, OuterFails
  <2>3. ~health.fatal
    BY <1>0, <2>0 DEF PhaseHolds
  <2>4. /\ proc' \in Procs /\ proc'.pc = "close" /\ health' \in Healths
        /\ OuterFails => proc'.code = "error" /\ health'.fatal /\ ~health'.ok
        /\ ~OuterFails => proc'.code = "ok" /\ ~health'.fatal
    <3>1. CASE OuterFails
      <4>1. /\ health' = [ok |-> FALSE, fatal |-> TRUE]
            /\ proc' = [proc EXCEPT !.pc = "close", !.code = "error"]
        BY <1>6, <3>1 DEF RunReturns, MarkFatal
      <4>2. health' \in Healths /\ health'.fatal /\ ~health'.ok
        BY <4>1 DEF Healths
      <4>3. proc' \in Procs /\ proc'.pc = "close" /\ proc'.code = "error"
        BY <1>0, <4>1 DEF Procs
      <4> QED
        BY <3>1, <4>2, <4>3
    <3>2. CASE ~OuterFails
      BY <1>0, <1>6, <2>3, <3>2 DEF RunReturns, Procs
    <3> QED
      BY <3>1, <3>2
  <2>5. ~(\A t \in Tasks : task[t] = "off")
    BY <2>1, TaskFacts DEF Ended
  <2>6. PhaseHolds'
    BY <1>1, <2>0, <2>1, <2>2, <2>4, <2>5 DEF PhaseHolds, Free, Ended
  <2>7. ToldHolds'
    BY <1>0, <1>1, <2>3, <2>4 DEF ToldHolds
  <2> QED
    BY <1>0, <1>1, <1>2, <1>4, <2>0, <2>4, <2>6, <2>7 DEF ServInv, Types
<1>7. CASE Close
  <2>1. /\ UNCHANGED <<health, stop, task>> /\ proc.pc = "close"
        /\ proc' \in Procs /\ proc'.pc = "exited" /\ proc'.code = proc.code
    BY <1>0, <1>7 DEF Close, Procs
  <2>2. PhaseHolds' /\ ToldHolds'
    BY <1>0, <1>1, <2>1 DEF PhaseHolds, Free, Ended, ToldHolds
  <2> QED
    BY <1>0, <1>1, <1>2, <1>4, <2>1, <2>2 DEF ServInv, Types
<1> QED
  BY <1>3, <1>5, <1>6, <1>7

\* A task of the groups ends or raises, on its own or cancelled.
LEMMA WorkerKeeps ==
    ASSUME ServInv, NEW t \in Tasks \ {"realtime"}, Runs(t), Free,
           NEW state \in {"ended", "raised"}, TaskGoes(t, state), stop' \in BOOLEAN,
           UNCHANGED sweep, TaskStep
    PROVE  ServInv'
<1>0. /\ stop \in BOOLEAN
      /\ task \in TaskTables /\ conn \in Conns /\ wire \in Wires
      /\ facts \in FactSets /\ sweep \in Sweeps /\ shown \in Showns
      /\ GroupHolds /\ SweepHolds /\ ConnHolds /\ ShownHolds
  BY DEF ServInv, Types
<1>1. /\ UNCHANGED <<proc, health, conn, wire, facts, shown, ask, sweep>> /\ sweep.by = "none"
  BY <1>0 DEF TaskStep, SweepHolds
<1>2. /\ task' \in TaskTables /\ task'[t] = state
      /\ \A u \in Tasks \ {t} : task'[u] = task[u]
  BY <1>0 DEF TaskGoes, TaskTables
<1>3. \A u \in Tasks : task'[u] # "off"
  BY <1>2, RunningPhase
<1>4. PhaseHolds' /\ ToldHolds' /\ proc' \in Procs /\ health' \in Healths /\ ask' \in Asks
  BY <1>1, <1>3, LoopFrame
<1>5. GroupHolds'
  <2>1. SUFFICES ASSUME Ended("realtime")' PROVE GroupHolds'
    BY DEF GroupHolds
  <2>2. Ended("realtime") /\ task'["realtime"] = task["realtime"]
    BY <1>2, <2>1, TaskFacts DEF Ended
  <2>3. t \notin InGroup
    BY <1>0, <2>2 DEF GroupHolds, Ended, Runs
  <2> QED
    BY <1>0, <1>2, <2>2, <2>3, TaskFacts DEF GroupHolds, Ended
<1>6. SweepHolds'
  BY <1>0, <1>1 DEF SweepHolds, Free
<1>7. ConnHolds'
  BY <1>0, <1>1 DEF ConnHolds, Untold
<1>8. ShownHolds'
  BY <1>0, <1>1, <1>2, TaskFacts DEF ShownHolds, Untold, Unswept, Ended
<1> QED
  BY <1>0, <1>1, <1>2, <1>4, <1>5, <1>6, <1>7, <1>8 DEF ServInv, Types

\* The coordinator returns when its group is empty.
LEMMA RealtimeKeeps == ASSUME ServInv, RealtimeReturns PROVE ServInv'
<1>0. /\ task \in TaskTables /\ conn \in Conns /\ wire \in Wires
      /\ facts \in FactSets /\ sweep \in Sweeps /\ shown \in Showns
      /\ GroupHolds /\ SweepHolds /\ ConnHolds /\ ShownHolds
  BY DEF ServInv, Types
<1>1. /\ UNCHANGED <<proc, health, conn, wire, facts, shown, ask>>
      /\ Runs("realtime") /\ (\A t \in InGroup : Ended(t)) /\ stop' = TRUE
      /\ sweep' = [todo |-> Streams, by |-> "realtime"]
      /\ task' = [task EXCEPT !["realtime"] = IF RaisesOn THEN "raised" ELSE "ended"]
  BY DEF RealtimeReturns, TaskStep, TaskGoes, SweepBy, InGroup
<1>2. /\ task' \in TaskTables /\ task'["realtime"] \in {"ended", "raised"}
      /\ RaisesOn => task'["realtime"] = "raised"
      /\ \A u \in Tasks \ {"realtime"} : task'[u] = task[u]
  BY <1>0, <1>1, TaskFacts DEF TaskTables
<1>3. \A u \in Tasks : task'[u] # "off"
  BY <1>1, <1>2, RunningPhase, TaskFacts
<1>4. PhaseHolds' /\ ToldHolds' /\ proc' \in Procs /\ health' \in Healths /\ ask' \in Asks
  BY <1>1, <1>3, LoopFrame, TaskFacts
<1>5. GroupHolds'
  BY <1>1, <1>2, TaskFacts DEF GroupHolds, Ended, RaisesOn, InGroup
<1>6. /\ sweep' \in Sweeps /\ sweep'.by = "realtime" /\ sweep'.todo = Streams
  BY <1>1 DEF Sweeps
<1>7. SweepHolds'
  BY <1>2, <1>6, StreamAssumption DEF SweepHolds, Free, Ended
<1>8. ConnHolds'
  BY <1>0, <1>1 DEF ConnHolds, Untold
<1>9. ShownHolds'
  BY <1>0, <1>1, <1>2, TaskFacts DEF ShownHolds, Untold, Ended
<1> QED
  BY <1>0, <1>1, <1>2, <1>4, <1>5, <1>6, <1>7, <1>8, <1>9 DEF ServInv, Types

-----------------------------------------------------------------------------
(* The sweep.                                                              *)

\* One stream is refreshed.
LEMMA SweepKeeps == ASSUME ServInv, SweepStream PROVE ServInv'
<1>0. /\ stop \in BOOLEAN /\ task \in TaskTables /\ conn \in Conns /\ wire \in Wires
      /\ facts \in FactSets /\ sweep \in Sweeps /\ shown \in Showns
      /\ GroupHolds /\ SweepHolds /\ ConnHolds /\ ShownHolds
  BY DEF ServInv, Types
<1>1. PICK s \in sweep.todo :
        /\ UpdateStream(s)
        /\ sweep' = IF sweep.todo = {s} THEN NoSweep ELSE [sweep EXCEPT !.todo = @ \ {s}]
  BY DEF SweepStream
<1>2. UNCHANGED <<proc, health, stop, task, conn, wire, facts, ask>>
  BY DEF SweepStream
<1>3. ~Free /\ s \in Streams /\ sweep.by # "none"
  BY <1>0, <1>1 DEF Free, Sweeps, SweepHolds
<1>4. PhaseHolds' /\ ToldHolds' /\ proc' \in Procs /\ health' \in Healths /\ ask' \in Asks
  BY <1>2, <1>3, LoopFrame, RunningPhase
<1>5. /\ sweep' \in Sweeps /\ sweep'.by \in {sweep.by, "none"} /\ sweep'.todo = sweep.todo \ {s}
      /\ sweep'.by = "none" <=> sweep'.todo = {}
  <2>1. CASE sweep.todo = {s}
    BY <1>1, <2>1 DEF NoSweep, Sweeps
  <2>2. CASE sweep.todo # {s}
    BY <1>0, <1>1, <1>3, <2>2 DEF Sweeps
  <2> QED
    BY <2>1, <2>2
<1>6. GroupHolds' /\ SweepHolds' /\ ConnHolds'
  BY <1>0, <1>2, <1>5 DEF GroupHolds, SweepHolds, ConnHolds, Untold, Free, Runs, Ended
<1> DEFINE ready == IF DataReady(s) THEN shown.ready \cup {s} ELSE shown.ready \ {s}
           all == ready = Streams
<1>7. /\ ready \in SUBSET Streams /\ (DataReady(s) => s \in facts.sub)
      /\ \A x \in ready : x \in shown.ready \/ (x = s /\ DataReady(s))
      /\ s \in ready => DataReady(s)
  BY <1>0, <1>3 DEF Showns, DataReady
<1>8. shown' = [ready |-> ready, all |-> all] /\ all \in BOOLEAN /\ (all => ready = Streams)
  BY <1>1 DEF UpdateStream, Aggregate
<1> HIDE DEF ready, all
<1>9. shown' \in Showns /\ shown'.ready = ready /\ (shown'.all => ready = Streams)
  BY <1>7, <1>8 DEF Showns
<1>10. ShownHolds'
  <2> SUFFICES ASSUME ~Ended("connector"), ~Untold, NEW x \in ready, x \notin Unswept'
               PROVE  x \in facts.sub
    BY <1>2, <1>9 DEF ShownHolds, Untold, Ended
  <2>1. CASE x = s
    BY <1>7, <2>1
  <2>2. CASE x # s
    <3>1. x \notin Unswept
      BY <1>5, <2>2 DEF Unswept
    <3> QED
      BY <1>0, <1>7, <2>2, <3>1 DEF ShownHolds, Untold
  <2> QED
    BY <2>1, <2>2
<1> QED
  BY <1>0, <1>2, <1>4, <1>5, <1>6, <1>9, <1>10 DEF ServInv, Types

-----------------------------------------------------------------------------
(* The connector and the session.                                          *)

\* A step of the connector: a sweep follows whenever a subscription is lost.
LEMMA ConnectorStep ==
    ASSUME ServInv, Runs("connector"), ConnStep,
           sweep' \in {SweepBy("session"), SweepBy("connector")}
              \/ (sweep' = sweep /\ Free /\ facts'.sub = facts.sub /\ (Untold => Untold')),
           sweep' = SweepBy("session") => conn'.pc = "receive",
           conn' \in Conns, wire' \in Wires, facts' \in FactSets, ConnHolds'
    PROVE  ServInv'
<1>0. /\ stop \in BOOLEAN /\ task \in TaskTables /\ sweep \in Sweeps /\ shown \in Showns
      /\ GroupHolds /\ SweepHolds /\ ShownHolds
  BY DEF ServInv, Types
<1>1. UNCHANGED <<proc, health, stop, task, shown, ask>>
  BY DEF ConnStep
<1>2. PhaseHolds' /\ ToldHolds' /\ proc' \in Procs /\ health' \in Healths /\ ask' \in Asks
  BY <1>1, LoopFrame, RunningPhase, TaskFacts
<1>3. GroupHolds'
  BY <1>0, <1>1 DEF GroupHolds, Ended
<1>4. CASE sweep' = sweep /\ Free /\ facts'.sub = facts.sub /\ (Untold => Untold')
  <2>1. sweep' \in Sweeps /\ sweep.by = "none" /\ sweep'.by = "none" /\ sweep'.todo = {}
    BY <1>0, <1>4 DEF SweepHolds, Free
  <2>2. SweepHolds'
    BY <2>1 DEF SweepHolds, Free
  <2>3. ShownHolds'
    BY <1>0, <1>1, <1>4, <2>1 DEF ShownHolds, Untold, Unswept, Ended
  <2> QED
    BY <1>0, <1>1, <1>2, <1>3, <2>1, <2>2, <2>3 DEF ServInv, Types
<1>5. ASSUME NEW by \in {"session", "connector"}, sweep' = SweepBy(by) PROVE ServInv'
  <2>1. sweep' \in Sweeps /\ sweep'.by = by /\ sweep'.todo = Streams
    BY <1>5 DEF SweepBy, Sweeps
  <2>2. SweepHolds'
    <3>1. by = "session" => conn'.pc = "receive"
      BY <1>5
    <3> QED
      BY <1>1, <2>1, <3>1, StreamAssumption DEF SweepHolds, Free, Runs
  <2>3. ShownHolds'
    BY <1>0, <1>1, <2>1 DEF ShownHolds, Untold, Unswept, Ended, Showns
  <2> QED
    BY <1>0, <1>1, <1>2, <1>3, <2>1, <2>2, <2>3 DEF ServInv, Types
<1> QED
  BY <1>4, <1>5

\* The fields the connector works on.
LEMMA ConnFields ==
    ASSUME ServInv
    PROVE  /\ conn \in Conns /\ wire \in Wires /\ facts \in FactSets /\ ConnHolds
           /\ conn.failures \in 0..MaxAttempts /\ conn.steady \in BOOLEAN
           /\ MaxAttempts \in Nat /\ MaxAttempts > 0
           /\ wire.on \subseteq Streams /\ facts.sub \subseteq Streams
           /\ facts.restored \subseteq Streams /\ facts.owed \subseteq Streams
BY AttemptAssumption DEF ServInv, Types, Conns, Wires, FactSets

\* A session ends: it is closed, or there was none.
LEMMA SessionFailsKeeps == ASSUME ServInv, SessionFails PROVE ServInv'
<1>0. /\ conn \in Conns /\ wire \in Wires /\ facts \in FactSets /\ ConnHolds
  BY ConnFields
<1>1. /\ Runs("connector") /\ Free /\ ConnStep /\ wire' = NoSession /\ UNCHANGED <<facts, sweep>>
      /\ conn.pc \in {"connect", "subscribe", "receive"}
      /\ \E pc \in {"closing", "failed"} : conn' = [conn EXCEPT !.pc = pc]
  BY DEF SessionFails, ConnAt
<1>2. conn' \in Conns /\ conn'.pc \in {"closing", "failed"} /\ conn'.failures = conn.failures
  BY <1>0, <1>1 DEF Conns
<1>3. wire' \in Wires /\ ~wire'.asked
  BY <1>1 DEF NoSession, Wires
<1>4. ConnHolds'
  BY <1>0, <1>1, <1>2, <1>3 DEF ConnHolds, Untold
<1>5. sweep' # SweepBy("session")
  BY <1>1, StreamAssumption DEF SweepBy, Free
<1> QED
  BY <1>0, <1>1, <1>2, <1>3, <1>4, <1>5, ConnectorStep DEF Untold

\* The session is closed, and perhaps the supervisor is told of the disconnect.
LEMMA SessionClosedKeeps == ASSUME ServInv, SessionClosed PROVE ServInv'
<1>0. /\ conn \in Conns /\ wire \in Wires /\ facts \in FactSets /\ ConnHolds
  BY ConnFields
<1>1. /\ Runs("connector") /\ Free /\ ConnStep /\ UNCHANGED wire
      /\ conn.pc = "closing" /\ conn' = [conn EXCEPT !.pc = "failed"]
      /\ \/ facts' = MarkDisconnected /\ sweep' = SweepBy("connector")
         \/ UNCHANGED <<facts, sweep>>
  BY DEF SessionClosed, ConnAt
<1>2. conn' \in Conns /\ conn'.pc = "failed" /\ conn'.failures = conn.failures
  BY <1>0, <1>1 DEF Conns
<1>3. facts' \in FactSets
  BY <1>0, <1>1 DEF MarkDisconnected, FactSets
<1>4. ConnHolds'
  BY <1>0, <1>1, <1>2 DEF ConnHolds, Untold
<1>5. SweepBy("connector") # SweepBy("session") /\ sweep # SweepBy("session")
  BY <1>1, StreamAssumption DEF SweepBy, Free
<1> QED
  BY <1>0, <1>1, <1>2, <1>3, <1>4, <1>5, ConnectorStep DEF Untold

\* The supervisor is told that a session failed: nothing is subscribed, and the
\* budget is counted.
LEMMA TransportFailedKeeps == ASSUME ServInv, TransportFailed PROVE ServInv'
<1>0. /\ conn \in Conns /\ wire \in Wires /\ facts \in FactSets /\ ConnHolds
      /\ conn.failures \in 0..MaxAttempts /\ conn.steady \in BOOLEAN
      /\ MaxAttempts \in Nat /\ MaxAttempts > 0
  BY ConnFields
<1>1. /\ Runs("connector") /\ Free /\ ConnStep /\ conn.pc = "failed" /\ UNCHANGED wire
      /\ facts' = MarkDisconnected /\ sweep' = SweepBy("connector")
      /\ conn' = [pc |-> IF Exhausts THEN "exhausted" ELSE "wait",
                  failures |-> Failures, steady |-> FALSE]
  BY DEF TransportFailed, ConnAt
<1>2. Failures \in 0..MaxAttempts /\ (~Exhausts => Failures # MaxAttempts)
  BY <1>0, <1>1 DEF ConnHolds, Failures, Exhausts
<1> HIDE DEF Failures, Exhausts
<1>3. /\ conn' \in Conns /\ conn'.failures = Failures
      /\ conn'.pc = IF Exhausts THEN "exhausted" ELSE "wait"
  BY <1>1, <1>2 DEF Conns
<1>4. facts' \in FactSets /\ facts'.sub = {}
  BY <1>0, <1>1 DEF MarkDisconnected, FactSets
<1>5. ConnHolds'
  BY <1>0, <1>1, <1>2, <1>3, <1>4 DEF ConnHolds, Untold
<1>6. SweepBy("connector") # SweepBy("session")
  BY DEF SweepBy
<1> QED
  BY <1>0, <1>1, <1>3, <1>4, <1>5, <1>6, ConnectorStep

\* The connector's own steps.
LEMMA ConnectorKeeps ==
    ASSUME ServInv, \/ ConnectSucceeds \/ Subscribe \/ WaitEnds \/ SessionStops
                    \/ ReconnectExhausted \/ Stopped \/ SessionGrowsSteady
    PROVE  ServInv'
<1>0. /\ conn \in Conns /\ wire \in Wires /\ facts \in FactSets /\ ConnHolds
      /\ conn.failures \in 0..MaxAttempts /\ conn.steady \in BOOLEAN
  BY ConnFields
<1>1. Runs("connector") /\ Free /\ ConnStep
  BY DEF ConnectSucceeds, Subscribe, WaitEnds, SessionStops, ReconnectExhausted, Stopped,
         SessionGrowsSteady, ConnAt
<1>2. SweepBy("connector") # SweepBy("session") /\ sweep # SweepBy("session")
  BY <1>1, StreamAssumption DEF SweepBy, Free
<1>3. ASSUME NEW pc \in {"subscribe", "receive", "connect", "stopped"},
             conn' = [conn EXCEPT !.pc = pc]
      PROVE  conn' \in Conns /\ conn'.pc = pc /\ conn'.failures = conn.failures
  BY <1>0, <1>3 DEF Conns
<1>4. CASE ConnectSucceeds
  <2>1. /\ UNCHANGED <<wire, facts, sweep>> /\ conn.pc = "connect" /\ conn' \in Conns
        /\ conn'.pc = "subscribe" /\ conn'.failures = conn.failures
    BY <1>3, <1>4 DEF ConnectSucceeds, ConnAt
  <2>2. ConnHolds'
    BY <1>0, <2>1 DEF ConnHolds, Untold
  <2> QED
    BY <1>0, <1>1, <1>2, <2>1, <2>2, ConnectorStep DEF Untold
<1>5. CASE Subscribe
  <2>1. /\ UNCHANGED <<facts, sweep>> /\ conn.pc = "subscribe" /\ conn' \in Conns
        /\ conn'.pc = "receive" /\ conn'.failures = conn.failures
        /\ wire' = [wire EXCEPT !.asked = TRUE]
    BY <1>3, <1>5 DEF Subscribe, ConnAt
  <2>2. wire' \in Wires /\ wire'.on = wire.on /\ wire = NoSession
    BY <1>0, <2>1 DEF Wires, ConnHolds
  <2>3. ConnHolds'
    BY <1>0, <2>1, <2>2 DEF ConnHolds, Untold, NoSession
  <2> QED
    BY <1>0, <1>1, <1>2, <2>1, <2>2, <2>3, ConnectorStep DEF Untold
<1>6. CASE WaitEnds
  <2>1. /\ UNCHANGED <<wire, facts, sweep>> /\ conn.pc = "wait" /\ conn' \in Conns
        /\ conn'.pc \in {"stopped", "connect"} /\ conn'.failures = conn.failures
    BY <1>3, <1>6 DEF WaitEnds, ConnAt
  <2>2. ConnHolds'
    BY <1>0, <2>1 DEF ConnHolds, Untold
  <2> QED
    BY <1>0, <1>1, <1>2, <2>1, <2>2, ConnectorStep DEF Untold
<1>7. CASE SessionStops
  <2>1. /\ UNCHANGED <<facts, sweep>> /\ conn.pc = "receive" /\ conn' \in Conns
        /\ conn'.pc = "stopped" /\ conn'.failures = conn.failures /\ wire' = NoSession
    BY <1>3, <1>7 DEF SessionStops, ConnAt
  <2>2. wire' \in Wires /\ ~wire'.asked
    BY <2>1 DEF NoSession, Wires
  <2>3. ConnHolds'
    BY <2>1, <2>2 DEF ConnHolds, Untold
  <2> QED
    BY <1>0, <1>1, <1>2, <2>1, <2>2, <2>3, ConnectorStep DEF Untold
<1>8. CASE ReconnectExhausted
  <2>1. /\ wire' = wire /\ sweep' = SweepBy("connector") /\ conn.pc = "exhausted"
        /\ conn' \in Conns /\ conn'.pc = "stopped" /\ conn'.failures = conn.failures
        /\ facts' = MarkDisconnected
    BY <1>3, <1>8 DEF ReconnectExhausted, ConnAt
  <2>2. facts' \in FactSets
    BY <1>0, <2>1 DEF MarkDisconnected, FactSets
  <2>3. ConnHolds'
    BY <1>0, <2>1 DEF ConnHolds, Untold
  <2> QED
    BY <1>0, <1>1, <1>2, <2>1, <2>2, <2>3, ConnectorStep
<1>9. CASE Stopped
  <2>1. /\ wire' = wire /\ sweep' = SweepBy("connector") /\ conn.pc = "stopped"
        /\ facts' = [facts EXCEPT !.sub = {}] /\ conn' = [conn EXCEPT !.pc = "done"]
    BY <1>9 DEF Stopped, ConnAt
  <2>2. facts' \in FactSets /\ facts'.sub = {}
    BY <1>0, <2>1 DEF FactSets
  <2>3. conn' \in Conns /\ conn'.pc = "done"
    BY <1>0, <2>1 DEF Conns
  <2>4. ConnHolds'
    BY <1>0, <2>1, <2>2, <2>3 DEF ConnHolds, Untold
  <2> QED
    BY <1>0, <1>1, <1>2, <2>1, <2>2, <2>3, <2>4, ConnectorStep
<1>10. CASE SessionGrowsSteady
  <2>1. /\ UNCHANGED <<wire, facts, sweep>> /\ conn.pc \in {"subscribe", "receive", "closing"}
        /\ conn' = [conn EXCEPT !.steady = TRUE]
    BY <1>10 DEF SessionGrowsSteady, ConnAt
  <2>2. conn' \in Conns /\ conn'.pc = conn.pc /\ conn'.failures = conn.failures
    BY <1>0, <2>1 DEF Conns
  <2>3. ConnHolds'
    BY <1>0, <2>1, <2>2 DEF ConnHolds, Untold
  <2> QED
    BY <1>0, <1>1, <1>2, <2>1, <2>2, <2>3, ConnectorStep DEF Untold
<1> QED
  BY <1>4, <1>5, <1>6, <1>7, <1>8, <1>9, <1>10

\* What the exchange sends.
LEMMA ExchangeKeeps ==
    ASSUME ServInv, SubscriptionConfirmed \/ SubscriptionRefused \/ CandleSwept
    PROVE  ServInv'
<1>0. /\ conn \in Conns /\ wire \in Wires /\ facts \in FactSets /\ ConnHolds
      /\ facts.sub \subseteq Streams /\ facts.restored \subseteq Streams
      /\ facts.owed \subseteq Streams
  BY ConnFields
<1>1. /\ Runs("connector") /\ Free /\ ConnStep /\ conn' = conn /\ conn.pc = "receive"
      /\ sweep' = SweepBy("session")
  BY DEF SubscriptionConfirmed, SubscriptionRefused, CandleSwept, ConnAt
<1>2. facts.sub \subseteq wire.on
  BY <1>0, <1>1 DEF ConnHolds, Untold
<1>3. CASE SubscriptionConfirmed
  <2>1. PICK topics \in SUBSET Streams :
          wire' = [asked |-> FALSE, on |-> topics] /\ facts' = Confirmed(topics)
    BY <1>3 DEF SubscriptionConfirmed
  <2>2. wire' \in Wires /\ ~wire'.asked /\ wire'.on = topics
    BY <2>1 DEF Wires
  <2>3. facts.sub = {}
    BY <1>0, <1>2, <1>3 DEF ConnHolds, Untold, SubscriptionConfirmed
  <2> DEFINE cleared == IF facts.disconnected THEN facts.restored \ topics ELSE facts.restored
             owed == facts.owed \cup (IF facts.disconnected THEN topics ELSE {})
                        \cup {s \in facts.sub \cup topics : s \notin cleared}
  <2>4. cleared \in SUBSET Streams /\ owed \in SUBSET Streams
    BY <1>0, <2>1
  <2>5. facts' = [facts EXCEPT !.sub = facts.sub \cup topics, !.restored = cleared,
                               !.disconnected = FALSE, !.owed = owed]
    BY <2>1 DEF Confirmed
  <2> HIDE DEF cleared, owed
  <2>6. facts' \in FactSets /\ facts'.sub = facts.sub \cup topics
    BY <1>0, <2>1, <2>4, <2>5 DEF FactSets
  <2>7. ConnHolds'
    BY <1>0, <1>1, <2>2, <2>3, <2>6 DEF ConnHolds, Untold
  <2> QED
    BY <1>0, <1>1, <2>2, <2>6, <2>7, ConnectorStep
<1>4. CASE SubscriptionRefused
  <2>1. wire' = NoSession /\ facts' = MarkDisconnected
    BY <1>4 DEF SubscriptionRefused
  <2>2. wire' \in Wires /\ ~wire'.asked
    BY <2>1 DEF NoSession, Wires
  <2>3. facts' \in FactSets /\ facts'.sub = {}
    BY <1>0, <2>1 DEF MarkDisconnected, FactSets
  <2>4. ConnHolds'
    BY <1>0, <1>1, <2>2, <2>3 DEF ConnHolds, Untold
  <2> QED
    BY <1>0, <1>1, <2>2, <2>3, <2>4, ConnectorStep
<1>5. CASE CandleSwept
  <2>1. UNCHANGED <<wire, facts>>
    BY <1>5 DEF CandleSwept
  <2>2. ConnHolds'
    BY <1>0, <1>1, <2>1 DEF ConnHolds, Untold
  <2> QED
    BY <1>0, <1>1, <2>1, <2>2, ConnectorStep
<1> QED
  BY <1>3, <1>4, <1>5

\* An episode of recovery ends, late or not.
LEMMA RecoveryKeeps == ASSUME ServInv, NEW s \in Streams, RecoveryResult(s) PROVE ServInv'
<1>0. /\ stop \in BOOLEAN /\ task \in TaskTables /\ conn \in Conns /\ wire \in Wires
      /\ facts \in FactSets /\ sweep \in Sweeps /\ shown \in Showns
      /\ GroupHolds /\ SweepHolds /\ ConnHolds /\ ShownHolds
  BY DEF ServInv, Types
<1>1. /\ UNCHANGED <<proc, health, stop, task, conn, wire, shown, ask>>
      /\ Runs("recovery") /\ Free /\ sweep' = SweepBy("recovery")
      /\ facts' = [facts EXCEPT !.owed = @ \ {s}, !.restored = @ \cup {s}]
  BY DEF RecoveryResult
<1>2. facts' \in FactSets /\ facts'.sub = facts.sub
  BY <1>0, <1>1 DEF FactSets
<1>3. sweep' \in Sweeps /\ sweep'.by = "recovery" /\ sweep'.todo = Streams
  BY <1>1 DEF SweepBy, Sweeps
<1>4. PhaseHolds' /\ ToldHolds' /\ proc' \in Procs /\ health' \in Healths /\ ask' \in Asks
  BY <1>1, LoopFrame, RunningPhase, TaskFacts
<1>5. GroupHolds' /\ ConnHolds'
  BY <1>0, <1>1, <1>2 DEF GroupHolds, Ended, ConnHolds, Untold
<1>6. SweepHolds'
  BY <1>1, <1>3, StreamAssumption DEF SweepHolds, Free, Runs
<1>7. ShownHolds'
  <2>1. sweep.by = "none"
    BY <1>0, <1>1 DEF SweepHolds
  <2> QED
    BY <1>0, <1>1, <1>2, <1>3, <2>1 DEF ShownHolds, Untold, Unswept, Ended
<1> QED
  BY <1>0, <1>1, <1>2, <1>3, <1>4, <1>5, <1>6, <1>7 DEF ServInv, Types

\* A sweep raises: the session fails, or the task that ran the sweep does.
LEMMA SweepRaisesKeeps == ASSUME ServInv, SweepRaises PROVE ServInv'
<1>0. /\ stop \in BOOLEAN /\ task \in TaskTables /\ conn \in Conns /\ wire \in Wires
      /\ facts \in FactSets /\ sweep \in Sweeps /\ shown \in Showns
      /\ GroupHolds /\ SweepHolds /\ ConnHolds /\ ShownHolds
  BY DEF ServInv, Types
<1>1. CASE sweep.by = "session"
  <2>1. /\ ~Free /\ UNCHANGED <<proc, health, stop, task, facts, shown, ask>>
        /\ conn' = [conn EXCEPT !.pc = "closing"] /\ wire' = NoSession /\ sweep' = NoSweep
    BY <1>1 DEF SweepRaises, Free
  <2>2. conn.pc = "receive" /\ \A u \in Tasks : task'[u] # "off"
    BY <1>0, <1>1, <2>1, RunningPhase DEF SweepHolds
  <2>3. PhaseHolds' /\ ToldHolds' /\ proc' \in Procs /\ health' \in Healths /\ ask' \in Asks
    BY <2>1, <2>2, LoopFrame
  <2>4. sweep' \in Sweeps /\ sweep'.by = "none" /\ sweep'.todo = {}
    BY <2>1 DEF NoSweep, Sweeps
  <2>5. conn' \in Conns /\ conn'.pc = "closing" /\ conn'.failures = conn.failures
    BY <1>0, <2>1 DEF Conns
  <2>6. wire' \in Wires /\ ~wire'.asked
    BY <2>1 DEF NoSession, Wires
  <2>7. GroupHolds' /\ SweepHolds'
    BY <1>0, <2>1, <2>4 DEF GroupHolds, Ended, SweepHolds, Free
  <2>8. ConnHolds' /\ ShownHolds'
    BY <1>0, <2>1, <2>2, <2>5, <2>6 DEF ConnHolds, ShownHolds, Untold
  <2> QED
    BY <1>0, <2>1, <2>3, <2>4, <2>5, <2>6, <2>7, <2>8 DEF ServInv, Types
<1>2. CASE sweep.by # "session"
  <2>1. /\ ~Free /\ task' = [task EXCEPT ![sweep.by] = "raised"] /\ sweep' = NoSweep
        /\ UNCHANGED <<conn, wire, facts>> /\ UNCHANGED <<proc, health, shown, ask>>
        /\ stop' \in BOOLEAN
    BY <1>0, <1>2 DEF SweepRaises, TaskGoes, Free
  <2>2. sweep.by \in {"connector", "recovery", "realtime"}
    BY <1>0, <1>2, <2>1 DEF SweepHolds, Sweeps
  <2>3. /\ task' \in TaskTables /\ task'[sweep.by] = "raised"
        /\ \A u \in Tasks \ {sweep.by} : task'[u] = task[u]
    BY <1>0, <2>1, <2>2, TaskFacts DEF TaskTables
  <2>4. \A u \in Tasks : task'[u] # "off"
    BY <2>1, <2>3, RunningPhase
  <2>5. PhaseHolds' /\ ToldHolds' /\ proc' \in Procs /\ health' \in Healths /\ ask' \in Asks
    BY <2>1, <2>4, LoopFrame
  <2>6. sweep' \in Sweeps /\ sweep'.by = "none" /\ sweep'.todo = {}
    BY <2>1 DEF NoSweep, Sweeps
  <2>7. SweepHolds' /\ ConnHolds'
    BY <1>0, <2>1, <2>6 DEF SweepHolds, Free, ConnHolds, Untold
  <2>8. GroupHolds'
    <3>1. CASE sweep.by = "realtime"
      <4>1. \A t \in InGroup : Ended(t) /\ task'[t] = task[t]
        BY <1>0, <2>3, <3>1, TaskFacts DEF SweepHolds, GroupHolds
      <4> QED
        BY <2>3, <3>1, <4>1 DEF GroupHolds, Ended
    <3>2. CASE sweep.by \in {"connector", "recovery"}
      <4>1. ~Ended("realtime") /\ task'["realtime"] = task["realtime"]
        BY <1>0, <2>3, <3>2, TaskFacts DEF SweepHolds, GroupHolds, Ended, Runs
      <4> QED
        BY <4>1 DEF GroupHolds, Ended
    <3> QED
      BY <2>2, <3>1, <3>2
  <2>9. ShownHolds'
    <3>1. SUFFICES ASSUME ~Ended("connector")', ~Untold PROVE shown.ready \subseteq facts.sub
      BY <1>0, <2>1 DEF ShownHolds, Untold
    <3>2. ~Ended("connector") /\ sweep.by # "connector"
      BY <2>3, <3>1, TaskFacts DEF Ended
    <3>3. sweep.by # "realtime"
      BY <1>0, <3>2, TaskFacts DEF SweepHolds, GroupHolds
    <3> QED
      BY <1>0, <2>2, <3>1, <3>2, <3>3 DEF ShownHolds, Untold, Unswept
  <2> QED
    BY <1>0, <2>1, <2>3, <2>5, <2>6, <2>7, <2>8, <2>9 DEF ServInv, Types
<1> QED
  BY <1>1, <1>2

\* The HTTP threads.
LEMMA HttpKeeps == ASSUME ServInv, Http PROVE ServInv'
<1>0. Types /\ ToldHolds /\ ask \in Asks /\ health \in Healths
  BY DEF ServInv, Types
<1>1. UNCHANGED <<proc, health, stop, task, conn, wire, facts, sweep, shown>>
  BY DEF Http, ReadDocument, Answer, Answered, ThreadStep
<1>2. PhaseHolds' /\ GroupHolds' /\ SweepHolds'
  BY <1>1 DEF ServInv, PhaseHolds, GroupHolds, SweepHolds, Free, Runs, Ended
<1>3. ConnHolds' /\ ShownHolds'
  BY <1>1 DEF ServInv, ConnHolds, ShownHolds, Untold, Unswept, Ended
<1>4. ask' \in Asks /\ ToldHolds'
  <2>1. CASE ReadDocument
    <3>1. /\ ask' = [ask EXCEPT !.body = HealthDocument] /\ ask.code = 0
          /\ HealthDocument \in {"healthy", "fatal", "unhealthy"}
          /\ HealthDocument = "fatal" => health.fatal
      BY <2>1 DEF ReadDocument, HealthDocument, NoAsk
    <3> HIDE DEF HealthDocument
    <3>2. ask' \in Asks /\ ask'.body = HealthDocument /\ ask'.code = 0
      BY <1>0, <3>1 DEF Asks
    <3> QED
      BY <1>0, <1>1, <3>1, <3>2 DEF ToldHolds
  <2>2. CASE Answer
    <3> DEFINE code == IF health.ok THEN 200 ELSE 503
    <3>1. ask' = [ask EXCEPT !.code = code] /\ code \in {200, 503} /\ (~health.ok => code = 503)
      BY <2>2 DEF Answer
    <3> HIDE DEF code
    <3>2. ask' \in Asks /\ ask'.body = ask.body /\ ask'.code = code
      BY <1>0, <3>1 DEF Asks
    <3> QED
      BY <1>0, <1>1, <3>1, <3>2 DEF ToldHolds
  <2>3. CASE Answered
    <3>1. ask' \in Asks /\ ask'.body = "none" /\ ask'.code = 0
      BY <2>3 DEF Answered, NoAsk, Asks
    <3> QED
      BY <1>0, <1>1, <3>1 DEF ToldHolds
  <2> QED
    BY <2>1, <2>2, <2>3 DEF Http
<1> QED
  BY <1>0, <1>1, <1>2, <1>3, <1>4 DEF ServInv, Types

-----------------------------------------------------------------------------
\* The invariant holds when the process starts.
LEMMA ServStarts == Init => ServInv
<1> SUFFICES ASSUME Init PROVE ServInv
  OBVIOUS
<1>1. /\ proc = [pc |-> "startup", code |-> "none", serving |-> TRUE]
      /\ health = [ok |-> FALSE, fatal |-> FALSE] /\ stop = FALSE
      /\ task = [t \in Tasks |-> "off"]
      /\ conn = [pc |-> "connect", failures |-> 0, steady |-> FALSE]
  BY DEF Init
<1>2. /\ wire = [asked |-> FALSE, on |-> {}] /\ wire = NoSession
      /\ facts = [sub |-> {}, restored |-> {}, owed |-> {}, disconnected |-> FALSE]
      /\ sweep = [todo |-> {}, by |-> "none"] /\ shown = [ready |-> {}, all |-> FALSE]
      /\ ask = [body |-> "none", code |-> 0]
  BY DEF Init, NoSession, NoSweep, NoAsk
<1>3. proc \in Procs /\ health \in Healths /\ stop \in BOOLEAN /\ task \in TaskTables
  BY <1>1 DEF Procs, Healths, TaskTables
<1>4. conn \in Conns
  BY <1>1, AttemptAssumption DEF Conns
<1>5. wire \in Wires /\ facts \in FactSets /\ sweep \in Sweeps /\ shown \in Showns /\ ask \in Asks
  BY <1>2 DEF Wires, FactSets, Sweeps, Showns, Asks
<1>6. PhaseHolds /\ ToldHolds
  BY <1>1, <1>2 DEF PhaseHolds, Free, ToldHolds
<1>7. GroupHolds /\ SweepHolds
  BY <1>1, <1>2, TaskFacts DEF GroupHolds, SweepHolds, Free, Ended
<1>8. ConnHolds /\ ShownHolds
  BY <1>1, <1>2, AttemptAssumption DEF ConnHolds, Untold, ShownHolds
<1> QED
  BY <1>3, <1>4, <1>5, <1>6, <1>7, <1>8 DEF ServInv, Types

\* Every step keeps the invariant.
LEMMA ServNextKeeps == ASSUME ServInv, [Next]_vars PROVE ServInv'
<1>0. stop \in BOOLEAN
  BY DEF ServInv, Types
<1>1. CASE Run \/ Signal
  BY <1>1, RunKeeps, RealtimeKeeps DEF Run
<1>2. CASE ConnectorReturns
  BY <1>2, WorkerKeeps, TaskFacts DEF ConnectorReturns, ConnAt, StopsAll
<1>3. CASE Connector /\ ~ConnectorReturns
  BY <1>3, ConnectorKeeps, SessionClosedKeeps, TransportFailedKeeps DEF Connector
<1>4. CASE Exchange
  BY <1>4, ConnectorKeeps, ExchangeKeeps, SessionFailsKeeps DEF Exchange
<1>5. CASE SweepStream \/ SweepRaises \/ Http
  BY <1>5, SweepKeeps, SweepRaisesKeeps, HttpKeeps
<1>6. ASSUME NEW t \in Inner \cup Outer, WorkerStops(t) \/ WorkerRaises(t) PROVE ServInv'
  <2>1. t \in Tasks \ {"realtime"}
    BY TaskFacts, TaskAssumption
  <2> QED
    BY <1>0, <1>6, <2>1, WorkerKeeps DEF WorkerStops, WorkerRaises
<1>7. ASSUME NEW t \in Tasks \ {"realtime"}, WorkerCancelled(t) PROVE ServInv'
  <2>1. stop' \in BOOLEAN
    BY <1>0, <1>7 DEF WorkerCancelled
  <2> QED
    BY <1>7, <2>1, WorkerKeeps DEF WorkerCancelled
<1>8. ASSUME NEW s \in Streams, RecoveryResult(s) PROVE ServInv'
  BY <1>8, RecoveryKeeps
<1>9. CASE UNCHANGED vars
  <2>1. Types' /\ PhaseHolds' /\ ToldHolds' /\ GroupHolds' /\ SweepHolds'
    BY <1>9 DEF vars, ServInv, Types, PhaseHolds, ToldHolds, GroupHolds, SweepHolds, Free, Runs, Ended
  <2>2. ConnHolds' /\ ShownHolds'
    BY <1>9 DEF vars, ServInv, ConnHolds, ShownHolds, Untold, Unswept, Ended
  <2> QED
    BY <2>1, <2>2 DEF ServInv
<1> QED
  BY <1>1, <1>2, <1>3, <1>4, <1>5, <1>6, <1>7, <1>8, <1>9 DEF Next, Gone

\* The invariant holds of the daemon, whatever fails and whenever it is stopped.
THEOREM ServiceInvariant == Spec => []ServInv
<1>1. ServInv /\ [Next]_vars => ServInv'
  BY ServNextKeeps
<1> QED
  BY <1>1, ServStarts, PTL DEF Spec

\* Every variable stays in its domain, and so the failures counted never pass
\* the budget of the reconnect policy.
THEOREM ServiceType == Spec => []ServiceTypeOK
<1>1. ServInv => ServiceTypeOK
  BY DEF ServInv, Types, ServiceTypeOK, Procs, Healths, TaskTables, Showns
<1> QED
  BY <1>1, ServiceInvariant, PTL

\* A stream a finished sweep shows as ready is one granted in the session of now,
\* but for the time in which a failed or stopped session is being closed.
THEOREM ReadyStreamsAreSubscribed == Spec => []ReadyIsSubscribed
<1>1. ServInv => ReadyIsSubscribed
  <2> SUFFICES ASSUME ServInv, Runs("connector"), Free,
                      conn.pc \notin {"closing", "failed", "stopped"}
               PROVE  shown.ready \subseteq wire.on /\ (shown.all => wire.on = Streams)
    BY DEF ReadyIsSubscribed
  <2>1. sweep.by = "none" /\ ~Ended("connector")
    BY DEF ServInv, SweepHolds, Runs, Ended
  <2>2. shown.ready \subseteq facts.sub /\ (shown.all => shown.ready = Streams)
    BY <2>1 DEF ServInv, ShownHolds, Untold, Unswept
  <2>3. facts.sub \subseteq wire.on /\ wire.on \subseteq Streams
    BY ConnFields DEF ConnHolds, Untold
  <2> QED
    BY <2>2, <2>3
<1> QED
  BY <1>1, ServiceInvariant, PTL

\* A body that names a fatal error never comes with 200, and the process exits
\* with an error exactly when a task or the startup raised.
THEOREM FatalErrorsAreTold == Spec => []FatalIsTold
<1>1. ServInv => FatalIsTold
  BY DEF ServInv, PhaseHolds, ToldHolds, FatalIsTold
<1> QED
  BY <1>1, ServiceInvariant, PTL
=============================================================================
