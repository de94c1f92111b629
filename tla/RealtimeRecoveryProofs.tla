----------------------- MODULE RealtimeRecoveryProofs -----------------------
EXTENDS RecoveryInvariant, TLAPS

-----------------------------------------------------------------------------
(* The operators the actions are built from keep their types.              *)

\* The arithmetic the constants guarantee: bars, windows and the clock lead.
LEMMA ConstantFacts ==
    /\ MaxBar \in Nat
    /\ \A b \in FirstBars : b \in 1..MaxBar
    /\ MaxWindows \in Nat /\ MaxWindows > 0
    /\ Lead \in {0, 1}
BY BarAssumption, WindowAssumption, LeadAssumption

\* What each update of the facts leaves behind.
LEMMA RequireRecoveryShape ==
    ASSUME NEW f \in Facts, NEW s \in Statuses, NEW e \in OptBars
    PROVE  LET g == RequireRecovery(f, s, e)
           IN  /\ g \in Facts
               /\ g.frontier = f.frontier
               /\ g.fatal = f.fatal
               /\ g.restored = FALSE
BY DEF RequireRecovery, Facts

\* mark_disconnected drops the subscription and keeps the frontier.
LEMMA MarkDisconnectedShape ==
    ASSUME NEW f \in Facts
    PROVE  LET g == MarkDisconnected(f)
           IN  /\ g \in Facts
               /\ g.frontier = f.frontier
               /\ g.fatal = f.fatal
               /\ g.restored = FALSE
BY DEF MarkDisconnected, Facts, Statuses

\* record_success moves the status and the frontier only.
LEMMA RecordSuccessShape ==
    ASSUME NEW f \in Facts, NEW o \in Bars
    PROVE  LET g == RecordSuccess(f, o)
           IN  /\ g \in Facts
               /\ g.frontier = ExtendFrontier(f.frontier, o)
               /\ g.fatal = f.fatal
               /\ g.restored = f.restored
<1>1. ExtendFrontier(f.frontier, o) \in OptBars
  BY DEF ExtendFrontier, Later, Facts, OptBars, Bars, NoBar
<1> QED
  BY <1>1 DEF RecordSuccess, Facts, Statuses

\* record_rejected asks for recovery and keeps the frontier.
LEMMA RecordRejectedShape ==
    ASSUME NEW f \in Facts
    PROVE  LET g == RecordRejected(f)
           IN  /\ g \in Facts
               /\ g.frontier = f.frontier
               /\ g.fatal = f.fatal
               /\ g.restored = FALSE
BY DEF RecordRejected, Facts, Statuses

\* record_failed only marks the stream lost.
LEMMA RecordFailedShape ==
    ASSUME NEW f \in Facts
    PROVE  LET g == RecordFailed(f)
           IN  /\ g \in Facts
               /\ g.frontier = f.frontier
               /\ g.fatal = TRUE
BY DEF RecordFailed, Facts, Statuses

\* record_recovery_result, in its three cases.
LEMMA RecordResultShape ==
    ASSUME NEW f \in Facts, NEW r \in BOOLEAN, NEW x \in BOOLEAN, NEW t \in OptBars
    PROVE  /\ RecordRecoveryResult(f, r, x, t) \in Facts
           /\ RecordRecoveryResult(f, r, x, t).frontier
                 \in {f.frontier, Later(f.frontier, t)}
<1> DEFINE g == RecordRecoveryResult(f, r, x, t)
<1>1. CASE x
  BY <1>1 DEF RecordRecoveryResult, Facts, Statuses
<1>2. CASE ~x /\ r
  <2>1. CommitChecked(f) \in OptBars /\ Later(f.frontier, t) \in OptBars
    BY DEF CommitChecked, Later, Facts, OptBars, Bars, NoBar
  <2>2. g = [f EXCEPT !.status = IF f.sub THEN "subscribed"
                                          ELSE "recovery_required",
                      !.pending = FALSE, !.restored = TRUE,
                      !.checked = CommitChecked(f), !.awaited = NoBar,
                      !.frontier = Later(f.frontier, t)]
    BY <1>2 DEF RecordRecoveryResult
  <2>3. NoBar \in OptBars
    BY DEF OptBars
  <2> QED
    BY <1>2, <2>1, <2>2, <2>3 DEF Facts, Statuses
<1>3. CASE ~x /\ ~r
  BY <1>3 DEF RecordRecoveryResult, Facts, Statuses
<1> QED
  BY <1>1, <1>2, <1>3

\* enqueue without an intent makes the one the signal describes.
LEMMA EnqueueFresh ==
    ASSUME NEW i \in Intents, ~i.exists, NEW h \in OptBars, NEW b \in BOOLEAN
    PROVE  /\ Enqueue(i, h, b) \in Intents
           /\ Enqueue(i, h, b).exists
           /\ Enqueue(i, h, b).hint = h
           /\ Enqueue(i, h, b).urgent = ~b
           /\ ~Enqueue(i, h, b).revised
           /\ Enqueue(i, h, b).window = NoWindow
<1>1. NoIntent \in Intents
  BY ConstantFacts DEF NoIntent, Intents, NoWindow, Windows, OptBars, Bars, NoBar
<1>2. Enqueue(i, h, b) = [NoIntent EXCEPT !.exists = TRUE, !.hint = h,
                                          !.urgent = ~b]
  BY DEF Enqueue, FromSignal
<1> QED
  BY <1>1, <1>2 DEF Intents, NoIntent

\* enqueue onto an intent absorbs the signal, or leaves the intent as it is.
LEMMA EnqueueMerged ==
    ASSUME NEW i \in Intents, i.exists, NEW h \in OptBars, NEW b \in BOOLEAN
    PROVE  /\ Enqueue(i, h, b) \in Intents
           /\ \/ Enqueue(i, h, b) = i
              \/ /\ Enqueue(i, h, b).revised
                 /\ Enqueue(i, h, b).window = NoWindow
           /\ Enqueue(i, h, b).exists
           /\ Enqueue(i, h, b).hint \in {i.hint, h}
           /\ h # NoBar => Enqueue(i, h, b).hint # NoBar
           /\ Enqueue(i, h, b).hint # i.hint => Enqueue(i, h, b).revised
           /\ i.urgent => Enqueue(i, h, b).urgent
           /\ h # NoBar /\ i.hint = NoBar => Enqueue(i, h, b).revised
           /\ h = NoBar /\ (b \/ i.urgent) => Enqueue(i, h, b) = i
           /\ i.hint # NoBar => Enqueue(i, h, b).hint # NoBar
<1> DEFINE lower == h # NoBar /\ (i.hint = NoBar \/ h < i.hint)
           escalate == ~b /\ ~i.urgent
<1>1. NoWindow \in Windows /\ i.hint \in OptBars
  BY ConstantFacts DEF NoWindow, Windows, Bars, Intents
<1>2. Enqueue(i, h, b) =
        IF lower \/ escalate
        THEN [i EXCEPT !.hint = IF lower THEN h ELSE i.hint,
                       !.urgent = i.urgent \/ escalate,
                       !.revised = TRUE, !.window = NoWindow]
        ELSE i
  BY DEF Enqueue, Absorb
<1>3. CASE lower \/ escalate
  <2> DEFINE j == [i EXCEPT !.hint = IF lower THEN h ELSE i.hint,
                            !.urgent = i.urgent \/ escalate,
                            !.revised = TRUE, !.window = NoWindow]
  <2>1. Enqueue(i, h, b) = j
    BY <1>2, <1>3
  <2>2. (IF lower THEN h ELSE i.hint) \in OptBars
    BY <1>1
  <2> HIDE DEF lower, escalate
  <2>3. /\ j.hint = (IF lower THEN h ELSE i.hint)
        /\ j.urgent = (i.urgent \/ escalate)
        /\ j.revised = TRUE /\ j.window = NoWindow /\ j.exists = i.exists
        /\ j.retry = i.retry
    BY DEF Intents
  <2>4. j \in Intents
    BY <1>1, <2>2 DEF Intents
  <2> HIDE DEF j
  <2> QED
    BY <2>1, <2>2, <2>3, <2>4, <1>3 DEF lower, escalate
<1>4. CASE ~(lower \/ escalate)
  BY <1>2, <1>4
<1> QED
  BY <1>3, <1>4

\* Whatever the signal, enqueue yields a well-formed intent.
LEMMA EnqueueType ==
    ASSUME NEW i \in Intents, NEW h \in OptBars
    PROVE  /\ Enqueue(i, h, TRUE) \in Intents
           /\ Enqueue(i, h, TRUE).window \in {i.window, NoWindow}
           /\ Enqueue(i, h, FALSE) \in Intents
           /\ Enqueue(i, h, FALSE).window \in {i.window, NoWindow}
<1>1. ASSUME NEW b \in BOOLEAN
      PROVE  /\ Enqueue(i, h, b) \in Intents
             /\ Enqueue(i, h, b).window \in {i.window, NoWindow}
  <2>1. CASE i.exists
    BY <2>1, EnqueueMerged
  <2>2. CASE ~i.exists
    BY <2>2, EnqueueFresh
  <2> QED
    BY <2>1, <2>2
<1> QED
  BY <1>1

\* _expected_open_ms stays on the grid.
LEMMA ExpectedType == TypeOK => Expected \in OptBars
BY ConstantFacts DEF TypeOK, Expected, OptBars, Bars, NoBar

\* The idle loop and a starting sweep are well-formed.
LEMMA LoopTypes ==
    ASSUME TypeOK
    PROVE  /\ Idle \in Loops
           /\ \A o \in {"task", "session"} : Syncing(o) \in Loops
<1>1. Idle \in Loops
  BY ConstantFacts DEF Idle, Loops, LifecycleStates, OptBars, Bars
<1>2. Expected \in OptBars
  BY ExpectedType
<1> QED
  BY <1>1, <1>2 DEF Syncing, Loops

\* The idle attempt is well-formed.
LEMMA ThreadTypes ==
    /\ ThreadIdle \in Threads
    /\ ThreadIdle.pc = "idle" /\ ThreadIdle.hint = NoBar
    /\ ThreadIdle.known = NoBar /\ ThreadIdle.window = NoWindow
    /\ ThreadIdle.window.end = 0 /\ ThreadIdle.todo = {}
    /\ ThreadIdle.used = 0 /\ ThreadIdle.result = "none"
BY ConstantFacts DEF ThreadIdle, Threads, NoWindow, Windows, OptBars, Bars, NoBar

\* The state RuntimeService._startup leaves is well-typed and bounded.
LEMMA InitType == Init => TypeOK /\ Bounded
<1> SUFFICES ASSUME Init PROVE TypeOK /\ Bounded
  OBVIOUS
<1> USE ConstantFacts, AdmittedAssumption
<1>1. bar \in 1..MaxBar /\ latest \in OptBars /\ latest <= bar /\ candles \subseteq Bars
  BY DEF Init, OptBars, Bars, NoBar
<1>2. durable \in LifecycleStates /\ history \in {"open", "proven"}
  BY DEF Init, LifecycleStates
<1>3. facts \in Facts
  BY <1>1 DEF Init, Facts, Statuses, OptBars
<1>4. intent \in Intents /\ thread \in Threads
  BY ThreadTypes DEF Init, NoIntent, Intents, NoWindow, Windows, OptBars, Bars, NoBar
<1>5. loop \in Loops
  BY DEF Init, Idle, Loops, LifecycleStates, OptBars, Bars
<1>6. published \in Published /\ notified \in OptBars
  BY <1>1 DEF Init, Published, NotReady, OptBars, NoBar
<1>7. TypeOK
  BY <1>1, <1>2, <1>3, <1>4, <1>5, <1>6 DEF TypeOK, Init
<1>8. Bounded
  BY <1>1 DEF Init, Bounded, NoIntent, ThreadIdle, Idle, NoWindow, NoBar
<1> QED
  BY <1>7, <1>8

-----------------------------------------------------------------------------
(* Type correctness, with the bounds that keep it inductive.               *)

\* The hint of a signal is a bar or None.
LEMMA SignalHintType ==
    ASSUME NEW f \in Facts, NEW h \in OptBars, f.frontier <= MaxBar
    PROVE  SignalHint(f, h) \in OptBars
BY ConstantFacts DEF SignalHint, Earlier, Facts, OptBars, Bars, NoBar

\* The fields of a sweep that starts.
LEMMA SyncingShape ==
    ASSUME NEW o \in {"task", "session"}
    PROVE  /\ Syncing(o).pc = "sync"
           /\ Syncing(o).exp = Expected
           /\ Syncing(o).open = 0
           /\ Syncing(o).then = "idle"
           /\ Syncing(o).origin = o
BY DEF Syncing, Idle

\* The numbers inside the records.
Numbers ==
    /\ bar \in 1..MaxBar
    /\ latest \in OptBars /\ notified \in OptBars
    /\ facts.frontier \in OptBars
    /\ facts.checked \in OptBars
    /\ facts.awaited \in OptBars
    /\ intent.hint \in OptBars
    /\ intent.window \in Windows
    /\ intent.window.start \in Bars /\ intent.window.end \in Bars
    /\ thread.hint \in OptBars /\ thread.known \in OptBars
    /\ thread.window \in Windows
    /\ thread.window.start \in Bars /\ thread.window.end \in Bars
    /\ thread.used \in 0..MaxWindows
    /\ loop.open \in Bars /\ loop.exp \in OptBars

\* The numeric fields are bars, before a step.
LEMMA NumbersHold == TypeOK => Numbers
BY DEF TypeOK, Numbers, Facts, Intents, Threads, Windows, Loops

\* The numeric fields are bars, after a step.
LEMMA NumbersNext == TypeOK' => Numbers'
BY DEF TypeOK, Numbers, Facts, Intents, Threads, Windows, Loops

\* on_outcome yields well-formed facts whose frontier is the old one or the
\* new bar.
LEMMA OutcomeShape ==
    ASSUME TypeOK
    PROVE  /\ OutcomeFacts \in Facts
           /\ OutcomeFacts.frontier \in {facts.frontier, loop.open}
           /\ facts.fatal => OutcomeFacts.fatal
<1>1. facts \in Facts /\ loop.open \in Bars /\ NoBar \in OptBars
  BY DEF TypeOK, Loops, OptBars
<1>2. CASE loop.class = "failed"
  BY <1>1, <1>2, RecordFailedShape DEF OutcomeFacts
<1>3. CASE loop.class = "rejected"
  BY <1>1, <1>3, RecordRejectedShape DEF OutcomeFacts
<1>4. CASE loop.class \notin {"failed", "rejected"}
  <2> DEFINE f == RecordSuccess(facts, loop.open)
  <2>1. /\ f \in Facts
        /\ f.frontier \in {facts.frontier, loop.open}
        /\ f.fatal = facts.fatal
    BY <1>1, RecordSuccessShape DEF ExtendFrontier, Later
  <2>2. OutcomeFacts \in {f, RequireRecovery(f, "recovery_required", NoBar)}
    BY <1>4 DEF OutcomeFacts
  <2> HIDE DEF f
  <2> QED
    <3>1. "recovery_required" \in Statuses
      BY DEF Statuses
    <3>2. /\ RequireRecovery(f, "recovery_required", NoBar) \in Facts
          /\ RequireRecovery(f, "recovery_required", NoBar).frontier = f.frontier
          /\ RequireRecovery(f, "recovery_required", NoBar).fatal = f.fatal
      BY <1>1, <2>1, <3>1, RequireRecoveryShape
    <3> QED
      BY <2>1, <2>2, <3>2
<1> QED
  BY <1>2, <1>3, <1>4

\* The sweep decides for a lifecycle state or for none.
LEMMA SyncTargetType ==
    ASSUME NEW state, NEW f, NEW e
    PROVE  SyncTarget(state, f, e) \in LifecycleStates \cup {"none"}
BY DEF SyncTarget, LifecycleStates

\* update_stream yields a well-formed projection and an idle or ingesting
\* loop.
LEMMA FinishSyncShape ==
    ASSUME TypeOK, Bounded, NEW state, FinishSync(state)
    PROVE  /\ loop' \in Loops
           /\ loop'.open <= bar
           /\ loop'.pc \in {"idle", "ingest"} /\ loop'.then = "idle"
           /\ loop'.pc = "ingest" => loop.then = "ingest"
           /\ published' \in Published
<1>1. Idle \in Loops /\ Idle.open = 0 /\ Idle.pc = "idle" /\ Idle.then = "idle"
  BY LoopTypes DEF Idle
<1>2. published' \in Published
  BY DEF FinishSync, Published, NotReady, TypeOK, Loops, OptBars
<1>3. CASE loop.then = "ingest"
  BY <1>1, <1>2, <1>3 DEF FinishSync, TypeOK, Bounded, Loops
<1>4. CASE loop.then # "ingest"
  BY <1>1, <1>2, <1>4, ConstantFacts DEF FinishSync, TypeOK
<1> QED
  BY <1>3, <1>4

\* After a mark the sweep goes on to mark_ready or ends.
LEMMA MarkedShape ==
    ASSUME TypeOK, Bounded, Marked
    PROVE  /\ loop' \in Loops
           /\ loop'.open <= bar
           /\ loop'.pc \in {"idle", "ingest", "mark"}
           /\ loop'.then \in {loop.then, "idle"}
           /\ loop'.pc = "ingest" => loop.then = "ingest"
           /\ published' \in Published
<1>1. CASE loop.target = "connecting"
  BY <1>1 DEF Marked, TypeOK, Bounded, Loops, LifecycleStates
<1>2. CASE loop.target # "connecting"
  BY <1>2, FinishSyncShape DEF Marked
<1> QED
  BY <1>1, <1>2

PCs == {"idle", "gate", "unavailable", "read", "plan", "ensure", "repair",
        "audit", "repairing", "import", "postaudit", "target", "restore", "done"}
Results == {"none", "restored", "incomplete", "recoverable", "fatal"}

\* A step of the attempt that only moves on.
LEMMA GotoShape ==
    ASSUME thread \in Threads, NEW pc \in PCs, Goto(pc)
    PROVE  /\ thread' \in Threads
           /\ thread'.pc = pc
           /\ thread'.hint = thread.hint /\ thread'.known = thread.known
           /\ thread'.window = thread.window /\ thread'.todo = thread.todo
           /\ thread'.used = thread.used /\ thread'.result = thread.result
BY DEF Goto, PCs, Threads

\* A step of the attempt that returns a result.
LEMMA ReturnShape ==
    ASSUME thread \in Threads, NEW r \in Results, Return(r)
    PROVE  /\ thread' \in Threads
           /\ thread'.pc = "done" /\ thread'.result = r
           /\ thread'.hint = thread.hint /\ thread'.known = thread.known
           /\ thread'.window = thread.window /\ thread'.todo = {}
           /\ thread'.used = 0
<1>1. {} \in SUBSET Bars /\ 0 \in 0..MaxWindows
  BY ConstantFacts
<1>2. thread' = [thread EXCEPT !.pc = "done", !.result = r, !.todo = {}, !.used = 0]
  BY DEF Return
<1> QED
  BY <1>1, <1>2 DEF Results, Threads

\* A lifecycle transaction of the attempt either goes on or ends it.
LEMMA TransitionShape ==
    ASSUME thread \in Threads, durable \in LifecycleStates,
           NEW from, NEW to \in LifecycleStates, NEW next \in PCs,
           Transition(from, to, next)
    PROVE  /\ durable' \in LifecycleStates
           /\ Goto(next) \/ Return("fatal")
BY DEF Transition

\* What every step of the attempt leaves alone, and what its type needs.
OutsideThread == <<bar, inGrace, history, admitted, disconnected, facts, intent,
                   loop, published, notified>>

\* The attempt changes stored bars, the lifecycle and itself, nothing in
\* memory.
LEMMA AttemptFrame ==
    ASSUME TypeOK, Bounded, UNCHANGED OutsideThread,
           durable' \in LifecycleStates,
           candles' \subseteq Bars, latest' \in OptBars, latest' <= bar,
           thread' \in Threads, thread'.known <= bar,
           thread'.window.end <= bar + 1, thread'.todo \subseteq 0..bar
    PROVE  TypeOK' /\ Bounded'
<1>1. TypeOK'
  BY DEF TypeOK, OutsideThread
<1>2. Bounded'
  BY DEF Bounded, OutsideThread
<1> QED
  BY <1>1, <1>2

\* Every step of the recovery thread keeps the types and the bounds.
LEMMA AttemptType == TypeOK /\ Bounded /\ Attempt => TypeOK' /\ Bounded'
<1> SUFFICES ASSUME TypeOK, Bounded, Attempt
             PROVE  TypeOK' /\ Bounded'
  OBVIOUS
<1>c. Numbers
  BY NumbersHold
<1>d. thread \in Threads /\ durable \in LifecycleStates /\ candles \subseteq Bars
  BY DEF TypeOK
<1> USE <1>c, ConstantFacts DEF Numbers, OptBars, Bars, NoBar
<1>1. CASE MarkUnavailable
  <2>1. durable' \in LifecycleStates
    BY <1>1, <1>d DEF MarkUnavailable, LifecycleStates
  <2>2. thread' \in Threads /\ thread'.known <= bar
        /\ thread'.window = thread.window /\ thread'.todo \subseteq thread.todo
    <3>1. CASE thread.window = NoWindow
      <4>1. Goto("read")
        BY <1>1, <3>1 DEF MarkUnavailable, Goto
      <4> QED
        BY <1>d, <4>1, GotoShape DEF PCs, Bounded
    <3>2. CASE thread.window # NoWindow
      <4>1. thread' = [ThreadIdle EXCEPT !.pc = "ensure", !.window = thread.window]
        BY <1>1, <3>2 DEF MarkUnavailable
      <4>2. thread' \in Threads
        BY <4>1, ThreadTypes DEF Threads
      <4>3. thread'.known = NoBar /\ thread'.window = thread.window
            /\ thread'.todo = {}
        BY <4>1, ThreadTypes DEF Threads
      <4> QED
        BY <4>2, <4>3
    <3> QED
      BY <3>1, <3>2
  <2>3. UNCHANGED OutsideThread /\ UNCHANGED <<candles, latest>>
    BY <1>1 DEF MarkUnavailable, OutsideThread
  <2> QED
    BY <1>d, <2>1, <2>2, <2>3, AttemptFrame DEF Bounded
<1>2. CASE DeriveRead
  <2>1. thread' \in Threads /\ thread'.known = latest
        /\ thread'.window = thread.window /\ thread'.todo = thread.todo
    BY <1>2, <1>d DEF DeriveRead, Threads
  <2>2. UNCHANGED OutsideThread /\ UNCHANGED <<candles, latest, durable>>
    BY <1>2 DEF DeriveRead, OutsideThread
  <2> QED
    BY <1>d, <2>1, <2>2, AttemptFrame DEF Bounded
<1>3. CASE DerivePlan
  <2>1. UNCHANGED OutsideThread /\ UNCHANGED <<candles, latest, durable>>
    BY <1>3 DEF DerivePlan, OutsideThread
  <2>2. CASE thread.known = NoBar
    <3>1. Return("incomplete")
      BY <1>3, <2>2 DEF DerivePlan
    <3>2. /\ thread' \in Threads /\ thread'.known = thread.known
          /\ thread'.window = thread.window /\ thread'.todo = {}
      BY <1>d, <3>1, ReturnShape DEF Results
    <3> QED
      BY <1>d, <2>1, <3>2, AttemptFrame DEF Bounded
  <2>3. CASE thread.known # NoBar
    <3> DEFINE w == DeriveWindow(thread.hint, thread.known, bar)
    <3>1. w \in Windows /\ w.end <= bar + 1
      BY <2>3 DEF DeriveWindow, Earlier, Windows, Bounded
    <3> HIDE DEF w
    <3>2. thread' = [ThreadIdle EXCEPT !.pc = "ensure", !.window = w]
      BY <1>3, <2>3 DEF DerivePlan, w
    <3>3. /\ thread' \in Threads /\ thread'.known = NoBar
          /\ thread'.window = w /\ thread'.todo = {}
      BY <3>1, <3>2, ThreadTypes DEF Threads
    <3> QED
      BY <1>d, <2>1, <3>1, <3>3, AttemptFrame DEF Bounded
  <2> QED
    BY <2>2, <2>3
<1>4. ASSUME NEW next \in PCs, UNCHANGED OutsideThread,
             UNCHANGED <<candles, latest>>, durable' \in LifecycleStates,
             Goto(next) \/ Return("fatal")
      PROVE  TypeOK' /\ Bounded'
  <2>1. /\ thread' \in Threads /\ thread'.known = thread.known
        /\ thread'.window = thread.window
        /\ thread'.todo \in {thread.todo, {}}
    BY <1>4, <1>d, GotoShape, ReturnShape DEF Results
  <2> QED
    BY <1>4, <1>d, <2>1, AttemptFrame DEF Bounded
<1>5. CASE EnsureAuditing
  <2>1. durable' \in LifecycleStates /\ (Goto("repair") \/ Return("fatal"))
    BY <1>5, <1>d, TransitionShape DEF EnsureAuditing, LifecycleStates, PCs
  <2>2. UNCHANGED OutsideThread /\ UNCHANGED <<candles, latest>>
    BY <1>5 DEF EnsureAuditing, OutsideThread
  <2> QED
    BY <1>4, <2>1, <2>2 DEF PCs
<1>6. CASE RepairEnsureAuditing
  <2>1. durable' \in LifecycleStates /\ (Goto("audit") \/ Return("fatal"))
    BY <1>6, <1>d, TransitionShape DEF RepairEnsureAuditing, LifecycleStates, PCs
  <2>2. UNCHANGED OutsideThread /\ UNCHANGED <<candles, latest>>
    BY <1>6 DEF RepairEnsureAuditing, OutsideThread
  <2> QED
    BY <1>4, <2>1, <2>2 DEF PCs
<1>7. CASE PreAudit
  <2>1. Missing(thread.window) \subseteq 0..bar
    BY DEF Missing, Bounded
  <2>2. thread' \in Threads /\ thread'.known = thread.known
        /\ thread'.window = thread.window
        /\ thread'.todo \in {thread.todo, Missing(thread.window)}
    <3>1. Missing(thread.window) \in SUBSET Bars
      BY <2>1
    <3>2. \/ thread' = [thread EXCEPT !.pc = "target"]
          \/ thread' = [thread EXCEPT !.pc = "repairing",
                                      !.todo = Missing(thread.window)]
      BY <1>7 DEF PreAudit
    <3> QED
      BY <1>d, <3>1, <3>2 DEF Threads
  <2>3. UNCHANGED OutsideThread /\ UNCHANGED <<candles, latest, durable>>
    BY <1>7 DEF PreAudit, OutsideThread
  <2> QED
    BY <1>d, <2>1, <2>2, <2>3, AttemptFrame DEF Bounded
<1>8. CASE TransitionToRepairing
  <2>1. durable' \in LifecycleStates /\ (Goto("import") \/ Return("fatal"))
    BY <1>8, <1>d, TransitionShape DEF TransitionToRepairing, LifecycleStates, PCs
  <2>2. UNCHANGED OutsideThread /\ UNCHANGED <<candles, latest>>
    BY <1>8 DEF TransitionToRepairing, OutsideThread
  <2> QED
    BY <1>4, <2>1, <2>2 DEF PCs
<1>9. ASSUME NEW served \in SUBSET NextWindow(thread.todo), RepairWindow(served)
      PROVE  TypeOK' /\ Bounded'
  <2>1. served \subseteq 0..bar
    BY DEF NextWindow, Bounded
  <2>2. candles' \subseteq Bars /\ latest' \in OptBars /\ latest' <= bar
    BY <1>9, <1>d, <2>1 DEF RepairWindow, Bounded
  <2>3. thread' \in Threads /\ thread'.known = thread.known
        /\ thread'.window = thread.window /\ thread'.todo \subseteq thread.todo
    <3> DEFINE todo == thread.todo \ NextWindow(thread.todo)
               committed == thread.committed \/ served \ candles # {}
    <3>1. thread' = [thread EXCEPT !.todo = todo, !.used = thread.used + 1,
                                   !.committed = committed]
      BY <1>9 DEF RepairWindow
    <3>2. todo \in SUBSET Bars /\ todo \subseteq thread.todo
      BY <1>d DEF Threads
    <3>3. thread.used + 1 \in 0..MaxWindows
      BY <1>9 DEF RepairWindow
    <3>4. committed \in BOOLEAN
      BY <1>d DEF Threads
    <3> HIDE DEF todo, committed
    <3> QED
      BY <1>d, <3>1, <3>2, <3>3, <3>4 DEF Threads
  <2>4. UNCHANGED OutsideThread /\ UNCHANGED durable
    BY <1>9 DEF RepairWindow, OutsideThread
  <2> QED
    BY <1>d, <2>2, <2>3, <2>4, AttemptFrame DEF Bounded
<1>10. CASE RepairFails
  <2>1. PICK r \in {"recoverable", "fatal"} : Return(r)
    BY <1>10 DEF RepairFails
  <2>2. durable' \in LifecycleStates
    BY <1>10, <1>d DEF RepairFails, LifecycleStates
  <2>3. /\ thread' \in Threads /\ thread'.known = thread.known
        /\ thread'.window = thread.window /\ thread'.todo = {}
    BY <1>d, <2>1, ReturnShape DEF Results
  <2>4. UNCHANGED OutsideThread /\ UNCHANGED <<candles, latest>>
    BY <1>10 DEF RepairFails, OutsideThread
  <2> QED
    BY <1>d, <2>2, <2>3, <2>4, AttemptFrame DEF Bounded
<1>11. CASE RepairingToAuditing
  <2>1. durable' \in LifecycleStates
    BY <1>11, <1>d DEF RepairingToAuditing, LifecycleStates
  <2>2. /\ thread' \in Threads /\ thread'.known = thread.known
        /\ thread'.window = thread.window /\ thread'.todo = {}
    <3>1. {} \in SUBSET Bars /\ 0 \in 0..MaxWindows
      OBVIOUS
    <3>2. thread' = [thread EXCEPT !.pc = "postaudit", !.todo = {}, !.used = 0]
      BY <1>11 DEF RepairingToAuditing
    <3> QED
      BY <1>d, <3>1, <3>2 DEF Threads
  <2>3. UNCHANGED OutsideThread /\ UNCHANGED <<candles, latest>>
    BY <1>11 DEF RepairingToAuditing, OutsideThread
  <2> QED
    BY <1>d, <2>1, <2>2, <2>3, AttemptFrame DEF Bounded
<1>12. CASE PostAudit
  <2>1. Goto("target") \/ Return("incomplete")
    BY <1>12 DEF PostAudit
  <2>2. /\ thread' \in Threads /\ thread'.known = thread.known
        /\ thread'.window = thread.window
        /\ thread'.todo \in {thread.todo, {}}
    BY <1>d, <2>1, GotoShape, ReturnShape DEF Results, PCs
  <2>3. UNCHANGED OutsideThread /\ UNCHANGED <<candles, latest, durable>>
    BY <1>12 DEF PostAudit, OutsideThread
  <2> QED
    BY <1>d, <2>2, <2>3, AttemptFrame DEF Bounded
<1>13. CASE CheckTarget
  <2>1. UNCHANGED OutsideThread /\ UNCHANGED <<candles, latest, durable>>
    BY <1>13 DEF CheckTarget, OutsideThread
  <2>2. /\ thread' \in Threads /\ thread'.known = thread.known
        /\ thread'.window.end <= bar + 1 /\ thread'.todo = thread.todo
    <3>1. CASE bar > thread.window.end
      <4> DEFINE w == [start |-> thread.window.end, end |-> bar]
      <4>1. w \in Windows /\ w.end <= bar + 1
        BY DEF Windows
      <4>2. thread' = [thread EXCEPT !.pc = "done", !.result = "incomplete",
                                     !.window = w]
        BY <1>13, <3>1 DEF CheckTarget
      <4> QED
        BY <1>d, <4>1, <4>2 DEF Threads
    <3>2. CASE ~(bar > thread.window.end)
      <4>1. Goto("restore")
        BY <1>13, <3>2 DEF CheckTarget
      <4> QED
        BY <1>d, <4>1, GotoShape DEF PCs, Bounded
    <3> QED
      BY <3>1, <3>2
  <2> QED
    BY <1>d, <2>1, <2>2, AttemptFrame DEF Bounded
<1>14. CASE MarkRestored
  <2>1. durable' \in LifecycleStates
    BY <1>14, <1>d DEF MarkRestored, LifecycleStates
  <2>2. Return("restored")
    BY <1>14 DEF MarkRestored
  <2>3. /\ thread' \in Threads /\ thread'.known = thread.known
        /\ thread'.window = thread.window /\ thread'.todo = {}
    BY <1>d, <2>2, ReturnShape DEF Results
  <2>4. UNCHANGED OutsideThread /\ UNCHANGED <<candles, latest>>
    BY <1>14 DEF MarkRestored, OutsideThread
  <2> QED
    BY <1>d, <2>1, <2>3, <2>4, AttemptFrame DEF Bounded
<1>15. CASE ThreadFault
  <2>1. UNCHANGED OutsideThread /\ UNCHANGED <<candles, latest, durable>>
    BY <1>15 DEF ThreadFault, OutsideThread
  <2>2. Return("fatal")
    BY <1>15 DEF ThreadFault
  <2> QED
    BY <1>4, <1>d, <2>1, <2>2 DEF PCs
<1> QED
  BY <1>1, <1>2, <1>3, <1>5, <1>6, <1>7, <1>8, <1>9, <1>10, <1>11, <1>12, <1>13,
     <1>14, <1>15 DEF Attempt

\* Every step of the runtime keeps the types and the bounds.
LEMMA StepType == TypeOK /\ Bounded /\ [Next]_vars => TypeOK' /\ Bounded'
<1> SUFFICES ASSUME TypeOK, Bounded, [Next]_vars
             PROVE  TypeOK' /\ Bounded'
  OBVIOUS
<1>c. Numbers
  BY NumbersHold
<1> USE <1>c, ConstantFacts DEF Numbers, OptBars, Bars, NoBar
<1>a. NoWindow \in Windows /\ NoWindow.start = 0 /\ NoWindow.end = 0
  BY DEF NoWindow, Windows
<1>d. intent.window.end <= bar + 1 /\ NoWindow.end <= bar + 1
  BY <1>a DEF Bounded
<1>b. /\ \A o \in {"task", "session"} : Syncing(o) \in Loops /\ Syncing(o).open = 0
      /\ Expected \in OptBars
  BY LoopTypes, SyncingShape, ExpectedType
<1>1. CASE Tick
  <2>1. bar' \in 1..MaxBar /\ bar' >= bar
    BY <1>1 DEF Tick, TypeOK
  <2>2. inGrace' \in BOOLEAN
    BY <1>1 DEF Tick, TypeOK
  <2>3. TypeOK'
    BY <1>1, <2>1, <2>2 DEF Tick, TypeOK
  <2>4. Bounded'
    BY <1>1, <2>1, <2>2 DEF Tick, Bounded
  <2> QED BY <2>3, <2>4
<1>2. CASE HistoricalProof
  <2>1. PICK end \in (latest + 1)..bar :
           /\ end > 0
           /\ candles' = candles \cup 0..(end - 1)
           /\ latest' = end - 1
           /\ notified' = end - 1
    BY <1>2 DEF HistoricalProof
  <2>2. /\ candles' \subseteq Bars
        /\ latest' \in OptBars /\ notified' \in OptBars
        /\ latest' <= bar
    BY <2>1 DEF TypeOK
  <2> QED
    BY <1>2, <2>2 DEF HistoricalProof, TypeOK, Bounded, LifecycleStates
<1>3. CASE Admit
  <2>1. Enqueue(intent, NoBar, FALSE) \in Intents
        /\ Enqueue(intent, NoBar, FALSE).window \in {intent.window, NoWindow}
    BY EnqueueType DEF TypeOK
  <2>2. intent' \in Intents /\ intent'.window.end <= bar + 1
    <3>1. intent' \in {intent, Enqueue(intent, NoBar, FALSE)}
      BY <1>3 DEF Admit
    <3>2. intent' \in Intents /\ intent'.window \in {intent.window, NoWindow}
      BY <2>1, <3>1 DEF TypeOK
    <3> QED
      BY <1>d, <3>2
  <2>3. facts' \in Facts /\ facts'.frontier <= bar
    BY <1>3 DEF Admit, SynchronizeSuccessful, TypeOK, Bounded, Facts, Later
  <2>4. loop' \in Loops /\ loop'.open <= bar
    BY <1>3, <1>b DEF Admit
  <2>5. TypeOK'
    BY <1>3, <2>2, <2>3, <2>4 DEF Admit, TypeOK
  <2>6. Bounded'
    BY <1>3, <2>2, <2>3, <2>4 DEF Admit, Bounded
  <2> QED
    BY <2>5, <2>6
<1>4. CASE SubscriptionConfirmed
  <2> DEFINE subscribed == [facts EXCEPT !.status = "subscribed", !.sub = TRUE]
             known == IF disconnected
                      THEN RequireRecovery(subscribed, "recovery_required", NoBar)
                      ELSE subscribed
             started == IF admitted /\ ~known.restored
                        THEN Enqueue(intent, NoBar, FALSE) ELSE intent
             hint == SignalHint(known, NoBar)
  <2>1. subscribed \in Facts /\ subscribed.frontier = facts.frontier
    BY DEF TypeOK, Facts, Statuses
  <2> HIDE DEF subscribed
  <2>2. known \in Facts /\ known.frontier = facts.frontier
    BY <2>1, RequireRecoveryShape DEF Statuses
  <2> HIDE DEF known
  <2>3. hint \in OptBars
    BY <2>2, SignalHintType DEF Bounded
  <2> HIDE DEF hint
  <2>4. Enqueue(intent, NoBar, FALSE) \in Intents
        /\ Enqueue(intent, NoBar, FALSE).window \in {intent.window, NoWindow}
    BY EnqueueType DEF TypeOK
  <2>5. started \in Intents /\ started.window \in {intent.window, NoWindow}
    BY <2>4 DEF TypeOK
  <2> HIDE DEF started
  <2>a. facts' = known
    BY <1>4 DEF SubscriptionConfirmed, subscribed, known
  <2>6. facts' = known /\ intent' = IF admitted /\ disconnected
                                    THEN Enqueue(started, hint, FALSE)
                                    ELSE started
    BY <1>4 DEF SubscriptionConfirmed, subscribed, known, started, hint
  <2>7. intent' \in Intents /\ intent'.window \in {intent.window, NoWindow}
    BY <2>3, <2>5, <2>6, EnqueueType
  <2>8. TypeOK'
    BY <1>4, <1>b, <2>2, <2>6, <2>7 DEF SubscriptionConfirmed, TypeOK
  <2>9. Bounded'
    <3>1. intent'.window.end <= bar + 1
      BY <1>d, <2>7
    <3>2. loop' = Syncing("session") /\ UNCHANGED <<bar, latest, thread>>
      BY <1>4 DEF SubscriptionConfirmed
    <3> QED
      BY <1>b, <2>2, <2>a, <3>1, <3>2 DEF Bounded
  <2> QED
    BY <2>8, <2>9
<1>5. CASE Disconnect
  <2>1. facts' \in Facts /\ facts'.frontier = facts.frontier
    BY <1>5, MarkDisconnectedShape DEF Disconnect, TypeOK
  <2>2. TypeOK'
    BY <1>5, <1>b, <2>1 DEF Disconnect, TypeOK
  <2>3. Bounded'
    BY <1>5, <1>b, <2>1 DEF Disconnect, Bounded
  <2> QED
    BY <2>2, <2>3
<1>6. CASE LiveCandle
  <2>1. PICK open \in 0..(bar - 1 + Lead) :
          loop' = [Syncing("session") EXCEPT !.then = "ingest", !.open = open]
    BY <1>6 DEF LiveCandle
  <2>2. open \in Bars /\ open <= bar
    OBVIOUS
  <2>3. Syncing("session") \in Loops
    BY <1>b
  <2>4. loop' \in Loops /\ loop'.open = open
    BY <2>1, <2>2, <2>3 DEF Loops
  <2>5. TypeOK'
    BY <1>6, <2>4 DEF LiveCandle, TypeOK
  <2>6. Bounded'
    BY <1>6, <2>2, <2>4 DEF LiveCandle, Bounded
  <2> QED
    BY <2>5, <2>6
<1>7. CASE IngestLive
  <2>1. loop' \in Loops /\ loop'.open = loop.open
    BY <1>7 DEF IngestLive, TypeOK, Loops
  <2>2. candles' \subseteq Bars /\ latest' \in OptBars /\ latest' <= bar
    BY <1>7 DEF IngestLive, TypeOK, Bounded, Later
  <2>3. TypeOK'
    BY <1>7, <2>1, <2>2 DEF IngestLive, TypeOK
  <2>4. Bounded'
    BY <1>7, <2>1, <2>2 DEF IngestLive, Bounded
  <2> QED
    BY <2>3, <2>4
<1>8. CASE OnOutcome
  <2> DEFINE hint == SignalHint(OutcomeFacts, loop.open)
             signalled == IF OutcomeSignals THEN Enqueue(intent, hint, FALSE)
                                            ELSE intent
  <2>1. OutcomeFacts \in Facts /\ OutcomeFacts.frontier <= bar
    BY OutcomeShape DEF Bounded
  <2>2. hint \in OptBars
    BY <2>1, SignalHintType DEF Facts
  <2> HIDE DEF hint
  <2>3. Enqueue(intent, hint, FALSE) \in Intents
        /\ Enqueue(intent, hint, FALSE).window \in {intent.window, NoWindow}
    BY <2>2, EnqueueType DEF TypeOK
  <2>4. signalled \in Intents /\ signalled.window \in {intent.window, NoWindow}
    BY <2>3 DEF TypeOK
  <2>5. intent' = [signalled EXCEPT !.retry =
                     @ \/ (loop.class = "committed" /\ signalled.exists)]
    BY <1>8 DEF OnOutcome, hint
  <2> HIDE DEF signalled
  <2>6. intent' \in Intents /\ intent'.window \in {intent.window, NoWindow}
    BY <2>4, <2>5 DEF Intents
  <2>7. notified' \in OptBars
    BY <1>8 DEF OnOutcome, Later
  <2>8. TypeOK'
    BY <1>8, <1>b, <2>1, <2>6, <2>7 DEF OnOutcome, TypeOK
  <2>9. Bounded'
    <3>1. intent'.window.end <= bar + 1
      BY <1>d, <2>6
    <3>2. /\ facts' = OutcomeFacts /\ loop' = Syncing("session")
          /\ UNCHANGED <<bar, latest, thread>>
      BY <1>8 DEF OnOutcome
    <3> QED
      BY <1>b, <2>1, <3>1, <3>2 DEF Bounded
  <2> QED
    BY <2>8, <2>9
<1>9. CASE StaleCheck
  <2>1. facts' \in Facts /\ facts'.frontier = facts.frontier
    <3>1. CASE StaleNow
      <4>1. facts' = RequireRecovery(facts, "stale", Expected)
        BY <1>9, <3>1 DEF StaleCheck
      <4>2. facts \in Facts /\ "stale" \in Statuses /\ Expected \in OptBars
        BY <1>b DEF TypeOK, Statuses
      <4> QED
        BY <4>1, <4>2, RequireRecoveryShape
    <3>2. CASE ~StaleNow
      BY <1>9, <3>2 DEF StaleCheck, TypeOK
    <3> QED
      BY <3>1, <3>2
  <2>2. intent' \in Intents /\ intent'.window \in {intent.window, NoWindow}
    <3> DEFINE hint == SignalHint(facts, facts.frontier + 1)
    <3>1. hint \in OptBars
      BY SignalHintType DEF TypeOK, Bounded
    <3> HIDE DEF hint
    <3>2. Enqueue(intent, hint, TRUE) \in Intents
          /\ Enqueue(intent, hint, TRUE).window \in {intent.window, NoWindow}
      BY <3>1, EnqueueType DEF TypeOK
    <3>3. intent' \in {intent, Enqueue(intent, hint, TRUE)}
      BY <1>9 DEF StaleCheck, hint
    <3> QED
      BY <3>2, <3>3 DEF TypeOK
  <2>3. TypeOK'
    BY <1>9, <1>b, <2>1, <2>2 DEF StaleCheck, TypeOK
  <2>4. Bounded'
    <3>1. intent'.window.end <= bar + 1
      BY <1>d, <2>2
    <3> QED
      BY <1>9, <1>b, <2>1, <3>1 DEF StaleCheck, Bounded
  <2> QED
    BY <2>3, <2>4
<1>10. CASE SyncRead
  <2>1. loop' \in Loops /\ loop'.open <= bar /\ published' \in Published
    <3> DEFINE target == IF admitted THEN SyncTarget(durable, facts, loop.exp)
                                     ELSE "none"
    <3>1. target \in LifecycleStates \cup {"none"}
      BY SyncTargetType
    <3>2. IF target = "none"
          THEN FinishSync(durable)
          ELSE /\ loop' = [loop EXCEPT !.pc = "mark", !.target = target]
               /\ UNCHANGED published
      BY <1>10 DEF SyncRead
    <3> HIDE DEF target
    <3>3. CASE target = "none"
      BY <3>2, <3>3, FinishSyncShape
    <3>4. CASE target # "none"
      BY <3>1, <3>2, <3>4 DEF TypeOK, Loops, Bounded
    <3> QED
      BY <3>3, <3>4
  <2>2. TypeOK'
    BY <1>10, <2>1 DEF SyncRead, TypeOK
  <2>3. Bounded'
    BY <1>10, <2>1 DEF SyncRead, Bounded
  <2> QED
    BY <2>2, <2>3
<1>11. CASE MarkRead
  <2>1. loop' \in Loops /\ loop'.open <= bar /\ published' \in Published
    BY <1>11, MarkedShape DEF MarkRead, TypeOK, Loops, Bounded
  <2>2. TypeOK'
    BY <1>11, <2>1 DEF MarkRead, TypeOK
  <2>3. Bounded'
    BY <1>11, <2>1 DEF MarkRead, Bounded
  <2> QED
    BY <2>2, <2>3
<1>12. CASE MarkCommit
  <2>1. loop' \in Loops /\ loop'.open <= bar /\ published' \in Published
    BY <1>12, MarkedShape DEF MarkCommit
  <2>2. durable' \in LifecycleStates
    BY <1>12 DEF MarkCommit, TypeOK, Loops
  <2>3. TypeOK'
    BY <1>12, <2>1, <2>2 DEF MarkCommit, TypeOK
  <2>4. Bounded'
    BY <1>12, <2>1 DEF MarkCommit, Bounded
  <2> QED
    BY <2>3, <2>4
<1>13. CASE MarkRaises
  <2>1. loop' \in Loops /\ loop'.open <= bar
    BY <1>13, <1>b, LoopTypes DEF MarkRaises, TypeOK, Idle, Loops
  <2>2. facts' \in Facts /\ facts'.frontier = facts.frontier /\ disconnected' \in BOOLEAN
    BY <1>13, MarkDisconnectedShape DEF MarkRaises, TypeOK
  <2>3. TypeOK'
    BY <1>13, <2>1, <2>2 DEF MarkRaises, TypeOK
  <2>4. Bounded'
    BY <1>13, <2>1, <2>2 DEF MarkRaises, Bounded
  <2> QED
    BY <2>3, <2>4
<1>14. CASE WorkerTake
  <2>1. thread' \in Threads /\ thread'.known <= bar /\ thread'.window.end <= bar + 1
        /\ thread'.todo = {}
    BY <1>14, ThreadTypes DEF WorkerTake, Threads
  <2>2. intent' \in Intents /\ intent'.window = intent.window
    BY <1>14 DEF WorkerTake, TypeOK, Intents
  <2>3. TypeOK'
    BY <1>14, <2>1, <2>2 DEF WorkerTake, TypeOK
  <2>4. Bounded'
    BY <1>14, <2>1, <2>2 DEF WorkerTake, Bounded
  <2> QED
    BY <2>3, <2>4
<1>15. CASE GateAcquired
  <2>1. thread' \in Threads /\ thread'.known <= bar /\ thread'.window.end <= bar + 1
        /\ thread'.todo = thread.todo
    BY <1>15 DEF GateAcquired, Threads, TypeOK, Bounded
  <2>3. TypeOK'
    BY <1>15, <2>1 DEF GateAcquired, TypeOK
  <2>4. Bounded'
    BY <1>15, <2>1 DEF GateAcquired, Bounded
  <2> QED
    BY <2>3, <2>4
<1>16. CASE WorkerResult
  <2> DEFINE fatal    == thread.result = "fatal"
             restored == thread.result = "restored" /\ ~intent.revised
             through  == thread.window.end - 1
             retry    == intent.retry \/ thread.committed
             frozen   == IF ~intent.revised /\ thread.result = "incomplete"
                         THEN thread.window ELSE intent.window
  <2>1. /\ facts' = RecordRecoveryResult(facts, restored, fatal, through)
        /\ thread' = ThreadIdle /\ loop' = Syncing("task")
        /\ notified' \in {notified, Later(notified, through)}
        /\ published' \in {published, NotReady}
        /\ UNCHANGED <<bar, inGrace, candles, latest, durable, history, admitted,
                       disconnected>>
    BY <1>16 DEF WorkerResult
  <2>2. \/ intent' = NoIntent
        \/ intent' = [intent EXCEPT !.retry = retry, !.revised = FALSE,
                                    !.window = frozen]
    BY <1>16 DEF WorkerResult, IntentAfter
  <2>3. through \in OptBars /\ through <= bar
    BY DEF Bounded
  <2>4. /\ facts' \in Facts
        /\ facts'.frontier \in {facts.frontier, Later(facts.frontier, through)}
    <3>1. facts \in Facts /\ restored \in BOOLEAN /\ fatal \in BOOLEAN
      BY DEF TypeOK
    <3> HIDE DEF restored, fatal, through
    <3>2. /\ RecordRecoveryResult(facts, restored, fatal, through) \in Facts
          /\ RecordRecoveryResult(facts, restored, fatal, through).frontier
                \in {facts.frontier, Later(facts.frontier, through)}
      BY <2>3, <3>1, RecordResultShape, Zenon
    <3> QED
      BY <2>1, <3>2, Zenon
  <2>5. frozen \in Windows /\ frozen.end <= bar + 1
    BY DEF Bounded
  <2>6. retry \in BOOLEAN
    BY DEF TypeOK, Intents, Threads
  <2> HIDE DEF retry, frozen
  <2>7. intent' \in Intents /\ intent'.window.end <= bar + 1
    <3>1. NoIntent \in Intents /\ NoIntent.window.end = 0
      BY <1>a DEF NoIntent, Intents
    <3>2. CASE intent' = NoIntent
      BY <3>1, <3>2
    <3>3. CASE intent' = [intent EXCEPT !.retry = retry, !.revised = FALSE,
                                        !.window = frozen]
      BY <3>3, <2>5, <2>6 DEF TypeOK, Intents
    <3> QED
      BY <2>2, <3>2, <3>3
  <2>8. notified' \in OptBars
    BY <2>1, <2>3 DEF Later
  <2>9. published' \in Published
    <3>1. NotReady \in Published
      BY DEF NotReady, Published
    <3> QED
      BY <2>1, <3>1 DEF TypeOK
  <2>10. TypeOK'
    BY <1>b, <2>1, <2>4, <2>7, <2>8, <2>9, ThreadTypes DEF TypeOK
  <2>11. facts'.frontier <= bar
    BY <2>3, <2>4 DEF Later, Bounded
  <2>12. Bounded'
    BY <1>b, <2>1, <2>7, <2>11, ThreadTypes DEF Bounded
  <2> QED
    BY <2>10, <2>12
<1>17. CASE loop.pc # "down" /\ Attempt
  BY <1>17, AttemptType
<1>18. CASE UNCHANGED vars
  <2>1. TypeOK'
    BY <1>18 DEF vars, TypeOK
  <2>2. Bounded'
    BY <1>18 DEF vars, Bounded
  <2> QED
    BY <2>1, <2>2
<1>19. CASE Ended
  BY <1>18, <1>19 DEF Ended
<1> QED
  BY <1>1, <1>2, <1>3, <1>4, <1>5, <1>6, <1>7, <1>8, <1>9, <1>10, <1>11, <1>12,
     <1>13, <1>14, <1>15, <1>16, <1>17, <1>18, <1>19 DEF Next, Sweep

\* Every value stays in its domain, for every bound, budget and set of faults:
\* no window, hint or frontier ever leaves the grid of bars.
THEOREM TypeCorrect == Spec => []TypeOK
<1>1. Init => TypeOK /\ Bounded
  BY InitType
<1>2. TypeOK /\ Bounded /\ [Next]_vars => (TypeOK /\ Bounded)'
  BY StepType
<1> QED
  BY <1>1, <1>2, PTL DEF Spec

-----------------------------------------------------------------------------
(* What an episode owes: the stale check's silence, the lifecycle's owner,  *)
(* and the notifications.                                                  *)

\* The fields of the facts after each update that the episode depends on.
LEMMA RequireRecoveryFields ==
    ASSUME NEW f \in Facts, NEW s \in Statuses, NEW e \in OptBars
    PROVE  /\ RequireRecovery(f, s, e) \in Facts
           /\ RequireRecovery(f, s, e).frontier = f.frontier
           /\ RequireRecovery(f, s, e).fatal = f.fatal
           /\ RequireRecovery(f, s, e).restored = FALSE
           /\ RequireRecovery(f, s, e).pending = TRUE
           /\ RequireRecovery(f, s, e).checked = f.checked
           /\ RequireRecovery(f, s, e).awaited \in {e, f.awaited}
           /\ e = NoBar => RequireRecovery(f, s, e).awaited = f.awaited
BY DEF RequireRecovery, Facts

\* mark_disconnected, record_success, record_rejected and record_failed leave
\* the checked and the awaited bar alone, and a wanted recovery stays wanted.
LEMMA UpdateFields ==
    ASSUME NEW f \in Facts, NEW o \in Bars,
           NEW g \in {MarkDisconnected(f), RecordSuccess(f, o), RecordRejected(f),
                      RecordFailed(f)}
    PROVE  /\ g.checked = f.checked
           /\ g.awaited = f.awaited
           /\ f.pending => g.pending
<1>1. CASE g = MarkDisconnected(f)
  BY <1>1 DEF MarkDisconnected, Facts
<1>2. CASE g = RecordSuccess(f, o)
  BY <1>2 DEF RecordSuccess, Facts
<1>3. CASE g = RecordRejected(f)
  BY <1>3 DEF RecordRejected, Facts
<1>4. CASE g = RecordFailed(f)
  BY <1>4 DEF RecordFailed, Facts
<1> QED
  BY <1>1, <1>2, <1>3, <1>4

\* record_recovery_result, in its three cases.
LEMMA ResultFields ==
    ASSUME NEW f \in Facts, NEW r \in BOOLEAN, NEW x \in BOOLEAN, NEW t \in OptBars
    PROVE  LET g == RecordRecoveryResult(f, r, x, t)
           IN  /\ x => /\ g.fatal /\ ~g.restored /\ g.checked = f.checked
                       /\ g.awaited = f.awaited /\ g.frontier = f.frontier
               /\ ~x /\ r => /\ g.fatal = f.fatal /\ g.restored
                             /\ g.checked = CommitChecked(f) /\ g.awaited = NoBar
                             /\ g.frontier = Later(f.frontier, t)
               /\ ~x /\ ~r => /\ g.fatal = f.fatal /\ ~g.restored /\ g.pending
                              /\ g.checked = f.checked /\ g.awaited = f.awaited
                              /\ g.frontier = f.frontier
<1> DEFINE g == RecordRecoveryResult(f, r, x, t)
<1>1. CASE x
  BY <1>1 DEF RecordRecoveryResult, Facts
<1>2. CASE ~x /\ r
  <2>1. g = [f EXCEPT !.status = IF f.sub THEN "subscribed"
                                          ELSE "recovery_required",
                      !.pending = FALSE, !.restored = TRUE,
                      !.checked = CommitChecked(f), !.awaited = NoBar,
                      !.frontier = Later(f.frontier, t)]
    BY <1>2 DEF RecordRecoveryResult
  <2> QED
    BY <1>2, <2>1 DEF Facts
<1>3. CASE ~x /\ ~r
  BY <1>3 DEF RecordRecoveryResult, Facts
<1> QED
  BY <1>1, <1>2, <1>3

\* j is the intent i after signals: it exists still, it has forgotten neither
\* that it was revised nor what it has to announce.
Grown(i, j) ==
    /\ i.exists => j.exists /\ (i.retry => j.retry) /\ (i.revised => j.revised)
    /\ j.window \in {i.window, NoWindow}

\* enqueue lets an intent grow.
LEMMA EnqueueGrows ==
    ASSUME NEW i \in Intents, NEW h \in OptBars, NEW b \in BOOLEAN
    PROVE  /\ Enqueue(i, h, b) \in Intents
           /\ Grown(i, Enqueue(i, h, b))
           /\ Enqueue(i, h, b).exists
           /\ Enqueue(i, h, b).hint \in {i.hint, h}
           /\ h # NoBar /\ i.exists /\ i.hint = NoBar => Enqueue(i, h, b).revised
           /\ ~i.exists => Enqueue(i, h, b).hint = h
<1>1. CASE ~i.exists
  BY <1>1, EnqueueFresh DEF Grown
<1>2. CASE i.exists
  <2>1. i.retry => Enqueue(i, h, b).retry
    BY <1>2 DEF Enqueue, Absorb, Intents
  <2> QED
    BY <1>2, <2>1, EnqueueMerged DEF Grown
<1> QED
  BY <1>1, <1>2

\* Goto and Return keep what the attempt committed.
LEMMA GotoCommitted ==
    ASSUME thread \in Threads, NEW pc \in PCs, Goto(pc)
    PROVE  thread'.committed = thread.committed
BY DEF Goto, Threads

\* A result does not forget it.
LEMMA ReturnCommitted ==
    ASSUME thread \in Threads, NEW r \in Results, Return(r)
    PROVE  thread'.committed = thread.committed
BY DEF Return, Threads

\* A new attempt has committed nothing.
LEMMA IdleCommitted == ThreadIdle.committed = FALSE
BY DEF ThreadIdle

\* A sweep that starts has no candle to ingest and wants nothing yet.
LEMMA SyncingTarget ==
    ASSUME NEW o \in {"task", "session"}
    PROVE  Syncing(o).target = "ready" /\ Syncing(o).pc = "sync" /\ Syncing(o).then = "idle"
BY DEF Syncing, Idle

Targets == {"failed", "connecting", "ready", "degraded"}

\* A handler of the event loop, or a step of its sweep.
LEMMA HandlerEpisode ==
    ASSUME TypeOK, TypeOK', EpisodeInv,
           UNCHANGED <<bar, candles, latest, thread>>,
           durable' = durable \/ durable' \in Targets,
           Grown(intent, intent'),
           facts.fatal => facts'.fatal,
           ~admitted' => ~intent'.exists /\ ~facts'.restored,
           ~admitted' => loop'.pc \in {"idle", "sync", "down"} /\ loop'.then = "idle",
           intent'.exists => ~facts'.restored,
           intent'.exists /\ intent'.hint # NoBar => facts'.pending,
           facts'.awaited < bar,
           facts'.checked <= facts'.frontier,
           facts'.awaited = facts.awaited \/ intent'.revised \/ thread.pc = "idle",
           loop'.target \in Targets,
           loop'.pc \in {"mark", "commit"} /\ loop'.target \in {"connecting", "ready"}
               => DataReady(facts', loop'.exp),
           notified <= notified',
           CommitInFlight => latest <= notified'
    PROVE  EpisodeInv'
<1>1. Numbers /\ Numbers'
  BY NumbersHold, NumbersNext
<1> USE <1>1, ConstantFacts DEF Numbers, OptBars, Bars, NoBar
<1>2. EpisodeOwned /\ CheckedHolds /\ StateHolds /\ StoredBelow /\ AnnounceHolds
  BY DEF EpisodeInv
<1>3. EpisodeOwned'
  <2>1. thread'.pc # "idle" => intent'.exists
    BY <1>2 DEF EpisodeOwned, Grown
  <2> QED
    BY <2>1 DEF EpisodeOwned, Targets
<1>4. Restoring' <=> Restoring
  BY DEF Restoring
<1>5. Restoring => intent.exists
  BY <1>2 DEF Restoring, EpisodeOwned
<1>6. CheckedHolds'
  <2>1. Restoring' /\ ~intent'.revised => facts'.awaited < thread'.window.end
    BY <1>2, <1>4, <1>5 DEF CheckedHolds, Grown, Restoring
  <2> QED
    BY <2>1 DEF CheckedHolds
<1>7. StateHolds'
  BY <1>2 DEF StateHolds, Grown, Targets
<1>8. StoredBelow'
  <2>1. ClosedOrStored(intent.window) /\ ClosedOrStored(thread.window)
    BY <1>2 DEF StoredBelow
  <2>2. ClosedOrStored(thread.window)'
    BY <2>1 DEF ClosedOrStored
  <2>3. ClosedOrStored(intent.window)'
    <3>1. CASE intent'.window = intent.window
      BY <2>1, <3>1 DEF ClosedOrStored
    <3>2. CASE intent'.window = NoWindow
      BY <3>2 DEF ClosedOrStored, NoWindow
    <3> QED
      BY <3>1, <3>2 DEF Grown
  <2> QED
    BY <1>2, <2>2, <2>3 DEF StoredBelow
<1>9. AnnounceHolds'
  BY <1>2, <1>4 DEF AnnounceHolds, Grown
<1> QED
  BY <1>3, <1>6, <1>7, <1>8, <1>9 DEF EpisodeInv

\* on_outcome keeps the checked and the awaited bar, does not move the frontier
\* back, and where it signals it also asks for recovery.
LEMMA OutcomeFields ==
    ASSUME TypeOK
    PROVE  /\ OutcomeFacts.checked = facts.checked
           /\ OutcomeFacts.awaited = facts.awaited
           /\ facts.fatal => OutcomeFacts.fatal
           /\ OutcomeFacts.frontier >= facts.frontier
           /\ facts.pending => OutcomeFacts.pending
           /\ OutcomeFacts.restored => facts.restored
           /\ OutcomeSignals => OutcomeFacts.pending /\ ~OutcomeFacts.restored
<1>1. facts \in Facts /\ loop.open \in Bars /\ NoBar \in OptBars
  BY DEF TypeOK, Loops, OptBars
<1>2. facts.frontier \in Int
  BY <1>1, ConstantFacts DEF Facts, OptBars, Bars, NoBar
<1>3. CASE loop.class = "failed"
  <2>1. OutcomeFacts = RecordFailed(facts) /\ ~OutcomeSignals
    BY <1>3 DEF OutcomeFacts, OutcomeSignals
  <2>2. /\ RecordFailed(facts).checked = facts.checked
        /\ RecordFailed(facts).awaited = facts.awaited
        /\ RecordFailed(facts).frontier = facts.frontier
        /\ RecordFailed(facts).restored = facts.restored
        /\ RecordFailed(facts).pending = facts.pending
        /\ RecordFailed(facts).fatal
    BY <1>1 DEF RecordFailed, Facts
  <2> QED
    BY <1>2, <2>1, <2>2
<1>4. CASE loop.class = "rejected"
  <2>1. OutcomeFacts = RecordRejected(facts)
    BY <1>4 DEF OutcomeFacts
  <2>2. /\ RecordRejected(facts).checked = facts.checked
        /\ RecordRejected(facts).awaited = facts.awaited
        /\ RecordRejected(facts).frontier = facts.frontier
        /\ RecordRejected(facts).fatal = facts.fatal
        /\ RecordRejected(facts).pending /\ ~RecordRejected(facts).restored
    BY <1>1 DEF RecordRejected, Facts
  <2> QED
    BY <1>2, <2>1, <2>2
<1>5. CASE loop.class \notin {"failed", "rejected"}
  <2> DEFINE f == RecordSuccess(facts, loop.open)
             jumps == facts.frontier # NoBar /\ loop.open > facts.frontier + 1
             r == RequireRecovery(f, "recovery_required", NoBar)
  <2>1. /\ f \in Facts /\ f.fatal = facts.fatal /\ f.restored = facts.restored
        /\ f.frontier = ExtendFrontier(facts.frontier, loop.open)
        /\ f.checked = facts.checked /\ f.awaited = facts.awaited
        /\ facts.pending => f.pending
    BY <1>1, RecordSuccessShape, UpdateFields
  <2>2. f.frontier >= facts.frontier
    BY <1>1, <1>2, <2>1, ConstantFacts DEF ExtendFrontier, Later, Bars
  <2> HIDE DEF f
  <2>3. "recovery_required" \in Statuses
    BY DEF Statuses
  <2>4. /\ r.frontier = f.frontier /\ r.fatal = f.fatal /\ r.restored = FALSE
        /\ r.pending = TRUE /\ r.checked = f.checked /\ r.awaited = f.awaited
    BY <1>1, <2>1, <2>3, RequireRecoveryFields
  <2>5. OutcomeFacts = IF jumps THEN r ELSE f
    BY <1>5 DEF OutcomeFacts, f
  <2>6. OutcomeSignals => jumps
    BY <1>5 DEF OutcomeSignals
  <2> HIDE DEF r, jumps
  <2> QED
    BY <2>1, <2>2, <2>4, <2>5, <2>6
<1> QED
  BY <1>3, <1>4, <1>5

\* A reconnect and a stale check ask for recovery and leave the rest alone.
LEMMA RequireAfter ==
    ASSUME TypeOK, NEW f \in Facts,
           NEW s \in {"recovery_required", "stale"}, NEW e \in {NoBar, Expected}
    PROVE  LET g == RequireRecovery(f, s, e)
           IN  /\ g \in Facts /\ g.frontier = f.frontier
               /\ g.fatal = f.fatal /\ g.restored = FALSE /\ g.pending = TRUE
               /\ g.checked = f.checked /\ g.awaited \in {e, f.awaited}
               /\ e = NoBar => g.awaited = f.awaited
<1>1. s \in Statuses /\ e \in OptBars
  BY ExpectedType DEF Statuses, OptBars
<1> QED
  BY <1>1, RequireRecoveryFields

\* Admission, the session's events, the live path and the stale check.
LEMMA SignalsEpisode ==
    ASSUME TypeOK, Bounded, TypeOK', EpisodeInv,
           Admit \/ SubscriptionConfirmed \/ Disconnect \/ LiveCandle
             \/ OnOutcome \/ StaleCheck
    PROVE  EpisodeInv'
<1>1. Numbers /\ Numbers'
  BY NumbersHold, NumbersNext
<1>2. /\ EpisodeOwned /\ CheckedHolds
      /\ facts \in Facts /\ intent \in Intents /\ loop \in Loops
  BY DEF EpisodeInv, TypeOK
<1> USE <1>1, ConstantFacts DEF Numbers, OptBars, Bars, NoBar
<1>3. /\ \A o \in {"task", "session"} :
            /\ Syncing(o).target \in Targets /\ Syncing(o).pc = "sync"
            /\ Syncing(o).then = "idle"
      /\ Expected \in OptBars /\ Expected < bar
  BY SyncingTarget, ExpectedType DEF Targets, Expected
<1>4. Grown(intent, intent)
  BY DEF Grown
<1>5. CASE Admit
  <2> DEFINE j == Enqueue(intent, NoBar, FALSE)
  <2>1. /\ j.exists /\ j.hint \in {intent.hint, NoBar} /\ Grown(intent, j)
    BY <1>2, EnqueueGrows
  <2>2. /\ UNCHANGED <<bar, candles, latest, durable, thread, notified>>
        /\ loop.pc = "idle" /\ loop' = Syncing("task") /\ admitted' /\ ~admitted
        /\ intent' = intent \/ intent' = j
    BY <1>5 DEF Admit
  <2>3. /\ facts'.frontier >= facts.frontier /\ facts'.awaited = facts.awaited
        /\ facts'.checked = facts.checked /\ facts'.fatal = facts.fatal
        /\ facts'.restored = facts.restored /\ facts'.pending = facts.pending
    BY <1>2, <1>5 DEF Admit, SynchronizeSuccessful, Facts, Later
  <2> HIDE DEF j
  <2>4. Grown(intent, intent') /\ ~intent.exists /\ ~facts'.restored
    BY <1>2, <1>4, <2>1, <2>2, <2>3 DEF EpisodeOwned
  <2>5. intent'.exists /\ intent'.hint # NoBar => facts'.pending
    <3>1. ~intent.exists => j.hint = NoBar
      BY <1>2, EnqueueGrows DEF j
    <3> QED
      BY <2>2, <2>4, <3>1
  <2>6. facts'.awaited < bar /\ facts'.checked <= facts'.frontier
    BY <1>2, <2>3 DEF CheckedHolds
  <2>7. ~CommitInFlight
    BY <2>2 DEF CommitInFlight
  <2>8. loop'.pc = "sync" /\ loop'.target \in Targets /\ loop'.then = "idle"
    BY <1>3, <2>2
  <2> QED
    BY <2>2, <2>3, <2>4, <2>5, <2>6, <2>7, <2>8, HandlerEpisode
<1>6. CASE SubscriptionConfirmed
  <2> DEFINE subscribed == [facts EXCEPT !.status = "subscribed", !.sub = TRUE]
             known == IF disconnected
                      THEN RequireRecovery(subscribed, "recovery_required", NoBar)
                      ELSE subscribed
             started == IF admitted /\ ~known.restored
                        THEN Enqueue(intent, NoBar, FALSE) ELSE intent
             hint == SignalHint(known, NoBar)
  <2>1. /\ subscribed \in Facts /\ subscribed.frontier = facts.frontier
        /\ subscribed.awaited = facts.awaited /\ subscribed.checked = facts.checked
        /\ subscribed.fatal = facts.fatal /\ subscribed.restored = facts.restored
        /\ subscribed.pending = facts.pending
    BY <1>2 DEF Facts, Statuses
  <2> HIDE DEF subscribed
  <2>2. /\ known \in Facts /\ known.frontier = facts.frontier
        /\ known.awaited = facts.awaited /\ known.checked = facts.checked
        /\ known.fatal = facts.fatal
        /\ known.restored => facts.restored
        /\ facts.pending => known.pending
        /\ disconnected => known.pending /\ ~known.restored
    <3>1. CASE disconnected
      <4> DEFINE r == RequireRecovery(subscribed, "recovery_required", NoBar)
      <4>2. /\ r \in Facts /\ r.frontier = subscribed.frontier
            /\ r.fatal = subscribed.fatal /\ r.restored = FALSE /\ r.pending = TRUE
            /\ r.checked = subscribed.checked /\ r.awaited = subscribed.awaited
        BY <2>1, RequireAfter
      <4>3. known = r
        BY <3>1
      <4> HIDE DEF r, known
      <4> QED
        BY <2>1, <4>2, <4>3
    <3>2. CASE ~disconnected
      BY <2>1, <3>2
    <3> QED
      BY <3>1, <3>2
  <2> HIDE DEF known
  <2>3. hint \in OptBars
    BY <2>2, SignalHintType DEF Bounded
  <2> HIDE DEF hint
  <2>4. /\ started \in Intents /\ Grown(intent, started)
        /\ started.hint # NoBar /\ started.exists
              => intent.exists /\ intent.hint # NoBar
        /\ started.exists => ~known.restored
        /\ ~admitted => started = intent
    <3>1. /\ Enqueue(intent, NoBar, FALSE) \in Intents
          /\ Grown(intent, Enqueue(intent, NoBar, FALSE))
          /\ Enqueue(intent, NoBar, FALSE).hint \in {intent.hint, NoBar}
          /\ ~intent.exists => Enqueue(intent, NoBar, FALSE).hint = NoBar
      BY <1>2, EnqueueGrows
    <3>2. CASE admitted /\ ~known.restored
      BY <3>1, <3>2
    <3>3. CASE ~(admitted /\ ~known.restored)
      BY <1>2, <1>4, <2>2, <3>3 DEF EpisodeOwned
    <3> QED
      BY <3>2, <3>3
  <2>5. /\ facts' = known /\ intent' = IF admitted /\ disconnected
                                       THEN Enqueue(started, hint, FALSE)
                                       ELSE started
        /\ UNCHANGED <<bar, candles, latest, durable, admitted, thread, notified>>
        /\ loop.pc = "idle" /\ loop' = Syncing("session")
    BY <1>6 DEF SubscriptionConfirmed, subscribed, known, started, hint
  <2> HIDE DEF started
  <2>6. /\ Grown(intent, intent')
        /\ intent'.exists => ~known.restored
        /\ intent'.exists /\ intent'.hint # NoBar => known.pending
        /\ ~admitted => intent' = intent
    <3>1. CASE admitted /\ disconnected
      <4>1. /\ Grown(started, intent') /\ intent'.exists
        BY <2>3, <2>4, <2>5, <3>1, EnqueueGrows
      <4> QED
        BY <2>2, <2>4, <3>1, <4>1 DEF Grown
    <3>2. CASE ~(admitted /\ disconnected)
      BY <1>2, <2>2, <2>4, <2>5, <3>2 DEF CheckedHolds
    <3> QED
      BY <3>1, <3>2
  <2>7. ~admitted' => ~intent'.exists /\ ~facts'.restored
    BY <1>2, <2>2, <2>5, <2>6 DEF EpisodeOwned
  <2>8. facts'.awaited < bar /\ facts'.checked <= facts'.frontier
    BY <1>2, <2>2, <2>5 DEF CheckedHolds
  <2>9. ~CommitInFlight /\ loop'.pc = "sync" /\ loop'.target \in Targets /\ loop'.then = "idle"
    BY <1>3, <2>5 DEF CommitInFlight
  <2>10. /\ facts'.fatal = facts.fatal /\ facts'.awaited = facts.awaited
         /\ intent'.exists => ~facts'.restored
         /\ intent'.exists /\ intent'.hint # NoBar => facts'.pending
    BY <2>2, <2>5, <2>6
  <2>11. /\ UNCHANGED <<bar, candles, latest, durable, thread, notified>>
         /\ Grown(intent, intent')
    BY <2>5, <2>6
  <2> QED
    BY <2>7, <2>8, <2>9, <2>10, <2>11, HandlerEpisode
<1>7. CASE Disconnect
  <2>1. /\ facts'.frontier = facts.frontier /\ facts'.fatal = facts.fatal
        /\ ~facts'.restored /\ facts'.checked = facts.checked
        /\ facts'.awaited = facts.awaited /\ (facts.pending => facts'.pending)
    BY <1>2, <1>7, MarkDisconnectedShape, UpdateFields DEF Disconnect
  <2>2. /\ UNCHANGED <<bar, candles, latest, durable, admitted, intent, thread,
                       notified>>
        /\ loop.pc = "idle" /\ loop' = Syncing("task")
    BY <1>7 DEF Disconnect
  <2>3. ~CommitInFlight /\ loop'.pc = "sync" /\ loop'.target \in Targets /\ loop'.then = "idle"
    BY <1>3, <2>2 DEF CommitInFlight
  <2>4. /\ facts'.awaited < bar /\ facts'.checked <= facts'.frontier
        /\ intent'.exists /\ intent'.hint # NoBar => facts'.pending
        /\ ~admitted' => ~intent'.exists
    BY <1>2, <2>1, <2>2 DEF CheckedHolds, EpisodeOwned
  <2> QED
    BY <1>4, <2>1, <2>2, <2>3, <2>4, HandlerEpisode
<1>8. CASE LiveCandle
  <2>1. /\ UNCHANGED <<bar, candles, latest, durable, admitted, facts, intent,
                       thread, notified>>
        /\ loop.pc = "idle" /\ admitted
    BY <1>8 DEF LiveCandle
  <2>2. loop'.pc = "sync" /\ loop'.target \in Targets
    BY <1>8 DEF LiveCandle, Syncing, Idle, Targets
  <2>3. /\ facts.awaited < bar /\ facts.checked <= facts.frontier
        /\ intent.exists /\ intent.hint # NoBar => facts.pending
        /\ ~admitted => ~intent.exists /\ ~facts.restored
        /\ intent.exists => ~facts.restored
    BY <1>2 DEF CheckedHolds, EpisodeOwned
  <2>4. ~CommitInFlight
    BY <2>1 DEF CommitInFlight
  <2> QED
    BY <1>4, <2>1, <2>2, <2>3, <2>4, HandlerEpisode
<1>9. CASE OnOutcome
  <2> DEFINE hint == SignalHint(OutcomeFacts, loop.open)
             signalled == IF OutcomeSignals THEN Enqueue(intent, hint, FALSE)
                                            ELSE intent
             commits == loop.class = "committed" /\ signalled.exists
  <2>1. /\ facts' = OutcomeFacts /\ loop.pc = "outcome" /\ loop' = Syncing("session")
        /\ intent' = [signalled EXCEPT !.retry = @ \/ commits]
        /\ notified' = IF loop.class = "committed" THEN Later(notified, loop.open)
                                                   ELSE notified
        /\ UNCHANGED <<bar, candles, latest, durable, admitted, thread>>
    BY <1>9 DEF OnOutcome
  <2>2. OutcomeFacts \in Facts /\ OutcomeFacts.frontier <= bar
    BY OutcomeShape DEF Bounded
  <2>3. /\ OutcomeFacts.checked = facts.checked /\ OutcomeFacts.awaited = facts.awaited
        /\ facts.fatal => OutcomeFacts.fatal
        /\ OutcomeFacts.frontier >= facts.frontier
        /\ facts.pending => OutcomeFacts.pending
        /\ OutcomeFacts.restored => facts.restored
        /\ OutcomeSignals => OutcomeFacts.pending /\ ~OutcomeFacts.restored
    BY <1>2, OutcomeFields
  <2>4. hint \in OptBars
    BY <2>2, SignalHintType DEF Facts
  <2> HIDE DEF hint
  <2>5. /\ signalled \in Intents /\ Grown(intent, signalled)
        /\ signalled.exists => ~OutcomeFacts.restored
        /\ signalled.exists /\ signalled.hint # NoBar => OutcomeFacts.pending
        /\ ~admitted /\ ~OutcomeSignals => ~signalled.exists
    <3>1. CASE OutcomeSignals
      BY <1>2, <2>3, <2>4, <3>1, EnqueueGrows
    <3>2. CASE ~OutcomeSignals
      BY <1>2, <1>4, <2>3, <3>2 DEF EpisodeOwned, CheckedHolds
    <3> QED
      BY <3>1, <3>2
  <2>6. admitted
    BY <1>2, <2>1 DEF EpisodeOwned
  <2> HIDE DEF signalled
  <2>7. commits \in BOOLEAN
    OBVIOUS
  <2> HIDE DEF commits
  <2>8. /\ intent'.exists = signalled.exists /\ intent'.hint = signalled.hint
        /\ intent'.revised = signalled.revised /\ intent'.window = signalled.window
        /\ signalled.retry => intent'.retry
    BY <2>1, <2>5, <2>7 DEF Intents
  <2>9. Grown(intent, intent')
    BY <2>5, <2>8 DEF Grown
  <2>10. /\ facts'.fatal = OutcomeFacts.fatal /\ facts'.awaited = facts.awaited
         /\ intent'.exists => ~facts'.restored
         /\ intent'.exists /\ intent'.hint # NoBar => facts'.pending
         /\ admitted'
    BY <2>1, <2>3, <2>5, <2>6, <2>8
  <2>11. /\ facts'.awaited < bar /\ facts'.checked <= facts'.frontier
         /\ facts.fatal => facts'.fatal
    BY <1>2, <2>1, <2>2, <2>3 DEF CheckedHolds, Facts
  <2>12. notified <= notified' /\ (CommitInFlight => latest <= notified')
    BY <2>1 DEF CommitInFlight, Later
  <2>13. loop'.pc = "sync" /\ loop'.target \in Targets /\ loop'.then = "idle"
    BY <1>3, <2>1
  <2>14. UNCHANGED <<bar, candles, latest, durable, thread>>
    BY <2>1
  <2> QED
    BY <2>9, <2>10, <2>11, <2>12, <2>13, <2>14, HandlerEpisode
<1>10. CASE StaleCheck
  <2>1. /\ UNCHANGED <<bar, candles, latest, durable, admitted, thread, notified>>
        /\ loop.pc = "idle" /\ loop' = Syncing("task")
    BY <1>10 DEF StaleCheck
  <2>2. ~CommitInFlight /\ loop'.pc = "sync" /\ loop'.target \in Targets /\ loop'.then = "idle"
    BY <1>3, <2>1 DEF CommitInFlight
  <2>3. CASE ~StaleNow
    <3>1. facts' = facts /\ intent' = intent
      BY <1>10, <2>3 DEF StaleCheck
    <3>2. /\ facts.awaited < bar /\ facts.checked <= facts.frontier
          /\ intent.exists /\ intent.hint # NoBar => facts.pending
          /\ ~admitted => ~intent.exists /\ ~facts.restored
          /\ intent.exists => ~facts.restored
      BY <1>2 DEF CheckedHolds, EpisodeOwned
    <3> QED
      BY <1>4, <2>1, <2>2, <3>1, <3>2, HandlerEpisode
  <2>4. CASE StaleNow
    <3> DEFINE hint == SignalHint(facts, facts.frontier + 1)
    <3>1. /\ facts' = RequireRecovery(facts, "stale", Expected)
          /\ intent' = IF admitted THEN Enqueue(intent, hint, TRUE) ELSE intent
      BY <1>10, <2>4 DEF StaleCheck
    <3>2. hint \in OptBars /\ hint # NoBar /\ ~facts.pending
      BY <1>2, <2>4, SignalHintType DEF Bounded, StaleNow, SignalHint, Earlier
    <3> HIDE DEF hint
    <3>4. /\ facts'.frontier = facts.frontier /\ facts'.fatal = facts.fatal
          /\ ~facts'.restored /\ facts'.pending
          /\ facts'.checked = facts.checked
          /\ facts'.awaited \in {Expected, facts.awaited}
      BY <1>2, <3>1, RequireAfter
    <3>5. facts'.awaited < bar /\ facts'.checked <= facts'.frontier
      BY <1>2, <1>3, <3>4 DEF CheckedHolds
    <3>6. /\ Grown(intent, intent')
          /\ ~admitted => ~intent'.exists
          /\ intent'.revised \/ thread.pc = "idle"
      <4>1. CASE admitted
        <5>1. intent.exists => intent.hint = NoBar
          BY <1>2, <3>2 DEF CheckedHolds
        <5>2. /\ Grown(intent, intent') /\ (intent.exists => intent'.revised)
          BY <1>2, <3>1, <3>2, <4>1, <5>1, EnqueueGrows
        <5> QED
          BY <1>2, <4>1, <5>2 DEF EpisodeOwned
      <4>2. CASE ~admitted
        BY <1>2, <1>4, <3>1, <4>2 DEF EpisodeOwned
      <4> QED
        BY <4>1, <4>2
    <3> QED
      BY <2>1, <2>2, <3>4, <3>5, <3>6, HandlerEpisode
  <2> QED
    BY <2>3, <2>4
<1> QED
  BY <1>5, <1>6, <1>7, <1>8, <1>9, <1>10

\* The sweep decides for one of four states, and for connecting or ready only
\* when the facts are ready.
LEMMA SyncTargetReady ==
    ASSUME NEW state, NEW f, NEW e
    PROVE  /\ SyncTarget(state, f, e) \in Targets \cup {"none"}
           /\ SyncTarget(state, f, e) \in {"connecting", "ready"} => DataReady(f, e)
BY DEF SyncTarget, Targets

\* The loop after the last step of a sweep.
LEMMA FinishSyncLoop ==
    ASSUME TypeOK, NEW state, FinishSync(state)
    PROVE  /\ loop'.pc \in {"idle", "ingest"} /\ loop'.then = "idle"
           /\ loop'.pc = "ingest" => loop.then = "ingest"
           /\ loop'.target = "ready"
<1>1. CASE loop.then = "ingest"
  BY <1>1 DEF FinishSync, Idle
<1>2. CASE loop.then # "ingest"
  BY <1>2 DEF FinishSync, Idle
<1> QED
  BY <1>1, <1>2

\* The loop after a mark.
LEMMA MarkedLoop ==
    ASSUME TypeOK, Marked
    PROVE  \/ /\ loop.target = "connecting"
              /\ loop'.pc = "mark" /\ loop'.target = "ready"
              /\ loop'.exp = loop.exp /\ loop'.then = loop.then
           \/ /\ loop'.pc \in {"idle", "ingest"} /\ loop'.then = "idle"
              /\ loop'.pc = "ingest" => loop.then = "ingest"
              /\ loop'.target = "ready"
<1>1. CASE loop.target = "connecting"
  BY <1>1 DEF Marked, TypeOK, Loops
<1>2. CASE loop.target # "connecting"
  BY <1>2, FinishSyncLoop DEF Marked
<1> QED
  BY <1>1, <1>2

\* Every step of the lifecycle sweep.
LEMMA SweepEpisode ==
    ASSUME TypeOK, Bounded, TypeOK', EpisodeInv, Sweep
    PROVE  EpisodeInv'
<1>1. Numbers /\ Numbers'
  BY NumbersHold, NumbersNext
<1>2. /\ EpisodeOwned /\ CheckedHolds
      /\ facts \in Facts /\ intent \in Intents /\ loop \in Loops
  BY DEF EpisodeInv, TypeOK
<1>3. /\ facts.awaited < bar /\ facts.checked <= facts.frontier
      /\ intent.exists /\ intent.hint # NoBar => facts.pending
      /\ ~admitted => /\ ~intent.exists /\ ~facts.restored
                      /\ loop.pc \in {"idle", "sync", "down"} /\ loop.then = "idle"
      /\ intent.exists => ~facts.restored
      /\ loop.target \in Targets
      /\ loop.pc \in {"mark", "commit"} /\ loop.target \in {"connecting", "ready"}
            => DataReady(facts, loop.exp)
  BY <1>2 DEF CheckedHolds, EpisodeOwned, Targets
<1>4. Grown(intent, intent) /\ notified <= notified
  BY <1>1, ConstantFacts DEF Grown, Numbers, OptBars, Bars, NoBar
<1>5. loop.pc # "outcome" => ~CommitInFlight
  BY DEF CommitInFlight
<1>6. CASE SyncRead
  <2> DEFINE target == IF admitted THEN SyncTarget(durable, facts, loop.exp)
                                   ELSE "none"
  <2>1. /\ UNCHANGED <<bar, candles, latest, durable, admitted, facts, intent,
                       thread, notified>>
        /\ loop.pc = "sync"
    BY <1>6 DEF SyncRead
  <2>2. /\ target \in Targets \cup {"none"}
        /\ target \in {"connecting", "ready"} => DataReady(facts, loop.exp)
        /\ ~admitted => target = "none"
    BY SyncTargetReady
  <2>3. IF target = "none"
        THEN FinishSync(durable)
        ELSE loop' = [loop EXCEPT !.pc = "mark", !.target = target]
    BY <1>6 DEF SyncRead
  <2> HIDE DEF target
  <2>4. /\ ~admitted => loop'.pc \in {"idle", "sync", "down"} /\ loop'.then = "idle"
        /\ loop'.target \in Targets
        /\ loop'.pc \in {"mark", "commit"} /\ loop'.target \in {"connecting", "ready"}
               => DataReady(facts, loop'.exp)
    <3>1. CASE target = "none"
      <4>1. /\ loop'.pc \in {"idle", "ingest"} /\ loop'.then = "idle"
            /\ loop'.pc = "ingest" => loop.then = "ingest"
            /\ loop'.target = "ready"
        BY <2>3, <3>1, FinishSyncLoop
      <4> QED
        BY <1>3, <4>1 DEF Targets
    <3>2. CASE target # "none"
      <4>1. loop'.pc = "mark" /\ loop'.target = target /\ loop'.exp = loop.exp
        BY <1>2, <2>3, <3>2 DEF Loops
      <4> QED
        BY <2>2, <3>2, <4>1
    <3> QED
      BY <3>1, <3>2
  <2>5. DataReady(facts, loop'.exp) => DataReady(facts', loop'.exp)
    BY <2>1
  <2> QED
    BY <1>3, <1>4, <1>5, <2>1, <2>4, <2>5, HandlerEpisode
<1>7. CASE MarkRead \/ MarkCommit
  <2>1. /\ UNCHANGED <<bar, candles, latest, admitted, facts, intent, thread,
                       notified>>
        /\ loop.pc \in {"mark", "commit"}
        /\ durable' = durable \/ durable' = loop.target
        /\ Marked \/ (loop' = [loop EXCEPT !.pc = "commit"])
    BY <1>7 DEF MarkRead, MarkCommit
  <2>2. admitted
    BY <1>3, <2>1
  <2>3. /\ loop'.target \in Targets
        /\ loop'.pc \in {"mark", "commit"} /\ loop'.target \in {"connecting", "ready"}
               => DataReady(facts, loop'.exp)
    <3>1. CASE Marked
      <4>1. \/ /\ loop.target = "connecting"
               /\ loop'.pc = "mark" /\ loop'.target = "ready"
               /\ loop'.exp = loop.exp /\ loop'.then = loop.then
            \/ /\ loop'.pc \in {"idle", "ingest"} /\ loop'.then = "idle"
               /\ loop'.target = "ready"
        BY <3>1, MarkedLoop
      <4> QED
        BY <1>3, <2>1, <4>1 DEF Targets
    <3>2. CASE loop' = [loop EXCEPT !.pc = "commit"]
      <4>1. loop'.pc = "commit" /\ loop'.target = loop.target /\ loop'.exp = loop.exp
        BY <1>2, <3>2 DEF Loops
      <4> QED
        BY <1>3, <2>1, <4>1
    <3> QED
      BY <2>1, <3>1, <3>2
  <2>4. DataReady(facts, loop'.exp) => DataReady(facts', loop'.exp)
    BY <2>1
  <2>5. durable' = durable \/ durable' \in Targets
    BY <1>3, <2>1
  <2>6. ~CommitInFlight
    BY <1>5, <2>1
  <2> QED
    BY <1>3, <1>4, <2>1, <2>2, <2>3, <2>4, <2>5, <2>6, HandlerEpisode
<1>8. CASE MarkRaises
  <2>1. /\ UNCHANGED <<bar, candles, latest, durable, admitted, intent, thread,
                       notified>>
        /\ loop.pc = "commit"
        /\ facts' = facts \/ facts' = MarkDisconnected(facts)
        /\ loop' = Syncing("task") \/ loop' = [Idle EXCEPT !.pc = "down"]
    BY <1>8 DEF MarkRaises
  <2>2. /\ loop'.pc \in {"sync", "down"} /\ loop'.target \in Targets
        /\ loop'.then = "idle"
    <3>1. CASE loop' = Syncing("task")
      BY <3>1, SyncingTarget DEF Targets
    <3>2. CASE loop' = [Idle EXCEPT !.pc = "down"]
      BY <3>2 DEF Idle, Targets
    <3> QED
      BY <2>1, <3>1, <3>2
  <2>3. LET g == MarkDisconnected(facts)
        IN  /\ g.frontier = facts.frontier /\ g.fatal = facts.fatal
            /\ ~g.restored /\ g.checked = facts.checked
            /\ g.awaited = facts.awaited /\ (facts.pending => g.pending)
    BY <1>2 DEF MarkDisconnected, Facts
  <2>4. /\ facts'.frontier = facts.frontier /\ facts'.fatal = facts.fatal
        /\ facts'.restored => facts.restored
        /\ facts'.checked = facts.checked
        /\ facts'.awaited = facts.awaited /\ (facts.pending => facts'.pending)
    BY <2>1, <2>3
  <2>5. /\ facts'.awaited < bar /\ facts'.checked <= facts'.frontier
        /\ intent'.exists /\ intent'.hint # NoBar => facts'.pending
        /\ ~admitted' => ~intent'.exists /\ ~facts'.restored
        /\ intent'.exists => ~facts'.restored
        /\ facts.fatal => facts'.fatal
    BY <1>3, <2>1, <2>4
  <2>6. ~CommitInFlight
    BY <1>5, <2>1
  <2>7. Grown(intent, intent') /\ notified <= notified'
    BY <1>4, <2>1
  <2> QED
    BY <2>1, <2>2, <2>4, <2>5, <2>6, <2>7, HandlerEpisode
<1> QED
  BY <1>6, <1>7, <1>8 DEF Sweep

\* The clock, the historical worker and the ingestion of a live candle.
LEMMA StoreEpisode ==
    ASSUME TypeOK, Bounded, TypeOK', EpisodeInv,
           Tick \/ HistoricalProof \/ IngestLive
    PROVE  EpisodeInv'
<1>1. Numbers /\ Numbers'
  BY NumbersHold, NumbersNext
<1>2. /\ EpisodeOwned /\ CheckedHolds /\ StateHolds /\ StoredBelow /\ AnnounceHolds
      /\ loop \in Loops /\ candles \subseteq Bars
  BY DEF EpisodeInv, TypeOK
<1> USE <1>1, ConstantFacts DEF Numbers, OptBars, Bars, NoBar
<1>3. CASE Tick
  <2>1. /\ bar <= bar'
        /\ UNCHANGED <<candles, latest, durable, admitted, facts, intent, thread,
                       loop, notified>>
    BY <1>3 DEF Tick
  <2>2. EpisodeOwned' /\ StateHolds'
    BY <1>2, <2>1 DEF EpisodeOwned, StateHolds, DataReady, Current
  <2>3. CheckedHolds'
    BY <1>2, <2>1 DEF CheckedHolds, Restoring
  <2>4. ClosedOrStored(intent.window)' /\ ClosedOrStored(thread.window)'
    BY <1>2, <2>1 DEF StoredBelow, ClosedOrStored
  <2>5. \A b \in thread'.todo : b < bar'
    BY <1>2, <2>1 DEF StoredBelow, TypeOK, Threads
  <2>6. StoredBelow'
    BY <1>2, <2>1, <2>4, <2>5 DEF StoredBelow
  <2>7. AnnounceHolds'
    BY <1>2, <2>1 DEF AnnounceHolds, CommitInFlight, Restoring
  <2> QED
    BY <2>2, <2>3, <2>6, <2>7 DEF EpisodeInv
<1>4. CASE HistoricalProof
  <2>1. PICK end \in (latest + 1)..bar :
           /\ end > 0
           /\ candles' = candles \cup 0..(end - 1)
           /\ latest' = end - 1
           /\ notified' = end - 1
    BY <1>4 DEF HistoricalProof
  <2>2. /\ durable' = "connecting"
        /\ UNCHANGED <<bar, admitted, facts, intent, thread, loop>>
    BY <1>4 DEF HistoricalProof
  <2>3. candles \subseteq candles' /\ latest <= latest' /\ latest' = notified'
    BY <2>1
  <2>4. EpisodeOwned' /\ StateHolds'
    BY <1>2, <2>2 DEF EpisodeOwned, StateHolds, DataReady, Current
  <2>5. CheckedHolds'
    BY <1>2, <2>2 DEF CheckedHolds, Restoring
  <2>6. ClosedOrStored(intent.window)' /\ ClosedOrStored(thread.window)'
    BY <1>2, <2>2, <2>3 DEF StoredBelow, ClosedOrStored
  <2>7. (\A b \in candles' : b <= latest') /\ latest' \in candles'
    BY <1>2, <2>1 DEF StoredBelow
  <2>8. StoredBelow'
    BY <1>2, <2>2, <2>3, <2>6, <2>7 DEF StoredBelow
  <2>9. AnnounceHolds'
    BY <1>2, <2>2, <2>3 DEF AnnounceHolds
  <2> QED
    BY <2>4, <2>5, <2>8, <2>9 DEF EpisodeInv
<1>5. CASE IngestLive
  <2>1. /\ loop.pc = "ingest"
        /\ UNCHANGED <<bar, durable, admitted, facts, intent, thread, notified>>
    BY <1>5 DEF IngestLive
  <2>2. /\ loop'.pc = "outcome" /\ loop'.open = loop.open
        /\ loop'.target = loop.target /\ loop'.exp = loop.exp
    BY <1>2, <1>5 DEF IngestLive, Loops
  <2>3. ~CommitInFlight /\ admitted
    BY <1>2, <2>1 DEF CommitInFlight, EpisodeOwned
  <2>4. \/ candles' = candles /\ latest' = latest
        \/ /\ candles' = candles \cup {loop.open}
           /\ latest' = Later(latest, loop.open)
           /\ loop.open \notin candles => loop'.class = "committed"
    <3>1. loop.open \in candles => loop.open \in candles
      OBVIOUS
    <3> QED
      BY <1>2, <1>5 DEF IngestLive, Loops
  <2>5. /\ candles \subseteq candles' /\ latest <= latest'
        /\ latest' = latest \/ (latest' = loop.open /\ CommitInFlight')
    BY <1>2, <2>2, <2>4 DEF StoredBelow, Later, CommitInFlight
  <2>6. EpisodeOwned'
    BY <1>2, <2>1, <2>2, <2>3 DEF EpisodeOwned
  <2>7. CheckedHolds' /\ StateHolds'
    BY <1>2, <2>1 DEF CheckedHolds, StateHolds, Restoring
  <2>8. ClosedOrStored(intent.window)' /\ ClosedOrStored(thread.window)'
    BY <1>2, <2>1, <2>5 DEF StoredBelow, ClosedOrStored
  <2>9. (\A b \in candles' : b <= latest') /\ (latest' # NoBar => latest' \in candles')
    <3>1. CASE candles' = candles /\ latest' = latest
      BY <1>2, <3>1 DEF StoredBelow
    <3>2. CASE candles' = candles \cup {loop.open} /\ latest' = Later(latest, loop.open)
      <4>1. latest' \in {latest, loop.open} /\ latest <= latest' /\ loop.open <= latest'
        BY <3>2 DEF Later
      <4>2. \A b \in candles : b <= latest'
        BY <1>2, <4>1 DEF StoredBelow
      <4> QED
        BY <1>2, <3>2, <4>1, <4>2 DEF StoredBelow
    <3> QED
      BY <2>4, <3>1, <3>2
  <2>10. StoredBelow'
    BY <1>2, <2>1, <2>5, <2>8, <2>9 DEF StoredBelow
  <2>11. AnnounceHolds'
    <3>1. CASE latest' = latest
      BY <1>2, <2>1, <2>3, <3>1 DEF AnnounceHolds, Restoring
    <3>2. CASE CommitInFlight'
      BY <1>2, <2>1, <3>2 DEF AnnounceHolds
    <3> QED
      BY <2>5, <3>1, <3>2
  <2> QED
    BY <2>6, <2>7, <2>10, <2>11 DEF EpisodeInv
<1> QED
  BY <1>3, <1>4, <1>5

\* The recovery worker takes an intent, starts its attempt and takes its result.
LEMMA WorkerEpisode ==
    ASSUME TypeOK, Bounded, TypeOK', EpisodeInv,
           WorkerTake \/ GateAcquired \/ WorkerResult
    PROVE  EpisodeInv'
<1>1. Numbers /\ Numbers'
  BY NumbersHold, NumbersNext
<1>2. /\ EpisodeOwned /\ CheckedHolds /\ StateHolds /\ StoredBelow /\ AnnounceHolds
      /\ loop \in Loops /\ intent \in Intents /\ thread \in Threads /\ facts \in Facts
  BY DEF EpisodeInv, TypeOK
<1>3. ThreadIdle.committed = FALSE
  BY IdleCommitted
<1> USE <1>1, ConstantFacts DEF Numbers, OptBars, Bars, NoBar
<1>4. CASE WorkerTake
  <2>1. /\ loop.pc = "idle" /\ intent.exists /\ thread.pc = "idle"
        /\ UNCHANGED <<bar, candles, latest, durable, admitted, facts, loop, notified>>
    BY <1>4 DEF WorkerTake
  <2>2. /\ thread'.pc = "gate" /\ thread'.known = NoBar /\ thread'.window = NoWindow
        /\ thread'.todo = {} /\ ~thread'.committed
    BY <1>3, <1>4, ThreadTypes DEF WorkerTake, Threads
  <2>3. /\ intent'.exists = intent.exists /\ intent'.hint = intent.hint
        /\ intent'.window = intent.window /\ intent'.retry = intent.retry
    BY <1>2, <1>4 DEF WorkerTake, Intents
  <2>4. EpisodeOwned' /\ StateHolds'
    BY <1>2, <2>1, <2>2, <2>3 DEF EpisodeOwned, StateHolds
  <2>5. ~Restoring' /\ ~thread.committed
    BY <1>2, <2>1, <2>2 DEF Restoring, AnnounceHolds
  <2>6. CheckedHolds'
    BY <1>2, <2>1, <2>3, <2>5 DEF CheckedHolds
  <2>7. ClosedOrStored(thread.window)'
    BY <2>2 DEF ClosedOrStored, NoWindow
  <2>8. ClosedOrStored(intent.window)'
    BY <1>2, <2>1, <2>3 DEF ClosedOrStored, StoredBelow
  <2>9. StoredBelow'
    BY <1>2, <2>1, <2>2, <2>7, <2>8 DEF StoredBelow
  <2>10. AnnounceHolds'
    BY <1>2, <2>1, <2>2, <2>3, <2>5 DEF AnnounceHolds, CommitInFlight
  <2> QED
    BY <2>4, <2>6, <2>9, <2>10 DEF EpisodeInv
<1>5. CASE GateAcquired
  <2>1. /\ loop.pc = "idle" /\ thread.pc = "gate"
        /\ UNCHANGED <<bar, candles, latest, durable, admitted, facts, intent, loop,
                       notified>>
    BY <1>5 DEF GateAcquired
  <2>2. /\ thread'.pc = "unavailable" /\ thread'.known = thread.known
        /\ thread'.window = intent.window
        /\ thread'.todo = thread.todo /\ thread'.committed = thread.committed
    BY <1>2, <1>5 DEF GateAcquired, Threads
  <2>3. EpisodeOwned' /\ StateHolds'
    BY <1>2, <2>1, <2>2 DEF EpisodeOwned, StateHolds
  <2>4. ~Restoring' /\ ~thread.committed
    BY <1>2, <2>1, <2>2 DEF Restoring, AnnounceHolds
  <2>5. CheckedHolds'
    BY <1>2, <2>1, <2>4 DEF CheckedHolds
  <2>6. ClosedOrStored(intent.window)'
    BY <1>2, <2>1 DEF ClosedOrStored, StoredBelow
  <2>7. ClosedOrStored(thread.window)'
    BY <2>1, <2>2, <2>6 DEF ClosedOrStored
  <2>8. StoredBelow'
    BY <1>2, <2>1, <2>2, <2>6, <2>7 DEF StoredBelow
  <2>9. AnnounceHolds'
    BY <1>2, <2>1, <2>2, <2>4 DEF AnnounceHolds, CommitInFlight
  <2> QED
    BY <2>3, <2>5, <2>8, <2>9 DEF EpisodeInv
<1>6. CASE WorkerResult
  <2> DEFINE fatal    == thread.result = "fatal"
             restored == thread.result = "restored" /\ ~intent.revised
             through  == thread.window.end - 1
             retry    == intent.retry \/ thread.committed
             frozen   == IF ~intent.revised /\ thread.result = "incomplete"
                         THEN thread.window ELSE intent.window
  <2>1. /\ facts' = RecordRecoveryResult(facts, restored, fatal, through)
        /\ thread' = ThreadIdle /\ loop' = Syncing("task")
        /\ loop.pc = "idle" /\ thread.pc = "done"
        /\ notified' = IF restored /\ retry THEN Later(notified, through) ELSE notified
        /\ UNCHANGED <<bar, candles, latest, durable, admitted>>
    BY <1>6 DEF WorkerResult
  <2>2. /\ fatal \/ restored => intent' = NoIntent
        /\ ~fatal /\ ~restored =>
              intent' = [intent EXCEPT !.retry = retry, !.revised = FALSE,
                                       !.window = frozen]
    BY <1>6 DEF WorkerResult, IntentAfter
  <2>3. /\ through \in OptBars /\ restored \in BOOLEAN /\ fatal \in BOOLEAN
        /\ retry \in BOOLEAN /\ (restored => ~fatal)
    BY <1>2 DEF Bounded, Intents, Threads
  <2>4. /\ fatal => /\ facts'.fatal /\ ~facts'.restored /\ facts'.checked = facts.checked
                    /\ facts'.awaited = facts.awaited /\ facts'.frontier = facts.frontier
        /\ ~fatal /\ restored =>
              /\ facts'.fatal = facts.fatal /\ facts'.restored
              /\ facts'.checked = CommitChecked(facts) /\ facts'.awaited = NoBar
              /\ facts'.frontier = Later(facts.frontier, through)
        /\ ~fatal /\ ~restored =>
              /\ facts'.fatal = facts.fatal /\ ~facts'.restored /\ facts'.pending
              /\ facts'.checked = facts.checked /\ facts'.awaited = facts.awaited
              /\ facts'.frontier = facts.frontier
    <3> HIDE DEF restored, fatal, through
    <3> QED
      BY <1>2, <2>1, <2>3, ResultFields
  <2>5. intent.exists /\ admitted /\ ~CommitInFlight
    BY <1>2, <2>1 DEF EpisodeOwned, CommitInFlight
  <2>6. /\ Restoring <=> thread.result = "restored"
        /\ ~Restoring'
    BY <2>1, ThreadTypes DEF Restoring
  <2>7. ClosedOrStored(frozen) /\ ClosedOrStored(intent.window)
    BY <1>2 DEF StoredBelow
  <2>8. ClosedOrStored(frozen) => \A b \in frozen.start..(frozen.end - 1) :
                                     b < bar' \/ b \in candles'
    BY <2>1 DEF ClosedOrStored
  <2> HIDE DEF frozen
  <2>9. /\ fatal \/ restored => ~intent'.exists /\ intent'.window = NoWindow
        /\ ~fatal /\ ~restored =>
              /\ intent'.exists /\ intent'.hint = intent.hint
              /\ intent'.retry = retry /\ intent'.window = frozen
    <3> HIDE DEF retry, fatal, restored
    <3>1. NoIntent.exists = FALSE /\ NoIntent.window = NoWindow
      BY DEF NoIntent
    <3> QED
      BY <1>2, <2>2, <2>3, <2>5, <3>1 DEF Intents
  <2>10. /\ loop'.pc = "sync" /\ loop'.target = "ready" /\ thread'.pc = "idle"
         /\ thread'.known = NoBar /\ thread'.window = NoWindow /\ thread'.todo = {}
         /\ ~thread'.committed
    BY <1>3, <2>1, SyncingTarget, ThreadTypes
  <2>11. EpisodeOwned'
    <3>1. intent'.exists => ~facts'.restored
      BY <2>3, <2>4, <2>9
    <3> QED
      BY <2>1, <2>5, <2>10, <3>1 DEF EpisodeOwned
  <2>12. CheckedHolds'
    <3>1. /\ facts.awaited < bar /\ facts.checked <= facts.frontier
          /\ restored => facts.awaited < thread.window.end
      BY <1>2, <2>6 DEF CheckedHolds
    <3>2. facts'.awaited < bar' /\ facts'.checked <= facts'.frontier
      BY <2>1, <2>3, <2>4, <3>1 DEF CommitChecked, Later
    <3>3. intent'.exists /\ intent'.hint # NoBar => facts'.pending
      BY <2>3, <2>4, <2>9
    <3> QED
      BY <2>6, <3>2, <3>3 DEF CheckedHolds
  <2>13. StateHolds'
    <3>1. ~intent'.exists /\ ~facts'.fatal => durable' \notin {"auditing", "repairing"}
      <4>1. restored => durable' \notin {"auditing", "repairing"}
        BY <1>2, <2>1 DEF StateHolds
      <4> QED
        BY <2>3, <2>4, <2>9, <4>1
    <3> QED
      BY <2>10, <3>1 DEF StateHolds
  <2>14. ClosedOrStored(thread.window)'
    BY <2>10 DEF ClosedOrStored, NoWindow
  <2>15. ClosedOrStored(intent.window)'
    <3>1. CASE fatal \/ restored
      BY <2>9, <3>1 DEF ClosedOrStored, NoWindow
    <3>2. CASE ~fatal /\ ~restored
      BY <2>7, <2>8, <2>9, <3>2 DEF ClosedOrStored
    <3> QED
      BY <3>1, <3>2
  <2>16. StoredBelow'
    BY <1>2, <2>1, <2>10, <2>14, <2>15 DEF StoredBelow
  <2>17. AnnounceHolds'
    <3>1. /\ latest <= notified \/ latest < bar
          /\ latest <= notified \/ facts.fatal \/ retry
          /\ restored => latest <= notified \/ latest < thread.window.end
      BY <1>2, <2>5, <2>6 DEF AnnounceHolds
    <3>2. notified <= notified'
      BY <2>1, <2>3 DEF Later
    <3>3. latest <= notified' \/ latest < bar
      BY <3>1, <3>2
    <3>4. \/ latest <= notified'
          \/ facts'.fatal
          \/ intent'.exists /\ intent'.retry
      <4>1. CASE restored
        <5>1. CASE retry
          BY <2>1, <3>1, <4>1, <5>1 DEF Later
        <5>2. CASE ~retry
          BY <2>3, <2>4, <3>1, <3>2, <4>1, <5>2
        <5> QED
          BY <5>1, <5>2
      <4>2. CASE fatal
        BY <2>4, <4>2
      <4>3. CASE ~fatal /\ ~restored
        <5>1. intent'.exists /\ intent'.retry = retry /\ facts'.fatal = facts.fatal
          BY <2>4, <2>9, <4>3
        <5>2. latest <= notified => latest <= notified'
          BY <3>2
        <5> HIDE DEF retry
        <5> QED
          BY <3>1, <5>1, <5>2
      <4> QED
        BY <4>1, <4>2, <4>3
    <3> QED
      BY <2>1, <2>6, <2>10, <3>3, <3>4 DEF AnnounceHolds
  <2> QED
    BY <2>11, <2>12, <2>13, <2>16, <2>17 DEF EpisodeInv
<1> QED
  BY <1>4, <1>5, <1>6

\* A step of the attempt that stores nothing.
LEMMA QuietEpisode ==
    ASSUME TypeOK, Bounded, TypeOK', EpisodeInv,
           UNCHANGED OutsideThread, UNCHANGED <<candles, latest>>,
           thread.pc # "idle",
           thread'.known \in {thread.known, NoBar, latest},
           \A b \in thread'.todo : b < bar,
           ClosedOrStored(thread'.window),
           thread'.committed = thread.committed,
           thread'.committed => thread'.pc \in {"import", "postaudit", "target",
                                                "restore", "done"},
           Restoring' => \/ Restoring /\ thread'.window = thread.window
                         \/ bar <= thread'.window.end,
           thread'.pc \in {"audit", "repairing", "postaudit", "target", "restore"}
               => durable' # "repairing",
           thread'.pc = "done" /\ thread'.result = "restored"
               => durable' \notin {"auditing", "repairing"}
    PROVE  EpisodeInv'
<1>1. Numbers /\ Numbers'
  BY NumbersHold, NumbersNext
<1>2. EpisodeOwned /\ CheckedHolds /\ StateHolds /\ StoredBelow /\ AnnounceHolds
  BY DEF EpisodeInv
<1> USE <1>1, ConstantFacts DEF Numbers, OptBars, Bars, NoBar
<1>3. UNCHANGED <<bar, admitted, facts, intent, loop, notified>> /\ intent.exists
  BY <1>2 DEF OutsideThread, EpisodeOwned
<1>4. EpisodeOwned' /\ StateHolds'
  BY <1>2, <1>3 DEF EpisodeOwned, StateHolds, DataReady, Current
<1>5. CheckedHolds'
  BY <1>2, <1>3 DEF CheckedHolds
<1>6. ClosedOrStored(intent.window)' /\ ClosedOrStored(thread.window)'
  BY <1>2, <1>3 DEF ClosedOrStored, StoredBelow
<1>7. StoredBelow'
  BY <1>2, <1>3, <1>6 DEF StoredBelow
<1>8. CommitInFlight' <=> CommitInFlight
  BY <1>3 DEF CommitInFlight
<1>9. AnnounceHolds'
  <2>1. /\ latest <= notified \/ latest < bar \/ CommitInFlight
        /\ \/ latest <= notified
           \/ CommitInFlight
           \/ facts.fatal
           \/ intent.exists /\ (intent.retry \/ thread.committed)
        /\ Restoring =>
              latest <= notified \/ latest < thread.window.end \/ CommitInFlight
    BY <1>2 DEF AnnounceHolds
  <2>2. Restoring' =>
           latest <= notified \/ latest < thread'.window.end \/ CommitInFlight
    BY <2>1
  <2> QED
    BY <1>3, <1>8, <2>1, <2>2 DEF AnnounceHolds
<1> QED
  BY <1>4, <1>5, <1>7, <1>9 DEF EpisodeInv

\* A step of the attempt that keeps its window and what it committed.
LEMMA WalkEpisode ==
    ASSUME TypeOK, Bounded, TypeOK', EpisodeInv,
           UNCHANGED OutsideThread, UNCHANGED <<candles, latest>>,
           thread.pc # "idle",
           NEW pc \in PCs \ {"idle", "gate", "restore", "done"},
           \/ Return("fatal") \/ Return("incomplete") \/ Return("recoverable")
           \/ Goto(pc)
              /\ (pc \in {"audit", "repairing", "postaudit", "target"}
                    => durable' # "repairing")
              /\ (thread.committed => pc \in {"import", "postaudit", "target"})
    PROVE  EpisodeInv'
<1>1. thread \in Threads /\ StoredBelow /\ AnnounceHolds
  BY DEF TypeOK, EpisodeInv
<1>2. ClosedOrStored(thread.window) /\ \A b \in thread.todo : b < bar
  BY <1>1 DEF StoredBelow
<1>3. CASE Goto(pc) /\ (pc \in {"audit", "repairing", "postaudit", "target"}
                          => durable' # "repairing")
           /\ (thread.committed => pc \in {"import", "postaudit", "target"})
  <2>1. /\ thread'.pc = pc /\ thread'.known = thread.known
        /\ thread'.window = thread.window /\ thread'.todo = thread.todo
        /\ thread'.committed = thread.committed
    BY <1>1, <1>3, GotoShape, GotoCommitted
  <2>2. ~Restoring'
    BY <2>1 DEF Restoring
  <2>3. ClosedOrStored(thread'.window)
    BY <1>2, <2>1
  <2> QED
    BY <1>2, <1>3, <2>1, <2>2, <2>3, QuietEpisode
<1>4. CASE Return("fatal") \/ Return("incomplete") \/ Return("recoverable")
  <2>1. PICK r \in {"fatal", "incomplete", "recoverable"} : Return(r)
    BY <1>4
  <2>2. r \in Results
    BY DEF Results
  <2>3. /\ thread'.pc = "done" /\ thread'.result = r /\ thread'.known = thread.known
        /\ thread'.window = thread.window /\ thread'.todo = {}
        /\ thread'.committed = thread.committed
    BY <1>1, <2>1, <2>2, ReturnShape, ReturnCommitted
  <2>4. ~Restoring'
    BY <2>3 DEF Restoring
  <2>5. ClosedOrStored(thread'.window)
    BY <1>2, <2>3
  <2> QED
    BY <2>3, <2>4, <2>5, QuietEpisode
<1> QED
  BY <1>3, <1>4

\* A transaction of the attempt that moves the lifecycle, or ends it.
LEMMA TransitionEpisode ==
    ASSUME TypeOK, Bounded, TypeOK', EpisodeInv,
           UNCHANGED OutsideThread, UNCHANGED <<candles, latest>>,
           thread.pc # "idle", ~thread.committed,
           NEW from, NEW to \in {"auditing", "repairing"},
           NEW pc \in PCs \ {"idle", "gate", "restore", "done"},
           to = "repairing" => pc = "import",
           \/ durable = to /\ Goto(pc) /\ UNCHANGED durable
           \/ Transition(from, to, pc)
    PROVE  EpisodeInv'
<1>1. \/ Goto(pc) /\ durable' = to
      \/ Return("fatal")
  BY DEF Transition
<1>2. Goto(pc) /\ durable' = to =>
        /\ pc \in {"audit", "repairing", "postaudit", "target"} => durable' # "repairing"
  OBVIOUS
<1> QED
  BY <1>1, <1>2, WalkEpisode

\* Every step of the recovery thread.
LEMMA AttemptEpisode ==
    ASSUME TypeOK, Bounded, TypeOK', EpisodeInv, Attempt
    PROVE  EpisodeInv'
<1>1. Numbers /\ Numbers'
  BY NumbersHold, NumbersNext
<1>2. /\ EpisodeOwned /\ CheckedHolds /\ StateHolds /\ StoredBelow /\ AnnounceHolds
      /\ thread \in Threads /\ durable \in LifecycleStates /\ candles \subseteq Bars
  BY DEF EpisodeInv, TypeOK
<1>3. /\ ClosedOrStored(thread.window) /\ ClosedOrStored(intent.window)
      /\ \A b \in thread.todo : b < bar
      /\ thread.known # NoBar => thread.known \in candles
      /\ thread.committed
          => thread.pc \in {"import", "postaudit", "target", "restore", "done"}
      /\ thread.pc \in {"audit", "repairing", "postaudit", "target", "restore"}
          => durable # "repairing"
  BY <1>2 DEF StoredBelow, AnnounceHolds, StateHolds
<1>4. ThreadIdle.committed = FALSE
  BY IdleCommitted
<1>5. CASE MarkUnavailable
  <2>1. /\ UNCHANGED OutsideThread /\ UNCHANGED <<candles, latest>>
        /\ thread.pc = "unavailable"
    BY <1>5 DEF MarkUnavailable, OutsideThread
  <2>2. CASE thread.window = NoWindow
    <3>1. Goto("read")
      BY <1>5, <2>2 DEF MarkUnavailable, Goto
    <3> QED
      BY <1>3, <2>1, <3>1, WalkEpisode DEF PCs
  <2>3. CASE thread.window # NoWindow
    <3>1. thread' = [ThreadIdle EXCEPT !.pc = "ensure", !.window = thread.window]
      BY <1>5, <2>3 DEF MarkUnavailable
    <3>2. /\ thread'.pc = "ensure" /\ thread'.window = thread.window
          /\ thread'.known = NoBar /\ thread'.todo = {} /\ thread'.committed = FALSE
      BY <1>4, <3>1, ThreadTypes DEF Threads
    <3>3. thread.committed = FALSE
      BY <1>2, <1>3, <2>1 DEF Threads
    <3>4. ~Restoring'
      BY <3>2 DEF Restoring
    <3>5. ClosedOrStored(thread'.window)
      BY <1>3, <3>2
    <3> QED
      BY <2>1, <3>2, <3>3, <3>4, <3>5, QuietEpisode
  <2> QED
    BY <2>2, <2>3
<1>6. CASE DeriveRead
  <2>1. /\ UNCHANGED OutsideThread /\ UNCHANGED <<candles, latest>>
        /\ thread.pc = "read"
        /\ thread' = [thread EXCEPT !.pc = "plan", !.known = latest]
    BY <1>6 DEF DeriveRead, OutsideThread
  <2>2. /\ thread'.pc = "plan" /\ thread'.window = thread.window
        /\ thread'.known = latest /\ thread'.todo = thread.todo
        /\ thread'.committed = thread.committed /\ ~thread.committed
    BY <1>2, <1>3, <2>1 DEF Threads
  <2>3. ~Restoring'
    BY <2>2 DEF Restoring
  <2>4. ClosedOrStored(thread'.window)
    BY <1>3, <2>2
  <2> QED
    BY <1>3, <2>1, <2>2, <2>3, <2>4, QuietEpisode
<1>7. CASE DerivePlan
  <2> DEFINE window == DeriveWindow(thread.hint, thread.known, bar)
  <2>1. /\ UNCHANGED OutsideThread /\ UNCHANGED <<candles, latest>>
        /\ thread.pc = "plan"
    BY <1>7 DEF DerivePlan, OutsideThread
  <2>2. CASE thread.known = NoBar
    <3>1. Return("incomplete")
      BY <1>7, <2>2 DEF DerivePlan
    <3> QED
      BY <2>1, <3>1, WalkEpisode DEF PCs
  <2>3. CASE thread.known # NoBar
    <3>1. thread' = [ThreadIdle EXCEPT !.pc = "ensure", !.window = window]
      BY <1>7, <2>3 DEF DerivePlan
    <3>2. \/ window.start = thread.known /\ window.end = thread.known + 1
          \/ window.end = bar
      BY DEF DeriveWindow
    <3>3. window.start \in Int
      BY <1>1, ConstantFacts DEF DeriveWindow, Earlier, Numbers, OptBars, Bars, NoBar
    <3> HIDE DEF window
    <3>4. /\ thread'.pc = "ensure" /\ thread'.window = window
          /\ thread'.known = NoBar /\ thread'.todo = {} /\ thread'.committed = FALSE
      BY <1>4, <3>1, ThreadTypes DEF Threads
    <3>5. ClosedOrStored(window)
      BY <1>1, <1>3, <2>3, <3>2, <3>3, ConstantFacts
         DEF ClosedOrStored, Numbers, OptBars, Bars, NoBar
    <3>6. thread.committed = FALSE
      BY <1>2, <1>3, <2>1 DEF Threads
    <3>7. ~Restoring'
      BY <3>4 DEF Restoring
    <3>8. ClosedOrStored(thread'.window)
      BY <3>4, <3>5
    <3> QED
      BY <2>1, <3>4, <3>6, <3>7, <3>8, QuietEpisode
  <2> QED
    BY <2>2, <2>3
<1>8. CASE EnsureAuditing
  <2>1. /\ UNCHANGED OutsideThread /\ UNCHANGED <<candles, latest>>
        /\ thread.pc = "ensure"
        /\ \/ durable = "auditing" /\ Goto("repair") /\ UNCHANGED durable
           \/ Transition({"degraded", "repairing"}, "auditing", "repair")
    BY <1>8 DEF EnsureAuditing, OutsideThread
  <2>2. "repair" \in PCs
    BY DEF PCs
  <2> QED
    BY <1>3, <2>1, <2>2, TransitionEpisode
<1>9. CASE RepairEnsureAuditing
  <2>1. /\ UNCHANGED OutsideThread /\ UNCHANGED <<candles, latest>>
        /\ thread.pc = "repair"
        /\ \/ durable = "auditing" /\ Goto("audit") /\ UNCHANGED durable
           \/ Transition({"degraded", "repairing", "failed"}, "auditing", "audit")
    BY <1>9 DEF RepairEnsureAuditing, OutsideThread
  <2>2. "audit" \in PCs
    BY DEF PCs
  <2> QED
    BY <1>3, <2>1, <2>2, TransitionEpisode
<1>10. CASE PreAudit
  <2>1. /\ UNCHANGED OutsideThread /\ UNCHANGED <<candles, latest, durable>>
        /\ thread.pc = "audit"
    BY <1>10 DEF PreAudit, OutsideThread
  <2>2. CASE Missing(thread.window) = {}
    <3>1. Goto("target")
      BY <1>10, <2>2 DEF PreAudit, Goto
    <3> QED
      BY <1>3, <2>1, <3>1, WalkEpisode DEF PCs
  <2>3. CASE Missing(thread.window) # {}
    <3>1. thread' = [thread EXCEPT !.pc = "repairing", !.todo = Missing(thread.window)]
      BY <1>10, <2>3 DEF PreAudit
    <3>2. /\ thread'.pc = "repairing" /\ thread'.window = thread.window
          /\ thread'.known = thread.known /\ thread'.todo = Missing(thread.window)
          /\ thread'.committed = thread.committed /\ ~thread.committed
      BY <1>2, <1>3, <2>1, <3>1 DEF Threads
    <3>3. \A b \in Missing(thread.window) : b < bar
      BY <1>3 DEF Missing, ClosedOrStored
    <3>4. ~Restoring'
      BY <3>2 DEF Restoring
    <3>5. ClosedOrStored(thread'.window)
      BY <1>3, <3>2
    <3> QED
      BY <1>3, <2>1, <3>2, <3>3, <3>4, <3>5, QuietEpisode
  <2> QED
    BY <2>2, <2>3
<1>11. CASE TransitionToRepairing
  <2>1. /\ UNCHANGED OutsideThread /\ UNCHANGED <<candles, latest>>
        /\ thread.pc = "repairing"
        /\ Transition(LifecycleStates, "repairing", "import")
    BY <1>11 DEF TransitionToRepairing, OutsideThread
  <2>2. "import" \in PCs
    BY DEF PCs
  <2> QED
    BY <1>3, <2>1, <2>2, TransitionEpisode
<1>12. ASSUME NEW served \in SUBSET NextWindow(thread.todo), RepairWindow(served)
       PROVE  EpisodeInv'
  <2> DEFINE brings == served \ candles # {}
  <2>1. /\ UNCHANGED OutsideThread /\ durable' = durable
        /\ thread.pc = "import" /\ candles' = candles \cup served
        /\ thread' = [thread EXCEPT !.todo = @ \ NextWindow(@), !.used = @ + 1,
                                    !.committed = @ \/ brings]
    BY <1>12 DEF RepairWindow, OutsideThread
  <2>2. /\ latest' \in {latest} \cup (served \ candles) /\ latest' >= latest
        /\ \A b \in served \ candles : b <= latest'
    BY <1>12 DEF RepairWindow
  <2>3. brings \in BOOLEAN
    OBVIOUS
  <2>4. /\ \A b \in served : b \in thread.todo /\ b < bar
        /\ latest' # latest => brings
    BY <1>3, <1>12, <2>2 DEF NextWindow
  <2>5. /\ thread'.pc = "import" /\ thread'.window = thread.window
        /\ thread'.known = thread.known /\ thread'.todo \subseteq thread.todo
        /\ thread.committed \/ brings => thread'.committed
    <3> HIDE DEF brings
    <3> QED
      BY <1>2, <2>1, <2>3 DEF Threads
  <2>6. UNCHANGED <<bar, admitted, facts, intent, loop, notified>> /\ intent.exists
    BY <1>2, <2>1 DEF OutsideThread, EpisodeOwned
  <2> HIDE DEF brings
  <2>7. EpisodeOwned' /\ StateHolds'
    BY <1>2, <2>1, <2>5, <2>6 DEF EpisodeOwned, StateHolds, DataReady, Current
  <2>8. ~Restoring'
    BY <2>5 DEF Restoring
  <2>9. CheckedHolds'
    BY <1>2, <2>6, <2>8 DEF CheckedHolds
  <2>10. ClosedOrStored(intent.window)' /\ ClosedOrStored(thread.window)'
    BY <1>3, <2>1, <2>5, <2>6 DEF ClosedOrStored
  <2>11. /\ \A b \in candles' : b <= latest'
         /\ latest' # NoBar => latest' \in candles'
    <3>1. latest \in Int /\ latest' \in Int /\ candles \subseteq Int
      BY <1>1, <1>2, ConstantFacts DEF Numbers, OptBars, Bars, NoBar
    <3>2. \A b \in candles : b <= latest'
      BY <1>2, <2>2, <3>1 DEF StoredBelow
    <3>3. latest # NoBar => latest \in candles
      BY <1>2 DEF StoredBelow
    <3> QED
      BY <2>1, <2>2, <3>2, <3>3
  <2>12. StoredBelow'
    BY <1>3, <2>1, <2>5, <2>6, <2>10, <2>11 DEF StoredBelow
  <2>13. AnnounceHolds'
    <3>1. /\ latest <= notified \/ latest < bar \/ CommitInFlight
          /\ \/ latest <= notified
             \/ CommitInFlight
             \/ facts.fatal
             \/ intent.exists /\ (intent.retry \/ thread.committed)
      BY <1>2 DEF AnnounceHolds
    <3>2. CASE latest' = latest
      <4>1. CommitInFlight => CommitInFlight'
        BY <2>6, <3>2 DEF CommitInFlight
      <4> QED
        BY <2>5, <2>6, <2>8, <3>1, <3>2, <4>1 DEF AnnounceHolds
    <3>3. CASE latest' # latest
      <4>1. latest' < bar' /\ thread'.committed
        BY <2>2, <2>4, <2>5, <2>6, <3>3
      <4> QED
        BY <2>5, <2>6, <2>8, <4>1 DEF AnnounceHolds
    <3> QED
      BY <3>2, <3>3
  <2> QED
    BY <2>7, <2>9, <2>12, <2>13 DEF EpisodeInv
<1>13. CASE RepairFails
  <2>1. /\ UNCHANGED OutsideThread /\ UNCHANGED <<candles, latest>>
        /\ thread.pc = "import"
        /\ Return("recoverable") \/ Return("fatal")
    BY <1>13 DEF RepairFails, OutsideThread
  <2> QED
    BY <2>1, WalkEpisode DEF PCs
<1>14. CASE RepairingToAuditing
  <2>1. /\ UNCHANGED OutsideThread /\ UNCHANGED <<candles, latest>>
        /\ thread.pc = "import" /\ durable' # "repairing"
        /\ thread' = [thread EXCEPT !.pc = "postaudit", !.todo = {}, !.used = 0]
    BY <1>14 DEF RepairingToAuditing, OutsideThread
  <2>2. /\ thread'.pc = "postaudit" /\ thread'.window = thread.window
        /\ thread'.known = thread.known /\ thread'.todo = {}
        /\ thread'.committed = thread.committed
    BY <1>2, <2>1 DEF Threads
  <2>3. ~Restoring'
    BY <2>2 DEF Restoring
  <2>4. ClosedOrStored(thread'.window)
    BY <1>3, <2>2
  <2> QED
    BY <2>1, <2>2, <2>3, <2>4, QuietEpisode
<1>15. CASE PostAudit
  <2>1. /\ UNCHANGED OutsideThread /\ UNCHANGED <<candles, latest, durable>>
        /\ thread.pc = "postaudit"
        /\ Goto("target") \/ Return("incomplete")
    BY <1>15 DEF PostAudit, OutsideThread
  <2> QED
    BY <1>3, <2>1, WalkEpisode DEF PCs
<1>16. CASE CheckTarget
  <2>1. /\ UNCHANGED OutsideThread /\ UNCHANGED <<candles, latest, durable>>
        /\ thread.pc = "target"
    BY <1>16 DEF CheckTarget, OutsideThread
  <2>2. CASE bar > thread.window.end
    <3> DEFINE window == [start |-> thread.window.end, end |-> bar]
    <3>1. thread' = [thread EXCEPT !.pc = "done", !.result = "incomplete",
                                   !.window = window]
      BY <1>16, <2>2 DEF CheckTarget
    <3>2. window.start \in Int /\ window.end = bar
      BY <1>1, ConstantFacts DEF Numbers, Bars
    <3> HIDE DEF window
    <3>3. /\ thread'.pc = "done" /\ thread'.window = window
          /\ thread'.result = "incomplete"
          /\ thread'.known = thread.known /\ thread'.todo = thread.todo
          /\ thread'.committed = thread.committed
      BY <1>2, <3>1 DEF Threads
    <3>4. ClosedOrStored(window)
      BY <1>1, <3>2, ConstantFacts DEF ClosedOrStored, Numbers
    <3>5. ~Restoring'
      BY <3>3 DEF Restoring
    <3>6. ClosedOrStored(thread'.window)
      BY <3>3, <3>4
    <3> QED
      BY <1>3, <2>1, <3>3, <3>5, <3>6, QuietEpisode
  <2>3. CASE ~(bar > thread.window.end)
    <3>1. Goto("restore")
      BY <1>16, <2>3 DEF CheckTarget
    <3>2. /\ thread'.pc = "restore" /\ thread'.known = thread.known
          /\ thread'.window = thread.window /\ thread'.todo = thread.todo
          /\ thread'.committed = thread.committed
      BY <1>2, <3>1, GotoShape, GotoCommitted DEF PCs
    <3>3. bar <= thread'.window.end
      BY <1>1, <2>3, <3>2, ConstantFacts DEF Numbers, Bars
    <3>4. ClosedOrStored(thread'.window) /\ durable' # "repairing"
      BY <1>3, <2>1, <3>2
    <3> QED
      BY <1>3, <2>1, <3>2, <3>3, <3>4, QuietEpisode
  <2> QED
    BY <2>2, <2>3
<1>17. CASE MarkRestored
  <2>1. /\ UNCHANGED OutsideThread /\ UNCHANGED <<candles, latest>>
        /\ thread.pc = "restore" /\ Return("restored")
        /\ durable' = IF durable = "auditing" THEN "connecting" ELSE durable
    BY <1>17 DEF MarkRestored, OutsideThread
  <2>2. "restored" \in Results
    BY DEF Results
  <2>3. /\ thread'.pc = "done" /\ thread'.known = thread.known
        /\ thread'.window = thread.window /\ thread'.todo = {}
        /\ thread'.committed = thread.committed
    BY <1>2, <2>1, <2>2, ReturnShape, ReturnCommitted
  <2>4. Restoring /\ durable' \notin {"auditing", "repairing"}
    BY <1>3, <2>1 DEF Restoring
  <2>5. ClosedOrStored(thread'.window)
    BY <1>3, <2>3
  <2> QED
    BY <2>1, <2>3, <2>4, <2>5, QuietEpisode
<1>18. CASE ThreadFault
  <2>1. /\ UNCHANGED OutsideThread /\ UNCHANGED <<candles, latest>>
        /\ thread.pc # "idle" /\ Return("fatal")
    BY <1>18 DEF ThreadFault, OutsideThread
  <2> QED
    BY <2>1, WalkEpisode DEF PCs
<1> QED
  BY <1>5, <1>6, <1>7, <1>8, <1>9, <1>10, <1>11, <1>12, <1>13, <1>14, <1>15, <1>16,
     <1>17, <1>18 DEF Attempt

\* The state RuntimeService._startup leaves owes nothing.
LEMMA EpisodeStarts == Init => EpisodeInv
<1> SUFFICES ASSUME Init PROVE EpisodeInv
  OBVIOUS
<1>1. TypeOK /\ Bounded
  BY InitType
<1>2. Numbers
  BY <1>1, NumbersHold
<1> USE <1>2, ConstantFacts, AdmittedAssumption DEF Numbers, OptBars, Bars, NoBar
<1>3. /\ ~intent.exists /\ intent.window = NoWindow
      /\ thread = ThreadIdle /\ loop = Idle /\ notified = latest
      /\ candles = 0..latest /\ durable \in {"connecting", "bootstrapping"}
  BY DEF Init, NoIntent
<1>4. /\ ~facts.restored /\ facts.awaited = NoBar /\ facts.checked = NoBar
  BY DEF Init
<1>5. /\ loop.pc = "idle" /\ loop.target = "ready" /\ loop.then = "idle"
  BY <1>3 DEF Idle
<1>6. /\ thread.pc = "idle" /\ thread.known = NoBar /\ thread.window = NoWindow
      /\ thread.todo = {} /\ ~thread.committed
  BY <1>3, ThreadTypes, IdleCommitted
<1>7. EpisodeOwned /\ StateHolds
  BY <1>3, <1>4, <1>5, <1>6 DEF EpisodeOwned, StateHolds
<1>8. ~Restoring
  BY <1>6 DEF Restoring
<1>9. CheckedHolds
  <2>1. facts.awaited < bar /\ facts.checked <= facts.frontier
    BY <1>4
  <2> QED
    BY <2>1, <1>3, <1>8 DEF CheckedHolds
<1>10. StoredBelow
  BY <1>3, <1>6 DEF StoredBelow, ClosedOrStored, NoWindow
<1>11. AnnounceHolds
  <2>1. latest <= notified
    BY <1>3
  <2> QED
    BY <2>1, <1>6, <1>8 DEF AnnounceHolds
<1> QED
  BY <1>7, <1>9, <1>10, <1>11 DEF EpisodeInv

\* Every step keeps the promises of the episodes.
LEMMA StepEpisode ==
    TypeOK /\ Bounded /\ EpisodeInv /\ [Next]_vars => EpisodeInv'
<1> SUFFICES ASSUME TypeOK, Bounded, EpisodeInv, [Next]_vars PROVE EpisodeInv'
  OBVIOUS
<1>1. TypeOK'
  BY StepType
<1>2. CASE UNCHANGED vars
  <2>1. UNCHANGED <<bar, candles, latest, durable, admitted, facts, intent, thread,
                    loop, notified>>
    BY <1>2 DEF vars
  <2> QED
    BY <2>1 DEF EpisodeInv, EpisodeOwned, CheckedHolds, StateHolds, StoredBelow,
       AnnounceHolds, Restoring, ClosedOrStored, CommitInFlight, DataReady, Current
<1>3. CASE Ended
  BY <1>2, <1>3 DEF Ended
<1> QED
  BY <1>1, <1>2, <1>3, SignalsEpisode, SweepEpisode, StoreEpisode, WorkerEpisode,
     AttemptEpisode DEF Next

\* EpisodeInv holds for every bound, window budget, request size and set of
\* faults.
THEOREM EpisodeInvariant == Spec => [](TypeOK /\ Bounded /\ EpisodeInv)
<1>1. Init => TypeOK /\ Bounded /\ EpisodeInv
  BY InitType, EpisodeStarts
<1>2. TypeOK /\ Bounded /\ EpisodeInv /\ [Next]_vars
        => (TypeOK /\ Bounded /\ EpisodeInv)'
  BY StepType, StepEpisode
<1> QED
  BY <1>1, <1>2, PTL DEF Spec

\* detect_stale is silenced only for bars the frontier has passed: a stale check
\* that comes between the attempt's last look at the clock and its result cannot
\* be taken for answered by it.
THEOREM CheckedBarsAreProven == Spec => []CheckedIsProven
<1>1. EpisodeInv => CheckedIsProven
  BY DEF EpisodeInv, CheckedHolds, CheckedIsProven
<1> QED
  BY <1>1, EpisodeInvariant, PTL

\* An admitted stream is never left in auditing or repairing without a recovery
\* that will move it on, unless it is lost.
THEOREM LifecycleIsOwned == Spec => []LifecycleOwned
<1>1. EpisodeInv => LifecycleOwned
  BY DEF EpisodeInv, StateHolds, LifecycleOwned
<1> QED
  BY <1>1, EpisodeInvariant, PTL

\* When no recovery episode is open, every committed bar, whoever committed it,
\* was announced or a later one was.
THEOREM CommitsAreAnnounced == Spec => []Announced
<1>1. EpisodeInv => Announced
  BY DEF EpisodeInv, AnnounceHolds, Announced, CommitInFlight
<1> QED
  BY <1>1, EpisodeInvariant, PTL
=============================================================================
