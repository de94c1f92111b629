--------------------------- MODULE FrontierProofs ---------------------------
(***************************************************************************)
(* RecoveryInv is inductive, so the frontier never claims a missing bar    *)
(* and a stream is never published ready over a hole.                      *)
(***************************************************************************)
EXTENDS RealtimeRecoveryProofs

\* Arithmetic the provers are handed where it is needed.
LEMMA Predecessor == \A n \in Int : (n + 1) - 1 = n
OBVIOUS

\* The state RuntimeService._startup leaves satisfies the invariant.
LEMMA InitInv == Init => RecoveryInv
<1> SUFFICES ASSUME Init PROVE RecoveryInv
  OBVIOUS
<1>1. TypeOK /\ Bounded
  BY InitType
<1>2. Numbers
  BY <1>1, NumbersHold
<1> USE <1>2, ConstantFacts, AdmittedAssumption
    DEF Numbers, OptBars, Bars, NoBar
<1>3. /\ candles = 0..latest /\ admitted = AdmittedAtStart
      /\ facts.frontier = latest /\ ~intent.exists /\ intent.hint = NoBar
      /\ intent.window = NoWindow
      /\ loop.pc = "idle" /\ loop.then = "idle"
      /\ ~published.ready
  BY DEF Init, NoIntent, Idle, NotReady
<1>4. /\ thread.pc = "idle" /\ thread.hint = NoBar /\ thread.window = NoWindow
      /\ thread.used = 0
  BY ThreadTypes DEF Init
<1>5. BeforeAdmission /\ AfterAdmission
  BY <1>3 DEF Init, BeforeAdmission, AfterAdmission, Proven
<1>6. AttemptOwned /\ OutcomeStored /\ HintlessIntent /\ AuditHolds
      /\ ReadyIsContinuous
  BY <1>3, <1>4 DEF AttemptOwned, OutcomeStored, HintlessIntent, AuditHolds,
     ReadyIsContinuous
<1>7. HoleKnown
  BY <1>3, <1>4 DEF HoleKnown, FrontierKnown, HintKnown, FrozenKnown,
     LatestKnown, StartKnown, ToldKnown, PlanKnown, WindowKnown, Proven
<1> QED
  BY <1>1, <1>5, <1>6, <1>7 DEF RecoveryInv

-----------------------------------------------------------------------------
(* A step of the attempt changes the thread, the stored bars and the       *)
(* lifecycle only, and the intent it works for exists.                     *)

\* A step of the attempt keeps the invariant if it keeps what the attempt
\* itself claims.
LEMMA AttemptKeeps ==
    ASSUME RecoveryInv, TypeOK', Bounded', UNCHANGED OutsideThread,
           thread.pc # "idle",
           candles \subseteq candles', latest' >= latest,
           AttemptOwned', AuditHolds',
           Dirty' \/ (~Dirty /\ latest' = latest),
           thread'.hint \in {thread.hint, NoBar},
           ~facts.fatal => PlanKnown' /\ WindowKnown'
    PROVE  RecoveryInv'
<1>1. intent.exists /\ admitted
  BY DEF RecoveryInv, AttemptOwned, BeforeAdmission
<1>2. Numbers /\ Numbers'
  BY NumbersHold, NumbersNext DEF RecoveryInv
<1> USE <1>2 DEF Numbers, OptBars, Bars, NoBar, OutsideThread
<1>3. BeforeAdmission' /\ AfterAdmission'
  BY <1>1 DEF RecoveryInv, BeforeAdmission, AfterAdmission
<1>4. OutcomeStored' /\ HintlessIntent' /\ ReadyIsContinuous'
  BY DEF RecoveryInv, OutcomeStored, HintlessIntent, ReadyIsContinuous
<1>5. HoleKnown'
  <2> SUFFICES ASSUME ~facts'.fatal PROVE HoleKnown'
    BY DEF HoleKnown
  <2>1. HoleKnown /\ ~facts.fatal
    BY DEF RecoveryInv
  <2>2. FrontierKnown' /\ HintKnown' /\ FrozenKnown'
    BY <2>1 DEF HoleKnown, FrontierKnown, HintKnown, FrozenKnown, Proven
  <2>3. LatestKnown'
    BY <2>1 DEF HoleKnown, LatestKnown, GapInFlight, Proven
  <2>4. StartKnown'
    BY <1>1 DEF StartKnown
  <2>5. ToldKnown'
    BY <2>1 DEF HoleKnown, ToldKnown, Proven
  <2> QED
    BY <2>1, <2>2, <2>3, <2>4, <2>5 DEF HoleKnown
<1> QED
  BY <1>3, <1>4, <1>5 DEF RecoveryInv

\* Every step of the recovery thread keeps the invariant.
LEMMA AttemptInv ==
    ASSUME SafeBudget, RecoveryInv, Attempt, TypeOK', Bounded'
    PROVE  RecoveryInv'
<1>a. Numbers /\ Numbers'
  BY NumbersHold, NumbersNext DEF RecoveryInv
<1>b. thread \in Threads /\ durable \in LifecycleStates /\ HoleKnown /\ Bounded
      /\ AttemptOwned /\ AuditHolds /\ HintlessIntent
  BY DEF RecoveryInv, TypeOK
<1> USE <1>a, ConstantFacts DEF Numbers, OptBars, Bars, NoBar
<1>c. NoWindow \in Windows /\ NoWindow.start = 0 /\ NoWindow.end = 0
  BY DEF NoWindow, Windows
<1>d. thread.pc # "idle" => intent.exists /\ admitted /\ latest # NoBar
  BY DEF RecoveryInv, AttemptOwned, BeforeAdmission, AfterAdmission
\* A step inside the attempt that only moves on or ends it as fatal.
<1>e. ASSUME NEW next \in {"repair", "audit", "import"},
             thread.pc \in {"ensure", "repair", "audit", "repairing"},
             UNCHANGED OutsideThread, UNCHANGED <<candles, latest>>,
             Goto(next) \/ Return("fatal")
      PROVE  RecoveryInv'
  <2>1. CASE Goto(next)
    <3>1. /\ thread'.pc = next
          /\ thread'.hint = thread.hint /\ thread'.known = thread.known
          /\ thread'.window = thread.window
          /\ thread'.used = thread.used /\ thread'.result = thread.result
      BY <1>b, <1>e, <2>1, GotoShape DEF PCs
    <3>2. AttemptOwned' /\ AuditHolds'
      BY <1>b, <1>e, <3>1 DEF AttemptOwned, AuditHolds, OutsideThread
    <3>3. Dirty' \/ ~Dirty
      BY <1>e, <3>1 DEF Dirty
    <3>4. ~facts.fatal => PlanKnown' /\ WindowKnown'
      BY <1>b, <1>e, <3>1 DEF HoleKnown, PlanKnown, WindowKnown, GapInFlight,
         Proven, OutsideThread
    <3> QED
      BY <1>e, <3>1, <3>2, <3>3, <3>4, AttemptKeeps
  <2>2. CASE Return("fatal")
    <3>1. /\ thread'.pc = "done" /\ thread'.result = "fatal"
          /\ thread'.hint = thread.hint /\ thread'.known = thread.known
          /\ thread'.window = thread.window /\ thread'.used = 0
      BY <1>b, <2>2, ReturnShape DEF Results
    <3>2. AttemptOwned' /\ AuditHolds'
      BY <1>b, <1>e, <3>1 DEF AttemptOwned, AuditHolds, OutsideThread
    <3>3. Dirty'
      BY <3>1 DEF Dirty
    <3>4. ~facts.fatal => PlanKnown' /\ WindowKnown'
      BY <1>b, <1>e, <3>1 DEF HoleKnown, PlanKnown, WindowKnown, GapInFlight,
         Proven, OutsideThread
    <3> QED
      BY <1>e, <3>1, <3>2, <3>3, <3>4, AttemptKeeps
  <2> QED
    BY <1>e, <2>1, <2>2
<1>1. CASE MarkUnavailable
  <2>1. UNCHANGED OutsideThread /\ UNCHANGED <<candles, latest>>
        /\ thread.pc = "unavailable"
    BY <1>1 DEF MarkUnavailable, OutsideThread
  <2>2. /\ thread'.window = thread.window /\ thread'.used = 0
        /\ \/ thread'.pc = "read" /\ thread.window = NoWindow
              /\ thread'.hint = thread.hint
           \/ thread'.pc = "ensure" /\ thread.window # NoWindow
              /\ thread'.hint = NoBar
    <3>1. CASE thread.window = NoWindow
      <4>1. Goto("read")
        BY <1>1, <3>1 DEF MarkUnavailable, Goto
      <4> QED
        BY <1>b, <2>1, <3>1, <4>1, GotoShape DEF PCs, AttemptOwned
    <3>2. CASE thread.window # NoWindow
      <4>1. thread' = [ThreadIdle EXCEPT !.pc = "ensure", !.window = thread.window]
        BY <1>1, <3>2 DEF MarkUnavailable
      <4> QED
        BY <3>2, <4>1, ThreadTypes DEF Threads
    <3> QED
      BY <3>1, <3>2
  <2>3. AttemptOwned' /\ AuditHolds'
    BY <1>b, <2>1, <2>2 DEF AttemptOwned, AuditHolds, OutsideThread
  <2>4. ~Dirty
    BY <1>b, <2>1 DEF Dirty, AttemptOwned
  <2>5. ~facts.fatal => PlanKnown' /\ WindowKnown'
    BY <1>b, <2>1, <2>2 DEF HoleKnown, PlanKnown, WindowKnown, GapInFlight,
       Proven, OutsideThread
  <2> QED
    BY <2>1, <2>2, <2>3, <2>4, <2>5, AttemptKeeps
<1>2. CASE DeriveRead
  <2>1. UNCHANGED OutsideThread /\ UNCHANGED <<candles, latest>>
        /\ thread.pc = "read"
    BY <1>2 DEF DeriveRead, OutsideThread
  <2>2. /\ thread'.pc = "plan" /\ thread'.known = latest
        /\ thread'.window = thread.window /\ thread'.used = thread.used
        /\ thread'.hint = thread.hint
    BY <1>2, <1>b DEF DeriveRead, Threads
  <2>3. AttemptOwned' /\ AuditHolds'
    BY <1>b, <1>d, <2>1, <2>2 DEF AttemptOwned, AuditHolds, OutsideThread
  <2>4. ~Dirty
    BY <1>b, <2>1 DEF Dirty, AttemptOwned
  <2>5. ~facts.fatal => PlanKnown' /\ WindowKnown'
    <3>1. ~intent.revised => thread.hint = intent.hint /\ intent.window = NoWindow
      BY <1>b, <2>1 DEF AttemptOwned
    <3>2. ~facts.fatal => PlanKnown'
      BY <1>b, <1>d, <2>1, <2>2, <2>4, <3>1 DEF HoleKnown, LatestKnown, PlanKnown,
         GapInFlight, Proven, OutsideThread
    <3>3. WindowKnown'
      BY <1>b, <2>1, <2>2 DEF AttemptOwned, WindowKnown
    <3> QED
      BY <3>2, <3>3
  <2> QED
    BY <2>1, <2>2, <2>3, <2>4, <2>5, AttemptKeeps
<1>3. CASE DerivePlan
  <2>1. UNCHANGED OutsideThread /\ UNCHANGED <<candles, latest>>
        /\ thread.pc = "plan" /\ thread.known # NoBar
    BY <1>3, <1>b DEF DerivePlan, OutsideThread, AttemptOwned
  <2> DEFINE w == DeriveWindow(thread.hint, thread.known, bar)
             first == IF thread.hint = NoBar THEN thread.known + 1
                      ELSE Earlier(thread.known + 1, thread.hint)
  <2>2. w \in Windows /\ w # NoWindow
        /\ \/ w.start = first
           \/ w.start = thread.known /\ first >= bar
    <3>1. w = IF first >= bar
              THEN [start |-> thread.known, end |-> thread.known + 1]
              ELSE [start |-> first, end |-> bar]
      BY DEF DeriveWindow
    <3>2. first \in Bars
      BY <2>1, <1>b DEF Earlier, Bounded
    <3> HIDE DEF w, first
    <3>3. w \in Windows /\ w.end > 0
      BY <2>1, <1>b, <3>1, <3>2 DEF Windows, Bounded
    <3>4. \/ w.start = first
          \/ w.start = thread.known /\ first >= bar
      BY <3>1
    <3> QED
      BY <1>c, <3>3, <3>4
  <2>3. thread' = [ThreadIdle EXCEPT !.pc = "ensure", !.window = w]
    BY <1>3, <2>1 DEF DerivePlan
  <2> HIDE DEF w
  <2>4. /\ thread'.pc = "ensure" /\ thread'.window = w
        /\ thread'.hint = NoBar /\ thread'.used = 0
    BY <2>2, <2>3, ThreadTypes DEF Threads
  <2>5. AttemptOwned' /\ AuditHolds'
    BY <1>b, <2>1, <2>2, <2>4 DEF AttemptOwned, AuditHolds, OutsideThread
  <2>6. ~Dirty
    BY <1>b, <2>1 DEF Dirty, AttemptOwned
  <2>7. ~facts.fatal => PlanKnown' /\ WindowKnown'
    <3> SUFFICES ASSUME ~facts.fatal, ~intent.revised,
                        ~(GapInFlight /\ intent.hint = NoBar)
                 PROVE  Proven(w.start)
      BY <2>1, <2>4 DEF PlanKnown, WindowKnown, GapInFlight, Proven, OutsideThread
    <3>1. thread.hint = intent.hint
      BY <1>b, <2>1 DEF AttemptOwned
    <3>2. thread.known <= bar
      BY <1>b DEF Bounded
    <3>3. CASE thread.hint = NoBar
      <4>1. Proven(thread.known + 1)
        BY <1>b, <2>1, <3>1, <3>3 DEF HoleKnown, PlanKnown
      <4> QED
        BY <2>2, <3>3, <4>1 DEF Proven, Windows
    <3>4. CASE thread.hint # NoBar
      <4>1. Proven(thread.hint)
        BY <1>b, <3>4 DEF HoleKnown, ToldKnown
      <4>2. w.start <= thread.hint
        BY <2>2, <3>2, <3>4 DEF Earlier
      <4> QED
        BY <2>2, <4>1, <4>2 DEF Proven, Windows
    <3> QED
      BY <3>3, <3>4
  <2> QED
    BY <2>1, <2>4, <2>5, <2>6, <2>7, AttemptKeeps
<1>4. CASE EnsureAuditing
  <2>1. /\ UNCHANGED OutsideThread /\ UNCHANGED <<candles, latest>>
        /\ thread.pc = "ensure"
    BY <1>4 DEF EnsureAuditing, OutsideThread
  <2>2. Goto("repair") \/ Return("fatal")
    BY <1>4, <1>b, TransitionShape DEF EnsureAuditing, LifecycleStates, PCs
  <2> QED
    BY <1>e, <2>1, <2>2
<1>5. CASE RepairEnsureAuditing
  <2>1. /\ UNCHANGED OutsideThread /\ UNCHANGED <<candles, latest>>
        /\ thread.pc = "repair"
    BY <1>5 DEF RepairEnsureAuditing, OutsideThread
  <2>2. Goto("audit") \/ Return("fatal")
    BY <1>5, <1>b, TransitionShape DEF RepairEnsureAuditing, LifecycleStates, PCs
  <2> QED
    BY <1>e, <2>1, <2>2
<1>6. CASE PreAudit
  <2>1. /\ UNCHANGED OutsideThread /\ UNCHANGED <<candles, latest>>
        /\ thread.pc = "audit"
    BY <1>6 DEF PreAudit, OutsideThread
  <2>2. /\ thread'.hint = thread.hint /\ thread'.window = thread.window
        /\ thread'.used = thread.used
        /\ \/ thread'.pc = "target" /\ Missing(thread.window) = {}
           \/ thread'.pc = "repairing"
    <3>1. \/ /\ thread' = [thread EXCEPT !.pc = "target"]
             /\ Missing(thread.window) = {}
          \/ thread' = [thread EXCEPT !.pc = "repairing",
                                      !.todo = Missing(thread.window)]
      BY <1>6 DEF PreAudit
    <3> QED
      BY <1>b, <3>1 DEF Threads
  <2>3. AttemptOwned'
    BY <1>b, <2>1, <2>2 DEF AttemptOwned, OutsideThread
  <2>4. AuditHolds'
    BY <2>1, <2>2 DEF AuditHolds, Missing
  <2>5. ~Dirty
    BY <1>b, <2>1 DEF Dirty, AttemptOwned
  <2>6. ~facts.fatal => PlanKnown' /\ WindowKnown'
    BY <1>b, <2>1, <2>2 DEF HoleKnown, PlanKnown, WindowKnown, GapInFlight,
       Proven, OutsideThread
  <2> QED
    BY <2>1, <2>2, <2>3, <2>4, <2>5, <2>6, AttemptKeeps
<1>7. CASE TransitionToRepairing
  <2>1. /\ UNCHANGED OutsideThread /\ UNCHANGED <<candles, latest>>
        /\ thread.pc = "repairing"
    BY <1>7 DEF TransitionToRepairing, OutsideThread
  <2>2. Goto("import") \/ Return("fatal")
    BY <1>7, <1>b, TransitionShape DEF TransitionToRepairing, LifecycleStates, PCs
  <2> QED
    BY <1>e, <2>1, <2>2
<1>8. ASSUME NEW served \in SUBSET NextWindow(thread.todo), RepairWindow(served)
      PROVE  RecoveryInv'
  <2>1. UNCHANGED OutsideThread /\ thread.pc = "import"
        /\ candles \subseteq candles' /\ latest' >= latest
    BY <1>8 DEF RepairWindow, OutsideThread
  <2>2. /\ thread'.hint = thread.hint /\ thread'.window = thread.window
        /\ thread'.used = thread.used + 1 /\ thread'.pc = "import"
    BY <1>8, <1>b DEF RepairWindow, Threads
  <2>3. AttemptOwned' /\ AuditHolds'
    BY <1>b, <2>1, <2>2 DEF AttemptOwned, AuditHolds, OutsideThread
  <2>4. Dirty'
    BY <2>2 DEF Dirty
  <2>5. ~facts.fatal => PlanKnown' /\ WindowKnown'
    BY <1>b, <2>1, <2>2 DEF HoleKnown, PlanKnown, WindowKnown, GapInFlight,
       Proven, OutsideThread
  <2> QED
    BY <2>1, <2>2, <2>3, <2>4, <2>5, AttemptKeeps
<1>9. CASE RepairFails
  <2>1. UNCHANGED OutsideThread /\ UNCHANGED <<candles, latest>>
        /\ thread.pc = "import" /\ thread.used < MaxWindows
    BY <1>9 DEF RepairFails, OutsideThread
  <2>2. PICK r \in {"recoverable", "fatal"} \cap Faults : Return(r)
    BY <1>9 DEF RepairFails
  <2>3. /\ thread'.pc = "done" /\ thread'.result = r /\ thread'.used = 0
        /\ thread'.hint = thread.hint /\ thread'.window = thread.window
    BY <1>b, <2>2, ReturnShape DEF Results
  <2>4. AttemptOwned' /\ AuditHolds'
    BY <1>b, <2>1, <2>3 DEF AttemptOwned, AuditHolds, OutsideThread
  \* The one place that needs the budget: a recoverable failure forgets the
  \* window, so no earlier window of the attempt may have been imported.
  <2>5. Dirty' \/ ~Dirty
    <3>1. CASE r = "fatal"
      BY <2>3, <3>1 DEF Dirty
    <3>2. CASE r = "recoverable"
      <4>1. MaxWindows = 1
        BY <2>2, <3>2 DEF SafeBudget
      <4> QED
        BY <2>1, <4>1 DEF Dirty
    <3> QED
      BY <3>1, <3>2
  <2>6. ~facts.fatal => PlanKnown' /\ WindowKnown'
    BY <1>b, <2>1, <2>3 DEF HoleKnown, PlanKnown, WindowKnown, GapInFlight,
       Proven, OutsideThread
  <2> QED
    BY <2>1, <2>3, <2>4, <2>5, <2>6, AttemptKeeps
<1>10. CASE RepairingToAuditing
  <2>1. UNCHANGED OutsideThread /\ UNCHANGED <<candles, latest>>
        /\ thread.pc = "import"
    BY <1>10 DEF RepairingToAuditing, OutsideThread
  <2>2. thread' = [thread EXCEPT !.pc = "postaudit", !.todo = {}, !.used = 0]
    BY <1>10 DEF RepairingToAuditing
  <2>3. /\ thread'.pc = "postaudit" /\ thread'.used = 0
        /\ thread'.hint = thread.hint /\ thread'.window = thread.window
    BY <1>b, <2>2 DEF Threads
  <2>4. AttemptOwned' /\ AuditHolds'
    BY <1>b, <2>1, <2>3 DEF AttemptOwned, AuditHolds, OutsideThread
  <2>5. Dirty'
    BY <2>3 DEF Dirty
  <2>6. ~facts.fatal => PlanKnown' /\ WindowKnown'
    BY <1>b, <2>1, <2>3 DEF HoleKnown, PlanKnown, WindowKnown, GapInFlight,
       Proven, OutsideThread
  <2> QED
    BY <2>1, <2>3, <2>4, <2>5, <2>6, AttemptKeeps
<1>11. CASE PostAudit
  <2>1. UNCHANGED OutsideThread /\ UNCHANGED <<candles, latest>>
        /\ thread.pc = "postaudit"
    BY <1>11 DEF PostAudit, OutsideThread
  <2>2. \/ Goto("target") /\ Missing(thread.window) = {}
        \/ Return("incomplete")
    BY <1>11 DEF PostAudit
  <2>3. /\ thread'.hint = thread.hint /\ thread'.window = thread.window
        /\ thread'.used \in {thread.used, 0}
        /\ \/ thread'.pc = "target" /\ Missing(thread.window) = {}
           \/ thread'.pc = "done" /\ thread'.result = "incomplete"
    BY <1>b, <2>2, GotoShape, ReturnShape DEF PCs, Results
  <2>4. AttemptOwned'
    BY <1>b, <2>1, <2>3 DEF AttemptOwned, OutsideThread
  <2>5. AuditHolds'
    BY <2>1, <2>3 DEF AuditHolds, Missing
  <2>6. Dirty'
    BY <2>3 DEF Dirty
  <2>7. ~facts.fatal => PlanKnown' /\ WindowKnown'
    BY <1>b, <2>1, <2>3 DEF HoleKnown, PlanKnown, WindowKnown, GapInFlight,
       Proven, OutsideThread
  <2> QED
    BY <2>1, <2>3, <2>4, <2>5, <2>6, <2>7, AttemptKeeps
<1>12. CASE CheckTarget
  <2>1. UNCHANGED OutsideThread /\ UNCHANGED <<candles, latest>>
        /\ thread.pc = "target"
    BY <1>12 DEF CheckTarget, OutsideThread
  <2>2. CASE bar > thread.window.end
    <3> DEFINE w == [start |-> thread.window.end, end |-> bar]
    <3>1. w \in Windows /\ w.start = thread.window.end /\ w.end > 0
      BY <2>2 DEF Windows
    <3>2. w # NoWindow
      BY <1>c, <3>1
    <3>3. thread' = [thread EXCEPT !.pc = "done", !.result = "incomplete",
                                   !.window = w]
      BY <1>12, <2>2 DEF CheckTarget
    <3> HIDE DEF w
    <3>4. /\ thread'.pc = "done" /\ thread'.result = "incomplete"
          /\ thread'.window = w /\ thread'.hint = thread.hint
          /\ thread'.used = thread.used
      BY <1>b, <3>1, <3>3 DEF Threads
    <3>5. AttemptOwned' /\ AuditHolds'
      BY <1>b, <2>1, <3>2, <3>4 DEF AttemptOwned, AuditHolds, OutsideThread
    <3>6. Dirty'
      BY <3>4 DEF Dirty
    <3>7. ~facts.fatal => PlanKnown' /\ WindowKnown'
      <4> SUFFICES ASSUME ~facts.fatal, ~intent.revised,
                          ~(GapInFlight /\ intent.hint = NoBar)
                   PROVE  Proven(thread.window.end)
        BY <2>1, <3>1, <3>4 DEF PlanKnown, WindowKnown, GapInFlight, Proven,
           OutsideThread
      <4>1. Proven(thread.window.start)
        BY <1>b, <2>1 DEF AttemptOwned, HoleKnown, WindowKnown
      <4>2. thread.window.start..(thread.window.end - 1) \subseteq candles
        BY <1>b, <2>1 DEF AuditHolds
      <4> QED
        BY <4>1, <4>2 DEF Proven
    <3> QED
      BY <2>1, <3>4, <3>5, <3>6, <3>7, AttemptKeeps
  <2>3. CASE ~(bar > thread.window.end)
    <3>1. Goto("restore")
      BY <1>12, <2>3 DEF CheckTarget
    <3>2. /\ thread'.pc = "restore" /\ thread'.used = thread.used
          /\ thread'.hint = thread.hint /\ thread'.window = thread.window
      BY <1>b, <3>1, GotoShape DEF PCs
    <3>3. AttemptOwned' /\ AuditHolds'
      BY <1>b, <2>1, <3>2 DEF AttemptOwned, AuditHolds, OutsideThread
    <3>4. Dirty'
      BY <3>2 DEF Dirty
    <3>5. ~facts.fatal => PlanKnown' /\ WindowKnown'
      BY <1>b, <2>1, <3>2 DEF HoleKnown, PlanKnown, WindowKnown, GapInFlight,
         Proven, OutsideThread
    <3> QED
      BY <2>1, <3>2, <3>3, <3>4, <3>5, AttemptKeeps
  <2> QED
    BY <2>2, <2>3
<1>13. ASSUME MarkRestored \/ ThreadFault PROVE RecoveryInv'
  <2>1. UNCHANGED OutsideThread /\ UNCHANGED <<candles, latest>>
    BY <1>13 DEF MarkRestored, ThreadFault, OutsideThread
  <2>2. \/ thread.pc = "restore" /\ Return("restored")
        \/ thread.pc \in {"read", "ensure", "repair", "audit", "repairing",
                          "postaudit", "restore"} /\ Return("fatal")
    BY <1>13 DEF MarkRestored, ThreadFault
  <2>3. /\ thread'.pc = "done" /\ thread'.used = 0
        /\ thread'.hint = thread.hint /\ thread'.window = thread.window
        /\ \/ thread.pc = "restore" /\ thread'.result = "restored"
           \/ thread.pc # "idle" /\ thread'.result = "fatal"
    BY <1>b, <2>2, ReturnShape DEF Results
  <2>4. AttemptOwned' /\ AuditHolds'
    BY <1>b, <2>1, <2>3 DEF AttemptOwned, AuditHolds, OutsideThread
  <2>5. Dirty'
    BY <2>3 DEF Dirty
  <2>6. ~facts.fatal => PlanKnown' /\ WindowKnown'
    BY <1>b, <2>1, <2>3 DEF HoleKnown, PlanKnown, WindowKnown, GapInFlight,
       Proven, OutsideThread
  <2> QED
    BY <2>1, <2>3, <2>4, <2>5, <2>6, AttemptKeeps
<1> QED
  BY <1>1, <1>2, <1>3, <1>4, <1>5, <1>6, <1>7, <1>8, <1>9, <1>10, <1>11, <1>12,
     <1>13 DEF Attempt

-----------------------------------------------------------------------------
(* The event loop's steps.                                                 *)

\* A signal's hint lies at or below the bar after the frontier.
LEMMA SignalHintProven ==
    ASSUME NEW f \in Facts, NEW h \in OptBars, f.frontier # NoBar
    PROVE  SignalHint(f, h) # NoBar => SignalHint(f, h) <= f.frontier + 1
BY ConstantFacts DEF SignalHint, Earlier, Facts, OptBars, Bars, NoBar

\* Once there is a frontier every signal carries a hint.
LEMMA SignalHintExists ==
    ASSUME NEW f \in Facts, NEW h \in OptBars, f.frontier # NoBar
    PROVE  SignalHint(f, h) # NoBar
BY ConstantFacts DEF SignalHint, Earlier, Facts, OptBars, Bars, NoBar

\* What the sweep publishes is covered by the frontier.
LEMMA FinishSyncReady ==
    ASSUME TypeOK, HoleKnown, ReadyIsContinuous, NEW state,
           FinishSync(state) \/ UNCHANGED published, UNCHANGED candles
    PROVE  ReadyIsContinuous'
<1>1. Numbers
  BY NumbersHold
<1>2. CASE UNCHANGED published
  BY <1>2 DEF ReadyIsContinuous
<1>3. CASE FinishSync(state) /\ ~(state = "ready" /\ DataReady(facts, loop.exp))
  BY <1>3 DEF FinishSync, NotReady, ReadyIsContinuous
<1>4. CASE FinishSync(state) /\ DataReady(facts, loop.exp) /\ state = "ready"
  <2>1. published'.through = loop.exp
    BY <1>4 DEF FinishSync
  <2>2. loop.exp <= facts.frontier /\ ~facts.fatal
    BY <1>4 DEF DataReady, Current
  <2>3. 0..loop.exp \subseteq candles
    BY <1>1, <2>2, ConstantFacts DEF HoleKnown, FrontierKnown, Proven, Numbers,
       OptBars, Bars, NoBar
  <2> QED
    BY <2>1, <2>3 DEF ReadyIsContinuous
<1> QED
  BY <1>2, <1>3, <1>4

\* A step that touches neither the stored bars nor the thread, and after which
\* no live commit is in flight.
LEMMA SweepKeeps ==
    ASSUME RecoveryInv, TypeOK', Bounded',
           UNCHANGED <<candles, latest, history, admitted, facts, intent, thread,
                       disconnected>>,
           loop.pc # "outcome", loop'.pc # "outcome",
           BeforeAdmission', ReadyIsContinuous'
    PROVE  RecoveryInv'
<1>1. AfterAdmission' /\ AttemptOwned' /\ OutcomeStored' /\ HintlessIntent'
      /\ AuditHolds'
  BY DEF RecoveryInv, AfterAdmission, AttemptOwned, OutcomeStored, HintlessIntent,
     AuditHolds
<1>2. HoleKnown'
  BY DEF RecoveryInv, HoleKnown, FrontierKnown, HintKnown, FrozenKnown,
     LatestKnown, StartKnown, ToldKnown, PlanKnown, WindowKnown, Proven, Dirty,
     GapInFlight
<1> QED
  BY <1>1, <1>2 DEF RecoveryInv

\* Every step of synchronize_stream_lifecycle keeps the invariant.
LEMMA SweepInv ==
    ASSUME RecoveryInv, TypeOK', Bounded',
           SyncRead \/ MarkRead \/ MarkCommit
    PROVE  RecoveryInv'
<1>a. TypeOK /\ Bounded /\ HoleKnown /\ ReadyIsContinuous /\ BeforeAdmission
  BY DEF RecoveryInv
<1>1. CASE SyncRead
  <2>1. UNCHANGED <<candles, latest, durable, history, admitted, facts, intent,
                    thread, disconnected>> /\ loop.pc = "sync"
    BY <1>1 DEF SyncRead
  <2>2. \/ FinishSync(durable)
        \/ /\ admitted /\ UNCHANGED published
           /\ \E t \in LifecycleStates :
                 loop' = [loop EXCEPT !.pc = "mark", !.target = t]
    <3> DEFINE target == IF admitted THEN SyncTarget(durable, facts, loop.exp)
                                     ELSE "none"
    <3>1. IF target = "none"
          THEN FinishSync(durable)
          ELSE /\ loop' = [loop EXCEPT !.pc = "mark", !.target = target]
               /\ UNCHANGED published
      BY <1>1 DEF SyncRead
    <3>2. target \in LifecycleStates \cup {"none"} /\ (target # "none" => admitted)
      BY SyncTargetType
    <3> HIDE DEF target
    <3> QED
      BY <3>1, <3>2
  <2>3. CASE FinishSync(durable)
    <3>1. ReadyIsContinuous'
      BY <1>a, <2>1, <2>3, FinishSyncReady
    <3>2. /\ loop'.pc \in {"idle", "ingest"} /\ loop'.then = "idle"
          /\ loop'.pc = "ingest" => loop.then = "ingest"
      BY <1>a, <2>3, FinishSyncShape
    <3>3. BeforeAdmission'
      BY <1>a, <2>1, <3>2 DEF BeforeAdmission, Proven
    <3> QED
      BY <2>1, <3>1, <3>2, <3>3, SweepKeeps
  <2>4. CASE /\ admitted /\ UNCHANGED published
             /\ \E t \in LifecycleStates :
                   loop' = [loop EXCEPT !.pc = "mark", !.target = t]
    <3>1. ReadyIsContinuous'
      BY <1>a, <2>1, <2>4 DEF ReadyIsContinuous
    <3>2. loop'.pc = "mark"
      BY <1>a, <2>4 DEF TypeOK, Loops
    <3>3. BeforeAdmission'
      BY <2>1, <2>4 DEF BeforeAdmission
    <3> QED
      BY <2>1, <3>1, <3>2, <3>3, SweepKeeps
  <2> QED
    BY <2>2, <2>3, <2>4
<1>2. CASE MarkRead \/ MarkCommit
  <2>1. UNCHANGED <<candles, latest, history, admitted, facts, intent,
                    thread, disconnected>> /\ loop.pc \in {"mark", "commit"}
    BY <1>2 DEF MarkRead, MarkCommit
  <2>2. \/ Marked
        \/ loop' = [loop EXCEPT !.pc = "commit"] /\ UNCHANGED published
    BY <1>2 DEF MarkRead, MarkCommit
  <2>3. loop'.pc # "outcome"
    BY <1>a, <2>2, MarkedShape DEF TypeOK, Loops
  <2>4. BeforeAdmission'
    BY <1>a, <2>1 DEF BeforeAdmission
  <2>5. ReadyIsContinuous'
    <3>1. FinishSync(loop.target) \/ UNCHANGED published
      BY <2>2 DEF Marked
    <3> QED
      BY <1>a, <2>1, <3>1, FinishSyncReady
  <2> QED
    BY <2>1, <2>3, <2>4, <2>5, SweepKeeps
<1> QED
  BY <1>1, <1>2

\* The three things a handler may do to the intent: leave it (then a commit in
\* flight is already below its hint), raise or revise it with a proven hint, or
\* start it without one while no hole exists.
Kept ==
    /\ intent'.exists = intent.exists /\ intent'.hint = intent.hint
    /\ intent'.window = intent.window /\ intent'.revised = intent.revised
    /\ intent'.urgent = intent.urgent
    /\ GapInFlight => intent.exists /\ intent.hint # NoBar
Raised ==
    /\ intent'.exists /\ intent'.hint # NoBar
    /\ ~facts'.fatal => Proven(intent'.hint)
    /\ intent'.window \in {intent.window, NoWindow}
    /\ thread.pc = "idle" \/ intent'.revised
Started ==
    /\ thread.pc = "idle"
    /\ intent'.exists /\ intent'.hint = NoBar /\ intent'.window = NoWindow
    /\ intent'.urgent /\ ~intent'.revised
    /\ ~facts'.fatal => Proven(latest + 1)

\* A handler keeps the invariant if the intent it leaves still knows the
\* oldest hole.
LEMMA HandlerKeeps ==
    ASSUME RecoveryInv, TypeOK', Bounded',
           UNCHANGED <<candles, latest, history, thread, published>>,
           admitted', history = "proven", latest # NoBar,
           facts'.frontier # NoBar, loop'.pc # "outcome",
           ~facts'.fatal => ~facts.fatal /\ FrontierKnown' /\ StartKnown',
           Kept \/ Raised \/ Started
    PROVE  RecoveryInv'
<1>1. BeforeAdmission' /\ AfterAdmission' /\ OutcomeStored' /\ AuditHolds'
      /\ ReadyIsContinuous'
  BY DEF RecoveryInv, BeforeAdmission, AfterAdmission, OutcomeStored, AuditHolds,
     ReadyIsContinuous
<1>2. AttemptOwned' /\ HintlessIntent'
  BY DEF RecoveryInv, AttemptOwned, HintlessIntent, Kept, Raised, Started
<1>3. HoleKnown'
  <2> SUFFICES ASSUME ~facts'.fatal PROVE HoleKnown'
    BY DEF HoleKnown
  <2>1. HoleKnown /\ ~facts.fatal /\ FrontierKnown' /\ StartKnown' /\ AttemptOwned
    BY DEF RecoveryInv
  <2>2. HintKnown'
    BY <2>1 DEF HoleKnown, HintKnown, Kept, Raised, Started, Proven
  <2>3. FrozenKnown'
    BY <2>1 DEF HoleKnown, FrozenKnown, Kept, Raised, Started, Proven
  <2>4. LatestKnown'
    BY <2>1 DEF HoleKnown, LatestKnown, Dirty, Kept, Raised, Started, Proven
  <2>5. ToldKnown'
    BY <2>1 DEF HoleKnown, ToldKnown, Proven
  <2>6. PlanKnown'
    BY <2>1 DEF HoleKnown, PlanKnown, AttemptOwned, Kept, Raised, Started, Proven
  <2>7. WindowKnown'
    BY <2>1 DEF HoleKnown, WindowKnown, AttemptOwned, Kept, Raised, Started, Proven
  <2> QED
    BY <2>1, <2>2, <2>3, <2>4, <2>5, <2>6, <2>7 DEF HoleKnown
<1> QED
  BY <1>1, <1>2, <1>3 DEF RecoveryInv

\* A signal with a proven hint raises or revises the intent, or finds in it a
\* hint that is already low enough.
LEMMA SignalRaises ==
    ASSUME RecoveryInv, NEW h \in OptBars, h # NoBar, NEW b \in BOOLEAN,
           ~facts'.fatal => ~facts.fatal /\ Proven(h),
           intent'.exists = Enqueue(intent, h, b).exists,
           intent'.hint = Enqueue(intent, h, b).hint,
           intent'.window = Enqueue(intent, h, b).window,
           intent'.revised = Enqueue(intent, h, b).revised,
           intent'.urgent = Enqueue(intent, h, b).urgent
    PROVE  Kept \/ Raised
<1>1. intent \in Intents /\ AttemptOwned /\ HoleKnown
  BY DEF RecoveryInv, TypeOK
<1>2. CASE ~intent.exists
  <2>1. thread.pc = "idle"
    BY <1>1, <1>2 DEF AttemptOwned
  <2> QED
    BY <1>1, <1>2, <2>1, EnqueueFresh DEF Raised
<1>3. CASE intent.exists
  <2> DEFINE j == Enqueue(intent, h, b)
  <2>1. /\ j.exists
        /\ j = intent \/ (j.revised /\ j.window = NoWindow)
        /\ j.hint \in {intent.hint, h} /\ j.hint # NoBar
    BY <1>1, <1>3, EnqueueMerged
  <2> HIDE DEF j
  <2>2. intent.hint # NoBar /\ ~facts.fatal => Proven(intent.hint)
    BY <1>1, <1>3 DEF HoleKnown, HintKnown
  <2>3. CASE j = intent
    BY <1>3, <2>1, <2>3 DEF Kept, j
  <2>4. CASE j.revised /\ j.window = NoWindow
    BY <2>1, <2>2, <2>4 DEF Raised, j
  <2> QED
    BY <2>1, <2>3, <2>4
<1> QED
  BY <1>2, <1>3

\* The frontier moves only to the bar next to it.
LEMMA OutcomeFrontier ==
    ASSUME TypeOK, facts.frontier # NoBar, OutcomeFacts.frontier # facts.frontier
    PROVE  /\ loop.class \in {"committed", "known", "none"}
           /\ loop.open <= facts.frontier + 1
           /\ OutcomeFacts.frontier = loop.open
<1>1. facts \in Facts /\ loop.open \in Bars /\ NoBar \in OptBars /\ loop \in Loops
      /\ facts.frontier \in OptBars
  BY DEF TypeOK, Loops, OptBars, Facts
<1>2. loop.class # "failed" /\ loop.class # "rejected"
  BY <1>1, RecordFailedShape, RecordRejectedShape DEF OutcomeFacts
<1> DEFINE f == RecordSuccess(facts, loop.open)
<1>3. f \in Facts /\ f.frontier = ExtendFrontier(facts.frontier, loop.open)
  BY <1>1, RecordSuccessShape
<1>4. OutcomeFacts \in {f, RequireRecovery(f, "recovery_required", NoBar)}
  BY <1>2 DEF OutcomeFacts
<1> HIDE DEF f
<1>5. OutcomeFacts.frontier = ExtendFrontier(facts.frontier, loop.open)
  <2>1. "recovery_required" \in Statuses
    BY DEF Statuses
  <2>2. RequireRecovery(f, "recovery_required", NoBar).frontier = f.frontier
    BY <1>1, <1>3, <2>1, RequireRecoveryShape
  <2> QED
    BY <1>3, <1>4, <2>2
<1>6. loop.class \in {"committed", "known", "none"}
  BY <1>1, <1>2 DEF Loops
<1> QED
  BY <1>1, <1>5, <1>6, ConstantFacts DEF ExtendFrontier, Later, OptBars, Bars, NoBar

\* An outcome that raises no signal leaves `restored` alone.
LEMMA OutcomeQuiet ==
    ASSUME TypeOK, ~OutcomeSignals, loop.class # "none", ~OutcomeFacts.fatal
    PROVE  OutcomeFacts.restored = facts.restored
<1>1. facts \in Facts /\ loop.open \in Bars /\ loop \in Loops
  BY DEF TypeOK, Loops
<1>2. loop.class # "failed" /\ loop.class # "rejected"
  BY <1>1, RecordFailedShape DEF OutcomeFacts, OutcomeSignals
<1>3. CASE loop.class \in {"committed", "known"}
  <2>1. OutcomeFacts = RecordSuccess(facts, loop.open)
    BY <1>2, <1>3 DEF OutcomeFacts, OutcomeSignals
  <2> QED
    BY <1>1, <2>1, RecordSuccessShape
<1> QED
  BY <1>1, <1>2, <1>3 DEF Loops

\* What an urgent signal does to an intent that exists.
LEMMA UrgentMerged ==
    ASSUME NEW i \in Intents, i.exists, NEW h \in OptBars
    PROVE  LET j == Enqueue(i, h, FALSE)
           IN  /\ j \in Intents /\ j.exists
               /\ j.hint \in {i.hint, h}
               /\ h # NoBar => j.hint # NoBar
               /\ h = NoBar => j.hint = i.hint
               /\ j = i \/ (j.revised /\ j.window = NoWindow)
               /\ h = NoBar /\ i.urgent => j = i
<1>1. FALSE \in BOOLEAN
  OBVIOUS
<1>2. ASSUME h = NoBar PROVE Enqueue(i, h, FALSE).hint = i.hint
  <2>1. CASE i.hint = NoBar
    BY <1>1, <1>2, <2>1, EnqueueMerged, ZenonT(40)
  <2>2. CASE i.hint # NoBar
    BY <1>1, <1>2, <2>2, EnqueueMerged
  <2> QED
    BY <2>1, <2>2
<1> QED
  BY <1>1, <1>2, EnqueueMerged

\* Every step of the runtime keeps the invariant.
LEMMA StepInv ==
    ASSUME SafeBudget, RecoveryInv, [Next]_vars
    PROVE  RecoveryInv'
<1>a. TypeOK /\ Bounded /\ TypeOK' /\ Bounded'
  BY StepType DEF RecoveryInv
<1>b. Numbers /\ Numbers'
  BY <1>a, NumbersHold, NumbersNext
<1> USE <1>a, <1>b, ConstantFacts DEF Numbers, OptBars, Bars, NoBar
<1>c. /\ intent \in Intents /\ facts \in Facts /\ thread \in Threads
      /\ loop \in Loops
  BY DEF TypeOK
<1>d. /\ BeforeAdmission /\ AfterAdmission /\ AttemptOwned /\ OutcomeStored
      /\ HintlessIntent /\ HoleKnown /\ AuditHolds /\ ReadyIsContinuous
  BY DEF RecoveryInv
<1>e. \A o \in {"task", "session"} : Syncing(o).pc = "sync" /\ Syncing(o).then = "idle"
  BY SyncingShape
\* Losing the session: the flag remembers that a signal is owed.
<1>f. ASSUME facts' = MarkDisconnected(facts), disconnected' = TRUE,
             loop' = Syncing("task"), loop.pc # "outcome",
             UNCHANGED <<candles, latest, durable, history, admitted, intent,
                         thread, published>>
      PROVE  RecoveryInv'
  <2>1. facts'.frontier = facts.frontier /\ facts'.fatal = facts.fatal
    BY <1>c, <1>f, MarkDisconnectedShape
  <2>2. loop'.pc = "sync" /\ loop'.then = "idle"
    BY <1>e, <1>f
  <2>3. BeforeAdmission' /\ AfterAdmission' /\ AttemptOwned' /\ OutcomeStored'
        /\ HintlessIntent' /\ AuditHolds' /\ ReadyIsContinuous'
    BY <1>d, <1>f, <2>1, <2>2 DEF BeforeAdmission, AfterAdmission, AttemptOwned,
       OutcomeStored, HintlessIntent, AuditHolds, ReadyIsContinuous, Proven
  <2>4. HoleKnown'
    BY <1>d, <1>f, <2>1, <2>2 DEF HoleKnown, FrontierKnown, HintKnown, FrozenKnown,
       LatestKnown, StartKnown, ToldKnown, PlanKnown, WindowKnown, Proven, Dirty,
       GapInFlight
  <2> QED
    BY <2>3, <2>4 DEF RecoveryInv
<1>1. CASE Tick
  <2>1. UNCHANGED <<candles, latest, durable, history, admitted, facts, intent,
                    thread, disconnected, loop, published>>
    BY <1>1 DEF Tick
  <2>2. BeforeAdmission' /\ AfterAdmission' /\ AttemptOwned' /\ OutcomeStored'
        /\ HintlessIntent' /\ AuditHolds' /\ ReadyIsContinuous'
    BY <1>d, <2>1 DEF BeforeAdmission, AfterAdmission, AttemptOwned,
       OutcomeStored, HintlessIntent, AuditHolds, ReadyIsContinuous, Proven
  <2>3. HoleKnown'
    BY <1>d, <2>1 DEF HoleKnown, FrontierKnown, HintKnown, FrozenKnown,
       LatestKnown, StartKnown, ToldKnown, PlanKnown, WindowKnown, Proven, Dirty,
       GapInFlight
  <2> QED
    BY <2>2, <2>3 DEF RecoveryInv
<1>2. CASE HistoricalProof
  <2>1. PICK end \in (latest + 1)..bar :
           /\ end > 0
           /\ candles' = candles \cup 0..(end - 1)
           /\ latest' = end - 1
    BY <1>2 DEF HistoricalProof
  <2>2. /\ history = "open" /\ history' = "proven" /\ durable' = "connecting"
        /\ UNCHANGED <<admitted, facts, intent, thread, disconnected, loop,
                       published>>
    BY <1>2 DEF HistoricalProof
  <2>3. ~admitted /\ ~intent.exists /\ thread.pc = "idle"
    BY <1>d, <2>2 DEF AfterAdmission, AttemptOwned, BeforeAdmission
  <2>4. BeforeAdmission' /\ AfterAdmission'
    BY <1>d, <2>1, <2>2, <2>3 DEF BeforeAdmission, AfterAdmission, Proven
  <2>5. AttemptOwned' /\ HintlessIntent' /\ AuditHolds'
    BY <1>d, <2>2, <2>3 DEF AttemptOwned, HintlessIntent, AuditHolds
  <2>6. OutcomeStored' /\ ReadyIsContinuous'
    BY <1>d, <2>1, <2>2 DEF OutcomeStored, ReadyIsContinuous
  <2>7. HoleKnown'
    BY <1>d, <2>1, <2>2, <2>3 DEF HoleKnown, AttemptOwned, FrontierKnown,
       HintKnown, FrozenKnown, LatestKnown, StartKnown, ToldKnown, PlanKnown,
       WindowKnown, Proven
  <2> QED
    BY <2>4, <2>5, <2>6, <2>7 DEF RecoveryInv
<1>3. CASE Admit
  <2>1. /\ loop.pc = "idle" /\ history = "proven" /\ ~admitted /\ admitted'
        /\ UNCHANGED <<candles, latest, history, thread, published, disconnected>>
        /\ loop' = Syncing("task")
    BY <1>3 DEF Admit
  <2>2. ~intent.exists /\ thread.pc = "idle" /\ latest # NoBar /\ Proven(latest + 1)
    BY <1>d, <2>1 DEF BeforeAdmission, AttemptOwned
  <2>3. facts' = [facts EXCEPT !.frontier = Later(facts.frontier, latest)]
    BY <1>3 DEF Admit, SynchronizeSuccessful
  <2>4. /\ facts'.frontier = Later(facts.frontier, latest)
        /\ facts'.fatal = facts.fatal
    BY <1>c, <2>3 DEF Facts
  <2>5. ~facts'.fatal => ~facts.fatal /\ FrontierKnown' /\ StartKnown'
    BY <1>d, <2>1, <2>2, <2>4 DEF HoleKnown, FrontierKnown, StartKnown, Later,
       Proven
  <2>6. Kept \/ Started
    <3>1. CASE intent' = intent
      BY <2>1, <3>1 DEF Kept, GapInFlight
    <3>2. CASE intent' = Enqueue(intent, NoBar, FALSE)
      <4>1. /\ Enqueue(intent, NoBar, FALSE).exists
            /\ Enqueue(intent, NoBar, FALSE).hint = NoBar
            /\ Enqueue(intent, NoBar, FALSE).urgent
            /\ ~Enqueue(intent, NoBar, FALSE).revised
            /\ Enqueue(intent, NoBar, FALSE).window = NoWindow
        BY <1>c, <2>2, EnqueueFresh
      <4> QED
        BY <2>2, <3>2, <4>1 DEF Started
    <3> QED
      BY <1>3, <3>1, <3>2 DEF Admit
  <2>7. facts'.frontier # NoBar
    BY <2>2, <2>4 DEF Later
  <2>8. loop'.pc # "outcome"
    BY <1>e, <2>1
  <2> QED
    BY <2>1, <2>2, <2>5, <2>6, <2>7, <2>8, HandlerKeeps
<1>4. CASE Disconnect
  <2>1. /\ facts' = MarkDisconnected(facts) /\ disconnected' = TRUE
        /\ loop' = Syncing("task") /\ loop.pc = "idle"
        /\ UNCHANGED <<candles, latest, durable, history, admitted, intent, thread,
                       published>>
    BY <1>4 DEF Disconnect
  <2> QED
    BY <1>f, <2>1
<1>5. CASE MarkRaises
  <2>1. loop.pc = "commit"
        /\ UNCHANGED <<candles, latest, durable, history, admitted, intent, thread,
                       published>>
    BY <1>5 DEF MarkRaises
  <2>2. \/ /\ facts' = MarkDisconnected(facts) /\ disconnected' = TRUE
           /\ loop' = Syncing("task")
        \/ /\ loop' = [Idle EXCEPT !.pc = "down"]
           /\ UNCHANGED <<facts, disconnected>>
    BY <1>5 DEF MarkRaises
  <2>3. CASE loop' = [Idle EXCEPT !.pc = "down"] /\ UNCHANGED <<facts, disconnected>>
    <3>1. loop'.pc = "down" /\ loop'.then = "idle"
      BY <2>3 DEF Idle
    <3>2. BeforeAdmission' /\ ReadyIsContinuous'
      BY <1>d, <2>1, <3>1 DEF BeforeAdmission, ReadyIsContinuous
    <3> QED
      BY <2>1, <2>3, <3>1, <3>2, SweepKeeps
  <2> QED
    BY <1>f, <2>1, <2>2, <2>3
<1>6. CASE LiveCandle
  <2>1. /\ loop.pc = "idle" /\ admitted
        /\ UNCHANGED <<candles, latest, durable, history, admitted, facts, intent,
                       thread, disconnected, published>>
    BY <1>6 DEF LiveCandle
  <2>2. loop'.pc = "sync"
    BY <1>6, <1>e DEF LiveCandle, Syncing, Idle
  <2>3. BeforeAdmission' /\ ReadyIsContinuous'
    BY <1>d, <2>1 DEF BeforeAdmission, ReadyIsContinuous
  <2> QED
    BY <2>1, <2>2, <2>3, SweepKeeps
<1>7. CASE IngestLive
  <2>1. /\ loop.pc = "ingest"
        /\ UNCHANGED <<durable, history, admitted, facts, intent, thread,
                       disconnected, published>>
    BY <1>7 DEF IngestLive
  <2>2. loop'.pc = "outcome" /\ loop'.open = loop.open
        /\ loop'.class \in {"committed", "known", "rejected", "failed"}
    BY <1>7, <1>c DEF IngestLive, Loops
  <2>3. \/ /\ loop'.class \in {"committed", "known"}
           /\ candles' = candles \cup {loop.open}
           /\ latest' = Later(latest, loop.open)
        \/ loop'.class \in {"rejected", "failed"} /\ UNCHANGED <<candles, latest>>
    BY <1>7, <1>c DEF IngestLive, Loops
  <2>4. candles \subseteq candles' /\ admitted /\ latest # NoBar
    BY <1>d, <2>1, <2>3 DEF BeforeAdmission, AfterAdmission
  <2>5. BeforeAdmission' /\ AfterAdmission'
    BY <1>d, <2>1, <2>3, <2>4 DEF BeforeAdmission, AfterAdmission, Later
  <2>6. AttemptOwned' /\ HintlessIntent'
    BY <1>d, <2>1 DEF AttemptOwned, HintlessIntent
  <2>7. OutcomeStored' /\ AuditHolds' /\ ReadyIsContinuous'
    BY <1>d, <2>1, <2>2, <2>3, <2>4 DEF OutcomeStored, AuditHolds,
       ReadyIsContinuous
  <2>8. HoleKnown'
    <3> SUFFICES ASSUME ~facts'.fatal PROVE HoleKnown'
      BY DEF HoleKnown
    <3>1. /\ FrontierKnown /\ HintKnown /\ FrozenKnown /\ LatestKnown /\ StartKnown
          /\ ToldKnown /\ PlanKnown /\ WindowKnown
      BY <1>d, <2>1 DEF HoleKnown
    <3>2. FrontierKnown' /\ HintKnown' /\ FrozenKnown' /\ ToldKnown'
      BY <2>1, <2>4, <3>1 DEF FrontierKnown, HintKnown, FrozenKnown, ToldKnown,
         Proven
    <3>3. ~GapInFlight
      BY <2>1 DEF GapInFlight
    <3>4. PlanKnown' /\ WindowKnown'
      BY <2>1, <2>4, <3>1, <3>3 DEF PlanKnown, WindowKnown, Proven
    \* Without a gap the commit keeps whatever `latest` promised.
    <3>5. Proven(latest + 1) /\ ~GapInFlight' => Proven(latest + 1)'
      <4> SUFFICES ASSUME Proven(latest + 1), ~GapInFlight'
                   PROVE  Proven(latest + 1)'
        OBVIOUS
      <4>1. CASE UNCHANGED <<candles, latest>>
        BY <4>1 DEF Proven
      <4>2. CASE /\ loop'.class \in {"committed", "known"}
                 /\ candles' = candles \cup {loop.open}
                 /\ latest' = Later(latest, loop.open)
        <5>1. loop.open <= facts.frontier + 1
          BY <2>1, <2>2, <4>2 DEF GapInFlight
        <5>2. 0..loop.open \subseteq candles'
          BY <3>1, <4>2, <5>1 DEF FrontierKnown, Proven
        <5>3. 0..latest' \subseteq candles'
          BY <2>4, <4>2, <5>2 DEF Proven, Later
        <5>4. latest' \in Int
          BY <4>2 DEF Later
        <5>5. (latest' + 1) - 1 = latest'
          BY <5>4, Predecessor
        <5>6. 0..((latest' + 1) - 1) \subseteq candles'
          BY <5>3, <5>5
        <5> QED
          BY <5>6 DEF Proven
      <4> QED
        BY <2>3, <4>1, <4>2
    <3>6. LatestKnown' /\ StartKnown'
      BY <2>1, <3>1, <3>3, <3>5 DEF LatestKnown, StartKnown, Dirty
    <3> QED
      BY <3>2, <3>4, <3>6 DEF HoleKnown
  <2> QED
    BY <2>5, <2>6, <2>7, <2>8 DEF RecoveryInv
<1>8. CASE OnOutcome
  <2> DEFINE hint == SignalHint(OutcomeFacts, loop.open)
             signalled == IF OutcomeSignals THEN Enqueue(intent, hint, FALSE)
                                            ELSE intent
  <2>1. /\ loop.pc = "outcome" /\ facts' = OutcomeFacts /\ loop' = Syncing("session")
        /\ UNCHANGED <<candles, latest, history, admitted, thread, published,
                       disconnected>>
    BY <1>8 DEF OnOutcome
  <2>2. admitted /\ history = "proven" /\ latest # NoBar /\ facts.frontier # NoBar
    BY <1>d, <2>1 DEF BeforeAdmission, AfterAdmission
  <2>3. intent' = [signalled EXCEPT !.retry =
                     @ \/ (loop.class = "committed" /\ signalled.exists)]
    BY <1>8 DEF OnOutcome
  <2>4. /\ OutcomeFacts \in Facts
        /\ OutcomeFacts.frontier \in {facts.frontier, loop.open}
        /\ facts.fatal => OutcomeFacts.fatal
    BY OutcomeShape
  <2>5. OutcomeFacts.frontier # NoBar
    BY <2>2, <2>4
  <2>6. hint \in OptBars /\ hint # NoBar /\ hint <= OutcomeFacts.frontier + 1
    BY <2>1, <2>4, <2>5, SignalHintType, SignalHintExists, SignalHintProven
       DEF Bounded
  <2> HIDE DEF hint
  <2>7. Enqueue(intent, hint, FALSE) \in Intents
    BY <1>c, <2>6, EnqueueType
  <2>8. signalled \in Intents
    BY <1>c, <2>7
  <2> HIDE DEF signalled
  <2>9. /\ intent'.exists = signalled.exists /\ intent'.hint = signalled.hint
        /\ intent'.window = signalled.window /\ intent'.revised = signalled.revised
        /\ intent'.urgent = signalled.urgent
    BY <2>3, <2>8 DEF Intents
  \* The frontier takes the bar only when it is the next one.
  <2>10. ~facts'.fatal => ~facts.fatal /\ FrontierKnown'
    <3> SUFFICES ASSUME ~OutcomeFacts.fatal
                 PROVE  ~facts.fatal /\ 0..OutcomeFacts.frontier \subseteq candles
      BY <2>1, <2>4 DEF FrontierKnown, Proven, Facts
    <3>1. ~facts.fatal /\ 0..facts.frontier \subseteq candles
      BY <1>d, <2>4 DEF HoleKnown, FrontierKnown, Proven
    <3>2. CASE OutcomeFacts.frontier = facts.frontier
      BY <3>1, <3>2
    <3>3. CASE OutcomeFacts.frontier # facts.frontier
      <4>1. loop.class \in {"committed", "known"} /\ loop.open <= facts.frontier + 1
            /\ OutcomeFacts.frontier = loop.open
        BY <1>c, <1>d, <2>1, <2>2, <2>4, <3>3, OutcomeFrontier DEF OutcomeStored
      <4>2. loop.open \in candles
        BY <1>d, <2>1, <4>1 DEF OutcomeStored
      <4> QED
        BY <3>1, <4>1, <4>2
    <3> QED
      BY <3>2, <3>3
  <2>11. CASE OutcomeSignals
    <3>1. signalled = Enqueue(intent, hint, FALSE)
      BY <2>11 DEF signalled
    <3>2. ~facts'.fatal => ~facts.fatal /\ Proven(hint)
      BY <2>1, <2>4, <2>6, <2>10 DEF FrontierKnown, Proven, Facts
    <3>3. Kept \/ Raised
      BY <2>6, <2>9, <3>1, <3>2, SignalRaises
    <3>4. intent'.exists
      BY <1>c, <2>6, <2>9, <3>1, EnqueueFresh, EnqueueMerged
    <3>5. StartKnown'
      BY <3>4 DEF StartKnown
    <3> QED
      BY <1>e, <2>1, <2>2, <2>5, <2>10, <3>3, <3>5, HandlerKeeps
  <2>12. CASE ~OutcomeSignals
    <3>1. signalled = intent
      BY <2>12 DEF signalled
    <3>2. ~GapInFlight
      BY <2>2, <2>12 DEF OutcomeSignals, GapInFlight
    <3>3. Kept
      BY <2>9, <3>1, <3>2 DEF Kept
    <3>4. ~facts'.fatal => facts'.restored = facts.restored
      BY <1>d, <2>1, <2>12, OutcomeQuiet DEF OutcomeStored
    <3>5. ~facts'.fatal => StartKnown'
      BY <1>d, <2>1, <2>9, <2>10, <3>1, <3>2, <3>4 DEF HoleKnown, StartKnown, Proven
    <3> QED
      BY <1>e, <2>1, <2>2, <2>5, <2>10, <3>3, <3>5, HandlerKeeps
  <2> QED
    BY <2>11, <2>12
<1>9. CASE StaleCheck
  <2>1. /\ loop.pc = "idle" /\ loop' = Syncing("task")
        /\ UNCHANGED <<candles, latest, durable, history, admitted, thread,
                       published, disconnected>>
    BY <1>9 DEF StaleCheck
  <2>2. loop'.pc = "sync" /\ loop'.then = "idle" /\ ~GapInFlight
    BY <1>e, <2>1 DEF GapInFlight
  <2>3. CASE ~StaleNow
    <3>1. UNCHANGED <<facts, intent>>
      BY <1>9, <2>3 DEF StaleCheck
    <3>2. BeforeAdmission' /\ ReadyIsContinuous'
      BY <1>d, <2>1, <2>2, <3>1 DEF BeforeAdmission, ReadyIsContinuous, Proven
    <3> QED
      BY <2>1, <2>2, <3>1, <3>2, SweepKeeps
  <2>4. CASE StaleNow
    <3>1. facts' = RequireRecovery(facts, "stale", Expected)
      BY <1>9, <2>4 DEF StaleCheck
    <3>2. "stale" \in Statuses /\ Expected \in OptBars
      BY ExpectedType DEF Statuses
    <3>3. facts'.frontier = facts.frontier /\ facts'.fatal = facts.fatal
      BY <1>c, <3>1, <3>2, RequireRecoveryShape
    <3>4. ~facts'.fatal => ~facts.fatal /\ FrontierKnown'
      BY <1>d, <2>1, <3>3 DEF HoleKnown, FrontierKnown, Proven
    <3>5. CASE admitted
      <4> DEFINE hint == SignalHint(facts, facts.frontier + 1)
      <4>1. intent' = Enqueue(intent, hint, TRUE)
        BY <1>9, <2>4, <3>5 DEF StaleCheck
      <4>2. facts.frontier # NoBar /\ history = "proven" /\ latest # NoBar
        BY <1>d, <3>5 DEF AfterAdmission
      <4>3. hint \in OptBars /\ hint # NoBar /\ hint <= facts.frontier + 1
        BY <1>c, <4>2, SignalHintType, SignalHintExists, SignalHintProven
           DEF Bounded
      <4> HIDE DEF hint
      <4>4. ~facts'.fatal => ~facts.fatal /\ Proven(hint)
        BY <1>d, <3>3, <4>3 DEF HoleKnown, FrontierKnown, Proven
      <4>5. Kept \/ Raised
        BY <4>1, <4>3, <4>4, SignalRaises
      <4>6. intent'.exists
        BY <1>c, <4>1, <4>3, EnqueueFresh, EnqueueMerged
      <4>7. StartKnown'
        BY <4>6 DEF StartKnown
      <4> QED
        BY <2>1, <2>2, <3>3, <3>4, <3>5, <4>2, <4>5, <4>7, HandlerKeeps
    \* Not admitted: the facts change, and nobody is told.
    <3>6. CASE ~admitted
      <4>1. UNCHANGED intent
        BY <1>9, <2>4, <3>6 DEF StaleCheck
      <4>2. BeforeAdmission' /\ AfterAdmission' /\ AttemptOwned' /\ OutcomeStored'
            /\ HintlessIntent' /\ AuditHolds' /\ ReadyIsContinuous'
        BY <1>d, <2>1, <2>2, <3>6, <4>1 DEF BeforeAdmission, AfterAdmission,
           AttemptOwned, OutcomeStored, HintlessIntent, AuditHolds,
           ReadyIsContinuous, Proven
      <4>3. HoleKnown'
        BY <1>d, <2>1, <2>2, <3>3, <3>6, <4>1 DEF HoleKnown, FrontierKnown,
           HintKnown, FrozenKnown, LatestKnown, StartKnown, ToldKnown, PlanKnown,
           WindowKnown, Proven, Dirty
      <4> QED
        BY <4>2, <4>3 DEF RecoveryInv
    <3> QED
      BY <3>5, <3>6
  <2> QED
    BY <2>3, <2>4
<1>10. CASE WorkerTake
  <2>1. /\ loop.pc = "idle" /\ intent.exists /\ thread.pc = "idle"
        /\ thread' = [ThreadIdle EXCEPT !.pc = "gate"]
        /\ intent' = [intent EXCEPT !.revised = FALSE]
        /\ UNCHANGED <<candles, latest, durable, history, admitted, facts,
                       disconnected, loop, published>>
    BY <1>10 DEF WorkerTake
  <2>2. /\ thread'.pc = "gate" /\ thread'.hint = NoBar /\ thread'.window = NoWindow
        /\ thread'.used = 0
    BY <2>1, ThreadTypes DEF Threads
  <2>3. /\ intent'.exists /\ intent'.hint = intent.hint
        /\ intent'.window = intent.window /\ intent'.urgent = intent.urgent
        /\ ~intent'.revised
    BY <1>c, <2>1 DEF Intents
  <2>4. ~Dirty
    BY <1>d, <2>1 DEF Dirty, AttemptOwned
  <2>5. BeforeAdmission' /\ AfterAdmission' /\ AttemptOwned' /\ OutcomeStored'
        /\ HintlessIntent' /\ AuditHolds' /\ ReadyIsContinuous'
    BY <1>d, <2>1, <2>2, <2>3 DEF BeforeAdmission, AfterAdmission, AttemptOwned,
       OutcomeStored, HintlessIntent, AuditHolds, ReadyIsContinuous, Proven
  <2>6. HoleKnown'
    BY <1>d, <2>1, <2>2, <2>3, <2>4 DEF HoleKnown, FrontierKnown, HintKnown,
       FrozenKnown, LatestKnown, StartKnown, ToldKnown, PlanKnown, WindowKnown,
       Proven, GapInFlight
  <2> QED
    BY <2>5, <2>6 DEF RecoveryInv
<1>11. CASE GateAcquired
  <2>1. /\ loop.pc = "idle" /\ thread.pc = "gate"
        /\ thread' = [thread EXCEPT !.pc = "unavailable", !.hint = intent.hint,
                                    !.window = intent.window]
        /\ UNCHANGED <<candles, latest, durable, history, admitted, facts, intent,
                       disconnected, loop, published>>
    BY <1>11 DEF GateAcquired
  <2>2. /\ thread'.pc = "unavailable" /\ thread'.hint = intent.hint
        /\ thread'.window = intent.window /\ thread'.used = thread.used
    BY <1>c, <2>1 DEF Threads
  <2>3. ~Dirty /\ intent.exists
    BY <1>d, <2>1 DEF Dirty, AttemptOwned
  <2>4. BeforeAdmission' /\ AfterAdmission' /\ AttemptOwned' /\ OutcomeStored'
        /\ HintlessIntent' /\ AuditHolds' /\ ReadyIsContinuous'
    BY <1>d, <2>1, <2>2, <2>3 DEF BeforeAdmission, AfterAdmission, AttemptOwned,
       OutcomeStored, HintlessIntent, AuditHolds, ReadyIsContinuous, Proven
  <2>5. HoleKnown'
    BY <1>d, <2>1, <2>2, <2>3 DEF HoleKnown, FrontierKnown, HintKnown,
       FrozenKnown, LatestKnown, StartKnown, ToldKnown, PlanKnown, WindowKnown,
       Proven, GapInFlight
  <2> QED
    BY <2>4, <2>5 DEF RecoveryInv
<1>12. CASE SubscriptionConfirmed
  <2> DEFINE subscribed == [facts EXCEPT !.status = "subscribed", !.sub = TRUE]
             known == IF disconnected
                      THEN RequireRecovery(subscribed, "recovery_required", NoBar)
                      ELSE subscribed
             started == IF admitted /\ ~known.restored
                        THEN Enqueue(intent, NoBar, FALSE) ELSE intent
             hint == SignalHint(known, NoBar)
  <2>1. /\ loop.pc = "idle" /\ loop' = Syncing("session") /\ disconnected' = FALSE
        /\ UNCHANGED <<candles, latest, durable, history, admitted, thread,
                       published>>
    BY <1>12 DEF SubscriptionConfirmed
  <2>2. loop'.pc = "sync" /\ loop'.then = "idle" /\ ~GapInFlight
    BY <1>e, <2>1 DEF GapInFlight
  <2>3. /\ subscribed \in Facts /\ subscribed.frontier = facts.frontier
        /\ subscribed.fatal = facts.fatal /\ subscribed.restored = facts.restored
    BY <1>c DEF Facts, Statuses
  <2>4. facts' = known
    BY <1>12 DEF SubscriptionConfirmed
  <2>5. intent' = IF admitted /\ disconnected THEN Enqueue(started, hint, FALSE)
                                              ELSE started
    BY <1>12 DEF SubscriptionConfirmed
  <2>6. "recovery_required" \in Statuses /\ NoBar \in OptBars
    BY DEF Statuses
  <2> HIDE DEF subscribed
  <2>7. /\ known \in Facts /\ known.frontier = facts.frontier
        /\ known.fatal = facts.fatal
        /\ known.restored = (~disconnected /\ facts.restored)
    <3>1. CASE disconnected
      BY <2>3, <2>6, <3>1, RequireRecoveryShape
    <3>2. CASE ~disconnected
      BY <2>3, <3>2 DEF Facts
    <3> QED
      BY <3>1, <3>2
  <2> HIDE DEF known
  <2>8. ~facts'.fatal => ~facts.fatal /\ FrontierKnown'
    BY <1>d, <2>1, <2>4, <2>7 DEF HoleKnown, FrontierKnown, Proven
  <2>9. CASE ~admitted
    <3>1. UNCHANGED intent
      BY <2>5, <2>9
    <3>2. BeforeAdmission' /\ AfterAdmission' /\ AttemptOwned' /\ OutcomeStored'
          /\ HintlessIntent' /\ AuditHolds' /\ ReadyIsContinuous'
      BY <1>d, <2>1, <2>2, <2>9, <3>1 DEF BeforeAdmission, AfterAdmission,
         AttemptOwned, OutcomeStored, HintlessIntent, AuditHolds,
         ReadyIsContinuous, Proven
    <3>3. HoleKnown'
      BY <1>d, <2>1, <2>2, <2>4, <2>7, <2>8, <2>9, <3>1 DEF HoleKnown,
         HintKnown, FrozenKnown, LatestKnown, StartKnown, ToldKnown, PlanKnown,
         WindowKnown, Proven, Dirty
    <3> QED
      BY <3>2, <3>3 DEF RecoveryInv
  <2>10. CASE admitted
    <3>1. facts.frontier # NoBar /\ history = "proven" /\ latest # NoBar
      BY <1>d, <2>10 DEF AfterAdmission
    <3>2. Kept \/ Raised \/ Started
      <4>1. CASE disconnected
        <5>1. started = Enqueue(intent, NoBar, FALSE)
          BY <2>7, <2>10, <4>1
        <5>2. intent' = Enqueue(started, hint, FALSE)
          BY <2>5, <2>10, <4>1
        <5>3. hint \in OptBars /\ hint # NoBar /\ hint <= facts.frontier + 1
          BY <2>6, <2>7, <3>1, SignalHintType, SignalHintExists, SignalHintProven
             DEF Bounded
        <5>4. ~facts'.fatal => ~facts.fatal /\ Proven(hint)
          BY <1>d, <2>4, <2>7, <5>3 DEF HoleKnown, FrontierKnown, Proven
        <5> HIDE DEF started, hint
        <5>5. CASE ~intent.exists
          <6>1. /\ started \in Intents /\ started.exists /\ started.hint = NoBar
                /\ started.window = NoWindow
            BY <1>c, <2>6, <5>1, <5>5, EnqueueFresh
          <6>2. /\ Enqueue(started, hint, FALSE).exists
                /\ Enqueue(started, hint, FALSE).hint \in {started.hint, hint}
                /\ Enqueue(started, hint, FALSE).hint # NoBar
                /\ \/ Enqueue(started, hint, FALSE) = started
                   \/ Enqueue(started, hint, FALSE).window = NoWindow
            BY <5>3, <6>1, UrgentMerged
          <6>3. thread.pc = "idle"
            BY <1>d, <5>5 DEF AttemptOwned
          <6> QED
            BY <5>2, <5>4, <6>1, <6>2, <6>3 DEF Raised
        <5>6. CASE intent.exists
          <6>1. /\ started \in Intents /\ started.exists
                /\ started.hint = intent.hint
                /\ started = intent \/ (started.revised /\ started.window = NoWindow)
            BY <1>c, <2>6, <5>1, <5>6, UrgentMerged, ZenonT(40)
          <6>2. /\ Enqueue(started, hint, FALSE).exists
                /\ Enqueue(started, hint, FALSE).hint \in {started.hint, hint}
                /\ Enqueue(started, hint, FALSE).hint # NoBar
                /\ \/ Enqueue(started, hint, FALSE) = started
                   \/ /\ Enqueue(started, hint, FALSE).revised
                      /\ Enqueue(started, hint, FALSE).window = NoWindow
            BY <5>3, <6>1, UrgentMerged
          <6>3. ~facts.fatal /\ intent.hint # NoBar => Proven(intent.hint)
            BY <1>d, <5>6 DEF HoleKnown, HintKnown
          <6>4. CASE intent' = intent
            BY <2>2, <6>4 DEF Kept
          <6>5. CASE intent' # intent
            BY <5>2, <5>4, <6>1, <6>2, <6>3, <6>5 DEF Raised
          <6> QED
            BY <6>4, <6>5
        <5> QED
          BY <5>5, <5>6
      <4>2. CASE ~disconnected
        <5>1. intent' = started
          BY <2>5, <4>2
        <5>2. CASE known.restored
          BY <2>2, <5>1, <5>2 DEF Kept
        <5>3. CASE ~known.restored /\ ~intent.exists
          <6>1. intent' = Enqueue(intent, NoBar, FALSE)
            BY <2>10, <5>1, <5>3
          <6>2. ~facts'.fatal => Proven(latest + 1)
            BY <1>d, <2>2, <2>4, <2>7, <2>10, <4>2, <5>3 DEF HoleKnown, StartKnown
          <6>3. thread.pc = "idle"
            BY <1>d, <5>3 DEF AttemptOwned
          <6>4. /\ Enqueue(intent, NoBar, FALSE).exists
                /\ Enqueue(intent, NoBar, FALSE).hint = NoBar
                /\ Enqueue(intent, NoBar, FALSE).urgent
                /\ ~Enqueue(intent, NoBar, FALSE).revised
                /\ Enqueue(intent, NoBar, FALSE).window = NoWindow
            BY <1>c, <2>6, <5>3, EnqueueFresh
          <6> QED
            BY <6>1, <6>2, <6>3, <6>4 DEF Started
        <5>4. CASE ~known.restored /\ intent.exists
          <6> DEFINE j == Enqueue(intent, NoBar, FALSE)
          <6>1. intent' = j
            BY <2>10, <5>1, <5>4
          <6>2. /\ j.exists /\ j.hint = intent.hint
                /\ j = intent \/ (j.revised /\ j.window = NoWindow)
                /\ intent.urgent => j = intent
            <7>1. intent \in Intents /\ intent.exists /\ NoBar \in OptBars
              BY <1>c, <2>6, <5>4
            <7> QED
              BY <7>1, UrgentMerged, ZenonT(40)
          <6> HIDE DEF j
          <6>3. intent.hint = NoBar => j = intent
            BY <1>d, <5>4, <6>2 DEF HintlessIntent
          <6>4. ~facts.fatal /\ intent.hint # NoBar => Proven(intent.hint)
            BY <1>d, <5>4 DEF HoleKnown, HintKnown
          <6>5. CASE j = intent
            BY <2>2, <6>1, <6>5 DEF Kept
          <6>6. CASE j # intent
            BY <2>4, <2>7, <6>1, <6>2, <6>3, <6>4, <6>6 DEF Raised
          <6> QED
            BY <6>5, <6>6
        <5> QED
          BY <5>2, <5>3, <5>4
      <4> QED
        BY <4>1, <4>2
    <3>3. ~facts'.fatal => StartKnown'
      <4> SUFFICES ASSUME ~intent'.exists, ~facts'.restored PROVE FALSE
        BY DEF StartKnown
      <4>1. Kept
        BY <3>2 DEF Raised, Started
      <4>2. ~intent.exists
        BY <4>1 DEF Kept
      <4>3. started = Enqueue(intent, NoBar, FALSE)
        BY <2>4, <2>10
      <4>4. started.exists /\ started \in Intents
        <5>1. /\ Enqueue(intent, NoBar, FALSE) \in Intents
              /\ Enqueue(intent, NoBar, FALSE).exists
          BY <1>c, <2>6, <4>2, EnqueueFresh
        <5> HIDE DEF started
        <5> QED
          BY <4>3, <5>1
      <4>5. hint \in OptBars
        BY <2>6, <2>7, SignalHintType DEF Bounded
      <4> HIDE DEF started, hint
      <4>6. Enqueue(started, hint, FALSE).exists
        BY <4>4, <4>5, UrgentMerged
      <4> QED
        BY <2>5, <4>4, <4>6
    <3>4. facts'.frontier # NoBar
      BY <2>4, <2>7, <3>1
    <3> QED
      BY <2>1, <2>2, <2>8, <2>10, <3>1, <3>2, <3>3, <3>4, HandlerKeeps
  <2> QED
    BY <2>9, <2>10
<1>13. CASE WorkerResult
  <2> DEFINE fatal    == thread.result = "fatal"
             restored == thread.result = "restored" /\ ~intent.revised
             through  == thread.window.end - 1
             frozen   == IF ~intent.revised /\ thread.result = "incomplete"
                         THEN thread.window ELSE intent.window
  <2>1. /\ loop.pc = "idle" /\ thread.pc = "done"
        /\ thread' = ThreadIdle /\ loop' = Syncing("task")
        /\ UNCHANGED <<candles, latest, durable, history, admitted, disconnected>>
    BY <1>13 DEF WorkerResult
  <2>2. facts' = RecordRecoveryResult(facts, restored, fatal, through)
    BY <1>13 DEF WorkerResult
  <2>3. IF fatal \/ restored
        THEN intent' = NoIntent
        ELSE intent' = [intent EXCEPT !.retry = intent.retry \/ thread.committed,
                                      !.revised = FALSE, !.window = frozen]
    BY <1>13 DEF WorkerResult, IntentAfter
  <2>4. published' \in {published, NotReady}
    BY <1>13 DEF WorkerResult
  <2>5. loop'.pc = "sync" /\ loop'.then = "idle" /\ ~GapInFlight
    BY <1>e, <2>1 DEF GapInFlight
  <2>6. /\ thread'.pc = "idle" /\ thread'.hint = NoBar /\ thread'.window = NoWindow
        /\ thread'.used = 0
    BY <2>1, ThreadTypes
  <2>7. /\ intent.exists /\ thread.result # "none" /\ thread.used = 0
        /\ thread.result \in {"incomplete", "restored"} => thread.window # NoWindow
    BY <1>d, <2>1 DEF AttemptOwned
  <2>8. admitted /\ latest # NoBar /\ facts.frontier # NoBar /\ history = "proven"
    BY <1>d, <2>7 DEF BeforeAdmission, AfterAdmission
  <2>9. through \in OptBars
    OBVIOUS
  <2>10. /\ fatal => facts'.fatal /\ facts'.frontier = facts.frontier
         /\ ~fatal => facts'.fatal = facts.fatal
         /\ ~fatal /\ restored => facts'.restored
                                  /\ facts'.frontier = Later(facts.frontier, through)
         /\ ~fatal /\ ~restored => facts'.frontier = facts.frontier
    <3>1. CASE fatal
      BY <1>c, <2>2, <3>1 DEF RecordRecoveryResult, Facts
    <3>2. CASE ~fatal /\ restored
      <4>1. facts' = [facts EXCEPT
                        !.status = IF facts.sub THEN "subscribed"
                                                ELSE "recovery_required",
                        !.pending = FALSE, !.restored = TRUE,
                        !.checked = CommitChecked(facts), !.awaited = NoBar,
                        !.frontier = Later(facts.frontier, through)]
        BY <2>2, <3>2 DEF RecordRecoveryResult
      <4> HIDE DEF through
      <4> QED
        BY <1>c, <3>2, <4>1 DEF Facts
    <3>3. CASE ~fatal /\ ~restored
      BY <1>c, <2>2, <3>3 DEF RecordRecoveryResult, Facts
    <3> QED
      BY <3>1, <3>2, <3>3
  <2>11. facts'.frontier # NoBar
    BY <2>8, <2>9, <2>10 DEF Later
  <2>12. ReadyIsContinuous'
    BY <1>d, <2>1, <2>4 DEF ReadyIsContinuous, NotReady
  <2>13. BeforeAdmission' /\ AfterAdmission' /\ OutcomeStored' /\ AuditHolds'
    BY <2>1, <2>5, <2>6, <2>8, <2>11 DEF BeforeAdmission, AfterAdmission,
       OutcomeStored, AuditHolds
  <2>14. CASE fatal \/ restored
    <3>1. intent' = NoIntent
      BY <2>3, <2>14
    <3>2. ~intent'.exists /\ intent'.hint = NoBar /\ intent'.window = NoWindow
      BY <3>1 DEF NoIntent
    <3>3. AttemptOwned' /\ HintlessIntent'
      BY <2>6, <3>2 DEF AttemptOwned, HintlessIntent
    <3>4. HoleKnown'
      <4> SUFFICES ASSUME ~facts'.fatal PROVE HoleKnown'
        BY DEF HoleKnown
      <4>1. ~fatal /\ restored /\ ~facts.fatal /\ facts'.restored
        BY <2>10, <2>14
      \* The attempt audited its whole window, and everything below it is proven.
      <4>2. FrontierKnown'
        <5>1. Proven(thread.window.start)
          BY <1>d, <2>5, <2>7, <4>1 DEF HoleKnown, WindowKnown
        <5>2. thread.window.start..(thread.window.end - 1) \subseteq candles
          BY <1>d, <2>1, <4>1 DEF AuditHolds
        <5>3. 0..through \subseteq candles
          BY <5>1, <5>2 DEF Proven
        <5>4. 0..facts.frontier \subseteq candles
          BY <1>d, <4>1 DEF HoleKnown, FrontierKnown, Proven
        <5>5. facts'.frontier = Later(facts.frontier, through)
          BY <2>10, <4>1
        <5>6. facts'.frontier \in Int /\ 0..facts'.frontier \subseteq candles
          BY <2>9, <5>3, <5>4, <5>5 DEF Later
        <5>7. (facts'.frontier + 1) - 1 = facts'.frontier
          BY <5>6, Predecessor
        <5> QED
          BY <2>1, <5>6, <5>7 DEF FrontierKnown, Proven
      <4>3. HintKnown' /\ FrozenKnown' /\ LatestKnown' /\ StartKnown'
        BY <3>2, <4>1 DEF HintKnown, FrozenKnown, LatestKnown, StartKnown
      <4>4. ToldKnown' /\ PlanKnown' /\ WindowKnown'
        BY <2>6 DEF ToldKnown, PlanKnown, WindowKnown
      <4> QED
        BY <4>2, <4>3, <4>4 DEF HoleKnown
    <3> QED
      BY <2>12, <2>13, <3>3, <3>4 DEF RecoveryInv
  <2>15. CASE ~fatal /\ ~restored
    <3>1. frozen \in Windows
      OBVIOUS
    <3>2. intent' = [intent EXCEPT !.retry = intent.retry \/ thread.committed,
                                   !.revised = FALSE, !.window = frozen]
      BY <2>3, <2>15
    <3> HIDE DEF frozen
    <3>3. /\ intent'.exists /\ intent'.hint = intent.hint /\ ~intent'.revised
          /\ intent'.urgent = intent.urgent /\ intent'.window = frozen
      BY <1>c, <2>7, <3>2 DEF Intents
    <3>4. AttemptOwned' /\ HintlessIntent'
      BY <1>d, <2>6, <2>7, <3>3 DEF AttemptOwned, HintlessIntent
    <3>5. HoleKnown'
      <4> SUFFICES ASSUME ~facts'.fatal PROVE HoleKnown'
        BY DEF HoleKnown
      <4>1. ~facts.fatal /\ facts'.frontier = facts.frontier
        BY <2>10, <2>15
      <4>2. FrontierKnown' /\ HintKnown'
        BY <1>d, <2>1, <2>7, <3>3, <4>1 DEF HoleKnown, FrontierKnown, HintKnown,
           Proven
      <4>3. FrozenKnown'
        <5>1. CASE ~intent.revised /\ thread.result = "incomplete"
          <6>1. Proven(thread.window.start)
            BY <1>d, <2>5, <2>7, <4>1, <5>1 DEF HoleKnown, WindowKnown
          <6>2. frozen = thread.window
            BY <5>1 DEF frozen
          <6> QED
            BY <2>1, <3>3, <6>1, <6>2 DEF FrozenKnown, Proven
        <5>2. CASE ~(~intent.revised /\ thread.result = "incomplete")
          <6>1. frozen = intent.window
            BY <5>2 DEF frozen
          <6> QED
            BY <1>d, <2>1, <3>3, <4>1, <6>1 DEF HoleKnown, FrozenKnown, Proven
        <5> QED
          BY <5>1, <5>2
      \* Only a recoverable failure leaves a hintless intent without a window.
      <4>4. LatestKnown'
        <5> SUFFICES ASSUME intent.hint = NoBar, frozen = NoWindow
                     PROVE  Proven(latest + 1)
          BY <2>1, <3>3 DEF LatestKnown, Proven
        <5>1. ~intent.revised
          BY <1>d, <2>7 DEF HintlessIntent
        <5>2. thread.result # "incomplete" /\ intent.window = NoWindow
          BY <2>7, <5>1 DEF frozen
        <5>3. thread.result = "recoverable"
          BY <1>c, <2>7, <2>15, <5>1, <5>2 DEF Threads
        <5>4. ~Dirty
          BY <2>1, <2>7, <5>3 DEF Dirty
        <5> QED
          BY <1>d, <2>5, <2>7, <4>1, <5>2, <5>4 DEF HoleKnown, LatestKnown
      <4>5. StartKnown'
        BY <3>3 DEF StartKnown
      <4>6. ToldKnown' /\ PlanKnown' /\ WindowKnown'
        BY <2>6 DEF ToldKnown, PlanKnown, WindowKnown
      <4> QED
        BY <4>2, <4>3, <4>4, <4>5, <4>6 DEF HoleKnown
    <3> QED
      BY <2>12, <2>13, <3>4, <3>5 DEF RecoveryInv
  <2> QED
    BY <2>14, <2>15
<1>14. CASE SyncRead \/ MarkRead \/ MarkCommit
  BY <1>14, SweepInv
<1>15. CASE loop.pc # "down" /\ Attempt
  BY <1>15, AttemptInv
<1>16. CASE UNCHANGED vars
  <2>1. UNCHANGED <<candles, latest, durable, history, admitted, facts, intent,
                    thread, disconnected, loop, published>>
    BY <1>16 DEF vars
  <2>2. BeforeAdmission' /\ AfterAdmission' /\ AttemptOwned' /\ OutcomeStored'
        /\ HintlessIntent' /\ AuditHolds' /\ ReadyIsContinuous'
    BY <1>d, <2>1 DEF BeforeAdmission, AfterAdmission, AttemptOwned,
       OutcomeStored, HintlessIntent, AuditHolds, ReadyIsContinuous, Proven
  <2>3. HoleKnown'
    BY <1>d, <2>1 DEF HoleKnown, FrontierKnown, HintKnown, FrozenKnown,
       LatestKnown, StartKnown, ToldKnown, PlanKnown, WindowKnown, Proven, Dirty,
       GapInFlight
  <2> QED
    BY <2>2, <2>3 DEF RecoveryInv
<1>17. CASE Ended
  BY <1>16, <1>17 DEF Ended
<1> QED
  BY <1>1, <1>2, <1>3, <1>4, <1>5, <1>6, <1>7, <1>8, <1>9, <1>10, <1>11, <1>12,
     <1>13, <1>14, <1>15, <1>16, <1>17 DEF Next, Sweep

-----------------------------------------------------------------------------
\* RecoveryInv is inductive for every clock bound, window budget, request size
\* and set of faults under which the budget is safe.
THEOREM RecoveryInvariantHolds == SafeBudget => (Spec => []RecoveryInv)
<1>1. Init => RecoveryInv
  BY InitInv
<1>2. SafeBudget /\ RecoveryInv /\ [Next]_vars => RecoveryInv'
  BY StepInv
<1>3. ASSUME SafeBudget PROVE Spec => []RecoveryInv
  <2>1. RecoveryInv /\ [Next]_vars => RecoveryInv'
    BY <1>2, <1>3
  <2> QED
    BY <1>1, <2>1, PTL DEF Spec
<1> QED
  BY <1>3

\* The supervisor's frontier never claims a bar that is not stored, in any
\* interleaving of live commits, stale checks, reconnects and recovery attempts.
THEOREM FrontierIsProven == SafeBudget => (Spec => []FrontierProven)
<1>1. RecoveryInv => FrontierProven
  <2> SUFFICES ASSUME RecoveryInv, ~facts.fatal
               PROVE  0..facts.frontier \subseteq candles
    BY DEF FrontierProven
  <2>1. FrontierKnown /\ facts.frontier \in Int
    BY ConstantFacts DEF RecoveryInv, HoleKnown, TypeOK, Facts, OptBars, Bars, NoBar
  <2> QED
    BY <2>1, Predecessor DEF FrontierKnown, Proven
<1>2. ASSUME SafeBudget PROVE Spec => []FrontierProven
  <2>1. Spec => []RecoveryInv
    BY <1>2, RecoveryInvariantHolds
  <2> QED
    BY <1>1, <2>1, PTL
<1> QED
  BY <1>2

\* A stream is published ready only over stored bars.
THEOREM ReadyNeverOverHole == SafeBudget => (Spec => []ReadyIsContinuous)
<1>1. RecoveryInv => ReadyIsContinuous
  BY DEF RecoveryInv
<1>2. ASSUME SafeBudget PROVE Spec => []ReadyIsContinuous
  <2>1. Spec => []RecoveryInv
    BY <1>2, RecoveryInvariantHolds
  <2> QED
    BY <1>1, <2>1, PTL
<1> QED
  BY <1>2

\* No step removes a stored bar or moves `latest` back, and only the sweep
\* enters ready.
LEMMA StepGrows ==
    ASSUME TypeOK, Next
    PROVE  /\ candles \subseteq candles'
           /\ latest <= latest'
           /\ durable' = "ready" => durable = "ready" \/ MarkCommit
<1>1. latest \in Int /\ loop.open \in Int
  BY NumbersHold, ConstantFacts DEF Numbers, OptBars, Bars, NoBar
<1> USE <1>1
<1>2. CASE Tick \/ Admit \/ SubscriptionConfirmed \/ Disconnect \/ LiveCandle
             \/ OnOutcome \/ StaleCheck
  <2>1. UNCHANGED <<candles, latest, durable>>
    BY <1>2, Zenon DEF Tick, Admit, SubscriptionConfirmed, Disconnect, LiveCandle,
                       OnOutcome, StaleCheck
  <2> QED
    BY <2>1
<1>3. CASE HistoricalProof
  BY <1>3 DEF HistoricalProof
<1>4. CASE IngestLive
  <2>1. /\ durable' = durable
        /\ \/ candles' = candles /\ latest' = latest
           \/ candles' = candles \cup {loop.open} /\ latest' = Later(latest, loop.open)
    BY <1>4 DEF IngestLive
  <2> QED
    BY <2>1 DEF Later
<1>5. CASE Sweep
  BY <1>5 DEF Sweep, SyncRead, MarkRead, MarkCommit, MarkRaises
<1>6. CASE WorkerTake \/ GateAcquired \/ WorkerResult
  BY <1>6 DEF WorkerTake, GateAcquired, WorkerResult
<1>7. CASE Attempt
  <2>1. ASSUME NEW served \in SUBSET NextWindow(thread.todo), RepairWindow(served)
        PROVE  /\ candles \subseteq candles'
               /\ latest <= latest'
               /\ durable' = durable
    <3>1. PICK newest \in {latest} \cup (served \ candles) :
                  newest >= latest /\ latest' = newest
      BY <2>1 DEF RepairWindow
    <3>2. latest' \in Int
      <4>1. served \subseteq Int
        BY ConstantFacts DEF NextWindow, TypeOK, Threads, Bars
      <4> QED
        BY <3>1, <4>1
    <3> QED
      BY <2>1, <3>1, <3>2 DEF RepairWindow
  <2>2. CASE MarkUnavailable \/ DeriveRead \/ DerivePlan \/ PreAudit \/ PostAudit
               \/ CheckTarget \/ MarkRestored \/ ThreadFault \/ RepairFails
               \/ RepairingToAuditing
    BY <2>2 DEF MarkUnavailable, DeriveRead, DerivePlan, PreAudit, PostAudit,
                CheckTarget, MarkRestored, ThreadFault, RepairFails,
                RepairingToAuditing
  <2>3. CASE EnsureAuditing \/ RepairEnsureAuditing \/ TransitionToRepairing
    BY <2>3 DEF EnsureAuditing, RepairEnsureAuditing, TransitionToRepairing, Transition
  <2> QED
    BY <1>7, <2>1, <2>2, <2>3 DEF Attempt
<1>8. CASE Ended
  BY <1>8 DEF Ended, vars
<1> QED
  BY <1>2, <1>3, <1>4, <1>5, <1>6, <1>7, <1>8 DEF Next

\* mark_ready commits only what the facts of its own sweep said, and those still
\* stand: no recovery is wanted and every expected bar is stored.
LEMMA ReadyIsProven ==
    ASSUME TypeOK, EpisodeInv, FrontierProven, MarkCommit, durable' = "ready"
    PROVE  ~intent.exists /\ 0..loop.exp \subseteq candles
<1>1. loop.pc = "commit" /\ loop.target = "ready"
  BY DEF MarkCommit
<1>2. EpisodeOwned
  BY DEF EpisodeInv
<1>3. DataReady(facts, loop.exp) /\ admitted
  BY <1>1, <1>2 DEF EpisodeOwned
<1>4. facts.restored /\ ~facts.fatal /\ facts.frontier >= loop.exp
  BY <1>3 DEF DataReady, Current
<1>5. ~intent.exists
  BY <1>2, <1>4 DEF EpisodeOwned
<1>6. 0..facts.frontier \subseteq candles
  BY <1>3, <1>4 DEF FrontierProven
<1>7. facts.frontier \in Int /\ loop.exp \in Int
  BY NumbersHold, ConstantFacts DEF Numbers, OptBars, Bars, NoBar
<1>8. 0..loop.exp \subseteq 0..facts.frontier
  BY <1>4, <1>7
<1> QED
  BY <1>5, <1>6, <1>8

\* The persisted state enters ready only with every expected bar stored and no
\* recovery wanted, although the recovery thread commits between the sweep's
\* reads; stored bars and the latest pointer only grow.
THEOREM ReadyIsEnteredProven == SafeBudget => (Spec => ReadyEnteredProven)
<1>1. TypeOK /\ EpisodeInv /\ FrontierProven /\ [Next]_vars =>
        [ /\ candles \subseteq candles'
          /\ latest <= latest'
          /\ durable # "ready" /\ durable' = "ready" =>
                ~intent.exists /\ 0..loop.exp \subseteq candles ]_vars
  BY StepGrows, ReadyIsProven
<1>2. ASSUME SafeBudget PROVE Spec => ReadyEnteredProven
  <2>1. Spec => []FrontierProven
    BY <1>2, FrontierIsProven
  <2> QED
    BY <1>1, <2>1, EpisodeInvariant, PTL DEF Spec, ReadyEnteredProven
<1> QED
  BY <1>2
=============================================================================
