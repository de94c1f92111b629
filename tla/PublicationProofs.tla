------------------------- MODULE PublicationProofs -------------------------
(***************************************************************************)
(* What a receiver is told is whole in both tracks, for every capacity of  *)
(* the queue, every number of bars and every outage and failure.           *)
(***************************************************************************)
EXTENDS BarPublication, WellFoundedInduction, TLAPS

FactSet == [flagged : BOOLEAN, candle : Bars, oi : Bars, subscribed : BOOLEAN,
            restored : BOOLEAN, pending : BOOLEAN, fatal : BOOLEAN,
            checked : Hints, awaited : Hints]
IntentSet == [active : BOOLEAN, hint : Hints, urgent : BOOLEAN,
              changed : BOOLEAN, window : Windows, need : BOOLEAN]
AttemptSet == [pc : {"idle", "plan", "candles", "points", "finish", "done"},
               window : Windows, hint : Hints, committed : BOOLEAN,
               class : {"none", "incomplete", "restored"} \cup Faults, next : Windows]
WorkerSet == [pc : {"idle", "append", "observe", "send", "ended"}, bar : Hints,
              stored : BOOLEAN, sending : BOOLEAN, hit : BOOLEAN,
              raises : BOOLEAN, cancelled : BOOLEAN, late : Nat]
PrefetchSet == [bar : Bars, stored : BOOLEAN, busy : BOOLEAN]

\* PublicationTypeOK, each record by its name; the queue and the table of flights apart.
Types ==
    /\ now \in Bars /\ expected \in Bars /\ candles \subseteq Bars /\ points \subseteq Bars
    /\ facts \in FactSet /\ intent \in IntentSet /\ thread \in AttemptSet
    /\ worker \in WorkerSet /\ prefetch \in PrefetchSet
    /\ flight \in [Bars -> {"none", "queued", "fetching"}]
    /\ queue \in Seq(Bars) /\ Len(queue) <= Capacity
    /\ stop \in BOOLEAN /\ owed \in Hints

\* Every bar up to n is stored, in each track the stream has.
WholeTo(n) ==
    /\ 0..n \subseteq candles
    /\ facts.flagged => 0..n \subseteq points

\* A window that recovery may be asked for starts where all before it is stored.
Sound(w) == w = NoWindow \/ (w.start < w.end /\ WholeTo(w.start - 1))

\* The worker is at "send" while a POST is in flight or a cancellation waits for
\* its end; a cancellation is never forgotten, and can only be remembered there.
\* It has a bar of the grid, and believes in a stored point only when there is one.
WorkerHolds ==
    /\ worker.sending => worker.pc = "send"
    /\ worker.raises => worker.pc = "send"
    /\ worker.cancelled => worker.hit \/ worker.raises \/ worker.pc = "ended"
    /\ worker.pc \in {"append", "observe", "send"} => worker.bar \in Bars
    /\ worker.stored => worker.pc \in {"observe", "send"} /\ worker.bar \in points

\* A hint never lies beyond the bar after the proven ones.
HintsHold ==
    /\ intent.active => intent.hint \in 0..(Frontier(facts) + 1)
    /\ thread.pc # "idle" => thread.hint \in 0..(Frontier(facts) + 1)

\* An attempt belongs to an intent, until the service stops.
AttemptIsOwned == thread.pc # "idle" /\ ~stop => intent.active

\* What an attempt knows of its window, step by step.
AttemptHolds ==
    /\ Sound(intent.window) /\ Sound(thread.window) /\ Sound(thread.next)
    /\ thread.pc \notin {"idle", "plan"} => thread.window # NoWindow
    /\ thread.pc \in {"points", "finish"} => InWindow \subseteq candles
    /\ thread.pc = "finish" /\ facts.flagged => InWindow \subseteq points
    /\ thread.class = "restored" =>
          thread.pc = "done" /\ WholeTo(thread.window.end - 1)

\* The inductive invariant.
PubInv ==
    /\ Types
    /\ candles \subseteq 0..now
    /\ FrontiersProven
    /\ SentIsWhole
    /\ PendingIsOwned
    /\ WorkerHolds
    /\ HintsHold
    /\ AttemptIsOwned
    /\ AttemptHolds

-----------------------------------------------------------------------------
USE PublicationAssumption DEF Bars, NoBar, Window, NoWindow, Lower, Higher

\* The naturals below a bound that are in a set have a largest one.
LEMMA LargestExists ==
    ASSUME NEW S \in SUBSET Nat, NEW n \in Nat, S # {}, \A x \in S : x <= n
    PROVE  \E m \in S : \A x \in S : x <= m
<1> DEFINE Below == {pair \in Nat \X Nat : pair[1] < pair[2]}
           Gaps == {k \in Nat : \E x \in S : x + k = n}
<1>1. IsWellFoundedOn(Below, Nat)
  BY NatLessThanWellFounded DEF OpToRel
<1>2. PICK e \in S : TRUE
  OBVIOUS
<1>3. n - e \in Gaps
  BY <1>2
<1>4. Gaps \subseteq Nat /\ Gaps # {}
  BY <1>3
<1>5. PICK t \in Gaps : \A y \in Gaps : <<y, t>> \notin Below
  <2> HIDE DEF Below, Gaps
  <2> QED
    BY <1>1, <1>4, WFMin
<1>6. \A y \in Gaps : ~(y < t)
  BY <1>4, <1>5
<1>7. PICK m \in S : m + t = n
  BY <1>5
<1>8. ASSUME NEW x \in S PROVE x <= m
  <2>1. n - x \in Gaps
    OBVIOUS
  <2> QED
    BY <2>1, <1>6, <1>7
<1> QED
  BY <1>8

\* latest_committed_open_time_ms of a table that is not empty.
LEMMA LatestIs ==
    ASSUME NEW S \in SUBSET Bars, S # {}
    PROVE  Max(S) \in S /\ \A b \in S : b <= Max(S)
<1>1. S \in SUBSET Nat /\ MaxNow \in Nat /\ \A x \in S : x <= MaxNow
  OBVIOUS
<1>2. \E m \in S : \A x \in S : m >= x
  BY <1>1, LargestExists
<1>3. Max(S) \in S /\ \A x \in S : Max(S) >= x
  BY <1>2 DEF Max
<1> QED
  BY <1>1, <1>3

\* A bar, the bar after one, and no bar are all hints.
LEMMA HintsAre ==
    /\ -1 \in Hints
    /\ \A b \in Bars : b \in Hints /\ b + 1 \in Hints
    /\ \A h \in Hints : h \in Int /\ -1 <= h /\ h <= MaxNow + 1
BY DEF Hints

\* What the types say of the facts and of the recovery, field by field.
LEMMA FieldTypes ==
    ASSUME Types
    PROVE  /\ facts.flagged \in BOOLEAN /\ facts.candle \in 0..MaxNow /\ facts.oi \in 0..MaxNow
           /\ Frontier(facts) \in 0..MaxNow /\ Frontier(facts) <= facts.candle
           /\ facts.flagged => Frontier(facts) <= facts.oi
           /\ facts.pending \in BOOLEAN
           /\ intent.hint \in -1..(MaxNow + 1) /\ thread.hint \in -1..(MaxNow + 1)
           /\ \A w \in {intent.window, thread.window, thread.next} :
                 w.start \in 0..(MaxNow + 1) /\ w.end \in 0..(MaxNow + 1)
           /\ worker.bar \in -1..(MaxNow + 1)
           /\ now \in 0..MaxNow /\ MaxNow \in Nat
<1>1. /\ facts.flagged \in BOOLEAN /\ facts.candle \in 0..MaxNow /\ facts.oi \in 0..MaxNow
      /\ facts.pending \in BOOLEAN
  BY DEF Types, FactSet
<1>2. /\ Frontier(facts) \in 0..MaxNow /\ Frontier(facts) <= facts.candle
      /\ facts.flagged => Frontier(facts) <= facts.oi
  BY <1>1 DEF Frontier
<1>3. intent.hint \in -1..(MaxNow + 1) /\ thread.hint \in -1..(MaxNow + 1)
  BY DEF Types, IntentSet, AttemptSet, Hints
<1>4. \A w \in {intent.window, thread.window, thread.next} :
         w.start \in 0..(MaxNow + 1) /\ w.end \in 0..(MaxNow + 1)
  BY DEF Types, IntentSet, AttemptSet, Windows
<1>5. worker.bar \in -1..(MaxNow + 1) /\ now \in 0..MaxNow
  BY DEF Types, WorkerSet, Hints
<1> QED
  BY <1>1, <1>2, <1>3, <1>4, <1>5

\* The two type invariants say the same.
LEMMA TypesAre == Types => PublicationTypeOK
BY DEF Types, PublicationTypeOK, FactSet, IntentSet, AttemptSet, WorkerSet, PrefetchSet

\* The admitted stream.
LEMMA PubStarts == Init => PubInv
<1> SUFFICES ASSUME Init PROVE PubInv
  OBVIOUS
<1>1. Types
  <2>1. facts \in FactSet /\ worker \in WorkerSet /\ prefetch \in PrefetchSet
    BY DEF Init, FactSet, WorkerSet, PrefetchSet, Hints
  <2>2. intent \in IntentSet /\ thread \in AttemptSet
    BY DEF Init, IntentSet, AttemptSet, NoIntent, NoAttempt, Windows, Hints
  <2>3. queue \in Seq(Bars) /\ Len(queue) <= Capacity
    BY DEF Init
  <2>4. flight \in [Bars -> {"none", "queued", "fetching"}] /\ owed \in Hints
    BY DEF Init, Hints
  <2>5. now \in Bars /\ expected \in Bars /\ candles \subseteq Bars /\ points \subseteq Bars
    BY DEF Init
  <2>6. stop \in BOOLEAN
    BY DEF Init
  <2> QED
    BY <2>1, <2>2, <2>3, <2>4, <2>5, <2>6 DEF Types
<1>2. candles \subseteq 0..now /\ FrontiersProven /\ SentIsWhole /\ PendingIsOwned
  BY DEF Init, FrontiersProven, SentIsWhole, PendingIsOwned
<1>3. WorkerHolds /\ HintsHold /\ AttemptIsOwned
  BY DEF Init, WorkerHolds, HintsHold, AttemptIsOwned, NoIntent, NoAttempt
<1>4. AttemptHolds
  BY DEF Init, AttemptHolds, Sound, NoIntent, NoAttempt
<1> QED
  BY <1>1, <1>2, <1>3, <1>4 DEF PubInv

\* What the facts, the intent and the attempt know outlives every step that
\* leaves them alone: bars and points are never deleted.
LEMMA RecoveryFrame ==
    ASSUME PubInv, UNCHANGED <<facts, intent, thread>>,
           candles \subseteq candles', points \subseteq points', stop => stop'
    PROVE  /\ FrontiersProven' /\ PendingIsOwned' /\ HintsHold' /\ AttemptIsOwned'
           /\ AttemptHolds'
<1>1. FrontiersProven' /\ PendingIsOwned' /\ HintsHold' /\ AttemptIsOwned'
  BY DEF PubInv, FrontiersProven, PendingIsOwned, HintsHold, AttemptIsOwned
<1>2. AttemptHolds'
  BY DEF PubInv, AttemptHolds, Sound, WholeTo, InWindow
<1> QED
  BY <1>1, <1>2

\* What the worker knows outlives the steps of the others.
LEMMA WorkerFrame ==
    ASSUME PubInv, UNCHANGED worker, facts'.flagged = facts.flagged,
           candles \subseteq candles', points \subseteq points'
    PROVE  SentIsWhole' /\ WorkerHolds'
BY DEF PubInv, SentIsWhole, WorkerHolds

\* The steps of the clock.
LEMMA ClockKeeps ==
    ASSUME PubInv, Tick \/ GraceEnds
    PROVE  PubInv'
<1>0. Types /\ now \in Nat /\ candles \subseteq 0..now
  BY FieldTypes DEF PubInv
<1>1. /\ UNCHANGED <<candles, points, facts, intent, thread, worker, stop, prefetch,
                     flight, queue, owed>>
      /\ now' \in Bars /\ now <= now' /\ expected' \in Bars
  <2>1. CASE Tick
    BY <1>0, <2>1 DEF Types, Tick, recovery, notifying, fetching
  <2>2. CASE GraceEnds
    BY <1>0, <2>2 DEF Types, GraceEnds, recovery, notifying, fetching
  <2> QED
    BY <2>1, <2>2
<1>2. Types'
  BY <1>0, <1>1 DEF Types
<1>3. candles' \subseteq 0..now'
  BY <1>0, <1>1
<1> QED
  BY <1>1, <1>2, <1>3, RecoveryFrame, WorkerFrame DEF PubInv

\* The steps of the prefetch: a point more, at most.
LEMMA PrefetchKeeps ==
    ASSUME PubInv, Prefetching
    PROVE  PubInv'
<1>0. Types /\ candles \subseteq 0..now
  BY DEF PubInv
<1> DEFINE Kept ==
      /\ UNCHANGED <<now, expected, candles, facts, intent, thread, worker, stop,
                     queue, owed>>
      /\ points \subseteq points' /\ points' \subseteq Bars
      /\ flight' \in [Bars -> {"none", "queued", "fetching"}]
      /\ prefetch' \in PrefetchSet
<1>1. Kept
  <2>1. CASE PrefetchTick
    BY <1>0, <2>1 DEF Types, PrefetchSet, PrefetchTick, clock, recovery, notifying
  <2>2. ASSUME NEW bar \in Bars, PrefetchStarts(bar) PROVE Kept
    BY <1>0, <2>2 DEF Types, PrefetchSet, PrefetchStarts, Settled, clock, recovery, notifying
  <2>3. ASSUME NEW bar \in Bars, NEW reply \in Replies, PrefetchEnds(bar, reply)
        PROVE  Kept
    <3> DEFINE came == reply # "error" /\ bar \in points'
    <3>1. came \in BOOLEAN
      OBVIOUS
    <3>2. prefetch' = Settled(bar, came)
      BY <2>3 DEF PrefetchEnds
    <3>3. prefetch' \in PrefetchSet
      <4> HIDE DEF came
      <4> QED
        BY <1>0, <3>1, <3>2 DEF Types, PrefetchSet, Settled
    <3> QED
      BY <1>0, <2>3, <3>3 DEF Types, PrefetchEnds, clock, recovery, notifying
  <2> QED
    BY <2>1, <2>2, <2>3 DEF Prefetching
<1>2. Types'
  BY <1>0, <1>1 DEF Types
<1>3. candles' \subseteq 0..now'
  BY <1>0, <1>1
<1> QED
  BY <1>1, <1>2, <1>3, RecoveryFrame, WorkerFrame DEF PubInv

\* A send that starts: what it changes of the worker.
LEMMA PostedIs ==
    ASSUME NEW w \in WorkerSet, stop \in BOOLEAN
    PROVE  /\ Posted(w) \in WorkerSet
           /\ Posted(w).pc = "send" /\ Posted(w).bar = w.bar /\ Posted(w).stored = w.stored
           /\ Posted(w).hit = w.hit /\ Posted(w).raises = w.raises
           /\ Posted(w).cancelled = w.cancelled
<1> DEFINE late == IF stop THEN w.late + 1 ELSE w.late
<1>1. late \in Nat
  BY DEF WorkerSet
<1>2. Posted(w) = [w EXCEPT !.pc = "send", !.sending = TRUE, !.late = late]
  BY DEF Posted
<1> HIDE DEF late
<1> QED
  BY <1>1, <1>2 DEF WorkerSet

\* A cancelled worker ends, unless its POST is in flight.
LEMMA ShieldedIs ==
    ASSUME NEW w \in WorkerSet
    PROVE  /\ [Shielded(w) EXCEPT !.hit = FALSE] \in WorkerSet
           /\ w.sending => [Shielded(w) EXCEPT !.hit = FALSE]
                            = [w EXCEPT !.raises = TRUE, !.hit = FALSE]
           /\ ~w.sending => /\ [Shielded(w) EXCEPT !.hit = FALSE].pc = "ended"
                            /\ [Shielded(w) EXCEPT !.hit = FALSE].stored = FALSE
                            /\ [Shielded(w) EXCEPT !.hit = FALSE].raises = FALSE
                            /\ [Shielded(w) EXCEPT !.hit = FALSE].sending = FALSE
<1>1. CASE w.sending
  <2>1. Shielded(w) = [w EXCEPT !.raises = TRUE]
    BY <1>1 DEF Shielded
  <2> QED
    BY <1>1, <2>1 DEF WorkerSet
<1>2. CASE ~w.sending
  <2> DEFINE bar == IF w.pc = "append" THEN w.bar ELSE NoBar
  <2>1. bar \in Hints
    BY HintsAre DEF WorkerSet
  <2>2. Shielded(w) = [w EXCEPT !.pc = "ended", !.raises = FALSE, !.stored = FALSE, !.bar = bar]
    BY <1>2 DEF Shielded
  <2> HIDE DEF bar
  <2> QED
    BY <1>2, <2>1, <2>2 DEF WorkerSet
<1> QED
  BY <1>1, <1>2

\* The steps of the notification worker but for its decision, and the end.
LEMMA WorkerKeeps ==
    ASSUME PubInv,
           \/ Take \/ WorkerStops \/ SendReturns \/ SendObserved \/ Interrupted
           \/ Stop \/ Cancel
           \/ \E reply \in Replies : AppendLive(reply)
    PROVE  PubInv'
<1>0. /\ Types /\ WorkerHolds /\ SentIsWhole /\ worker \in WorkerSet
      /\ facts.flagged \in BOOLEAN /\ stop \in BOOLEAN
      /\ candles \subseteq 0..now
  BY FieldTypes DEF PubInv, Types
<1> DEFINE Kept ==
      /\ UNCHANGED <<now, expected, candles, facts, intent, thread, prefetch, flight, owed>>
      /\ points \subseteq points' /\ points' \subseteq Bars
      /\ stop' \in BOOLEAN
      /\ stop => stop'
      /\ queue' \in Seq(Bars) /\ Len(queue') <= Capacity
      /\ worker' \in WorkerSet
      /\ SentIsWhole' /\ WorkerHolds'
<1>1. Kept
  <2>1. CASE Take
    <3>1. Head(queue) \in Bars /\ Tail(queue) \in Seq(Bars) /\ Len(Tail(queue)) <= Capacity
      BY <2>1, <1>0 DEF Take, Types
    <3> DEFINE taken == [worker EXCEPT !.bar = Head(queue)]
    <3>2. /\ taken \in WorkerSet /\ taken.bar = Head(queue) /\ taken.stored = worker.stored
          /\ taken.hit = worker.hit /\ taken.raises = worker.raises
          /\ taken.cancelled = worker.cancelled
      BY <1>0, <3>1, HintsAre DEF WorkerSet
    <3>a. /\ worker.pc = "idle" /\ ~worker.hit /\ ~worker.raises /\ ~worker.cancelled
          /\ ~worker.sending /\ ~worker.stored
      BY <1>0, <2>1 DEF Take, WorkerHolds
    <3>b. UNCHANGED <<candles, points, facts>> /\ worker' = TakenUp(worker, Head(queue))
      BY <2>1 DEF Take
    <3>3. worker' \in WorkerSet /\ SentIsWhole' /\ WorkerHolds'
      <4>1. CASE stop
        <5>1. worker' = [worker EXCEPT !.pc = "ended"]
          BY <3>b, <4>1 DEF TakenUp
        <5> QED
          BY <1>0, <3>a, <5>1 DEF WorkerSet, SentIsWhole, WorkerHolds
      <4>2. CASE ~stop /\ facts.flagged
        <5>1. worker' = [worker EXCEPT !.pc = "append", !.bar = Head(queue), !.stored = FALSE]
          BY <3>b, <4>2 DEF TakenUp, Begin
        <5> QED
          BY <1>0, <3>1, <3>a, <5>1, HintsAre DEF WorkerSet, SentIsWhole, WorkerHolds
      <4>3. CASE ~stop /\ ~facts.flagged
        <5>1. worker' = Posted(taken)
          BY <3>b, <4>3 DEF TakenUp, Begin
        <5> HIDE DEF taken
        <5>2. /\ worker' \in WorkerSet /\ worker'.pc = "send" /\ worker'.bar = Head(queue)
              /\ worker'.stored = worker.stored /\ worker'.raises = worker.raises
              /\ worker'.cancelled = worker.cancelled
          BY <1>0, <3>2, <5>1, PostedIs
        <5> QED
          BY <3>1, <3>a, <3>b, <4>3, <5>2 DEF SentIsWhole, WorkerHolds
      <4> QED
        BY <4>1, <4>2, <4>3
    <3> QED
      BY <1>0, <2>1, <3>1, <3>3 DEF Take, Types, clock, recovery, fetching
  <2>2. CASE WorkerStops
    <3>1. worker' \in WorkerSet /\ SentIsWhole' /\ WorkerHolds'
      BY <1>0, <2>2 DEF WorkerStops, WorkerSet, SentIsWhole, WorkerHolds
    <3> QED
      BY <1>0, <2>2, <3>1 DEF WorkerStops, Types, clock, recovery, fetching
  <2>3. CASE SendReturns
    <3>1. worker' \in WorkerSet /\ SentIsWhole' /\ WorkerHolds'
      BY <1>0, <2>3 DEF SendReturns, WorkerSet, SentIsWhole, WorkerHolds
    <3> QED
      BY <1>0, <2>3, <3>1 DEF SendReturns, Types, clock, recovery, fetching
  <2>4. CASE SendObserved
    <3>1. worker' \in WorkerSet /\ SentIsWhole' /\ WorkerHolds'
      <4>1. CASE worker.raises
        BY <1>0, <2>4, <4>1, HintsAre DEF SendObserved, WorkerSet, SentIsWhole, WorkerHolds
      <4>2. CASE ~worker.raises
        BY <1>0, <2>4, <4>2, HintsAre DEF SendObserved, WorkerSet, SentIsWhole, WorkerHolds
      <4> QED
        BY <4>1, <4>2
    <3> QED
      BY <1>0, <2>4, <3>1 DEF SendObserved, Types, clock, recovery, fetching
  <2>5. CASE Interrupted
    <3>a. worker' = [Shielded(worker) EXCEPT !.hit = FALSE]
          /\ UNCHANGED <<candles, points, facts>>
      BY <2>5 DEF Interrupted
    <3>1. worker' \in WorkerSet
      BY <1>0, <3>a, ShieldedIs
    <3>2. SentIsWhole' /\ WorkerHolds'
      <4>1. CASE worker.sending
        <5>1. worker' = [worker EXCEPT !.raises = TRUE, !.hit = FALSE]
          BY <1>0, <3>a, <4>1, ShieldedIs
        <5> QED
          BY <1>0, <3>a, <4>1, <5>1 DEF WorkerSet, SentIsWhole, WorkerHolds
      <4>2. CASE ~worker.sending
        <5>1. worker'.pc = "ended" /\ worker'.stored = FALSE /\ worker'.raises = FALSE
              /\ worker'.sending = FALSE
          BY <1>0, <3>a, <4>2, ShieldedIs
        <5> QED
          BY <5>1 DEF SentIsWhole, WorkerHolds
      <4> QED
        BY <4>1, <4>2
    <3> QED
      BY <1>0, <2>5, <3>1, <3>2 DEF Interrupted, Types, clock, recovery, fetching
  <2>6. CASE Stop
    <3>1. SentIsWhole' /\ WorkerHolds'
      BY <1>0, <2>6 DEF Stop, SentIsWhole, WorkerHolds, notifying
    <3> QED
      BY <1>0, <2>6, <3>1 DEF Stop, Types, clock, recovery, notifying, fetching
  <2>7. CASE Cancel
    <3>1. worker' \in WorkerSet /\ SentIsWhole' /\ WorkerHolds'
      BY <1>0, <2>7 DEF Cancel, WorkerSet, SentIsWhole, WorkerHolds
    <3> QED
      BY <1>0, <2>7, <3>1 DEF Cancel, Types, clock, recovery, fetching
  <2>8. ASSUME NEW reply \in Replies, AppendLive(reply) PROVE Kept
    <3> DEFINE came == reply # "error" /\ worker.bar \in points'
    <3>1. /\ points' \subseteq Bars /\ points \subseteq points'
          /\ UNCHANGED <<candles, facts>>
      <4>1. now \in 0..MaxNow /\ worker.bar \in -1..(MaxNow + 1) /\ points \subseteq Bars
            /\ worker.bar # -1
        BY <1>0, <2>8, FieldTypes DEF AppendLive, Types
      <4>2. /\ points' = IF reply = "point" THEN points \cup {worker.bar} ELSE points
            /\ reply = "point" => worker.bar < now
            /\ UNCHANGED <<candles, facts>>
        BY <2>8, Zenon DEF AppendLive
      <4>3. CASE reply = "point"
        <5>1. worker.bar \in Bars
          BY <4>1, <4>2, <4>3
        <5> QED
          BY <4>1, <4>2, <4>3, <5>1
      <4>4. CASE reply # "point"
        BY <4>1, <4>2, <4>4
      <4> QED
        BY <4>3, <4>4
    <3>2. came \in BOOLEAN /\ (came => worker.bar \in points')
      OBVIOUS
    <3>3. /\ worker.pc \in {"append", "ended"}
          /\ worker' = IF worker.pc = "ended" THEN [worker EXCEPT !.bar = NoBar]
                       ELSE [worker EXCEPT !.pc = "observe", !.stored = came]
      BY <2>8 DEF AppendLive
    <3>4. worker' \in WorkerSet /\ SentIsWhole' /\ WorkerHolds'
      <4> HIDE DEF came
      <4>1. CASE worker.pc = "ended"
        BY <1>0, <3>1, <3>3, <4>1, HintsAre DEF WorkerSet, SentIsWhole, WorkerHolds
      <4>2. CASE worker.pc = "append"
        BY <1>0, <3>1, <3>2, <3>3, <4>2 DEF WorkerSet, SentIsWhole, WorkerHolds
      <4> QED
        BY <3>3, <4>1, <4>2
    <3> QED
      BY <1>0, <2>8, <3>1, <3>4 DEF AppendLive, Types, clock, recovery, fetching
  <2> QED
    BY <2>1, <2>2, <2>3, <2>4, <2>5, <2>6, <2>7, <2>8
<1>2. Types' /\ candles' \subseteq 0..now'
  BY <1>0, <1>1 DEF Types
<1> QED
  BY <1>1, <1>2, RecoveryFrame DEF PubInv

-----------------------------------------------------------------------------
\* A window of two bars, or of a bar and the end of the grid.
LEMMA WindowIs ==
    ASSUME NEW a \in 0..(MaxNow + 1), NEW b \in 0..(MaxNow + 1)
    PROVE  Window(a, b) \in Windows
BY DEF Windows

\* A step that leaves candles, facts and points alone and makes a new attempt of
\* the old one keeps what is not about the attempt.
LEMMA AttemptFrame ==
    ASSUME PubInv, thread' \in AttemptSet, intent' \in IntentSet,
           UNCHANGED <<now, expected, facts, queue, worker, prefetch, flight, stop, owed>>,
           candles \subseteq candles', candles' \subseteq 0..now,
           points \subseteq points', points' \subseteq Bars,
           intent'.hint = intent.hint, intent'.active = intent.active,
           \/ thread.pc # "idle" /\ thread'.hint = thread.hint
           \/ intent.active /\ thread'.hint = intent.hint,
           AttemptHolds'
    PROVE  PubInv'
<1>1. Types'
  BY DEF PubInv, Types
<1>2. candles' \subseteq 0..now' /\ FrontiersProven' /\ PendingIsOwned'
  BY DEF PubInv, FrontiersProven, PendingIsOwned
<1>3. SentIsWhole' /\ WorkerHolds'
  BY WorkerFrame
<1>4. HintsHold' /\ AttemptIsOwned'
  BY DEF PubInv, HintsHold, AttemptIsOwned
<1> QED
  BY <1>1, <1>2, <1>3, <1>4 DEF PubInv

\* The recovery worker starts an attempt.
LEMMA AttemptStartsKeeps ==
    ASSUME PubInv, AttemptStarts
    PROVE  PubInv'
<1>0. Types /\ intent \in IntentSet /\ AttemptHolds /\ intent.active
      /\ candles \subseteq 0..now /\ points \subseteq Bars
  BY DEF PubInv, AttemptStarts, Types
<1>1. /\ thread' = [pc |-> "plan", window |-> intent.window, hint |-> intent.hint,
                    committed |-> FALSE, class |-> "none", next |-> NoWindow]
      /\ intent' = [intent EXCEPT !.changed = FALSE]
      /\ UNCHANGED <<now, expected, candles, points, facts, queue, worker, prefetch, flight,
                     stop, owed>>
  BY DEF AttemptStarts, NoAttempt, clock, notifying, fetching
<1>2. NoWindow \in Windows
  BY WindowIs
<1>3. thread' \in AttemptSet /\ intent' \in IntentSet
  BY <1>0, <1>1, <1>2 DEF AttemptSet, IntentSet
<1>4. /\ intent'.hint = intent.hint /\ intent'.active = intent.active
      /\ intent'.window = intent.window /\ thread'.hint = intent.hint
  BY <1>0, <1>1 DEF IntentSet
<1>5. AttemptHolds'
  BY <1>0, <1>1, <1>4 DEF AttemptHolds, Sound, WholeTo, InWindow
<1> QED
  BY <1>0, <1>1, <1>3, <1>4, <1>5, AttemptFrame

\* The window derive_window chooses starts where all before it is stored, however
\* old the hint is.
LEMMA DerivedHolds ==
    ASSUME PubInv, thread.pc # "idle"
    PROVE  /\ Derived \in Windows /\ Derived # NoWindow
           /\ Derived.start < Derived.end /\ WholeTo(Derived.start - 1)
<1>0. /\ Types /\ candles \subseteq 0..now /\ FrontiersProven /\ HintsHold
      /\ candles \subseteq Bars /\ now \in 0..MaxNow /\ MaxNow \in Nat
      /\ Frontier(facts) \in 0..MaxNow /\ Frontier(facts) <= facts.candle
      /\ facts.flagged => Frontier(facts) <= facts.oi
      /\ facts.candle \in Nat /\ facts.oi \in Nat
  <2>1. /\ Types /\ candles \subseteq 0..now /\ FrontiersProven /\ HintsHold
        /\ candles \subseteq Bars
    BY DEF PubInv, Types
  <2> QED
    BY <2>1, FieldTypes
<1>1. WholeTo(Frontier(facts))
  BY <1>0 DEF WholeTo, FrontiersProven
<1>2. 0 \in candles
  BY <1>0, <1>1 DEF WholeTo
<1> DEFINE latest == Max(candles)
<1>3. latest \in candles
  BY <1>0, <1>2, LatestIs
<1>4. latest \in 0..now
  BY <1>0, <1>3
<1>5. thread.hint \in 0..(Frontier(facts) + 1)
  BY DEF PubInv, HintsHold
<1> HIDE DEF latest
<1> DEFINE start == Lower(latest + 1, thread.hint)
<1>6. /\ Derived = IF start < now THEN Window(start, now) ELSE Window(latest, latest + 1)
      /\ start \in Nat /\ start <= Frontier(facts) + 1 /\ start <= latest + 1
  BY <1>0, <1>4, <1>5 DEF Derived, latest
<1>7. CASE start < now
  <2>1. Derived = Window(start, now)
    BY <1>6, <1>7
  <2>2. start \in 0..(MaxNow + 1) /\ now \in 0..(MaxNow + 1)
    BY <1>0, <1>6, <1>7
  <2>3. WholeTo(start - 1)
    BY <1>0, <1>1, <1>6 DEF WholeTo
  <2> HIDE DEF start
  <2> QED
    BY <2>1, <2>2, <2>3, <1>7, WindowIs
<1>8. CASE ~(start < now)
  <2>1. Derived = Window(latest, latest + 1)
    BY <1>6, <1>8
  <2>2. latest \in 0..(MaxNow + 1) /\ latest + 1 \in 0..(MaxNow + 1)
    BY <1>0, <1>4
  <2>3. latest - 1 <= Frontier(facts)
    BY <1>0, <1>4, <1>6, <1>8
  <2>4. WholeTo(latest - 1)
    BY <1>0, <1>1, <1>4, <2>3 DEF WholeTo
  <2> HIDE DEF start
  <2> QED
    BY <2>1, <2>2, <2>4, WindowIs
<1> QED
  BY <1>7, <1>8

\* The attempt plans.
LEMMA PlanKeeps ==
    ASSUME PubInv, Plan
    PROVE  PubInv'
<1>0. /\ thread \in AttemptSet /\ intent \in IntentSet /\ AttemptHolds /\ thread.pc = "plan"
      /\ candles \subseteq 0..now /\ points \subseteq Bars
  BY DEF PubInv, Plan, Types
<1> DEFINE window == IF thread.window = NoWindow THEN Derived ELSE thread.window
<1>1. /\ thread' = [thread EXCEPT !.pc = "candles", !.window = window]
      /\ UNCHANGED <<now, expected, candles, points, facts, intent, queue, worker, prefetch,
                     flight, stop, owed>>
  BY DEF Plan, clock, notifying, fetching
<1>2. thread.window \in Windows
  BY <1>0 DEF AttemptSet
<1>3. window \in Windows /\ window # NoWindow /\ Sound(window)
  BY <1>0, <1>2, DerivedHolds DEF AttemptHolds, Sound
<1> HIDE DEF window
<1>4. thread' \in AttemptSet
  BY <1>0, <1>1, <1>3 DEF AttemptSet
<1>5. /\ thread'.pc = "candles" /\ thread'.window = window /\ thread'.hint = thread.hint
      /\ thread'.class = thread.class /\ thread'.next = thread.next
  BY <1>0, <1>1 DEF AttemptSet
<1>6. Sound(thread'.window)
  BY <1>3, <1>5
<1>7. AttemptHolds'
  <2>1. Sound(intent.window)' /\ Sound(thread.window)' /\ Sound(thread.next)'
    BY <1>0, <1>1, <1>5, <1>6 DEF AttemptHolds, Sound, WholeTo
  <2> QED
    BY <1>0, <1>3, <1>5, <2>1 DEF AttemptHolds
<1>8. /\ thread.pc # "idle" /\ intent' \in IntentSet
      /\ candles \subseteq candles' /\ candles' \subseteq 0..now
      /\ points \subseteq points' /\ points' \subseteq Bars
      /\ intent'.hint = intent.hint /\ intent'.active = intent.active
  BY <1>0, <1>1
<1>9. thread.pc # "idle" /\ thread'.hint = thread.hint
  BY <1>5, <1>8
<1> QED
  BY <1>1, <1>4, <1>7, <1>8, <1>9, AttemptFrame

\* What an import and its audit leave of the attempt, whichever the track.
LEMMA RepairHolds ==
    ASSUME NEW stored \in SUBSET Bars, NEW got, NEW track \in {"candles", "points"},
           thread \in AttemptSet, facts.flagged \in BOOLEAN, Repair(stored, got, track)
    PROVE  /\ thread.pc = track /\ got \subseteq InWindow
           /\ \A b \in got : b < now
           /\ thread' \in AttemptSet
           /\ thread'.window = thread.window /\ thread'.hint = thread.hint
           /\ thread'.next = thread.next /\ thread'.class # "restored"
           /\ thread'.pc \in {"points", "finish", "done"}
           /\ thread'.pc # "done" => InWindow \subseteq stored \cup got
           /\ thread'.pc = "points" => track = "candles"
           /\ thread'.pc = "finish" => (track = "points" \/ ~facts.flagged)
<1>1. thread.pc = track /\ got \subseteq {b \in InWindow : b \notin stored /\ b < now}
  BY DEF Repair
<1>2. PICK class \in {"none", "incomplete"} \cup Faults :
        /\ class = "none" => InWindow \subseteq stored \cup got
        /\ thread' = [thread EXCEPT
              !.pc = IF class # "none" THEN "done"
                     ELSE IF track = "candles" /\ facts.flagged THEN "points"
                     ELSE "finish",
              !.committed = @ \/ got # {},
              !.class = class]
  BY DEF Repair
<1> DEFINE next == IF class # "none" THEN "done"
                   ELSE IF track = "candles" /\ facts.flagged THEN "points" ELSE "finish"
           told == thread.committed \/ got # {}
<1>3. told \in BOOLEAN
  OBVIOUS
<1>4. thread' = [thread EXCEPT !.pc = next, !.committed = told, !.class = class]
  BY <1>2
<1>5. next \in {"points", "finish", "done"}
  OBVIOUS
<1>6. /\ class \in {"none", "incomplete", "restored"} \cup Faults /\ class # "restored"
  OBVIOUS
<1> HIDE DEF told, next
<1>7. thread' \in AttemptSet
  BY <1>3, <1>4, <1>5, <1>6 DEF AttemptSet
<1>8. /\ thread'.window = thread.window /\ thread'.hint = thread.hint
      /\ thread'.next = thread.next /\ thread'.class = class /\ thread'.pc = next
  BY <1>4 DEF AttemptSet
<1> QED
  BY <1>1, <1>2, <1>5, <1>6, <1>7, <1>8 DEF next

\* One track is repaired.
LEMMA RepairKeeps ==
    ASSUME PubInv, NEW got \in SUBSET InWindow, RepairCandles(got) \/ RepairPoints(got)
    PROVE  PubInv'
<1>0. /\ thread \in AttemptSet /\ intent \in IntentSet /\ AttemptHolds
      /\ candles \subseteq 0..now /\ candles \subseteq Bars /\ points \subseteq Bars
      /\ Types
  BY DEF PubInv, Types
<1>1. /\ facts.flagged \in BOOLEAN /\ now \in 0..MaxNow
      /\ thread.window.start \in Nat /\ thread.window.end \in Nat
  BY <1>0, FieldTypes
<1>2. InWindow \subseteq Nat
  BY <1>1 DEF InWindow
<1> DEFINE Left ==
      /\ thread.pc \in {"candles", "points"} /\ thread' \in AttemptSet
      /\ thread'.window = thread.window /\ thread'.hint = thread.hint
      /\ thread'.next = thread.next /\ thread'.class # "restored"
      /\ thread'.pc \in {"points", "finish", "done"}
      /\ candles \subseteq candles' /\ candles' \subseteq 0..now
      /\ points \subseteq points' /\ points' \subseteq Bars
      /\ thread'.pc # "done" => InWindow \subseteq candles'
      /\ thread'.pc = "finish" /\ facts.flagged => InWindow \subseteq points'
      /\ UNCHANGED <<now, expected, facts, intent, queue, worker, prefetch, flight, stop, owed>>
<1>3. Left
  <2>1. CASE RepairCandles(got)
    <3>1. /\ Repair(candles, got, "candles") /\ candles' = candles \cup got
          /\ UNCHANGED <<now, expected, points, facts, intent, queue, worker, prefetch, flight,
                         stop, owed>>
      BY <2>1 DEF RepairCandles, clock, notifying, fetching
    <3>2. /\ thread.pc = "candles" /\ \A b \in got : b < now
          /\ thread' \in AttemptSet
          /\ thread'.window = thread.window /\ thread'.hint = thread.hint
          /\ thread'.next = thread.next /\ thread'.class # "restored"
          /\ thread'.pc \in {"points", "finish", "done"}
          /\ thread'.pc # "done" => InWindow \subseteq candles \cup got
          /\ thread'.pc = "finish" => ~facts.flagged
      BY <3>1, <1>0, <1>1, RepairHolds
    <3>3. got \subseteq 0..now
      BY <3>2, <1>1, <1>2
    <3> QED
      BY <3>1, <3>2, <3>3, <1>0
  <2>2. CASE RepairPoints(got)
    <3>1. /\ Repair(points, got, "points") /\ points' = points \cup got
          /\ UNCHANGED <<now, expected, candles, facts, intent, queue, worker, prefetch, flight,
                         stop, owed>>
      BY <2>2 DEF RepairPoints, clock, notifying, fetching
    <3>2. /\ thread.pc = "points" /\ \A b \in got : b < now
          /\ thread' \in AttemptSet
          /\ thread'.window = thread.window /\ thread'.hint = thread.hint
          /\ thread'.next = thread.next /\ thread'.class # "restored"
          /\ thread'.pc \in {"finish", "done"}
          /\ thread'.pc # "done" => InWindow \subseteq points \cup got
      BY <3>1, <1>0, <1>1, RepairHolds
    <3>3. got \subseteq Bars
      BY <3>2, <1>1, <1>2
    <3>4. InWindow \subseteq candles
      BY <3>2, <1>0 DEF AttemptHolds
    <3> QED
      BY <3>1, <3>2, <3>3, <3>4, <1>0
  <2> QED
    BY <2>1, <2>2
<1>4. AttemptHolds'
  <2>1. Sound(intent.window)' /\ Sound(thread.window)' /\ Sound(thread.next)'
    BY <1>0, <1>3 DEF AttemptHolds, Sound, WholeTo
  <2>2. InWindow' = InWindow
    BY <1>3 DEF InWindow
  <2>3. thread'.window # NoWindow
    BY <1>0, <1>3 DEF AttemptHolds
  <2> QED
    BY <1>0, <1>3, <2>1, <2>2, <2>3 DEF AttemptHolds
<1>5. intent' \in IntentSet /\ intent'.hint = intent.hint /\ intent'.active = intent.active
  BY <1>0, <1>3
<1> QED
  BY <1>3, <1>4, <1>5, AttemptFrame

\* Both tracks are whole over the window, and so is everything before it.
LEMMA FinishKeeps ==
    ASSUME PubInv, Finish
    PROVE  PubInv'
<1>0. /\ thread \in AttemptSet /\ intent \in IntentSet /\ AttemptHolds /\ thread.pc = "finish"
      /\ candles \subseteq 0..now /\ points \subseteq Bars /\ Types
  BY DEF PubInv, Finish, Types
<1>1. /\ now \in 0..MaxNow /\ thread.window \in Windows
      /\ thread.window.start \in 0..(MaxNow + 1) /\ thread.window.end \in 0..(MaxNow + 1)
      /\ MaxNow \in Nat /\ facts.flagged \in BOOLEAN
  BY <1>0, FieldTypes DEF AttemptSet
<1>2. WholeTo(thread.window.end - 1)
  <2>1. /\ WholeTo(thread.window.start - 1) /\ InWindow \subseteq candles
        /\ facts.flagged => InWindow \subseteq points
    BY <1>0 DEF AttemptHolds, Sound
  <2>2. \A b \in 0..(thread.window.end - 1) : b \in InWindow \/ b \in 0..(thread.window.start - 1)
    BY <1>1 DEF InWindow
  <2> QED
    BY <2>1, <2>2 DEF WholeTo
<1> DEFINE later == now > thread.window.end
           class == IF later THEN "incomplete" ELSE "restored"
           next == IF later THEN Window(thread.window.end, now) ELSE NoWindow
<1>3. /\ thread' = [thread EXCEPT !.pc = "done", !.class = class, !.next = next]
      /\ UNCHANGED <<now, expected, candles, points, facts, intent, queue, worker, prefetch,
                     flight, stop, owed>>
  BY DEF Finish, clock, notifying, fetching
<1>4. next \in Windows /\ Sound(next)
  <2>1. CASE later
    <3>1. now \in 0..(MaxNow + 1) /\ next = Window(thread.window.end, now)
      BY <1>1, <2>1
    <3>2. next.start = thread.window.end /\ next.end = now
      BY <3>1
    <3>3. next \in Windows
      BY <3>1, <1>1, WindowIs
    <3> HIDE DEF next
    <3> QED
      BY <3>2, <3>3, <2>1, <1>1, <1>2 DEF Sound
  <2>2. CASE ~later
    BY <2>2, WindowIs DEF Sound
  <2> QED
    BY <2>1, <2>2
<1>5. class \in {"incomplete", "restored"}
  OBVIOUS
<1> HIDE DEF class, next
<1>6. thread' \in AttemptSet
  BY <1>0, <1>3, <1>4, <1>5 DEF AttemptSet
<1>7. /\ thread'.pc = "done" /\ thread'.window = thread.window /\ thread'.hint = thread.hint
      /\ thread'.class = class /\ thread'.next = next
  BY <1>0, <1>3 DEF AttemptSet
<1>8. AttemptHolds'
  <2>1. Sound(intent.window)' /\ Sound(thread.window)'
    BY <1>0, <1>3, <1>7 DEF AttemptHolds, Sound, WholeTo
  <2>2. Sound(thread.next)' /\ WholeTo(thread.window.end - 1)'
    BY <1>2, <1>3, <1>4, <1>7 DEF Sound, WholeTo
  <2>3. thread'.window # NoWindow
    BY <1>0, <1>7 DEF AttemptHolds
  <2> QED
    BY <1>7, <2>1, <2>2, <2>3 DEF AttemptHolds
<1>9. /\ thread.pc # "idle" /\ intent' \in IntentSet
      /\ candles \subseteq candles' /\ candles' \subseteq 0..now
      /\ points \subseteq points' /\ points' \subseteq Bars
      /\ intent'.hint = intent.hint /\ intent'.active = intent.active
  BY <1>0, <1>3
<1> QED
  BY <1>3, <1>6, <1>7, <1>8, <1>9, AttemptFrame

-----------------------------------------------------------------------------
\* The queue stays within its capacity.
LEMMA PutHolds ==
    ASSUME NEW q \in Seq(Bars), Len(q) <= Capacity, NEW bar \in Bars
    PROVE  PutNowait(q, bar) \in Seq(Bars) /\ Len(PutNowait(q, bar)) <= Capacity
<1>1. CASE Len(q) < Capacity
  <2>1. Append(q, bar) \in Seq(Bars) /\ Len(Append(q, bar)) = Len(q) + 1 /\ Len(q) \in Nat
    OBVIOUS
  <2> QED
    BY <1>1, <2>1 DEF PutNowait
<1>2. CASE ~(Len(q) < Capacity)
  BY <1>2 DEF PutNowait
<1> QED
  BY <1>1, <1>2

\* A signal leaves an active intent, whose hint is the signal's or the one
\* before it, and whose window is the one before or none.
LEMMA EnqueueHolds ==
    ASSUME NEW i \in IntentSet, NEW hint \in Hints, NEW urgent \in BOOLEAN
    PROVE  /\ Enqueue(i, hint, urgent) \in IntentSet
           /\ Enqueue(i, hint, urgent).active = TRUE
           /\ Enqueue(i, hint, urgent).window \in {i.window, NoWindow}
           /\ Enqueue(i, hint, urgent).hint \in {hint, i.hint}
           /\ ~i.active => Enqueue(i, hint, urgent).hint = hint
           /\ i.active /\ hint = NoBar => Enqueue(i, hint, urgent).hint = i.hint
           /\ i.hint = NoBar => Enqueue(i, hint, urgent).hint = hint
<1> DEFINE earlier == hint # NoBar /\ (i.hint = NoBar \/ hint < i.hint)
           e == Enqueue(i, hint, urgent)
<1>0. NoWindow \in Windows /\ -1 \in Hints
  BY WindowIs, HintsAre
<1>1. CASE ~i.active
  <2>1. e = [active |-> TRUE, hint |-> hint, urgent |-> urgent,
             changed |-> FALSE, window |-> NoWindow, need |-> FALSE]
    BY <1>1 DEF Enqueue, NoIntent
  <2> HIDE DEF e
  <2>2. e \in IntentSet
    BY <2>1, <1>0 DEF IntentSet
  <2> QED
    BY <2>1, <2>2, <1>1 DEF e
<1>2. CASE i.active /\ (earlier \/ (urgent /\ ~i.urgent))
  <2> DEFINE hint2 == IF earlier THEN hint ELSE i.hint
             urgent2 == i.urgent \/ urgent
  <2>1. e = [i EXCEPT !.hint = hint2, !.urgent = urgent2, !.changed = TRUE,
                      !.window = NoWindow]
    BY <1>2 DEF Enqueue
  <2>2. /\ hint2 \in Hints /\ urgent2 \in BOOLEAN /\ hint2 \in {hint, i.hint}
        /\ hint = NoBar => hint2 = i.hint
        /\ i.hint = NoBar => hint2 = hint
    BY DEF IntentSet
  <2> HIDE DEF e, hint2, urgent2, earlier
  <2>3. e \in IntentSet
    BY <2>1, <2>2, <1>0 DEF IntentSet
  <2>4. e.active = i.active /\ e.hint = hint2 /\ e.window = NoWindow
    BY <2>1 DEF IntentSet
  <2>5. e.active = TRUE
    BY <2>4, <1>2 DEF IntentSet
  <2> QED
    BY <2>2, <2>3, <2>4, <2>5, <1>2 DEF e
<1>3. CASE i.active /\ ~(earlier \/ (urgent /\ ~i.urgent))
  <2>1. e = i
    BY <1>3 DEF Enqueue
  <2>2. i.active = TRUE
    BY <1>3 DEF IntentSet
  <2>3. i.hint = NoBar => hint = NoBar
    BY <1>3
  <2> QED
    BY <2>1, <2>2, <2>3, <1>3
<1> QED
  BY <1>1, <1>2, <1>3

\* The hint of a signal lies on the grid, not beyond the bar after the proven.
LEMMA HintHolds ==
    ASSUME NEW f \in FactSet, NEW suspected \in Hints
    PROVE  /\ Frontier(f) \in Bars
           /\ Hint(f, suspected) \in Hints
           /\ Hint(f, suspected) \in 0..(Frontier(f) + 1)
           /\ Hint(f, suspected) # NoBar
<1>1. Frontier(f) \in Bars
  BY DEF Frontier, FactSet
<1>2. suspected \in Int /\ -1 <= suspected
  BY HintsAre
<1>3. Hint(f, suspected) \in 0..(Frontier(f) + 1)
  BY <1>1, <1>2 DEF Hint
<1>4. Hint(f, suspected) = Frontier(f) + 1 \/ Hint(f, suspected) = suspected
  BY DEF Hint
<1> QED
  BY <1>1, <1>3, <1>4, HintsAre

\* New facts with no lower frontier, and an intent that is at most asked for
\* more, keep what the attempt knows.
LEMMA FactsFrame ==
    ASSUME PubInv, facts' \in FactSet, intent' \in IntentSet,
           UNCHANGED <<now, expected, thread, prefetch, flight, stop>>,
           candles \subseteq candles', candles' \subseteq 0..now, candles' \subseteq Bars,
           points' = points,
           queue' \in Seq(Bars), Len(queue') <= Capacity,
           worker' \in WorkerSet, owed' \in Hints,
           facts'.flagged = facts.flagged,
           Frontier(facts) <= Frontier(facts'),
           intent.active => intent'.active,
           intent'.active => intent'.hint \in 0..(Frontier(facts') + 1),
           intent'.window \in {intent.window, NoWindow},
           facts'.pending => intent'.active \/ (facts.pending /\ intent' = intent),
           FrontiersProven', SentIsWhole', WorkerHolds'
    PROVE  PubInv'
<1>0. /\ Types /\ PendingIsOwned /\ HintsHold /\ AttemptIsOwned /\ AttemptHolds
      /\ Frontier(facts) \in 0..MaxNow
  BY FieldTypes DEF PubInv
<1>1. Types'
  BY <1>0 DEF Types
<1>2. candles' \subseteq 0..now' /\ PendingIsOwned' /\ AttemptIsOwned'
  BY <1>0 DEF PendingIsOwned, AttemptIsOwned
<1>3. Frontier(facts') \in Bars
  BY HintHolds, HintsAre
<1>4. HintsHold'
  BY <1>0, <1>3 DEF HintsHold
<1>5. AttemptHolds'
  <2>1. Sound(intent.window)' /\ Sound(thread.window)' /\ Sound(thread.next)'
    BY <1>0 DEF AttemptHolds, Sound, WholeTo
  <2>2. /\ InWindow' = InWindow
        /\ WholeTo(thread.window.end - 1) => WholeTo(thread.window.end - 1)'
    BY DEF InWindow, WholeTo
  <2> QED
    BY <1>0, <2>1, <2>2 DEF AttemptHolds
<1> QED
  BY <1>1, <1>2, <1>4, <1>5 DEF PubInv

\* A connection is lost, a session is confirmed, a bar is overdue.
LEMMA SignalKeeps ==
    ASSUME PubInv, Disconnected \/ SubscriptionConfirmed \/ DetectStale
    PROVE  PubInv'
<1>0. /\ Types /\ facts \in FactSet /\ intent \in IntentSet /\ worker \in WorkerSet
      /\ candles \subseteq 0..now /\ candles \subseteq Bars /\ owed \in Hints
      /\ queue \in Seq(Bars) /\ Len(queue) <= Capacity /\ expected \in Bars
      /\ FrontiersProven /\ HintsHold
  BY DEF PubInv, Types
<1>1. /\ UNCHANGED <<now, expected, candles, points, thread, queue, worker, owed, prefetch,
                     flight, stop>>
  BY DEF Disconnected, SubscriptionConfirmed, DetectStale, clock, recovery, notifying, fetching
<1> DEFINE Told ==
      /\ facts' \in FactSet /\ facts'.flagged = facts.flagged
      /\ facts'.candle = facts.candle /\ facts'.oi = facts.oi
      /\ intent' \in IntentSet
      /\ intent.active => intent'.active
      /\ intent'.active => intent'.hint \in 0..(Frontier(facts) + 1)
      /\ intent'.window \in {intent.window, NoWindow}
      /\ facts'.pending => intent'.active \/ (facts.pending /\ intent' = intent)
<1>2. Told
  <2>1. CASE Disconnected
    <3>1. facts' = [facts EXCEPT !.subscribed = FALSE, !.restored = FALSE] /\ intent' = intent
      BY <2>1 DEF Disconnected, recovery
    <3> QED
      BY <1>0, <3>1 DEF FactSet, HintsHold
  <2>2. CASE SubscriptionConfirmed
    <3> DEFINE i1 == Enqueue(intent, NoBar, TRUE)
               i2 == Enqueue(i1, Hint(facts, NoBar), TRUE)
    <3>1. /\ facts' = [facts EXCEPT !.subscribed = TRUE, !.pending = TRUE, !.restored = FALSE]
          /\ intent' = i2
      BY <2>2, <1>0 DEF SubscriptionConfirmed, RequireRecovery, FactSet
    <3>2. /\ i1 \in IntentSet /\ i1.window \in {intent.window, NoWindow} /\ i1.active = TRUE
          /\ intent.active => i1.hint = intent.hint
          /\ ~intent.active => i1.hint = NoBar
      BY <1>0, EnqueueHolds, HintsAre
    <3>3. /\ Hint(facts, NoBar) \in Hints /\ Hint(facts, NoBar) \in 0..(Frontier(facts) + 1)
      BY <1>0, HintHolds, HintsAre
    <3> HIDE DEF i1
    <3>4. /\ i2 \in IntentSet /\ i2.window \in {i1.window, NoWindow} /\ i2.active = TRUE
          /\ i2.hint \in {Hint(facts, NoBar), i1.hint}
          /\ i1.hint = NoBar => i2.hint = Hint(facts, NoBar)
      BY <3>2, <3>3, EnqueueHolds
    <3> HIDE DEF i2
    <3>5. i2.hint \in 0..(Frontier(facts) + 1)
      BY <1>0, <3>2, <3>3, <3>4 DEF HintsHold
    <3>6. /\ facts' \in FactSet /\ facts'.flagged = facts.flagged
          /\ facts'.candle = facts.candle /\ facts'.oi = facts.oi
      BY <1>0, <3>1 DEF FactSet
    <3> QED
      BY <3>1, <3>2, <3>4, <3>5, <3>6
  <2>3. CASE DetectStale
    <3> DEFINE hint == Hint(facts, Frontier(facts) + 1)
               i1 == Enqueue(intent, hint, FALSE)
    <3>1. /\ facts' = [facts EXCEPT !.pending = TRUE, !.restored = FALSE, !.awaited = expected]
          /\ intent' = i1
      BY <2>3, <1>0 DEF DetectStale, RequireRecovery, FactSet
    <3>2. Frontier(facts) \in Bars
      BY <1>0, HintHolds, HintsAre
    <3>3. hint \in Hints /\ hint \in 0..(Frontier(facts) + 1)
      BY <1>0, <3>2, HintHolds, HintsAre
    <3> HIDE DEF hint
    <3>4. /\ i1 \in IntentSet /\ i1.window \in {intent.window, NoWindow} /\ i1.active = TRUE
          /\ i1.hint \in {hint, intent.hint}
          /\ ~intent.active => i1.hint = hint
      BY <1>0, <3>3, EnqueueHolds
    <3> HIDE DEF i1
    <3>5. i1.hint \in 0..(Frontier(facts) + 1)
      BY <1>0, <3>3, <3>4 DEF HintsHold
    <3>6. expected \in Hints
      BY <1>0, HintsAre
    <3>7. /\ facts' \in FactSet /\ facts'.flagged = facts.flagged
          /\ facts'.candle = facts.candle /\ facts'.oi = facts.oi
      BY <1>0, <3>1, <3>6 DEF FactSet
    <3> QED
      BY <3>1, <3>4, <3>5, <3>7
  <2> QED
    BY <2>1, <2>2, <2>3
<1>3. Frontier(facts') = Frontier(facts) /\ Frontier(facts) \in Nat
  <2>1. Frontier(facts') = Frontier(facts)
    BY <1>2 DEF Frontier
  <2>2. Frontier(facts) \in Nat
    BY <1>0, FieldTypes
  <2> QED
    BY <2>1, <2>2
<1>4. FrontiersProven' /\ SentIsWhole' /\ WorkerHolds'
  BY <1>0, <1>1, <1>2, WorkerFrame DEF FrontiersProven
<1>5. /\ candles \subseteq candles' /\ candles' \subseteq 0..now /\ candles' \subseteq Bars
      /\ queue' \in Seq(Bars) /\ Len(queue') <= Capacity
      /\ worker' \in WorkerSet /\ owed' \in Hints /\ Frontier(facts) <= Frontier(facts')
      /\ points' = points
      /\ intent'.active => intent'.hint \in 0..(Frontier(facts') + 1)
  BY <1>0, <1>1, <1>2, <1>3
<1> QED
  BY <1>1, <1>2, <1>4, <1>5, FactsFrame

\* A live bar extends a frontier only when it is the next one.
LEMMA ExtendHolds ==
    ASSUME NEW previous \in Bars, NEW bar \in Bars
    PROVE  /\ ExtendFrontier(previous, bar) \in Bars
           /\ previous <= ExtendFrontier(previous, bar)
           /\ \A b \in 0..ExtendFrontier(previous, bar) : b \in 0..previous \/ b = bar
BY DEF ExtendFrontier

\* A confirmed candle: it extends the frontier, or asks for what is missing.
LEMMA OutcomeKeeps ==
    ASSUME PubInv, NEW bar \in Bars, Outcome(bar)
    PROVE  PubInv'
<1>0. /\ Types /\ facts \in FactSet /\ intent \in IntentSet /\ worker \in WorkerSet
      /\ candles \subseteq 0..now /\ candles \subseteq Bars /\ owed \in Hints
      /\ queue \in Seq(Bars) /\ Len(queue) <= Capacity
      /\ FrontiersProven /\ HintsHold /\ now \in 0..MaxNow
      /\ facts.flagged \in BOOLEAN /\ facts.candle \in Bars /\ facts.oi \in Bars
  BY FieldTypes DEF PubInv, Types
<1> DEFINE committed == bar \notin candles
           gap == bar > facts.candle + 1
           candle == ExtendFrontier(facts.candle, bar)
           extended == [facts EXCEPT !.candle = candle]
           hint == Hint(extended, facts.candle + 1)
           asked == IF gap THEN Enqueue(intent, hint, TRUE) ELSE intent
           need == asked.need \/ (committed /\ asked.active)
<1>1. /\ bar <= now /\ candles' = candles \cup {bar}
      /\ queue' = IF committed THEN PutNowait(queue, bar) ELSE queue
      /\ facts' = IF gap THEN RequireRecovery(extended) ELSE extended
      /\ intent' = [asked EXCEPT !.need = need]
      /\ UNCHANGED <<now, expected, points, thread, worker, owed, prefetch, flight, stop>>
  BY DEF Outcome, clock, fetching
<1>2. candle \in Bars /\ facts.candle <= candle
  BY <1>0, ExtendHolds
<1>3. 0..candle \subseteq candles'
  BY <1>0, <1>1, ExtendHolds DEF FrontiersProven
<1> HIDE DEF candle
<1>4. /\ extended \in FactSet /\ extended.flagged = facts.flagged
      /\ extended.candle = candle /\ extended.oi = facts.oi
      /\ extended.pending = facts.pending
  BY <1>0, <1>2 DEF FactSet
<1> HIDE DEF extended
<1>5. /\ facts' \in FactSet /\ facts'.flagged = facts.flagged
      /\ facts'.candle = candle /\ facts'.oi = facts.oi
      /\ ~gap => facts'.pending = facts.pending
  <2>1. CASE gap
    BY <1>1, <1>4, <2>1 DEF FactSet, RequireRecovery
  <2>2. CASE ~gap
    BY <1>1, <1>4, <2>2
  <2> QED
    BY <2>1, <2>2
<1>6. /\ Frontier(facts') = Frontier(extended) /\ Frontier(facts) <= Frontier(extended)
      /\ Frontier(facts) \in Bars /\ Frontier(extended) \in Bars
  BY <1>0, <1>2, <1>4, <1>5 DEF Frontier
<1>7. hint \in Hints /\ hint \in 0..(Frontier(extended) + 1)
  BY <1>0, <1>4, HintHolds, HintsAre
<1> HIDE DEF hint
<1>8. /\ asked \in IntentSet /\ asked.window \in {intent.window, NoWindow}
      /\ intent.active => asked.active
      /\ gap => asked.active
      /\ asked.active => asked.hint \in 0..(Frontier(extended) + 1)
  <2>1. intent.active => intent.hint \in 0..(Frontier(extended) + 1)
    BY <1>0, <1>6 DEF HintsHold
  <2>2. CASE gap
    <3>1. /\ asked = Enqueue(intent, hint, TRUE)
      BY <2>2
    <3>2. /\ asked \in IntentSet /\ asked.window \in {intent.window, NoWindow}
          /\ asked.active = TRUE /\ asked.hint \in {hint, intent.hint}
          /\ ~intent.active => asked.hint = hint
      BY <1>0, <1>7, <3>1, EnqueueHolds
    <3> QED
      BY <2>1, <3>2, <1>7
  <2>3. CASE ~gap
    BY <1>0, <2>1, <2>3
  <2> QED
    BY <2>2, <2>3
<1>9. need \in BOOLEAN
  OBVIOUS
<1> HIDE DEF asked, need
<1>10. /\ intent' \in IntentSet /\ intent'.window = asked.window
       /\ intent'.active = asked.active /\ intent'.hint = asked.hint
  BY <1>1, <1>8, <1>9 DEF IntentSet
<1>11. FrontiersProven'
  BY <1>0, <1>1, <1>3, <1>5 DEF FrontiersProven
<1>12. SentIsWhole' /\ WorkerHolds'
  BY <1>1, <1>5, WorkerFrame
<1>13. queue' \in Seq(Bars) /\ Len(queue') <= Capacity
  BY <1>0, <1>1, PutHolds
<1>14. facts'.pending => intent'.active \/ (facts.pending /\ ~gap)
  BY <1>5, <1>8, <1>10
<1>15. facts'.pending => intent'.active \/ stop
  BY <1>8, <1>10, <1>14 DEF PubInv, PendingIsOwned
<1>16. facts'.pending => intent'.active \/ (facts.pending /\ intent' = intent)
  BY <1>15 DEF Outcome
<1>17. /\ candles \subseteq candles' /\ candles' \subseteq 0..now /\ candles' \subseteq Bars
       /\ worker' \in WorkerSet /\ owed' \in Hints /\ points' = points
       /\ Frontier(facts) <= Frontier(facts')
       /\ intent.active => intent'.active
       /\ intent'.active => intent'.hint \in 0..(Frontier(facts') + 1)
       /\ intent'.window \in {intent.window, NoWindow}
  BY <1>0, <1>1, <1>6, <1>8, <1>10
<1> QED
  BY <1>1, <1>5, <1>10, <1>11, <1>12, <1>13, <1>16, <1>17, FactsFrame

\* The worker's decision: a bar is sent only when both tracks reach it.
LEMMA PrepareKeeps ==
    ASSUME PubInv, PrepareEnds
    PROVE  PubInv'
<1>0. /\ Types /\ facts \in FactSet /\ intent \in IntentSet /\ worker \in WorkerSet
      /\ candles \subseteq 0..now /\ candles \subseteq Bars /\ owed \in Hints
      /\ queue \in Seq(Bars) /\ Len(queue) <= Capacity /\ stop \in BOOLEAN
      /\ FrontiersProven /\ HintsHold /\ now \in 0..MaxNow /\ WorkerHolds
      /\ facts.flagged \in BOOLEAN /\ facts.candle \in Bars /\ facts.oi \in Bars
  BY FieldTypes DEF PubInv, Types
<1>a. /\ worker.pc = "observe" /\ worker.bar \in Bars /\ (worker.stored => worker.bar \in points)
      /\ ~worker.hit /\ ~worker.raises /\ ~worker.cancelled /\ ~worker.sending
  BY <1>0 DEF WorkerHolds, PrepareEnds
<1> DEFINE gap == worker.stored /\ worker.bar > facts.oi + 1
           oi == IF worker.stored THEN ExtendFrontier(facts.oi, worker.bar) ELSE facts.oi
           extended == IF worker.stored
                       THEN [facts EXCEPT !.oi = ExtendFrontier(facts.oi, worker.bar)]
                       ELSE facts
           hint == Hint(extended, facts.oi + 1)
<1>1. /\ facts' = IF gap THEN RequireRecovery(extended) ELSE extended
      /\ intent' = IF gap THEN Enqueue(intent, hint, TRUE) ELSE intent
      /\ UNCHANGED <<now, expected, candles, points, thread, queue, prefetch, flight, stop>>
  BY DEF PrepareEnds, AskedByPoint, clock, fetching
<1>2. oi \in Bars /\ facts.oi <= oi /\ (facts.flagged => 0..oi \subseteq points)
  <2>1. CASE worker.stored
    BY <1>0, <1>a, <2>1, ExtendHolds DEF FrontiersProven
  <2>2. CASE ~worker.stored
    BY <1>0, <2>2 DEF FrontiersProven
  <2> QED
    BY <2>1, <2>2
<1>3. extended = [facts EXCEPT !.oi = oi]
  BY <1>0 DEF FactSet
<1> HIDE DEF oi, extended
<1>4. /\ extended \in FactSet /\ extended.flagged = facts.flagged
      /\ extended.candle = facts.candle /\ extended.oi = oi
      /\ extended.pending = facts.pending
  BY <1>0, <1>2, <1>3 DEF FactSet
<1>5. /\ facts' \in FactSet /\ facts'.flagged = facts.flagged
      /\ facts'.candle = facts.candle /\ facts'.oi = oi
      /\ ~gap => facts'.pending = facts.pending
  <2>1. CASE gap
    BY <1>1, <1>4, <2>1 DEF FactSet, RequireRecovery
  <2>2. CASE ~gap
    BY <1>1, <1>4, <2>2
  <2> QED
    BY <2>1, <2>2
<1>6. /\ Frontier(facts') = Frontier(extended) /\ Frontier(facts) <= Frontier(extended)
      /\ Frontier(facts) \in Bars /\ Frontier(extended) \in Bars
  BY <1>0, <1>2, <1>4, <1>5 DEF Frontier
<1>7. hint \in Hints /\ hint \in 0..(Frontier(extended) + 1)
  BY <1>0, <1>4, HintHolds, HintsAre
<1> HIDE DEF hint
<1>8. /\ intent' \in IntentSet /\ intent'.window \in {intent.window, NoWindow}
      /\ intent.active => intent'.active
      /\ intent'.active => intent'.hint \in 0..(Frontier(extended) + 1)
      /\ facts'.pending => intent'.active \/ (facts.pending /\ intent' = intent)
  <2>1. intent.active => intent.hint \in 0..(Frontier(extended) + 1)
    BY <1>0, <1>6 DEF HintsHold
  <2>2. CASE gap
    <3>1. intent' = Enqueue(intent, hint, TRUE)
      BY <1>1, <2>2
    <3>2. /\ intent' \in IntentSet /\ intent'.window \in {intent.window, NoWindow}
          /\ intent'.active = TRUE /\ intent'.hint \in {hint, intent.hint}
          /\ ~intent.active => intent'.hint = hint
      BY <1>0, <1>7, <3>1, EnqueueHolds
    <3> QED
      BY <2>1, <3>2, <1>7
  <2>3. CASE ~gap
    BY <1>0, <1>1, <1>5, <2>1, <2>3
  <2> QED
    BY <2>2, <2>3
<1>9. FrontiersProven'
  BY <1>0, <1>1, <1>2, <1>5 DEF FrontiersProven
<1>10. worker' \in WorkerSet /\ owed' \in Hints /\ SentIsWhole' /\ WorkerHolds'
  <2>1. CASE PublishedThrough(facts', worker.bar)
    <3>1. /\ worker' = Posted(worker)
          /\ owed' = IF owed <= worker.bar THEN NoBar ELSE owed
      BY <2>1 DEF PrepareEnds
    <3>2. worker' \in WorkerSet /\ worker'.bar = worker.bar /\ WorkerHolds'
      <4>1. /\ worker' \in WorkerSet /\ worker'.pc = "send" /\ worker'.bar = worker.bar
            /\ worker'.stored = worker.stored /\ worker'.raises = worker.raises
            /\ worker'.cancelled = worker.cancelled
        BY <1>0, <3>1, PostedIs
      <4> QED
        BY <1>1, <1>a, <4>1 DEF WorkerHolds
    <3>3. worker.bar <= Frontier(facts')
      BY <1>a, <1>6, <2>1 DEF PublishedThrough
    <3>4. facts.flagged => 0..worker.bar \subseteq candles' \cap points'
      <4> SUFFICES ASSUME facts.flagged PROVE 0..worker.bar \subseteq candles' \cap points'
        OBVIOUS
      <4>1. worker.bar <= facts'.candle /\ worker.bar <= facts'.oi
        BY <1>a, <1>0, <1>2, <1>5, <3>3 DEF Frontier
      <4> QED
        BY <1>a, <1>0, <1>2, <1>5, <1>9, <4>1 DEF FrontiersProven
    <3>5. SentIsWhole'
      BY <1>5, <3>2, <3>4 DEF SentIsWhole
    <3>6. owed' \in Hints
      BY <1>0, <3>1, HintsAre
    <3> QED
      BY <3>2, <3>5, <3>6
  <2>2. CASE ~PublishedThrough(facts', worker.bar)
    <3>1. /\ worker' = [worker EXCEPT !.pc = "idle", !.bar = NoBar, !.stored = FALSE]
          /\ owed' = Higher(owed, worker.bar)
      BY <2>2 DEF PrepareEnds
    <3>2. worker' \in WorkerSet /\ WorkerHolds' /\ SentIsWhole'
      BY <1>0, <1>a, <3>1, HintsAre DEF WorkerSet, WorkerHolds, SentIsWhole
    <3>3. owed' \in Hints
      BY <1>0, <1>a, <3>1, HintsAre
    <3> QED
      BY <3>2, <3>3
  <2> QED
    BY <2>1, <2>2
<1>11. /\ candles \subseteq candles' /\ candles' \subseteq 0..now /\ candles' \subseteq Bars
       /\ queue' \in Seq(Bars) /\ Len(queue') <= Capacity /\ points' = points
       /\ Frontier(facts) <= Frontier(facts')
       /\ intent'.active => intent'.hint \in 0..(Frontier(facts') + 1)
  BY <1>0, <1>1, <1>6, <1>8
<1> QED
  BY <1>1, <1>5, <1>8, <1>9, <1>10, <1>11, FactsFrame

\* A result is recorded: only a restored attempt moves the frontiers, and it
\* moves them to the end of a window below which nothing is missing.
LEMMA AttemptEndsKeeps ==
    ASSUME PubInv, AttemptEnds
    PROVE  PubInv'
<1>0. /\ Types /\ facts \in FactSet /\ intent \in IntentSet /\ thread \in AttemptSet
      /\ candles \subseteq 0..now /\ FrontiersProven /\ HintsHold /\ AttemptHolds
      /\ AttemptIsOwned /\ PendingIsOwned
      /\ queue \in Seq(Bars) /\ Len(queue) <= Capacity
      /\ thread.pc = "done"
  BY DEF PubInv, Types, AttemptEnds
<1>a. /\ facts.flagged \in BOOLEAN /\ facts.candle \in Bars /\ facts.oi \in Bars
      /\ thread.window.start \in 0..(MaxNow + 1) /\ thread.window.end \in 0..(MaxNow + 1)
      /\ thread.window \in Windows /\ thread.next \in Windows /\ intent.window \in Windows
      /\ thread.window # NoWindow /\ thread.window.start < thread.window.end
      /\ NoWindow \in Windows /\ -1 \in Hints
  <2>1. thread.window \in Windows /\ thread.next \in Windows /\ intent.window \in Windows
    BY <1>0 DEF AttemptSet, IntentSet
  <2>2. thread.window # NoWindow /\ Sound(thread.window)
    BY <1>0 DEF AttemptHolds
  <2>3. thread.window.start < thread.window.end
    BY <2>2 DEF Sound
  <2> QED
    BY <1>0, <2>1, <2>2, <2>3, FieldTypes, WindowIs, HintsAre
<1> DEFINE fatal == thread.class = "fatal_failure"
           restored == thread.class = "restored" /\ ~intent.changed
           through == thread.window.end - 1
           need == intent.need \/ thread.committed
           window == IF intent.changed \/ thread.class = "recoverable_failure"
                     THEN intent.window
                     ELSE IF thread.next # NoWindow THEN thread.next ELSE thread.window
<1>1. /\ thread' = NoAttempt
      /\ facts' = Recorded(facts, restored, fatal, through)
      /\ intent' = IF fatal \/ restored \/ stop THEN NoIntent
                   ELSE [intent EXCEPT !.window = window, !.need = need]
      /\ queue' = IF restored /\ need THEN PutNowait(queue, through) ELSE queue
      /\ UNCHANGED <<now, expected, candles, points, worker, owed, prefetch, flight, stop>>
  BY DEF AttemptEnds, clock, fetching
<1>2. through \in Bars /\ (restored => WholeTo(through))
  BY <1>0, <1>a DEF AttemptHolds
<1>3. window \in Windows /\ Sound(window)
  BY <1>0, <1>a DEF AttemptHolds
<1>4. need \in BOOLEAN
  OBVIOUS
<1> HIDE DEF through, window, need
<1>5. queue' \in Seq(Bars) /\ Len(queue') <= Capacity
  BY <1>0, <1>1, <1>2, PutHolds
<1>6. thread' \in AttemptSet
  BY <1>1, <1>a DEF NoAttempt, AttemptSet
<1>7. /\ intent' \in IntentSet /\ Sound(intent'.window)
      /\ intent'.active => intent.active /\ intent'.hint = intent.hint
      /\ (intent.active /\ ~fatal /\ ~restored /\ ~stop) => intent'.active
  <2>1. CASE fatal \/ restored \/ stop
    <3>1. intent' = NoIntent
      BY <1>1, <2>1
    <3>2. NoIntent \in IntentSet /\ NoIntent.active = FALSE /\ NoIntent.window = NoWindow
      BY <1>a DEF NoIntent, IntentSet
    <3> QED
      BY <3>1, <3>2, <2>1 DEF Sound
  <2>2. CASE ~(fatal \/ restored \/ stop)
    <3>1. intent' = [intent EXCEPT !.window = window, !.need = need]
      BY <1>1, <2>2
    <3>2. intent' \in IntentSet
      BY <1>0, <1>3, <1>4, <3>1 DEF IntentSet
    <3>3. /\ intent'.active = intent.active /\ intent'.hint = intent.hint
          /\ intent'.window = window
      BY <1>0, <3>1 DEF IntentSet
    <3> QED
      BY <1>3, <3>2, <3>3
  <2> QED
    BY <2>1, <2>2
<1>8. /\ facts' \in FactSet /\ facts'.flagged = facts.flagged
      /\ facts.candle <= facts'.candle /\ facts.oi <= facts'.oi
      /\ 0..facts'.candle \subseteq candles
      /\ facts.flagged => 0..facts'.oi \subseteq points
      /\ facts'.pending => ~fatal /\ ~restored
  <2>1. CASE fatal
    <3>1. facts' = [facts EXCEPT !.pending = FALSE, !.restored = FALSE, !.fatal = TRUE]
      BY <1>1, <2>1 DEF Recorded
    <3>2. /\ facts' \in FactSet /\ facts'.flagged = facts.flagged /\ facts'.candle = facts.candle
          /\ facts'.oi = facts.oi /\ facts'.pending = FALSE
      BY <1>0, <3>1 DEF FactSet
    <3> QED
      BY <1>0, <1>a, <3>2 DEF FrontiersProven
  <2>2. CASE ~fatal /\ restored
    <3> DEFINE checked == Higher(facts.checked, facts.awaited)
               candle == Higher(facts.candle, through)
               oi == IF facts.flagged THEN Higher(facts.oi, through) ELSE facts.oi
    <3>1. facts' = [facts EXCEPT !.pending = FALSE, !.restored = TRUE,
                      !.checked = checked, !.awaited = NoBar, !.candle = candle, !.oi = oi]
      BY <1>1, <2>2 DEF Recorded
    <3>2. checked \in Hints
      BY <1>0 DEF FactSet
    <3>3. /\ candle \in Bars /\ oi \in Bars /\ facts.candle <= candle /\ facts.oi <= oi
          /\ candle \in {facts.candle, through} /\ oi \in {facts.oi, through}
      BY <1>a, <1>2
    <3> HIDE DEF checked, candle, oi
    <3>4. /\ facts' \in FactSet /\ facts'.flagged = facts.flagged /\ facts'.candle = candle
          /\ facts'.oi = oi /\ facts'.pending = FALSE
      BY <1>0, <1>a, <3>1, <3>2, <3>3 DEF FactSet
    <3> QED
      BY <1>0, <1>2, <2>2, <3>3, <3>4 DEF FrontiersProven, WholeTo
  <2>3. CASE ~fatal /\ ~restored
    <3>1. facts' = [facts EXCEPT !.pending = TRUE, !.restored = FALSE]
      BY <1>1, <2>3 DEF Recorded
    <3>2. /\ facts' \in FactSet /\ facts'.flagged = facts.flagged /\ facts'.candle = facts.candle
          /\ facts'.oi = facts.oi
      BY <1>0, <3>1 DEF FactSet
    <3> QED
      BY <1>0, <1>a, <2>3, <3>2 DEF FrontiersProven
  <2> QED
    BY <2>1, <2>2, <2>3
<1>9. Types'
  BY <1>0, <1>1, <1>5, <1>6, <1>7, <1>8 DEF Types
<1>10. candles' \subseteq 0..now' /\ FrontiersProven'
  BY <1>0, <1>1, <1>8 DEF FrontiersProven
<1>11. SentIsWhole' /\ WorkerHolds'
  BY <1>1, <1>8, WorkerFrame
<1>12. PendingIsOwned'
  BY <1>0, <1>1, <1>7, <1>8 DEF PendingIsOwned, AttemptIsOwned
<1>13. thread'.pc = "idle" /\ thread'.class = "none"
       /\ thread'.window = NoWindow /\ thread'.next = NoWindow
  BY <1>1 DEF NoAttempt
<1>14. Frontier(facts) \in Nat /\ Frontier(facts') \in Nat /\ Frontier(facts) <= Frontier(facts')
  <2>1. facts'.flagged \in BOOLEAN /\ facts'.candle \in Bars /\ facts'.oi \in Bars
    BY <1>8 DEF FactSet
  <2> QED
    BY <1>a, <1>8, <2>1 DEF Frontier
<1>15. HintsHold' /\ AttemptIsOwned'
  BY <1>0, <1>7, <1>13, <1>14 DEF HintsHold, AttemptIsOwned
<1>16. AttemptHolds'
  <2>1. Sound(intent.window)' /\ Sound(thread.window)' /\ Sound(thread.next)'
    BY <1>1, <1>7, <1>8, <1>13 DEF Sound, WholeTo
  <2> QED
    BY <1>13, <2>1 DEF AttemptHolds
<1> QED
  BY <1>9, <1>10, <1>11, <1>12, <1>15, <1>16 DEF PubInv

-----------------------------------------------------------------------------
\* Every step keeps the invariant.
LEMMA PubStep == PubInv /\ [Next]_vars => PubInv'
<1> SUFFICES ASSUME PubInv, [Next]_vars PROVE PubInv'
  OBVIOUS
<1>1. CASE Tick \/ GraceEnds
  BY <1>1, ClockKeeps
<1>2. CASE Session
  BY <1>2, OutcomeKeeps, SignalKeeps DEF Session
<1>3. CASE DetectStale
  BY <1>3, SignalKeeps
<1>4. CASE AttemptStarts
  BY <1>4, AttemptStartsKeeps
<1>5. CASE Attempt
  BY <1>5, PlanKeeps, RepairKeeps, FinishKeeps DEF Attempt
<1>6. CASE AttemptEnds
  BY <1>6, AttemptEndsKeeps
<1>7. CASE Notify \/ NotifyThread
  BY <1>7, WorkerKeeps, PrepareKeeps DEF Notify, NotifyThread
<1>8. CASE Prefetching
  BY <1>8, PrefetchKeeps
<1>9. CASE Stop \/ Cancel
  BY <1>9, WorkerKeeps
<1>10. CASE UNCHANGED vars
  <2>1. UNCHANGED <<now, expected, candles, points, facts, intent, thread, queue, worker,
                    prefetch, flight, stop, owed>>
    BY <1>10 DEF vars
  <2>2. Types' /\ candles' \subseteq 0..now'
    BY <2>1 DEF PubInv, Types
  <2> QED
    BY <2>1, <2>2, RecoveryFrame, WorkerFrame DEF PubInv
<1> QED
  BY <1>1, <1>2, <1>3, <1>4, <1>5, <1>6, <1>7, <1>8, <1>9, <1>10 DEF Next

\* The invariant of publication holds in every behaviour.
THEOREM PublicationInvariant == Spec => []PubInv
BY PubStarts, PubStep, PTL DEF Spec

\* Every variable of the publication stays in its domain, and the queue within
\* its capacity.
THEOREM PublicationType == Spec => []PublicationTypeOK
<1>1. PubInv => PublicationTypeOK
  BY TypesAre DEF PubInv
<1> QED
  BY <1>1, PublicationInvariant, PTL

\* Neither frontier ever claims a bar that its table misses, whichever of live
\* bars, live points, the prefetch and late recovery results come first.
THEOREM FrontiersAreProven == Spec => []FrontiersProven
<1>1. PubInv => FrontiersProven
  BY DEF PubInv
<1> QED
  BY <1>1, PublicationInvariant, PTL

\* A receiver that is told of a bar of a stream with open interest finds every
\* bar up to it in both tracks.
THEOREM SentBarsAreWhole == Spec => []SentIsWhole
<1>1. PubInv => SentIsWhole
  BY DEF PubInv
<1> QED
  BY <1>1, PublicationInvariant, PTL

\* A recovery that a stream waits for has an owner until the service stops.
THEOREM PendingRecoveryIsOwned == Spec => []PendingIsOwned
<1>1. PubInv => PendingIsOwned
  BY DEF PubInv
<1> QED
  BY <1>1, PublicationInvariant, PTL

\* However often it is cancelled, the worker waits for the send it has in flight,
\* and it never forgets that it was cancelled.
THEOREM SendsAreObserved == Spec => []SendIsObserved
<1>1. PubInv => SendIsObserved
  BY DEF PubInv, WorkerHolds, SendIsObserved
<1> QED
  BY <1>1, PublicationInvariant, PTL
=============================================================================
