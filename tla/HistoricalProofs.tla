-------------------------- MODULE HistoricalProofs --------------------------
(***************************************************************************)
(* Historical reconciliation for every number of streams, every budget and *)
(* any number of crashes: no stream is lost or worked on twice, the search *)
(* skips nothing, no transition of a pass is illegal, a stream's interval  *)
(* stays, and only proven streams are handed to realtime.                  *)
(***************************************************************************)
EXTENDS HistoricalReconciliation, WellFoundedInduction, FiniteSetTheorems, TLAPS

FirstTables == [Streams -> [Tracks -> 0..MaxFirst]]
Tables == [Streams -> StreamRow]
ReasonTables == [Streams -> Reasons]

\* The domains, by name.
Types ==
    /\ now \in 1..MaxNow /\ bootNow \in 1..now /\ crashes \in 0..MaxCrashes
    /\ first \in FirstTables /\ db \in Tables /\ pass \in Passes
    /\ process \in {"startup", "running", "down"} /\ gate \in {"free", "historical", "recovery"}
    /\ starting \in Seq(Streams) /\ queue \in Seq(Pending)
    /\ admitted \in SUBSET Streams /\ reason \in ReasonTables

\* The places a stream can be in, as sets of streams and not as counts.
Waiting(s) == \E i \in DOMAIN starting : starting[i] = s
Queued(s) == \E i \in DOMAIN queue : queue[i].stream = s
Working(s) == pass.pc # "idle" /\ pass.stream = s
GivenUp(s) == reason[s] = "historical_fatal_failure"

\* One place at most, each of them once, and one at least while the process lives.
OwnedHolds ==
    /\ \A i, j \in DOMAIN starting : starting[i] = starting[j] => i = j
    /\ \A i, j \in DOMAIN queue : queue[i].stream = queue[j].stream => i = j
    /\ \A s \in Streams :
          /\ Waiting(s) => ~Queued(s) /\ ~Working(s) /\ s \notin admitted /\ ~GivenUp(s)
          /\ Queued(s) => ~Working(s) /\ s \notin admitted /\ ~GivenUp(s)
          /\ Working(s) => s \notin admitted /\ ~GivenUp(s)
          /\ s \in admitted => ~GivenUp(s)
          /\ process # "down" =>
                Waiting(s) \/ Queued(s) \/ Working(s) \/ s \in admitted \/ GivenUp(s)
    /\ process = "down" =>
          /\ pass.pc = "idle" /\ starting = <<>> /\ queue = <<>> /\ admitted = {}
          /\ \A s \in Streams : ~GivenUp(s)

\* The durable search of either track; a bound that was found has closed.
SearchHolds ==
    /\ SearchSkipsNothing
    /\ \A s \in Streams, t \in Tracks : db[s][t].earliest < now

\* What is stored has closed; only a point of the open bar may be ahead, and of
\* a stream that is not in realtime only one from before the process.
StoredHolds ==
    \A s \in Streams :
        /\ \A b \in db[s]["candles"].bars : b < now
        /\ \A b \in db[s]["oi"].bars : b <= now
        /\ process # "down" /\ s \notin admitted =>
              \A b \in db[s]["oi"].bars : b < now \/ b <= bootNow

\* An interval of this process, from the first bar to a clock it saw; no candle
\* of the stream lies beyond it.
IsPinned(w, start, boot, clock, bars) ==
    /\ w.start = start /\ w.start < w.end
    /\ boot <= w.end /\ w.end <= clock
    /\ \A b \in bars : b < w.end
Pinned(s, w) ==
    IsPinned(w, first[s]["candles"], bootNow, now, db[s]["candles"].bars)

\* The intervals the queued streams keep.
QueueHolds ==
    \A i \in DOMAIN queue :
        \/ queue[i].window = NoWindow
        \/ Pinned(queue[i].stream, queue[i].window)

\* Every bar of a track is stored that REST had when the process started, and
\* nothing is missing below the newest one.
IsWhole(bars, start, boot) ==
    /\ bars # {}
    /\ start..(boot - 1) \subseteq bars
    /\ \A b \in bars : (\A c \in bars : c <= b) => start..b \subseteq bars
Whole(s, t) == IsWhole(db[s][t].bars, first[s][t], bootNow)

-----------------------------------------------------------------------------
(* The pass in progress.                                                   *)

Auditing == {"preaudit", "to_repairing", "repair", "postaudit"}

\* The search in progress.
PassSearches ==
    /\ pass.pc = "idle" => pass = PassIdle
    /\ pass.pc = "probe" =>
          /\ Track.earliest = NoBar /\ pass.end <= now
          /\ pass.at <= first[pass.stream][pass.track]
    /\ pass.pc = "pin" => Track.earliest # NoBar

\* The lifecycle as the pass finds it at each of its transactions.
PassStates ==
    /\ pass.pc # "raised"
    /\ pass.track = "oi" => pass.stream \in OIStreams
    /\ pass.pc \in {"gate", "prepare", "bootstrap", "mark_auditing", "record_failure"} =>
          pass.track = "candles"
    /\ pass.pc = "bootstrap" => Row.state \in {"uninitialized", "degraded"}
    /\ pass.track = "candles" /\ pass.pc \in {"resolve", "probe", "pin", "mark_auditing"} =>
          Row.state = "bootstrapping"
    /\ pass.track = "candles" /\ pass.pc = "repair" => Row.state = "repairing"
    /\ pass.track = "oi" /\ pass.pc \in {"resolve", "probe", "pin", "repair"} =>
          Row.state = "auditing"
    /\ pass.pc \in {"preaudit", "to_repairing", "postaudit", "connect"} => Row.state = "auditing"
    /\ pass.pc = "record_failure" =>
          \/ pass.class = "fatal" /\ Row.state \in {"bootstrapping", "failed"}
          \/ pass.class = "recoverable" /\ Row.state \in {"bootstrapping", "degraded"}
    /\ pass.pc = "done" /\ pass.class = "connecting" => Row.state = "connecting"

\* The interval of the candles, given or pinned by this pass.
PassWindows ==
    /\ pass.window = NoWindow \/ Pinned(pass.stream, pass.window)
    /\ pass.kept = NoWindow \/ Pinned(pass.stream, pass.kept)
    /\ pass.track = "candles" /\ pass.pc \in {"resolve", "probe", "pin"} =>
          pass.window = NoWindow
    /\ pass.track = "oi" \/ pass.pc \in Auditing \cup {"mark_auditing", "connect"} =>
          pass.window # NoWindow
    /\ pass.pc \notin {"done", "record_failure"} => pass.kept \in {NoWindow, pass.window}
    /\ pass.pc = "record_failure" => pass.window \in {NoWindow, pass.kept}
    /\ pass.track = "candles" /\ pass.pc \in {"to_repairing", "repair"} =>
          \A b \in pass.todo : b < pass.window.end

\* The interval of the points, of this pass only.
PassPoints ==
    pass.track = "oi" /\ pass.pc \in Auditing =>
        /\ pass.at = first[pass.stream]["oi"] /\ pass.at < pass.end
        /\ bootNow <= pass.end /\ pass.end <= now
        /\ \A b \in db[pass.stream]["oi"].bars : b < pass.end \/ b <= bootNow
        /\ pass.pc \in {"to_repairing", "repair"} => \A b \in pass.todo : b < pass.end

\* What the pass has proven so far.
PassProves ==
    /\ pass.track = "oi" => Whole(pass.stream, "candles")
    /\ pass.pc = "connect" \/ (pass.pc = "done" /\ pass.class = "connecting") =>
          \A t \in TracksOf(pass.stream) : Whole(pass.stream, t)

PassHolds == PassSearches /\ PassStates /\ PassWindows /\ PassPoints /\ PassProves

\* The inductive invariant.
HistInv ==
    /\ Types
    /\ OwnedHolds
    /\ SearchHolds
    /\ StoredHolds
    /\ QueueHolds
    /\ PassHolds
-----------------------------------------------------------------------------
(* Rows, passes and their fields.                                          *)

\* The configured order is a non-empty sequence of streams.
LEMMA OrderFacts ==
    /\ Order \in Seq(Streams) /\ Order # <<>> /\ Order[1] \in Streams
    /\ Len(Order) \in Nat \ {0} /\ DOMAIN Order = 1..Len(Order)
<1>1. Order \in Seq(Streams) /\ Order # <<>>
  BY OrderAssumption
<1>2. Len(Order) \in Nat \ {0} /\ DOMAIN Order = 1..Len(Order)
  BY <1>1
<1>3. Order[1] \in Streams
  BY <1>1, <1>2
<1> QED
  BY <1>1, <1>2, <1>3

\* The fields of a stored track, and the state of its stream.
LEMMA TrackFields ==
    ASSUME NEW d \in Tables, NEW s \in Streams, NEW t \in Tracks
    PROVE  /\ d[s] \in StreamRow /\ d[s].state \in LifecycleStates
           /\ d[s][t] \in TrackRow /\ d[s][t].bars \in SUBSET Bars
           /\ d[s][t].earliest \in Bars \cup {NoBar}
           /\ d[s][t].cursor \in {NoBar} \cup 0..MaxNow
<1>1. d[s] \in StreamRow
  BY DEF Tables
<1>2. d[s].candles \in TrackRow /\ d[s].oi \in TrackRow /\ d[s].state \in LifecycleStates
  BY <1>1 DEF StreamRow
<1>3. d[s][t] \in TrackRow
  <2>1. CASE t = "candles"
    BY <1>2, <2>1
  <2>2. CASE t = "oi"
    BY <1>2, <2>2
  <2> QED
    BY <2>1, <2>2 DEF Tracks
<1> QED
  BY <1>1, <1>2, <1>3 DEF TrackRow

\* The two kinds of writes.
WithState(d, s, state) == [d EXCEPT ![s].state = state]
WithTrack(d, s, t, new) == [d EXCEPT ![s][t] = new]

\* Writing the state of a stream leaves its tracks and the other streams alone.
LEMMA StateUpdate ==
    ASSUME NEW d \in Tables, NEW s \in Streams, NEW state \in LifecycleStates,
           NEW e, e = WithState(d, s, state)
    PROVE  /\ e \in Tables /\ e[s].state = state
           /\ \A r \in Streams \ {s} : e[r] = d[r]
           /\ \A r \in Streams, t \in Tracks : e[r][t] = d[r][t]
<1> DEFINE row == [d[s] EXCEPT !.state = state]
<1>1. d[s] \in StreamRow
  BY DEF Tables
<1>2. row \in StreamRow /\ row.state = state /\ row.candles = d[s].candles /\ row.oi = d[s].oi
  BY <1>1 DEF StreamRow
<1>3. e = [d EXCEPT ![s] = row]
  BY DEF WithState
<1> HIDE DEF row
<1>4. e \in Tables /\ e[s] = row /\ \A r \in Streams \ {s} : e[r] = d[r]
  BY <1>2, <1>3 DEF Tables
<1>5. ASSUME NEW t \in Tracks PROVE e[s][t] = d[s][t]
  <2>1. CASE t = "candles"
    BY <1>2, <1>4, <2>1
  <2>2. CASE t = "oi"
    BY <1>2, <1>4, <2>2
  <2> QED
    BY <2>1, <2>2 DEF Tracks
<1> QED
  BY <1>2, <1>4, <1>5

\* Writing a track leaves the state, the other track and the other streams alone.
LEMMA TrackUpdate ==
    ASSUME NEW d \in Tables, NEW s \in Streams, NEW t \in Tracks, NEW new \in TrackRow,
           NEW e, e = WithTrack(d, s, t, new)
    PROVE  /\ e \in Tables /\ e[s].state = d[s].state /\ e[s][t] = new
           /\ \A r \in Streams \ {s} : e[r] = d[r]
           /\ \A u \in Tracks \ {t} : e[s][u] = d[s][u]
<1> DEFINE row == [d[s] EXCEPT ![t] = new]
<1>1. d[s] \in StreamRow
  BY DEF Tables
<1>2. /\ row \in StreamRow /\ row.state = d[s].state /\ row[t] = new
      /\ \A u \in Tracks \ {t} : row[u] = d[s][u]
  <2>1. CASE t = "candles"
    BY <1>1, <2>1 DEF StreamRow, Tracks
  <2>2. CASE t = "oi"
    BY <1>1, <2>2 DEF StreamRow, Tracks
  <2> QED
    BY <2>1, <2>2 DEF Tracks
<1>3. e = [d EXCEPT ![s] = row]
  BY DEF WithTrack
<1> HIDE DEF row
<1>4. e \in Tables /\ e[s] = row /\ \A r \in Streams \ {s} : e[r] = d[r]
  BY <1>2, <1>3 DEF Tables
<1> QED
  BY <1>2, <1>4

\* The fields of a pass.
LEMMA PassFields ==
    ASSUME NEW p \in Passes
    PROVE  /\ p.stream \in Streams /\ p.track \in Tracks /\ p.window \in Windows
           /\ p.kept \in Windows /\ p.marker \in Markers /\ p.outMarker \in Markers
           /\ p.at \in 0..MaxNow /\ p.end \in 0..MaxNow /\ p.used \in Nat
           /\ p.todo \in SUBSET Bars /\ p.class \in Classes
BY DEF Passes

\* The ends of an interval.
LEMMA WindowFields ==
    ASSUME NEW w \in Windows
    PROVE  w.start \in 0..MaxNow /\ w.end \in 0..MaxNow
BY DEF Windows

\* The idle pass, the empty interval and the empty marker.
LEMMA IdleFacts ==
    /\ PassIdle \in Passes /\ PassIdle.pc = "idle" /\ PassIdle.stream \in Streams
    /\ PassIdle.track = "candles" /\ PassIdle.window = NoWindow /\ PassIdle.kept = NoWindow
    /\ PassIdle.marker = NoMarker /\ PassIdle.outMarker = NoMarker /\ PassIdle.class = "incomplete"
    /\ NoWindow \in Windows /\ NoMarker \in Markers
<1>1. NoWindow \in Windows /\ NoMarker \in Markers
  BY TimeAssumption DEF NoWindow, NoMarker, Windows, Markers, NoBar, Tracks
<1>2. 0 \in 0..MaxNow
  BY TimeAssumption
<1>3. Order[1] \in Streams
  BY OrderFacts
<1> QED
  BY <1>1, <1>2, <1>3 DEF PassIdle, Passes, Tracks, Classes

\* An interval pinned once is pinned at every later clock.
LEMMA PinnedLater ==
    ASSUME NEW w \in Windows, NEW start, NEW boot, NEW clock \in Int, NEW later \in Int,
           NEW bars, IsPinned(w, start, boot, clock, bars), clock <= later
    PROVE  IsPinned(w, start, boot, later, bars)
BY WindowFields DEF IsPinned

\* No pass is in progress.
LEMMA IdlePass ==
    ASSUME pass' = PassIdle
    PROVE  PassHolds'
<1>1. /\ pass'.pc = "idle" /\ pass'.track = "candles"
      /\ pass'.window = NoWindow /\ pass'.kept = NoWindow
  BY IdleFacts
<1>2. PassSearches'
  BY <1>1 DEF PassSearches
<1>3. PassStates'
  BY <1>1 DEF PassStates
<1>4. PassWindows'
  BY <1>1 DEF PassWindows, Auditing
<1>5. PassPoints'
  BY <1>1 DEF PassPoints
<1>6. PassProves'
  BY <1>1 DEF PassProves
<1> QED
  BY <1>2, <1>3, <1>4, <1>5, <1>6 DEF PassHolds

\* The environment of a pass: the clock goes on, and the other streams change.
LEMMA PassFrame ==
    ASSUME Types, PassHolds, pass' = pass, first' = first, bootNow' = bootNow,
           now' \in Int, now <= now', pass.pc # "idle" => db'[pass.stream] = db[pass.stream]
    PROVE  PassHolds'
<1>1. CASE pass.pc = "idle"
  BY <1>1, IdlePass DEF PassHolds, PassSearches
<1>2. CASE pass.pc # "idle"
  <2>1. /\ db'[pass.stream] = db[pass.stream] /\ now \in Int
        /\ pass \in Passes /\ pass.window \in Windows /\ pass.kept \in Windows /\ pass.end \in Int
    BY <1>2, PassFields DEF Types
  <2>2. PassSearches'
    BY <2>1 DEF PassHolds, PassSearches, Track, Row
  <2>3. PassStates'
    BY <2>1 DEF PassHolds, PassStates, Row
  <2>4. PassWindows'
    <3>1. ASSUME NEW w \in Windows, Pinned(pass.stream, w) PROVE Pinned(pass.stream, w)'
      BY <2>1, <3>1, PinnedLater DEF Pinned
    <3> QED
      BY <2>1, <3>1 DEF PassHolds, PassWindows
  <2>5. PassPoints'
    BY <2>1 DEF PassHolds, PassPoints
  <2>6. PassProves'
    BY <2>1 DEF PassHolds, PassProves, Whole
  <2> QED
    BY <2>2, <2>3, <2>4, <2>5, <2>6 DEF PassHolds
<1> QED
  BY <1>1, <1>2

-----------------------------------------------------------------------------
(* What a step leaves alone.                                               *)

\* The places of the streams stay, and so does the pass's stream.
LEMMA OwnedFrame ==
    ASSUME OwnedHolds, starting' = starting, queue' = queue, admitted' = admitted,
           reason' = reason, process' = "down" <=> process = "down",
           pass'.pc = "idle" <=> pass.pc = "idle",
           pass.pc # "idle" => pass'.stream = pass.stream
    PROVE  OwnedHolds'
BY DEF OwnedHolds, Waiting, Queued, Working, GivenUp

\* The search of every track stays, while the clock goes on.
LEMMA SearchFrame ==
    ASSUME Types, SearchHolds, first' = first, now' \in Int, now <= now',
           \A s \in Streams, t \in Tracks :
               db'[s][t].cursor = db[s][t].cursor /\ db'[s][t].earliest = db[s][t].earliest
    PROVE  SearchHolds'
<1>1. now \in Int /\ \A s \in Streams, t \in Tracks : db[s][t].earliest \in Int
  BY TrackFields, TimeAssumption DEF Types, Bars, NoBar
<1> QED
  BY <1>1 DEF SearchHolds, SearchSkipsNothing

\* The stored bars stay, while the clock goes on.
LEMMA StoredFrame ==
    ASSUME Types, StoredHolds, bootNow' = bootNow, now' \in Int, now <= now',
           admitted \subseteq admitted', process' = "down" <=> process = "down",
           \A s \in Streams, t \in Tracks : db'[s][t].bars = db[s][t].bars
    PROVE  StoredHolds'
<1>1. now \in Int /\ \A s \in Streams, t \in Tracks : db[s][t].bars \in SUBSET Int
  BY TrackFields, TimeAssumption DEF Types, Bars, NoBar
<1>2. "candles" \in Tracks /\ "oi" \in Tracks
  BY DEF Tracks
<1> QED
  BY <1>1, <1>2 DEF StoredHolds

\* The candles of the queued streams stay, while the clock goes on.
LEMMA QueueFrame ==
    ASSUME Types, QueueHolds, queue' = queue, first' = first, bootNow' = bootNow,
           now' \in Int, now <= now',
           \A s \in Streams : Queued(s) => db'[s]["candles"].bars = db[s]["candles"].bars
    PROVE  QueueHolds'
<1> SUFFICES ASSUME NEW i \in DOMAIN queue, queue[i].window # NoWindow
             PROVE  Pinned(queue[i].stream, queue[i].window)'
  BY DEF QueueHolds
<1>1. queue[i] \in Pending /\ now \in Int
  BY DEF Types
<1>2. queue[i].stream \in Streams /\ queue[i].window \in Windows
  BY <1>1 DEF Pending
<1>3. Pinned(queue[i].stream, queue[i].window)
  BY DEF QueueHolds
<1>4. db'[queue[i].stream]["candles"].bars = db[queue[i].stream]["candles"].bars
  BY <1>2 DEF Queued
<1> QED
  BY <1>1, <1>2, <1>3, <1>4, PinnedLater DEF Pinned

\* Steps of the pass that leave every track alone.
LEMMA MoveHolds ==
    ASSUME HistInv, InPass, db' \in Tables, pass' \in Passes,
           \A s \in Streams, t \in Tracks : db'[s][t] = db[s][t],
           pass.pc # "idle", pass'.pc # "idle", pass'.stream = pass.stream, PassHolds'
    PROVE  HistInv'
<1>1. /\ now' = now /\ first' = first /\ process' = process /\ crashes' = crashes
      /\ bootNow' = bootNow /\ starting' = starting /\ queue' = queue /\ gate' = gate
      /\ admitted' = admitted /\ reason' = reason /\ now \in Int /\ now <= now
  BY DEF InPass, mem, HistInv, Types
<1>2. Types'
  BY <1>1 DEF HistInv, Types
<1>3. OwnedHolds'
  BY <1>1, OwnedFrame DEF HistInv
<1>4. SearchHolds'
  BY <1>1, SearchFrame DEF HistInv
<1>5. StoredHolds'
  BY <1>1, StoredFrame DEF HistInv
<1>6. "candles" \in Tracks
  BY DEF Tracks
<1>7. QueueHolds'
  BY <1>1, <1>6, QueueFrame DEF HistInv
<1> QED
  BY <1>2, <1>3, <1>4, <1>5, <1>7 DEF HistInv

-----------------------------------------------------------------------------
(* The environment.                                                        *)

\* The clock, the lock and the start of the runtime: nothing else changes.
LEMMA QuietStep ==
    ASSUME HistInv, UNCHANGED <<first, db, pass, crashes, bootNow, starting, queue,
                                admitted, reason>>,
           now' \in 1..MaxNow, now <= now', gate' \in {"free", "historical", "recovery"},
           process' \in {"startup", "running", "down"},
           process' = "down" <=> process = "down"
    PROVE  HistInv'
<1>1. now \in Int /\ now' \in Int
  BY DEF HistInv, Types
<1>2. Types'
  BY <1>1 DEF HistInv, Types
<1>3. OwnedHolds'
  BY OwnedFrame DEF HistInv
<1>4. SearchHolds'
  BY <1>1, SearchFrame DEF HistInv
<1>5. StoredHolds'
  BY <1>1, StoredFrame DEF HistInv
<1>6. QueueHolds'
  BY <1>1, QueueFrame DEF HistInv
<1>7. PassHolds'
  BY <1>1, PassFrame DEF HistInv
<1> QED
  BY <1>2, <1>3, <1>4, <1>5, <1>6, <1>7 DEF HistInv

\* A bar closes: what has closed before stays closed.
LEMMA TickHolds == HistInv /\ Tick => HistInv'
<1> SUFFICES ASSUME HistInv, Tick PROVE HistInv'
  OBVIOUS
<1>1. now' \in 1..MaxNow /\ now <= now'
  BY TimeAssumption DEF HistInv, Types, Tick
<1>2. /\ UNCHANGED <<first, db, pass, crashes, bootNow, starting, queue, admitted, reason>>
      /\ process' = process /\ gate' = gate
  BY DEF Tick, mem
<1>3. gate \in {"free", "historical", "recovery"} /\ process \in {"startup", "running", "down"}
  BY DEF HistInv, Types
<1> QED
  BY <1>1, <1>2, <1>3, QuietStep

\* Recovery takes or gives back the operation gate.
LEMMA RecoveryGateHolds == HistInv /\ (RecoveryTakesGate \/ RecoveryReleasesGate) => HistInv'
<1> SUFFICES ASSUME HistInv, RecoveryTakesGate \/ RecoveryReleasesGate PROVE HistInv'
  OBVIOUS
<1>1. /\ UNCHANGED <<first, db, pass, crashes, bootNow, starting, queue, admitted, reason>>
      /\ process' = process /\ now' = now /\ gate' \in {"free", "historical", "recovery"}
  BY DEF RecoveryTakesGate, RecoveryReleasesGate
<1>2. process \in {"startup", "running", "down"} /\ now \in 1..MaxNow /\ now <= now
  BY DEF HistInv, Types
<1> QED
  BY <1>1, <1>2, QuietStep

\* The last startup pass is over: every stream is queued, admitted or given up.
LEMMA StartRuntimeHolds == HistInv /\ StartRuntime => HistInv'
<1> SUFFICES ASSUME HistInv, StartRuntime PROVE HistInv'
  OBVIOUS
<1>1. /\ UNCHANGED <<first, db, pass, crashes, bootNow, starting, queue, admitted, reason>>
      /\ process = "startup" /\ process' = "running" /\ now' = now /\ gate' = gate
  BY DEF StartRuntime, mem
<1>2. gate \in {"free", "historical", "recovery"} /\ now \in 1..MaxNow /\ now <= now
  BY DEF HistInv, Types
<1> QED
  BY <1>1, <1>2, QuietStep

\* Realtime changes only a stream that it owns, and stores no bar of the future.
LEMMA RealtimeStep ==
    ASSUME HistInv, NEW s \in Streams, s \in admitted, db' \in Tables,
           \A r \in Streams \ {s} : db'[r] = db[r],
           \A t \in Tracks : /\ db'[s][t].cursor = db[s][t].cursor
                             /\ db'[s][t].earliest = db[s][t].earliest,
           \A b \in db'[s]["candles"].bars : b < now,
           \A b \in db'[s]["oi"].bars : b <= now,
           UNCHANGED <<now, first, process, pass, crashes, bootNow, mem>>
    PROVE  HistInv'
<1>1. /\ now' = now /\ first' = first /\ process' = process /\ crashes' = crashes
      /\ bootNow' = bootNow /\ starting' = starting /\ queue' = queue /\ gate' = gate
      /\ admitted' = admitted /\ reason' = reason /\ pass' = pass
      /\ now \in Int /\ now <= now /\ pass \in Passes
  BY DEF mem, HistInv, Types
<1>2. Types'
  BY <1>1 DEF HistInv, Types
<1>3. OwnedHolds'
  BY <1>1, OwnedFrame DEF HistInv
<1>4. SearchHolds'
  BY <1>1, SearchFrame DEF HistInv
<1>5. StoredHolds'
  <2> SUFFICES ASSUME NEW r \in Streams
               PROVE  /\ \A b \in db'[r]["candles"].bars : b < now
                      /\ \A b \in db'[r]["oi"].bars : b <= now
                      /\ process # "down" /\ r \notin admitted =>
                            \A b \in db'[r]["oi"].bars : b < now \/ b <= bootNow
    BY <1>1 DEF StoredHolds
  <2>1. CASE r = s
    BY <2>1
  <2>2. CASE r # s
    BY <2>2 DEF HistInv, StoredHolds
  <2> QED
    BY <2>1, <2>2
<1>6. QueueHolds'
  <2>1. \A r \in Streams : Queued(r) => r # s
    BY DEF HistInv, OwnedHolds
  <2> QED
    BY <1>1, <2>1, QueueFrame DEF HistInv
<1>7. PassHolds'
  <2>1. pass.stream \in Streams
    BY <1>1, PassFields
  <2>2. pass.pc # "idle" => pass.stream # s
    BY <2>1 DEF HistInv, OwnedHolds, Working
  <2> QED
    BY <1>1, <2>1, <2>2, PassFrame DEF HistInv
<1> QED
  BY <1>2, <1>3, <1>4, <1>5, <1>6, <1>7 DEF HistInv

\* Realtime stores closed candles of admitted streams only.
LEMMA RealtimeHolds ==
    ASSUME HistInv, NEW s \in Streams, Realtime(s)
    PROVE  HistInv'
<1>1. PICK st \in LifecycleStates \ {"uninitialized", "bootstrapping"},
           b \in Available(s, "candles") :
        db' = [db EXCEPT ![s].state = st, ![s].candles.bars = @ \cup {b}]
  BY DEF Realtime
<1>2. /\ db \in Tables /\ now \in 1..MaxNow /\ first[s]["candles"] \in Nat
      /\ s \in admitted /\ "candles" \in Tracks /\ "oi" \in Tracks
      /\ UNCHANGED <<now, first, process, pass, crashes, bootNow, mem>>
  BY DEF HistInv, Types, Realtime, FirstTables, Tracks
<1>3. b \in Bars /\ b < now
  BY <1>1, <1>2, TimeAssumption DEF Available, Bars
<1> DEFINE track == [db[s].candles EXCEPT !.bars = @ \cup {b}]
           row == [db[s] EXCEPT !.state = st, !.candles = track]
<1>4. db[s] \in StreamRow /\ db[s]["candles"] \in TrackRow /\ db[s].candles = db[s]["candles"]
  BY <1>2, TrackFields
<1>5. /\ track \in TrackRow /\ track.bars = db[s]["candles"].bars \cup {b}
      /\ track.cursor = db[s]["candles"].cursor /\ track.earliest = db[s]["candles"].earliest
  BY <1>3, <1>4 DEF TrackRow
<1>6. db' = [db EXCEPT ![s] = row]
  BY <1>1
<1> HIDE DEF track
<1>7. row \in StreamRow /\ row["candles"] = track /\ row["oi"] = db[s]["oi"]
  BY <1>1, <1>4, <1>5 DEF StreamRow
<1> HIDE DEF row
<1>8. db' \in Tables /\ db'[s] = row /\ \A r \in Streams \ {s} : db'[r] = db[r]
  BY <1>2, <1>6, <1>7 DEF Tables
<1>9. /\ \A c \in db'[s]["candles"].bars : c < now
      /\ \A c \in db'[s]["oi"].bars : c <= now
  BY <1>3, <1>5, <1>7, <1>8 DEF HistInv, StoredHolds
<1>10. \A t \in Tracks : /\ db'[s][t].cursor = db[s][t].cursor
                         /\ db'[s][t].earliest = db[s][t].earliest
  BY <1>5, <1>7, <1>8 DEF Tracks
<1> QED
  BY <1>2, <1>8, <1>9, <1>10, RealtimeStep

\* The prefetch stores the point of the open bar at most.
LEMMA RealtimePointHolds ==
    ASSUME HistInv, NEW s \in Streams, RealtimePoint(s)
    PROVE  HistInv'
<1>1. PICK b \in Available(s, "oi") \cup ({now} \cap Bars) :
        db' = [db EXCEPT ![s].oi.bars = @ \cup {b}]
  BY DEF RealtimePoint
<1>2. /\ db \in Tables /\ now \in 1..MaxNow /\ first[s]["oi"] \in Nat
      /\ s \in admitted /\ "candles" \in Tracks /\ "oi" \in Tracks
      /\ UNCHANGED <<now, first, process, pass, crashes, bootNow, mem>>
  BY DEF HistInv, Types, RealtimePoint, FirstTables, Tracks
<1>3. b \in Bars /\ b <= now
  BY <1>1, <1>2, TimeAssumption DEF Available, Bars
<1> DEFINE track == [db[s].oi EXCEPT !.bars = @ \cup {b}]
<1>4. db[s] \in StreamRow /\ db[s]["oi"] \in TrackRow /\ db[s].oi = db[s]["oi"]
  BY <1>2, TrackFields
<1>5. /\ track \in TrackRow /\ track.bars = db[s]["oi"].bars \cup {b}
      /\ track.cursor = db[s]["oi"].cursor /\ track.earliest = db[s]["oi"].earliest
  BY <1>3, <1>4 DEF TrackRow
<1>6. db' = WithTrack(db, s, "oi", track)
  BY <1>1 DEF WithTrack
<1> HIDE DEF track
<1>7. /\ db' \in Tables /\ db'[s]["oi"] = track
      /\ \A r \in Streams \ {s} : db'[r] = db[r]
      /\ \A u \in Tracks \ {"oi"} : db'[s][u] = db[s][u]
  BY <1>2, <1>5, <1>6, TrackUpdate
<1>8. db'[s]["candles"] = db[s]["candles"]
  BY <1>7 DEF Tracks
<1>9. /\ \A c \in db'[s]["candles"].bars : c < now
      /\ \A c \in db'[s]["oi"].bars : c <= now
  BY <1>3, <1>5, <1>7, <1>8 DEF HistInv, StoredHolds
<1>10. \A t \in Tracks : /\ db'[s][t].cursor = db[s][t].cursor
                         /\ db'[s][t].earliest = db[s][t].earliest
  BY <1>5, <1>7, <1>8 DEF Tracks
<1> QED
  BY <1>2, <1>7, <1>9, <1>10, RealtimeStep

\* The sequence a crash leaves.
LEMMA EmptySequence ==
    ASSUME NEW S
    PROVE  <<>> \in Seq(S) /\ DOMAIN <<>> = {} /\ Len(<<>>) = 0
OBVIOUS

\* A crash leaves the database, and nothing else.
LEMMA CrashHolds == HistInv /\ Crash => HistInv'
<1> SUFFICES ASSUME HistInv, Crash PROVE HistInv'
  OBVIOUS
<1>1. /\ pass' = PassIdle /\ process' = "down" /\ starting' = <<>> /\ queue' = <<>>
      /\ gate' = "free" /\ admitted' = {} /\ reason' = [s \in Streams |-> "none"]
      /\ now' = now /\ first' = first /\ db' = db /\ bootNow' = bootNow
      /\ crashes' = crashes + 1 /\ crashes < MaxCrashes
  BY DEF Crash
<1>2. /\ DOMAIN starting' = {} /\ DOMAIN queue' = {} /\ pass'.pc = "idle" /\ pass' \in Passes
      /\ \A s \in Streams : reason'[s] = "none"
  BY <1>1, EmptySequence, IdleFacts
<1>3. Types'
  <2>1. reason' \in ReasonTables /\ starting' \in Seq(Streams) /\ queue' \in Seq(Pending)
    BY <1>1, EmptySequence DEF ReasonTables, Reasons
  <2>2. crashes' \in 0..MaxCrashes
    BY <1>1, TimeAssumption DEF HistInv, Types
  <2> QED
    BY <1>1, <1>2, <2>1, <2>2 DEF HistInv, Types
<1>4. OwnedHolds'
  BY <1>1, <1>2 DEF OwnedHolds, Waiting, Queued, Working, GivenUp
<1>5. SearchHolds'
  BY <1>1 DEF HistInv, SearchHolds, SearchSkipsNothing
<1>6. StoredHolds'
  BY <1>1 DEF HistInv, StoredHolds
<1>7. QueueHolds'
  BY <1>2 DEF QueueHolds
<1>8. PassHolds'
  BY <1>1, IdlePass
<1> QED
  BY <1>3, <1>4, <1>5, <1>6, <1>7, <1>8 DEF HistInv

\* A new process puts every stream into the startup list once.
LEMMA BootHolds == HistInv /\ Boot => HistInv'
<1> SUFFICES ASSUME HistInv, Boot PROVE HistInv'
  OBVIOUS
<1>1. /\ process = "down" /\ process' = "startup" /\ starting' = Order /\ bootNow' = now
      /\ UNCHANGED <<now, first, db, pass, crashes, queue, gate, admitted, reason>>
  BY DEF Boot
<1>2. /\ pass.pc = "idle" /\ starting = <<>> /\ queue = <<>> /\ admitted = {}
      /\ \A s \in Streams : ~GivenUp(s)
  BY <1>1 DEF HistInv, OwnedHolds
<1>3. DOMAIN queue = {} /\ pass = PassIdle
  BY <1>2, EmptySequence DEF HistInv, PassHolds, PassSearches
<1>4. Types'
  BY <1>1, OrderFacts DEF HistInv, Types
<1>5. \A s \in Streams : \E i \in DOMAIN Order : Order[i] = s
  BY DEF Streams
<1>6. OwnedHolds'
  <2>1. \A i, j \in DOMAIN starting' : starting'[i] = starting'[j] => i = j
    BY <1>1, OrderAssumption
  <2>2. \A s \in Streams : Waiting(s)' /\ ~Queued(s)' /\ ~Working(s)' /\ ~GivenUp(s)'
    BY <1>1, <1>2, <1>3, <1>5 DEF Waiting, Queued, Working, GivenUp
  <2> QED
    BY <1>1, <1>2, <1>3, <2>1, <2>2 DEF OwnedHolds
<1>7. SearchHolds'
  BY <1>1 DEF HistInv, SearchHolds, SearchSkipsNothing
<1>8. StoredHolds'
  BY <1>1 DEF HistInv, StoredHolds
<1>9. QueueHolds'
  BY <1>1, <1>3 DEF QueueHolds
<1>10. PassHolds'
  BY <1>1, <1>3, IdlePass
<1> QED
  BY <1>4, <1>6, <1>7, <1>8, <1>9, <1>10 DEF HistInv

-----------------------------------------------------------------------------
(* Startup and the worker.                                                 *)

\* The positions of a sequence that got one more element.
LEMMA AppendFacts ==
    ASSUME NEW S, NEW q \in Seq(S), NEW e \in S, NEW r, r = Append(q, e)
    PROVE  /\ r \in Seq(S) /\ Len(q) \in Nat /\ DOMAIN q = 1..Len(q)
           /\ DOMAIN r = 1..(Len(q) + 1) /\ r[Len(q) + 1] = e
           /\ \A i \in 1..Len(q) : r[i] = q[i]
OBVIOUS

\* The positions of a sequence that lost its head.
LEMMA TailFacts ==
    ASSUME NEW S, NEW q \in Seq(S), q # <<>>, NEW r, r = Tail(q)
    PROVE  /\ r \in Seq(S) /\ Len(q) \in Nat \ {0} /\ DOMAIN q = 1..Len(q)
           /\ Head(q) = q[1] /\ Head(q) \in S
           /\ DOMAIN r = 1..(Len(q) - 1)
           /\ \A i \in 1..(Len(q) - 1) : r[i] = q[i + 1]
OBVIOUS

\* The fields of a queue entry.
LEMMA PendingFields ==
    ASSUME NEW e \in Pending
    PROVE  e.stream \in Streams /\ e.window \in Windows /\ e.marker \in Markers /\ e.due \in BOOLEAN
BY DEF Pending

\* A pass begins, or waits for the lock, with the interval it was given.
LEMMA NewPass ==
    ASSUME pass'.pc \in {"gate", "prepare"}, pass'.track = "candles",
           pass'.window = NoWindow \/ Pinned(pass.stream, pass.window)',
           pass'.kept = NoWindow \/ Pinned(pass.stream, pass.kept)',
           pass'.kept \in {NoWindow, pass'.window}
    PROVE  PassHolds'
<1>1. PassSearches'
  BY DEF PassSearches
<1>2. PassStates'
  BY DEF PassStates
<1>3. PassWindows'
  BY DEF PassWindows, Auditing
<1>4. PassPoints'
  BY DEF PassPoints
<1>5. PassProves'
  BY DEF PassProves
<1> QED
  BY <1>1, <1>2, <1>3, <1>4, <1>5 DEF PassHolds

\* The next stream moves from the startup list into the pass.
LEMMA StartupPassHolds == HistInv /\ StartupPass => HistInv'
<1> SUFFICES ASSUME HistInv, StartupPass PROVE HistInv'
  OBVIOUS
<1>1. /\ process = "startup" /\ pass.pc = "idle" /\ starting # <<>>
      /\ pass' = [PassIdle EXCEPT !.pc = "prepare", !.stream = Head(starting)]
      /\ starting' = Tail(starting)
      /\ UNCHANGED <<now, first, db, process, crashes, bootNow, queue, gate, admitted, reason>>
  BY DEF StartupPass
<1>2. starting \in Seq(Streams) /\ now \in Int /\ now <= now
  BY DEF HistInv, Types
<1>3. /\ starting' \in Seq(Streams) /\ Len(starting) \in Nat \ {0}
      /\ DOMAIN starting = 1..Len(starting) /\ Head(starting) = starting[1]
      /\ Head(starting) \in Streams /\ DOMAIN starting' = 1..(Len(starting) - 1)
      /\ \A i \in 1..(Len(starting) - 1) : starting'[i] = starting[i + 1]
  BY <1>1, <1>2, TailFacts
<1>4. /\ pass' \in Passes /\ pass'.pc = "prepare" /\ pass'.stream = starting[1]
      /\ pass'.track = "candles" /\ pass'.window = NoWindow /\ pass'.kept = NoWindow
  BY <1>1, <1>3, IdleFacts DEF Passes
<1>5. Types'
  BY <1>1, <1>3, <1>4 DEF HistInv, Types
<1>6. OwnedHolds'
  <2>1. \A i, j \in DOMAIN starting' : starting'[i] = starting'[j] => i = j
    BY <1>3 DEF HistInv, OwnedHolds
  <2>2. \A s \in Streams : Waiting(s)' => Waiting(s) /\ s # starting[1]
    <3> SUFFICES ASSUME NEW i \in DOMAIN starting'
                 PROVE  /\ \E j \in DOMAIN starting : starting[j] = starting'[i]
                        /\ starting'[i] # starting[1]
      BY DEF Waiting
    <3>1. i + 1 \in DOMAIN starting /\ 1 \in DOMAIN starting /\ i + 1 # 1
      BY <1>3
    <3>2. starting[i + 1] = starting'[i]
      BY <1>3
    <3>3. starting[i + 1] # starting[1]
      BY <3>1 DEF HistInv, OwnedHolds
    <3> QED
      BY <3>1, <3>2, <3>3
  <2>3. \A s \in Streams : Waiting(s) /\ s # starting[1] => Waiting(s)'
    <3> SUFFICES ASSUME NEW i \in DOMAIN starting, starting[i] # starting[1]
                 PROVE  \E j \in DOMAIN starting' : starting'[j] = starting[i]
      BY DEF Waiting
    <3>1. i - 1 \in DOMAIN starting' /\ starting'[i - 1] = starting[i]
      BY <1>3
    <3> QED
      BY <3>1
  <2>4. Waiting(starting[1])
    BY <1>3 DEF Waiting
  <2>5. \A s \in Streams : (Working(s)' <=> s = starting[1]) /\ ~Working(s)
    BY <1>1, <1>4 DEF Working
  <2>6. \A s \in Streams : (Queued(s)' <=> Queued(s)) /\ (GivenUp(s)' <=> GivenUp(s))
    BY <1>1 DEF Queued, GivenUp
  <2> QED
    BY <1>1, <1>3, <2>1, <2>2, <2>3, <2>4, <2>5, <2>6 DEF HistInv, OwnedHolds
<1>7. SearchHolds'
  BY <1>1, <1>2, SearchFrame DEF HistInv
<1>8. StoredHolds'
  BY <1>1, <1>2, StoredFrame DEF HistInv
<1>9. QueueHolds'
  BY <1>1, <1>2, QueueFrame DEF HistInv
<1>10. PassHolds'
  BY <1>4, NewPass
<1> QED
  BY <1>5, <1>6, <1>7, <1>8, <1>9, <1>10 DEF HistInv

\* A stream leaves the pass for exactly one other place.
LEMMA OutcomeHolds ==
    ASSUME HistInv, process # "down", pass.pc # "idle", pass' = PassIdle,
           UNCHANGED <<now, first, db, process, crashes, bootNow, starting>>,
           gate' \in {"free", "historical", "recovery"}, reason' \in ReasonTables,
           \A s \in Streams \ {pass.stream} : reason'[s] = reason[s],
           \/ /\ \E e \in Pending : /\ queue' = Append(queue, e)
                                    /\ e.stream = pass.stream /\ e.window = pass.kept
              /\ admitted' = admitted /\ reason'[pass.stream] # "historical_fatal_failure"
           \/ /\ admitted' = admitted \cup {pass.stream} /\ queue' = queue
              /\ reason'[pass.stream] # "historical_fatal_failure"
           \/ /\ admitted' = admitted /\ queue' = queue
              /\ reason'[pass.stream] = "historical_fatal_failure"
    PROVE  HistInv'
<1>1. /\ now' = now /\ first' = first /\ db' = db /\ process' = process /\ crashes' = crashes
      /\ bootNow' = bootNow /\ starting' = starting /\ now \in Int /\ now <= now
      /\ pass.stream \in Streams /\ pass' \in Passes /\ pass'.pc = "idle"
      /\ queue \in Seq(Pending) /\ admitted \in SUBSET Streams
  BY PassFields, IdleFacts DEF HistInv, Types
<1>2. admitted \subseteq admitted'
  OBVIOUS
<1>3. SearchHolds'
  BY <1>1, SearchFrame DEF HistInv
<1>4. StoredHolds'
  BY <1>1, <1>2, StoredFrame DEF HistInv
<1>5. PassHolds'
  BY IdlePass
<1>6. \A s \in Streams : /\ Waiting(s)' <=> Waiting(s)
                         /\ ~Working(s)' /\ (Working(s) <=> s = pass.stream)
                         /\ s # pass.stream => (GivenUp(s)' <=> GivenUp(s))
  BY <1>1 DEF Waiting, Working, GivenUp
<1>7. \A i, j \in DOMAIN starting' : starting'[i] = starting'[j] => i = j
  BY <1>1 DEF HistInv, OwnedHolds
<1>8. CASE /\ \E e \in Pending : /\ queue' = Append(queue, e)
                                 /\ e.stream = pass.stream /\ e.window = pass.kept
           /\ admitted' = admitted /\ reason'[pass.stream] # "historical_fatal_failure"
  <2>1. PICK e \in Pending : /\ queue' = Append(queue, e)
                             /\ e.stream = pass.stream /\ e.window = pass.kept
    BY <1>8
  <2>a. e.stream = pass.stream /\ e.window = pass.kept
    BY <2>1
  <2>2. /\ queue' \in Seq(Pending) /\ Len(queue) \in Nat /\ DOMAIN queue = 1..Len(queue)
        /\ DOMAIN queue' = 1..(Len(queue) + 1) /\ queue'[Len(queue) + 1] = e
        /\ \A i \in 1..Len(queue) : queue'[i] = queue[i]
    BY <1>1, <2>1, AppendFacts
  <2>3. Types'
    BY <1>1, <1>8, <2>2 DEF HistInv, Types
  <2>4. \A s \in Streams : Queued(s)' <=> Queued(s) \/ s = pass.stream
    <3> SUFFICES ASSUME NEW s \in Streams PROVE Queued(s)' <=> Queued(s) \/ s = pass.stream
      OBVIOUS
    <3>1. ASSUME NEW i \in DOMAIN queue', queue'[i].stream = s
          PROVE  Queued(s) \/ s = pass.stream
      <4>1. CASE i \in DOMAIN queue
        BY <2>2, <3>1, <4>1 DEF Queued
      <4>2. CASE i = Len(queue) + 1
        BY <2>a, <2>2, <3>1, <4>2
      <4> QED
        BY <2>2, <4>1, <4>2
    <3>2. Queued(s) => Queued(s)'
      BY <2>2 DEF Queued
    <3>3. Len(queue) + 1 \in DOMAIN queue' /\ queue'[Len(queue) + 1].stream = pass.stream
      BY <2>a, <2>2
    <3>4. s = pass.stream => Queued(s)'
      BY <3>3 DEF Queued
    <3> QED
      BY <3>1, <3>2, <3>4 DEF Queued
  <2>5. ~Queued(pass.stream)
    BY <1>1, <1>6 DEF HistInv, OwnedHolds
  <2>6. \A i, j \in DOMAIN queue' : queue'[i].stream = queue'[j].stream => i = j
    <3> SUFFICES ASSUME NEW i \in DOMAIN queue', NEW j \in DOMAIN queue',
                        queue'[i].stream = queue'[j].stream, i # j
                 PROVE  FALSE
      OBVIOUS
    <3>1. CASE i \in DOMAIN queue /\ j \in DOMAIN queue
      BY <2>2, <3>1 DEF HistInv, OwnedHolds
    <3>2. CASE i = Len(queue) + 1 /\ j \in DOMAIN queue
      BY <2>a, <2>2, <2>5, <3>2 DEF Queued
    <3>3. CASE j = Len(queue) + 1 /\ i \in DOMAIN queue
      BY <2>a, <2>2, <2>5, <3>3 DEF Queued
    <3> QED
      BY <2>2, <3>1, <3>2, <3>3
  <2>7. OwnedHolds'
    <3>1. \A s \in Streams : GivenUp(s)' <=> GivenUp(s)
      BY <1>1, <1>6, <1>8 DEF HistInv, OwnedHolds, GivenUp
    <3> QED
      BY <1>1, <1>6, <1>7, <1>8, <2>4, <2>6, <3>1 DEF HistInv, OwnedHolds
  <2>8. QueueHolds'
    <3>1. \A s, w : Pinned(s, w)' <=> Pinned(s, w)
      BY <1>1 DEF Pinned
    <3>2. pass.kept = NoWindow \/ Pinned(pass.stream, pass.kept)
      BY DEF HistInv, PassHolds, PassWindows
    <3> SUFFICES ASSUME NEW i \in DOMAIN queue'
                 PROVE  \/ queue'[i].window = NoWindow
                        \/ Pinned(queue'[i].stream, queue'[i].window)
      BY <1>1 DEF QueueHolds, Pinned
    <3>3. CASE i \in DOMAIN queue
      BY <2>2, <3>3 DEF HistInv, QueueHolds
    <3>4. CASE i = Len(queue) + 1
      BY <2>a, <2>2, <3>2, <3>4
    <3> QED
      BY <2>2, <3>3, <3>4
  <2> QED
    BY <1>3, <1>4, <1>5, <2>3, <2>7, <2>8 DEF HistInv
<1>9. CASE queue' = queue /\ admitted' \in SUBSET Streams
  <2>1. Types'
    BY <1>1, <1>9 DEF HistInv, Types
  <2>2. QueueHolds'
    BY <1>1, <1>9, QueueFrame DEF HistInv
  <2>3. \A s \in Streams : Queued(s)' <=> Queued(s)
    BY <1>9 DEF Queued
  <2>4. \A i, j \in DOMAIN queue' : queue'[i].stream = queue'[j].stream => i = j
    BY <1>9 DEF HistInv, OwnedHolds
  <2>5. CASE /\ admitted' = admitted \cup {pass.stream} /\ queue' = queue
             /\ reason'[pass.stream] # "historical_fatal_failure"
    <3>1. \A s \in Streams : GivenUp(s)' <=> GivenUp(s)
      BY <1>1, <1>6, <2>5 DEF HistInv, OwnedHolds, GivenUp
    <3>2. OwnedHolds'
      BY <1>1, <1>6, <1>7, <2>3, <2>4, <2>5, <3>1 DEF HistInv, OwnedHolds
    <3> QED
      BY <1>3, <1>4, <1>5, <2>1, <2>2, <3>2 DEF HistInv
  <2>6. CASE /\ admitted' = admitted /\ queue' = queue
             /\ reason'[pass.stream] = "historical_fatal_failure"
    <3>1. \A s \in Streams : GivenUp(s)' <=> GivenUp(s) \/ s = pass.stream
      BY <1>1, <1>6, <2>6 DEF GivenUp
    <3>2. OwnedHolds'
      BY <1>1, <1>6, <1>7, <2>3, <2>4, <2>6, <3>1 DEF HistInv, OwnedHolds
    <3> QED
      BY <1>3, <1>4, <1>5, <2>1, <2>2, <3>2 DEF HistInv
  <2>7. QED
    <3>1. ~(\E e \in Pending : queue' = Append(queue, e))
      BY <1>1, <1>9, AppendFacts
    <3> QED
      BY <2>5, <2>6, <3>1
<1> QED
  BY <1>1, <1>8, <1>9

\* The queue is rearranged: the same streams, each once, with their intervals.
LEMMA RearrangedHolds ==
    ASSUME HistInv, process # "down", queue' \in Seq(Pending),
           UNCHANGED <<now, first, db, process, pass, crashes, bootNow, starting,
                       gate, admitted, reason>>,
           \A i, j \in DOMAIN queue' : queue'[i].stream = queue'[j].stream => i = j,
           \A i \in DOMAIN queue' : \E j \in DOMAIN queue :
               queue'[i].stream = queue[j].stream /\ queue'[i].window = queue[j].window,
           \A j \in DOMAIN queue : \E i \in DOMAIN queue' : queue'[i].stream = queue[j].stream
    PROVE  HistInv'
<1>1. now \in Int /\ now <= now
  BY DEF HistInv, Types
<1>2. Types'
  BY DEF HistInv, Types
<1>3. \A s \in Streams : /\ Waiting(s)' <=> Waiting(s)
                         /\ Working(s)' <=> Working(s)
                         /\ GivenUp(s)' <=> GivenUp(s)
  BY DEF Waiting, Working, GivenUp
<1>4. \A s \in Streams : Queued(s)' <=> Queued(s)
  BY DEF Queued
<1>5. OwnedHolds'
  BY <1>3, <1>4 DEF HistInv, OwnedHolds
<1>6. SearchHolds'
  BY <1>1, SearchFrame DEF HistInv
<1>7. StoredHolds'
  BY <1>1, StoredFrame DEF HistInv
<1>8. QueueHolds'
  BY DEF HistInv, QueueHolds, Pinned
<1>9. PassHolds'
  BY <1>1, PassFrame DEF HistInv
<1> QED
  BY <1>2, <1>5, <1>6, <1>7, <1>8, <1>9 DEF HistInv

\* A backoff mark ends: no stream moves.
LEMMA BackoffEndsHolds ==
    ASSUME HistInv, NEW i \in DOMAIN queue, BackoffEnds(i)
    PROVE  HistInv'
<1>1. /\ queue' = [queue EXCEPT ![i].due = TRUE] /\ queue \in Seq(Pending)
      /\ UNCHANGED <<now, first, db, process, pass, crashes, bootNow, starting,
                     gate, admitted, reason>>
  BY DEF BackoffEnds, HistInv, Types
<1>2. process # "down"
  BY EmptySequence DEF HistInv, OwnedHolds
<1> DEFINE e == [queue[i] EXCEPT !.due = TRUE]
<1>3. queue \in Seq(Pending) /\ queue[i] \in Pending
  BY <1>1
<1>4. e \in Pending /\ e.stream = queue[i].stream /\ e.window = queue[i].window
  BY <1>3 DEF Pending
<1>5. queue' = [queue EXCEPT ![i] = e]
  BY <1>1
<1> HIDE DEF e
<1>6. /\ queue' \in Seq(Pending) /\ DOMAIN queue' = DOMAIN queue /\ queue'[i] = e
      /\ \A j \in DOMAIN queue : j # i => queue'[j] = queue[j]
  BY <1>3, <1>4, <1>5
<1>7. \A j \in DOMAIN queue : /\ queue'[j].stream = queue[j].stream
                              /\ queue'[j].window = queue[j].window
  BY <1>4, <1>6
<1>8. \A j, k \in DOMAIN queue : queue[j].stream = queue[k].stream => j = k
  BY DEF HistInv, OwnedHolds
<1>9. \A j, k \in DOMAIN queue' : queue'[j].stream = queue'[k].stream => j = k
  BY <1>6, <1>7, <1>8
<1> QED
  BY <1>1, <1>2, <1>6, <1>7, <1>9, RearrangedHolds

\* The head of the queue goes to its end.
LEMMA RotateHolds == HistInv /\ Rotate => HistInv'
<1> SUFFICES ASSUME HistInv, Rotate PROVE HistInv'
  OBVIOUS
<1>1. /\ queue' = Append(Tail(queue), Head(queue)) /\ queue \in Seq(Pending) /\ queue # <<>>
      /\ process = "running"
      /\ UNCHANGED <<now, first, db, process, pass, crashes, bootNow, starting,
                     gate, admitted, reason>>
  BY DEF Rotate, WorkerIdle, HistInv, Types
<1>2. /\ Tail(queue) \in Seq(Pending) /\ Len(queue) \in Nat \ {0} /\ DOMAIN queue = 1..Len(queue)
      /\ Head(queue) = queue[1] /\ Head(queue) \in Pending
      /\ DOMAIN Tail(queue) = 1..(Len(queue) - 1) /\ Len(Tail(queue)) = Len(queue) - 1
      /\ \A i \in 1..(Len(queue) - 1) : Tail(queue)[i] = queue[i + 1]
  BY <1>1, TailFacts
<1>3. /\ queue' \in Seq(Pending) /\ DOMAIN queue' = 1..Len(queue)
      /\ queue'[Len(queue)] = queue[1]
      /\ \A i \in 1..(Len(queue) - 1) : queue'[i] = queue[i + 1]
  BY <1>1, <1>2, AppendFacts
<1>4. \A j, k \in DOMAIN queue : queue[j].stream = queue[k].stream => j = k
  BY DEF HistInv, OwnedHolds
<1> DEFINE From(i) == IF i = Len(queue) THEN 1 ELSE i + 1
<1>5. \A i \in DOMAIN queue' : From(i) \in DOMAIN queue /\ queue'[i] = queue[From(i)]
  BY <1>2, <1>3
<1>6. \A i, j \in DOMAIN queue' : From(i) = From(j) => i = j
  BY <1>2, <1>3
<1>7. \A j \in DOMAIN queue : \E i \in DOMAIN queue' : From(i) = j
  <2> SUFFICES ASSUME NEW j \in DOMAIN queue PROVE \E i \in DOMAIN queue' : From(i) = j
    OBVIOUS
  <2>1. CASE j = 1
    BY <1>2, <1>3, <2>1
  <2>2. CASE j # 1
    <3>1. j - 1 \in DOMAIN queue' /\ From(j - 1) = j
      BY <1>2, <1>3, <2>2
    <3> QED
      BY <3>1
  <2> QED
    BY <2>1, <2>2
<1> HIDE DEF From
<1>8. \A i, j \in DOMAIN queue' : queue'[i].stream = queue'[j].stream => i = j
  BY <1>4, <1>5, <1>6
<1>9. \A j \in DOMAIN queue : \E i \in DOMAIN queue' : queue'[i].stream = queue[j].stream
  BY <1>5, <1>7
<1>10. \A i \in DOMAIN queue' : \E j \in DOMAIN queue :
           queue'[i].stream = queue[j].stream /\ queue'[i].window = queue[j].window
  BY <1>5
<1>11. process # "down"
  BY <1>1
<1>12. UNCHANGED <<now, first, db, process, pass, crashes, bootNow, starting, gate, admitted, reason>>
  BY <1>1
<1> QED
  BY <1>3, <1>8, <1>9, <1>10, <1>11, <1>12, RearrangedHolds

\* The head of the queue moves into the pass.
LEMMA TakeTurnHolds == HistInv /\ TakeTurn => HistInv'
<1> SUFFICES ASSUME HistInv, TakeTurn PROVE HistInv'
  OBVIOUS
<1>1. /\ process = "running" /\ pass.pc = "idle" /\ queue # <<>> /\ queue' = Tail(queue)
      /\ pass' = [PassIdle EXCEPT !.pc = "gate", !.stream = Head(queue).stream,
                     !.window = Head(queue).window, !.kept = Head(queue).window,
                     !.marker = Head(queue).marker]
      /\ reason' = [reason EXCEPT ![Head(queue).stream] = "historical_reconciliation"]
      /\ UNCHANGED <<now, first, db, process, crashes, bootNow, starting, gate, admitted>>
  BY DEF TakeTurn, WorkerIdle
<1>2. queue \in Seq(Pending) /\ now \in Int /\ now <= now /\ reason \in ReasonTables
  BY DEF HistInv, Types
<1>3. /\ queue' \in Seq(Pending) /\ Len(queue) \in Nat \ {0}
      /\ DOMAIN queue = 1..Len(queue) /\ Head(queue) = queue[1]
      /\ queue[1] \in Pending /\ DOMAIN queue' = 1..(Len(queue) - 1)
      /\ \A i \in 1..(Len(queue) - 1) : queue'[i] = queue[i + 1]
  BY <1>1, <1>2, TailFacts
<1> DEFINE e == queue[1]
<1>4. /\ e.stream \in Streams /\ e.window \in Windows /\ e.marker \in Markers
      /\ 1 \in DOMAIN queue
  BY <1>3, PendingFields
<1>5. /\ pass' = [PassIdle EXCEPT !.pc = "gate", !.stream = e.stream,
                     !.window = e.window, !.kept = e.window, !.marker = e.marker]
      /\ reason' = [reason EXCEPT ![e.stream] = "historical_reconciliation"]
  BY <1>1, <1>3
<1>6. e.window = NoWindow \/ Pinned(e.stream, e.window)
  BY <1>4 DEF HistInv, QueueHolds
<1>7. \A s \in Streams : Queued(s)' => Queued(s) /\ s # e.stream
  BY <1>3 DEF HistInv, OwnedHolds, Queued
<1>8. \A s \in Streams : Queued(s) /\ s # e.stream => Queued(s)'
  <2> SUFFICES ASSUME NEW i \in DOMAIN queue, queue[i].stream # e.stream
               PROVE  \E j \in DOMAIN queue' : queue'[j].stream = queue[i].stream
    BY DEF Queued
  <2>1. i - 1 \in DOMAIN queue' /\ queue'[i - 1] = queue[i]
    BY <1>3
  <2> QED
    BY <2>1
<1>9. Queued(e.stream)
  BY <1>4 DEF Queued
<1>10. QueueHolds'
  <2>1. \A i \in DOMAIN queue' : i + 1 \in DOMAIN queue /\ queue'[i] = queue[i + 1]
    BY <1>3
  <2>2. \A i \in DOMAIN queue' : \/ queue'[i].window = NoWindow
                                 \/ Pinned(queue'[i].stream, queue'[i].window)
    BY <2>1 DEF HistInv, QueueHolds
  <2> QED
    BY <1>1, <2>2 DEF QueueHolds, Pinned
<1>11. \A i, j \in DOMAIN queue' : queue'[i].stream = queue'[j].stream => i = j
  <2>1. \A i \in DOMAIN queue' : i \in Nat /\ i + 1 \in DOMAIN queue /\ queue'[i] = queue[i + 1]
    BY <1>3
  <2>2. \A i, j \in DOMAIN queue : queue[i].stream = queue[j].stream => i = j
    BY DEF HistInv, OwnedHolds
  <2> QED
    BY <2>1, <2>2
<1> HIDE DEF e
<1>12. /\ pass' \in Passes /\ pass'.pc = "gate" /\ pass'.stream = e.stream
       /\ pass'.track = "candles" /\ pass'.window = e.window /\ pass'.kept = e.window
  BY <1>4, <1>5, IdleFacts DEF Passes
<1>13. /\ reason' \in ReasonTables /\ reason'[e.stream] = "historical_reconciliation"
       /\ \A s \in Streams \ {e.stream} : reason'[s] = reason[s]
  BY <1>2, <1>4, <1>5 DEF ReasonTables, Reasons
<1>14. Types'
  BY <1>1, <1>3, <1>12, <1>13 DEF HistInv, Types
<1>15. OwnedHolds'
  <2>1. \A s \in Streams : (Working(s)' <=> s = e.stream) /\ ~Working(s)
    BY <1>1, <1>12 DEF Working
  <2>2. \A s \in Streams : Waiting(s)' <=> Waiting(s)
    BY <1>1 DEF Waiting
  <2>3. \A s \in Streams : GivenUp(s)' <=> GivenUp(s)
    <3>1. ~GivenUp(e.stream)
      BY <1>4, <1>9 DEF HistInv, OwnedHolds
    <3> QED
      BY <1>13, <3>1 DEF GivenUp
  <2> QED
    BY <1>1, <1>4, <1>7, <1>8, <1>9, <1>11, <2>1, <2>2, <2>3 DEF HistInv, OwnedHolds
<1>16. SearchHolds'
  BY <1>1, <1>2, SearchFrame DEF HistInv
<1>17. StoredHolds'
  BY <1>1, <1>2, StoredFrame DEF HistInv
<1>18. PassHolds'
  <2>1. pass'.window = NoWindow \/ Pinned(pass.stream, pass.window)'
    BY <1>1, <1>6, <1>12 DEF Pinned
  <2>2. pass'.kept = NoWindow \/ Pinned(pass.stream, pass.kept)'
    BY <1>1, <1>6, <1>12 DEF Pinned
  <2> QED
    BY <1>12, <2>1, <2>2, NewPass
<1> QED
  BY <1>10, <1>14, <1>15, <1>16, <1>17, <1>18 DEF HistInv

\* The pass gets the operation gate it waited for.
LEMMA GateAcquiredHolds == HistInv /\ GateAcquired => HistInv'
<1> SUFFICES ASSUME HistInv, GateAcquired PROVE HistInv'
  OBVIOUS
<1>1. /\ pass.pc = "gate" /\ gate' = "historical" /\ pass' = [pass EXCEPT !.pc = "prepare"]
      /\ UNCHANGED <<now, first, db, process, crashes, bootNow, starting, queue, admitted, reason>>
      /\ pass \in Passes /\ now \in Int /\ now <= now
  BY DEF GateAcquired, HistInv, Types
<1>2. /\ pass' \in Passes /\ pass'.pc = "prepare" /\ pass'.stream = pass.stream
      /\ pass'.track = pass.track /\ pass'.window = pass.window /\ pass'.kept = pass.kept
  BY <1>1 DEF Passes
<1>3. Types'
  BY <1>1, <1>2 DEF HistInv, Types
<1>4. OwnedHolds'
  BY <1>1, <1>2, OwnedFrame DEF HistInv
<1>5. SearchHolds'
  BY <1>1, SearchFrame DEF HistInv
<1>6. StoredHolds'
  BY <1>1, StoredFrame DEF HistInv
<1>7. QueueHolds'
  BY <1>1, QueueFrame DEF HistInv
<1>8. PassHolds'
  <2>1. /\ pass.track = "candles"
        /\ pass.window = NoWindow \/ Pinned(pass.stream, pass.window)
        /\ pass.kept = NoWindow \/ Pinned(pass.stream, pass.kept)
        /\ pass.kept \in {NoWindow, pass.window}
    BY <1>1 DEF HistInv, PassHolds, PassStates, PassWindows
  <2>2. pass'.window = NoWindow \/ Pinned(pass.stream, pass.window)'
    BY <1>1, <1>2, <2>1 DEF Pinned
  <2>3. pass'.kept = NoWindow \/ Pinned(pass.stream, pass.kept)'
    BY <1>1, <1>2, <2>1 DEF Pinned
  <2> QED
    BY <1>2, <2>1, <2>2, <2>3, NewPass
<1> QED
  BY <1>3, <1>4, <1>5, <1>6, <1>7, <1>8 DEF HistInv

\* A startup pass ends: its stream is admitted, queued or given up.
LEMMA StartupOutcomeHolds == HistInv /\ StartupOutcome => HistInv'
<1> SUFFICES ASSUME HistInv, StartupOutcome PROVE HistInv'
  OBVIOUS
<1>1. /\ process = "startup" /\ pass.pc = "done" /\ pass' = PassIdle
      /\ queue' = IF Unfinished(pass.class)
                  THEN Append(queue, [stream |-> pass.stream, window |-> pass.kept,
                                      marker |-> pass.outMarker, due |-> TRUE])
                  ELSE queue
      /\ admitted' = IF pass.class = "connecting" THEN admitted \cup {pass.stream}
                     ELSE admitted
      /\ UNCHANGED <<now, first, db, process, crashes, bootNow, starting, gate>>
  BY DEF StartupOutcome
<1>2. /\ pass \in Passes /\ reason \in ReasonTables
      /\ gate \in {"free", "historical", "recovery"}
  BY DEF HistInv, Types
<1>3. /\ pass.stream \in Streams /\ pass.class \in Classes /\ pass.kept \in Windows
      /\ pass.outMarker \in Markers
  BY <1>2, PassFields
<1> DEFINE e == [stream |-> pass.stream, window |-> pass.kept,
                 marker |-> pass.outMarker, due |-> TRUE]
           why == CASE pass.class = "connecting" -> "none"
                    [] pass.class = "incomplete" -> "historical_reconciliation"
                    [] pass.class = "recoverable" -> "historical_backoff"
                    [] pass.class = "fatal" -> "historical_fatal_failure"
<1>4. e \in Pending /\ e.stream = pass.stream /\ e.window = pass.kept
  BY <1>3 DEF Pending
<1>5. why \in Reasons /\ (why = "historical_fatal_failure" <=> pass.class = "fatal")
  BY <1>3 DEF Classes, Reasons
<1>6. reason' = [reason EXCEPT ![pass.stream] = why]
  BY DEF StartupOutcome
<1>7. queue' = IF Unfinished(pass.class) THEN Append(queue, e) ELSE queue
  BY <1>1
<1> HIDE DEF e, why
<1>8. /\ reason' \in ReasonTables /\ reason'[pass.stream] = why
      /\ \A s \in Streams \ {pass.stream} : reason'[s] = reason[s]
  BY <1>2, <1>3, <1>5, <1>6 DEF ReasonTables
<1>9. /\ process # "down" /\ pass.pc # "idle" /\ pass' = PassIdle
      /\ UNCHANGED <<now, first, db, process, crashes, bootNow, starting>>
      /\ gate' \in {"free", "historical", "recovery"}
  BY <1>1, <1>2
<1>10. CASE pass.class \in {"incomplete", "recoverable"}
  <2>1. queue' = Append(queue, e) /\ admitted' = admitted
    BY <1>1, <1>7, <1>10 DEF Unfinished
  <2>2. reason'[pass.stream] # "historical_fatal_failure"
    BY <1>5, <1>8, <1>10
  <2> QED
    BY <1>4, <1>8, <1>9, <2>1, <2>2, OutcomeHolds
<1>11. CASE pass.class = "connecting"
  <2>1. queue' = queue /\ admitted' = admitted \cup {pass.stream}
    BY <1>1, <1>7, <1>11 DEF Unfinished
  <2>2. reason'[pass.stream] # "historical_fatal_failure"
    BY <1>5, <1>8, <1>11
  <2> QED
    BY <1>8, <1>9, <2>1, <2>2, OutcomeHolds
<1>12. CASE pass.class = "fatal"
  <2>1. queue' = queue /\ admitted' = admitted
    BY <1>1, <1>7, <1>12 DEF Unfinished
  <2>2. reason'[pass.stream] = "historical_fatal_failure"
    BY <1>5, <1>8, <1>12
  <2> QED
    BY <1>8, <1>9, <2>1, <2>2, OutcomeHolds
<1> QED
  BY <1>3, <1>10, <1>11, <1>12 DEF Classes

\* A pass of the worker ends: its stream is admitted, queued again or given up.
LEMMA WorkerOutcomeHolds == HistInv /\ WorkerOutcome => HistInv'
<1> SUFFICES ASSUME HistInv, WorkerOutcome PROVE HistInv'
  OBVIOUS
<1>1. /\ process = "running" /\ pass.pc = "done" /\ pass' = PassIdle /\ gate' = "free"
      /\ UNCHANGED <<now, first, db, process, crashes, bootNow, starting>>
  BY DEF WorkerOutcome
<1>2. pass \in Passes /\ reason \in ReasonTables
  BY DEF HistInv, Types
<1>3. /\ pass.stream \in Streams /\ pass.class \in Classes /\ pass.kept \in Windows
      /\ pass.outMarker \in Markers /\ pass.marker \in Markers
  BY <1>2, PassFields
<1>4. /\ process # "down" /\ pass.pc # "idle" /\ gate' \in {"free", "historical", "recovery"}
  BY <1>1
<1>5. ASSUME NEW why \in Reasons, reason' = [reason EXCEPT ![pass.stream] = why]
      PROVE  /\ reason' \in ReasonTables /\ reason'[pass.stream] = why
             /\ \A s \in Streams \ {pass.stream} : reason'[s] = reason[s]
  BY <1>2, <1>3, <1>5 DEF ReasonTables
<1>6. CASE pass.class = "connecting"
  <2>1. \A t \in TracksOf(pass.stream) : Whole(pass.stream, t)
    BY <1>1, <1>6 DEF HistInv, PassHolds, PassProves
  <2>2. "candles" \in TracksOf(pass.stream)
    BY DEF TracksOf, Tracks
  <2>3. db[pass.stream].candles.bars # {}
    BY <2>1, <2>2 DEF Whole, IsWhole
  <2>4. /\ reason' = [reason EXCEPT ![pass.stream] = "none"]
        /\ admitted' = admitted \cup {pass.stream} /\ queue' = queue
    BY <1>6, <2>3 DEF WorkerOutcome
  <2>5. /\ reason' \in ReasonTables /\ reason'[pass.stream] = "none"
        /\ \A s \in Streams \ {pass.stream} : reason'[s] = reason[s]
    BY <1>5, <2>4 DEF Reasons
  <2> QED
    BY <1>1, <1>4, <2>4, <2>5, OutcomeHolds
<1>7. CASE pass.class = "fatal"
  <2>1. /\ reason' = [reason EXCEPT ![pass.stream] = "historical_fatal_failure"]
        /\ admitted' = admitted /\ queue' = queue
    BY <1>7 DEF WorkerOutcome
  <2>2. /\ reason' \in ReasonTables /\ reason'[pass.stream] = "historical_fatal_failure"
        /\ \A s \in Streams \ {pass.stream} : reason'[s] = reason[s]
    BY <1>5, <2>1 DEF Reasons
  <2> QED
    BY <1>1, <1>4, <2>1, <2>2, OutcomeHolds
<1>8. CASE pass.class \in {"incomplete", "recoverable"}
  <2> DEFINE again == pass.class = "incomplete" /\ Progressed(pass)
             mark == IF pass.class = "incomplete" THEN pass.outMarker ELSE pass.marker
             e == [stream |-> pass.stream, window |-> pass.kept, due |-> again,
                   marker |-> mark]
             why == CASE pass.class = "recoverable" -> "historical_backoff"
                      [] again -> "historical_reconciliation"
                      [] OTHER -> "historical_no_progress_backoff"
  <2>1. Requeue(pass) /\ admitted' = admitted
    BY <1>8 DEF WorkerOutcome
  <2>2. queue' = Append(queue, e) /\ reason' = [reason EXCEPT ![pass.stream] = why]
    BY <2>1 DEF Requeue, Requeued, Kept
  <2>3. again \in BOOLEAN /\ mark \in Markers
    BY <1>3 DEF Progressed
  <2> HIDE DEF again, mark
  <2>4. e \in Pending /\ e.stream = pass.stream /\ e.window = pass.kept
    BY <1>3, <2>3 DEF Pending
  <2>5. why \in Reasons /\ why # "historical_fatal_failure"
    BY DEF Reasons
  <2> HIDE DEF e, why
  <2>6. /\ reason' \in ReasonTables /\ reason'[pass.stream] = why
        /\ \A s \in Streams \ {pass.stream} : reason'[s] = reason[s]
    BY <1>5, <2>2, <2>5
  <2> QED
    BY <1>1, <1>4, <2>1, <2>2, <2>4, <2>5, <2>6, OutcomeHolds
<1> QED
  BY <1>3, <1>6, <1>7, <1>8 DEF Classes

-----------------------------------------------------------------------------
(* The pass: what its steps share.                                         *)

PassSteps == {"idle", "gate", "prepare", "bootstrap", "resolve", "probe", "pin",
              "mark_auditing", "preaudit", "to_repairing", "repair", "postaudit",
              "connect", "record_failure", "done", "raised"}

\* Goto, Outcome and Raises as functions of the pass.
Went(p, pc) == [p EXCEPT !.pc = pc]
Finished(p, class, window, marker) ==
    [p EXCEPT !.pc = "done", !.class = class, !.kept = window, !.outMarker = marker]
Thrown(p, class, window) ==
    [p EXCEPT !.pc = "record_failure", !.class = class, !.kept = window]

\* A pass that goes to its next transaction keeps everything else.
LEMMA WentFields ==
    ASSUME NEW p \in Passes, NEW pc \in PassSteps, NEW q, q = Went(p, pc)
    PROVE  /\ q \in Passes /\ q.pc = pc /\ q.stream = p.stream /\ q.track = p.track
           /\ q.window = p.window /\ q.kept = p.kept /\ q.at = p.at /\ q.end = p.end
           /\ q.todo = p.todo /\ q.class = p.class
BY DEF Went, Passes, PassSteps

\* A pass that is done keeps stream and track and reports an interval.
LEMMA FinishedFields ==
    ASSUME NEW p \in Passes, NEW class \in Classes, NEW window \in Windows,
           NEW marker \in Markers, NEW q, q = Finished(p, class, window, marker)
    PROVE  /\ q \in Passes /\ q.pc = "done" /\ q.stream = p.stream /\ q.track = p.track
           /\ q.window = p.window /\ q.kept = window /\ q.class = class
BY DEF Finished, Passes

\* A pass that failed keeps stream and track and remembers an interval.
LEMMA ThrownFields ==
    ASSUME NEW p \in Passes, NEW class \in Classes, NEW window \in Windows,
           NEW q, q = Thrown(p, class, window)
    PROVE  /\ q \in Passes /\ q.pc = "record_failure" /\ q.stream = p.stream
           /\ q.track = p.track /\ q.window = p.window /\ q.kept = window /\ q.class = class
BY DEF Thrown, Passes

\* The transitions of the table that a pass comes to.
LEMMA LegalSteps ==
    /\ CanTransition("failed", "uninitialized")
    /\ CanTransition("uninitialized", "bootstrapping")
    /\ CanTransition("degraded", "bootstrapping")
    /\ \A state \in {"auditing", "repairing", "connecting", "ready", "bootstrapping"} :
          CanTransition(state, "degraded")
    /\ CanTransition("bootstrapping", "failed")
    /\ CanTransition("bootstrapping", "auditing")
    /\ CanTransition("auditing", "repairing")
    /\ CanTransition("repairing", "auditing")
    /\ CanTransition("auditing", "connecting")
BY DEF CanTransition, Allowed

\* A step of the pass: what it may rely on, and what it leaves alone.
LEMMA PassContext ==
    ASSUME HistInv, InPass
    PROVE  /\ now' = now /\ first' = first /\ process' = process /\ crashes' = crashes
           /\ bootNow' = bootNow /\ starting' = starting /\ queue' = queue /\ gate' = gate
           /\ admitted' = admitted /\ reason' = reason
           /\ now \in 1..MaxNow /\ bootNow \in 1..now /\ db \in Tables /\ pass \in Passes
           /\ pass.stream \in Streams /\ pass.track \in Tracks
           /\ pass.window \in Windows /\ pass.kept \in Windows /\ pass.class \in Classes
           /\ "candles" \in Tracks /\ "oi" \in Tracks
           /\ Row.state \in LifecycleStates
<1>1. /\ now \in 1..MaxNow /\ bootNow \in 1..now /\ db \in Tables /\ pass \in Passes
  BY DEF HistInv, Types
<1>2. "candles" \in Tracks /\ "oi" \in Tracks
  BY DEF Tracks
<1> QED
  BY <1>1, <1>2, PassFields, TrackFields DEF InPass, mem, Row

\* A legal move of the lifecycle leaves the tracks alone.
LEMMA MovedRow ==
    ASSUME db \in Tables, pass.stream \in Streams, NEW state \in LifecycleStates,
           NEW next, CanTransition(Row.state, state), MoveTo(state, next)
    PROVE  /\ db' \in Tables /\ db'[pass.stream].state = state
           /\ \A r \in Streams, t \in Tracks : db'[r][t] = db[r][t]
           /\ pass' = Went(pass, next)
<1>1. db' = WithState(db, pass.stream, state) /\ pass' = Went(pass, next)
  BY DEF MoveTo, Goto, WithState, Went
<1> QED
  BY <1>1, StateUpdate

\* The pass ends without a proof: nothing is claimed for its stream, and the
\* interval it keeps is the given or the pinned one.
LEMMA UnprovenEnd ==
    ASSUME HistInv, InPass, pass.pc \notin {"idle", "raised"}, db' = db,
           NEW class \in Classes \ {"connecting"}, NEW window \in Windows, NEW marker \in Markers,
           window \in {pass.window, pass.kept}, pass' = Finished(pass, class, window, marker)
    PROVE  HistInv'
<1>1. /\ pass' \in Passes /\ pass'.pc = "done" /\ pass'.stream = pass.stream
      /\ pass'.track = pass.track /\ pass'.window = pass.window /\ pass'.kept = window
      /\ pass'.class = class
  BY PassContext, FinishedFields
<1>2. /\ now' = now /\ first' = first /\ bootNow' = bootNow /\ db \in Tables
  BY PassContext
<1>3. PassSearches'
  BY <1>1 DEF PassSearches
<1>4. PassStates'
  BY <1>1 DEF HistInv, PassHolds, PassStates
<1>5. PassWindows'
  BY <1>1, <1>2 DEF HistInv, PassHolds, PassWindows, Pinned, Auditing
<1>6. PassPoints'
  BY <1>1 DEF PassPoints, Auditing
<1>7. PassProves'
  BY <1>1, <1>2 DEF HistInv, PassHolds, PassProves, Whole
<1>8. PassHolds'
  BY <1>3, <1>4, <1>5, <1>6, <1>7 DEF PassHolds
<1> QED
  BY <1>1, <1>2, <1>8, MoveHolds

-----------------------------------------------------------------------------
(* The pass: the lifecycle is prepared.                                    *)

\* Once the lifecycle is "bootstrapping", the pass searches or audits.
LEMMA PreparedPass ==
    ASSUME HistInv, InPass, pass.pc \in {"prepare", "bootstrap"},
           pass' = Went(pass, Prepared), db' \in Tables,
           db'[pass.stream].state = "bootstrapping",
           \A r \in Streams, t \in Tracks : db'[r][t] = db[r][t]
    PROVE  HistInv'
<1>1. Prepared \in {"resolve", "mark_auditing"} /\ Prepared \in PassSteps
  BY DEF Prepared, PassSteps
<1>2. /\ pass' \in Passes /\ pass'.pc = Prepared /\ pass'.stream = pass.stream
      /\ pass'.track = pass.track /\ pass'.window = pass.window /\ pass'.kept = pass.kept
  BY <1>1, PassContext, WentFields
<1>3. /\ now' = now /\ first' = first /\ bootNow' = bootNow /\ pass.track = "candles"
      /\ pass.stream \in Streams /\ "candles" \in Tracks
  BY PassContext DEF HistInv, PassHolds, PassStates
<1>4. db'[pass.stream]["candles"] = db[pass.stream]["candles"]
  BY <1>3
<1>5. PassSearches'
  BY <1>1, <1>2 DEF PassSearches
<1>6. PassStates'
  BY <1>1, <1>2, <1>3 DEF PassStates, Row
<1>7. PassWindows'
  BY <1>1, <1>2, <1>3, <1>4 DEF HistInv, PassHolds, PassWindows, Pinned, Auditing, Prepared
<1>8. PassPoints'
  BY <1>2, <1>3 DEF PassPoints
<1>9. PassProves'
  BY <1>1, <1>2, <1>3 DEF PassProves
<1>10. PassHolds'
  BY <1>5, <1>6, <1>7, <1>8, <1>9 DEF PassHolds
<1> QED
  BY <1>1, <1>2, <1>10, MoveHolds

\* The lifecycle is prepared for bootstrap, from whatever state was stored.
LEMMA PrepareHolds == HistInv /\ PrepareForBootstrap => HistInv'
<1> SUFFICES ASSUME HistInv, PrepareForBootstrap PROVE HistInv'
  OBVIOUS
<1>1. pass.pc = "prepare" /\ InPass
  BY DEF PrepareForBootstrap, At
<1>2. /\ now' = now /\ first' = first /\ bootNow' = bootNow /\ db \in Tables
      /\ pass \in Passes /\ pass.stream \in Streams /\ "candles" \in Tracks
      /\ Row.state \in LifecycleStates /\ pass.track = "candles"
  BY <1>1, PassContext DEF HistInv, PassHolds, PassStates
<1>3. CASE Row.state = "bootstrapping"
  <2>1. pass' = Went(pass, Prepared) /\ db' = db
    BY <1>3 DEF PrepareForBootstrap, Goto, Went
  <2> QED
    BY <1>1, <1>2, <1>3, <2>1, PreparedPass DEF Row
<1>4. CASE Row.state \in {"uninitialized", "degraded"}
  <2>1. PrepareTarget(Row.state) = "bootstrapping" /\ Row.state # "bootstrapping"
    BY <1>4 DEF PrepareTarget
  <2>2. MoveTo("bootstrapping", Prepared)
    BY <2>1 DEF PrepareForBootstrap
  <2>3. CanTransition(Row.state, "bootstrapping")
    BY <1>4, LegalSteps
  <2>4. /\ db' \in Tables /\ db'[pass.stream].state = "bootstrapping"
        /\ \A r \in Streams, t \in Tracks : db'[r][t] = db[r][t]
        /\ pass' = Went(pass, Prepared)
    BY <1>2, <2>2, <2>3, MovedRow DEF LifecycleStates
  <2> QED
    BY <1>1, <2>4, PreparedPass
<1>5. CASE Row.state \in {"failed", "auditing", "repairing", "connecting", "ready"}
  <2> DEFINE state == IF Row.state = "failed" THEN "uninitialized" ELSE "degraded"
  <2>1. PrepareTarget(Row.state) = state /\ Row.state # "bootstrapping" /\ state # "bootstrapping"
    BY <1>5 DEF PrepareTarget
  <2>2. MoveTo(state, "bootstrap")
    BY <2>1 DEF PrepareForBootstrap
  <2>3. CanTransition(Row.state, state) /\ state \in {"uninitialized", "degraded"}
    BY <1>5, LegalSteps
  <2> HIDE DEF state
  <2>4. /\ db' \in Tables /\ db'[pass.stream].state = state
        /\ \A r \in Streams, t \in Tracks : db'[r][t] = db[r][t]
        /\ pass' = Went(pass, "bootstrap")
    BY <1>2, <2>2, <2>3, MovedRow DEF LifecycleStates
  <2>5. /\ pass' \in Passes /\ pass'.pc = "bootstrap" /\ pass'.stream = pass.stream
        /\ pass'.track = pass.track /\ pass'.window = pass.window /\ pass'.kept = pass.kept
    BY <1>2, <2>4, WentFields DEF PassSteps
  <2>6. PassSearches'
    BY <2>5 DEF PassSearches
  <2>7. PassStates'
    BY <1>2, <2>3, <2>4, <2>5 DEF PassStates, Row
  <2>8. PassWindows'
    BY <1>1, <1>2, <2>4, <2>5 DEF HistInv, PassHolds, PassWindows, Pinned, Auditing
  <2>9. PassPoints'
    BY <1>2, <2>5 DEF PassPoints
  <2>10. PassProves'
    BY <1>2, <2>5 DEF PassProves
  <2>11. PassHolds'
    BY <2>6, <2>7, <2>8, <2>9, <2>10 DEF PassHolds
  <2> QED
    BY <1>1, <2>4, <2>5, <2>11, MoveHolds
<1> QED
  BY <1>2, <1>3, <1>4, <1>5 DEF LifecycleStates

\* The stream enters `bootstrapping`.
LEMMA ToBootstrappingHolds == HistInv /\ ToBootstrapping => HistInv'
<1> SUFFICES ASSUME HistInv, ToBootstrapping PROVE HistInv'
  OBVIOUS
<1>1. pass.pc = "bootstrap" /\ InPass /\ MoveTo("bootstrapping", Prepared)
  BY DEF ToBootstrapping, At
<1>2. db \in Tables /\ pass.stream \in Streams
  BY <1>1, PassContext
<1>3. CanTransition(Row.state, "bootstrapping")
  BY <1>1, LegalSteps DEF HistInv, PassHolds, PassStates
<1>4. /\ db' \in Tables /\ db'[pass.stream].state = "bootstrapping"
      /\ \A r \in Streams, t \in Tracks : db'[r][t] = db[r][t]
      /\ pass' = Went(pass, Prepared)
  BY <1>1, <1>2, <1>3, MovedRow DEF LifecycleStates
<1> QED
  BY <1>1, <1>4, PreparedPass

-----------------------------------------------------------------------------
(* The pass: the search for the first bar.                                 *)

\* A marker of the search is a marker.
LEMMA MarkerFacts ==
    ASSUME pass \in Passes, NEW bar \in -1..MaxNow
    PROVE  CursorMarker(bar) \in Markers
BY IdleFacts, PassFields DEF CursorMarker, Markers

\* The search ends unproven: the stream goes back with what it has.
LEMMA UnprovenHolds ==
    ASSUME HistInv, InPass, pass.pc \notin {"idle", "raised"}, db' = db,
           NEW marker \in Markers, Unproven(marker)
    PROVE  HistInv'
<1>1. pass.window \in Windows /\ pass.kept \in Windows
  BY PassContext
<1>2. "incomplete" \in Classes \ {"connecting"}
  BY DEF Classes
<1>3. CASE OnPoints
  <2>1. pass' = Finished(pass, "incomplete", pass.window, marker)
    BY <1>3 DEF Unproven, Held, Outcome, Finished
  <2> QED
    BY <1>1, <1>2, <2>1, UnprovenEnd
<1>4. CASE ~OnPoints
  <2>1. pass' = Finished(pass, "incomplete", pass.kept, marker)
    BY <1>4 DEF Unproven, Outcome, Finished
  <2> QED
    BY <1>1, <1>2, <2>1, UnprovenEnd
<1> QED
  BY <1>3, <1>4

\* What the pass finds of the track it works on.
LEMMA SearchFacts ==
    ASSUME HistInv, InPass
    PROVE  /\ Track \in TrackRow /\ Track = db[pass.stream][pass.track]
           /\ Track.bars \in SUBSET Bars
           /\ Track.cursor \in -1..MaxNow /\ Track.earliest \in Bars \cup {NoBar}
           /\ first[pass.stream][pass.track] \in Nat
           /\ Track.cursor <= first[pass.stream][pass.track]
           /\ Track.earliest \in {NoBar, first[pass.stream][pass.track]}
           /\ Track.earliest < now
<1>1. db \in Tables /\ pass.stream \in Streams /\ pass.track \in Tracks
  BY PassContext
<1>2. Track = db[pass.stream][pass.track]
  BY DEF Track, Row
<1>3. /\ Track \in TrackRow /\ Track.earliest \in Bars \cup {NoBar}
      /\ Track.cursor \in {NoBar} \cup 0..MaxNow /\ Track.bars \in SUBSET Bars
  BY <1>1, <1>2, TrackFields
<1>4. first \in FirstTables
  BY DEF HistInv, Types
<1>5. first[pass.stream][pass.track] \in 0..MaxFirst
  BY <1>1, <1>4 DEF FirstTables
<1> QED
  BY <1>1, <1>2, <1>3, <1>5, TimeAssumption DEF HistInv, SearchHolds, SearchSkipsNothing, NoBar

\* The search of the lower bound starts at the stored cursor, or has an answer.
LEMMA ResolveHolds == HistInv /\ ResolveLowerBound => HistInv'
<1> SUFFICES ASSUME HistInv, ResolveLowerBound PROVE HistInv'
  OBVIOUS
<1>1. pass.pc = "resolve" /\ db' = db /\ InPass
  BY DEF ResolveLowerBound, At
<1>2. /\ now' = now /\ first' = first /\ bootNow' = bootNow /\ db \in Tables
      /\ pass \in Passes /\ now \in 1..MaxNow
  BY <1>1, PassContext
<1>3. SearchStart(Track) \in 0..MaxNow /\ SearchStart(Track) <= first[pass.stream][pass.track]
  BY <1>1, SearchFacts, TimeAssumption DEF SearchStart, NoBar
<1>4. CASE Track.earliest # NoBar /\ Goto("pin")
  <2>1. pass' = Went(pass, "pin")
    BY <1>4 DEF Goto, Went
  <2>2. /\ pass' \in Passes /\ pass'.pc = "pin" /\ pass'.stream = pass.stream
        /\ pass'.track = pass.track /\ pass'.window = pass.window /\ pass'.kept = pass.kept
    BY <1>2, <2>1, WentFields DEF PassSteps
  <2>3. PassSearches'
    BY <1>1, <1>4, <2>2 DEF PassSearches, Track, Row
  <2>4. PassStates'
    BY <1>1, <2>2 DEF HistInv, PassHolds, PassStates, Row
  <2>5. PassWindows'
    BY <1>1, <1>2, <2>2 DEF HistInv, PassHolds, PassWindows, Pinned, Auditing
  <2>6. PassPoints'
    BY <2>2 DEF PassPoints, Auditing
  <2>7. PassProves'
    BY <1>1, <1>2, <2>2 DEF HistInv, PassHolds, PassProves, Whole
  <2>8. PassHolds'
    BY <2>3, <2>4, <2>5, <2>6, <2>7 DEF PassHolds
  <2> QED
    BY <1>1, <1>2, <2>2, <2>8, MoveHolds
<1>5. CASE Unproven(CursorMarker(SearchStart(Track)))
  <2>1. CursorMarker(SearchStart(Track)) \in Markers
    BY <1>2, <1>3, TimeAssumption, MarkerFacts
  <2> QED
    BY <1>1, <1>5, <2>1, UnprovenHolds
<1>6. CASE /\ Track.earliest = NoBar
           /\ pass' = [pass EXCEPT !.pc = "probe", !.at = SearchStart(Track),
                                   !.end = now, !.used = 0]
  <2> DEFINE start == SearchStart(Track)
  <2>1. pass' = [pass EXCEPT !.pc = "probe", !.at = start, !.end = now, !.used = 0]
    BY <1>6
  <2> HIDE DEF start
  <2>2. start \in 0..MaxNow /\ now \in 0..MaxNow /\ start <= first[pass.stream][pass.track]
    BY <1>2, <1>3 DEF start
  <2>3. /\ pass' \in Passes /\ pass'.pc = "probe" /\ pass'.stream = pass.stream
        /\ pass'.track = pass.track /\ pass'.window = pass.window /\ pass'.kept = pass.kept
        /\ pass'.at = start /\ pass'.end = now
    BY <1>2, <2>1, <2>2 DEF Passes
  <2>4. PassSearches'
    BY <1>1, <1>2, <1>6, <2>2, <2>3 DEF PassSearches, Track, Row
  <2>5. PassStates'
    BY <1>1, <2>3 DEF HistInv, PassHolds, PassStates, Row
  <2>6. PassWindows'
    BY <1>1, <1>2, <2>3 DEF HistInv, PassHolds, PassWindows, Pinned, Auditing
  <2>7. PassPoints'
    BY <2>3 DEF PassPoints, Auditing
  <2>8. PassProves'
    BY <1>1, <1>2, <2>3 DEF HistInv, PassHolds, PassProves, Whole
  <2>9. PassHolds'
    BY <2>4, <2>5, <2>6, <2>7, <2>8 DEF PassHolds
  <2> QED
    BY <1>1, <1>2, <2>3, <2>9, MoveHolds
<1> QED
  BY <1>4, <1>5, <1>6 DEF ResolveLowerBound

\* The search has used its probes or reached its end without finding a bar.
LEMMA ProbeEndsHolds == HistInv /\ ProbeEnds => HistInv'
<1> SUFFICES ASSUME HistInv, ProbeEnds PROVE HistInv'
  OBVIOUS
<1>1. pass.pc = "probe" /\ db' = db /\ InPass /\ Unproven(CursorMarker(Track.cursor))
  BY DEF ProbeEnds, At
<1>2. Track.cursor \in -1..MaxNow /\ pass \in Passes
  BY <1>1, SearchFacts, PassContext
<1>3. CursorMarker(Track.cursor) \in Markers
  BY <1>2, MarkerFacts
<1> QED
  BY <1>1, <1>3, UnprovenHolds

\* A step that writes the track the pass works on: no bar is skipped, and what
\* is stored has closed.
LEMMA TrackStep ==
    ASSUME HistInv, InPass, pass.pc # "idle", pass' \in Passes, pass'.pc # "idle",
           pass'.stream = pass.stream, PassHolds', NEW new \in TrackRow,
           db' = WithTrack(db, pass.stream, pass.track, new),
           new.cursor <= first[pass.stream][pass.track],
           new.earliest \in {NoBar, first[pass.stream][pass.track]},
           new.earliest # NoBar => new.cursor = NoBar,
           new.earliest < now,
           \A b \in new.bars : b < now \/ b \in Track.bars
    PROVE  HistInv'
<1>1. /\ now' = now /\ first' = first /\ process' = process /\ crashes' = crashes
      /\ bootNow' = bootNow /\ starting' = starting /\ queue' = queue /\ gate' = gate
      /\ admitted' = admitted /\ reason' = reason
      /\ now \in 1..MaxNow /\ db \in Tables /\ pass.stream \in Streams /\ pass.track \in Tracks
      /\ now \in Int /\ now <= now
  BY PassContext
<1>2. /\ db' \in Tables /\ db'[pass.stream][pass.track] = new
      /\ \A r \in Streams \ {pass.stream} : db'[r] = db[r]
      /\ \A u \in Tracks \ {pass.track} : db'[pass.stream][u] = db[pass.stream][u]
  BY <1>1, TrackUpdate
<1>3. Types'
  BY <1>1, <1>2 DEF HistInv, Types
<1>4. OwnedHolds'
  BY <1>1, OwnedFrame DEF HistInv
<1>5. SearchHolds'
  <2> SUFFICES ASSUME NEW s \in Streams, NEW t \in Tracks
               PROVE  /\ db'[s][t].cursor <= first[s][t]
                      /\ db'[s][t].earliest \in {NoBar, first[s][t]}
                      /\ db'[s][t].earliest # NoBar => db'[s][t].cursor = NoBar
                      /\ db'[s][t].earliest < now
    BY <1>1 DEF SearchHolds, SearchSkipsNothing
  <2>1. CASE s = pass.stream /\ t = pass.track
    BY <1>2, <2>1
  <2>2. CASE ~(s = pass.stream /\ t = pass.track)
    <3>1. db'[s][t] = db[s][t]
      BY <1>2, <2>2
    <3> QED
      BY <3>1 DEF HistInv, SearchHolds, SearchSkipsNothing
  <2> QED
    BY <2>1, <2>2
<1>6. StoredHolds'
  <2>1. \A s \in Streams, t \in Tracks :
            \A b \in db'[s][t].bars : b < now \/ b \in db[s][t].bars
    <3> SUFFICES ASSUME NEW s \in Streams, NEW t \in Tracks, NEW b \in db'[s][t].bars
                 PROVE  b < now \/ b \in db[s][t].bars
      OBVIOUS
    <3>1. CASE s = pass.stream /\ t = pass.track
      BY <1>2, <3>1 DEF Track, Row
    <3>2. CASE ~(s = pass.stream /\ t = pass.track)
      BY <1>2, <3>2
    <3> QED
      BY <3>1, <3>2
  <2>2. "candles" \in Tracks /\ "oi" \in Tracks
    BY DEF Tracks
  <2>3. \A s \in Streams, t \in Tracks : db'[s][t].bars \in SUBSET Int
    BY <1>2, TrackFields, TimeAssumption DEF Bars
  <2> QED
    BY <1>1, <2>1, <2>2, <2>3 DEF HistInv, StoredHolds
<1>7. QueueHolds'
  <2>1. \A s \in Streams : Queued(s) => s # pass.stream
    BY <1>1 DEF HistInv, OwnedHolds, Working
  <2> QED
    BY <1>1, <1>2, <2>1, QueueFrame DEF HistInv
<1> QED
  BY <1>3, <1>4, <1>5, <1>6, <1>7 DEF HistInv

\* The probed window: it begins at or below the first bar REST has.
LEMMA ProbeFacts ==
    ASSUME HistInv, InPass, pass.pc = "probe", pass.at < pass.end
    PROVE  /\ ProbeEnd \in 0..MaxNow /\ pass.at < ProbeEnd /\ ProbeEnd <= now
           /\ ProbeAnswer = {} => ProbeEnd <= first[pass.stream][pass.track]
           /\ \A bar \in ProbeAnswer :
                 (\A b \in ProbeAnswer : bar <= b) =>
                     bar = first[pass.stream][pass.track] /\ bar < now
<1> DEFINE f == first[pass.stream][pass.track]
<1>1. /\ f \in Nat /\ now \in 1..MaxNow /\ pass.at \in 0..MaxNow /\ pass.end \in 0..MaxNow
      /\ pass.end <= now /\ pass.at <= f
  BY PassContext, PassFields, SearchFacts DEF HistInv, PassHolds, PassSearches
<1>2. WindowSize \in Nat \ {0}
  BY BudgetAssumption DEF WindowSize
<1>3. ProbeEnd \in 0..MaxNow /\ pass.at < ProbeEnd /\ ProbeEnd <= now
  BY <1>1, <1>2, TimeAssumption DEF ProbeEnd
<1>4. ProbeAnswer = (f..(now - 1)) \cap (pass.at..(ProbeEnd - 1))
  BY DEF ProbeAnswer, Available
<1> HIDE DEF f
<1>5. f < ProbeEnd => f \in ProbeAnswer
  BY <1>1, <1>3, <1>4
<1>6. ASSUME NEW bar \in ProbeAnswer, \A b \in ProbeAnswer : bar <= b
      PROVE  bar = f /\ bar < now
  <2>1. bar \in Int /\ f <= bar /\ bar < now /\ bar < ProbeEnd
    BY <1>1, <1>3, <1>4
  <2>2. f \in ProbeAnswer
    BY <1>1, <1>3, <1>5, <2>1
  <2> QED
    BY <1>1, <1>6, <2>1, <2>2
<1> QED
  BY <1>1, <1>3, <1>5, <1>6 DEF f

\* A probe finds the first bar, or moves the cursor to the end of its window.
LEMMA ProbeHolds == HistInv /\ Probe => HistInv'
<1> SUFFICES ASSUME HistInv, Probe PROVE HistInv'
  OBVIOUS
<1>1. pass.pc = "probe" /\ pass.at < pass.end /\ InPass
  BY DEF Probe, At
<1>2. /\ now' = now /\ first' = first /\ bootNow' = bootNow /\ db \in Tables
      /\ pass \in Passes /\ now \in 1..MaxNow /\ pass.stream \in Streams /\ pass.track \in Tracks
      /\ "candles" \in Tracks
  BY <1>1, PassContext
<1>3. /\ Track \in TrackRow /\ Track = db[pass.stream][pass.track]
      /\ first[pass.stream][pass.track] \in Nat /\ Track.bars \in SUBSET Bars
      /\ Track.earliest < now
  BY <1>1, SearchFacts
<1>4. Track.earliest = NoBar
  BY <1>1 DEF HistInv, PassHolds, PassSearches
<1>5. /\ ProbeEnd \in 0..MaxNow /\ pass.at < ProbeEnd /\ ProbeEnd <= now
      /\ ProbeAnswer = {} => ProbeEnd <= first[pass.stream][pass.track]
      /\ \A bar \in ProbeAnswer :
            (\A b \in ProbeAnswer : bar <= b) =>
                bar = first[pass.stream][pass.track] /\ bar < now
  BY <1>1, ProbeFacts
<1>6. CASE /\ ProbeAnswer = {}
           /\ db' = [db EXCEPT ![pass.stream][pass.track] = AdvanceDiscovery(@)]
           /\ pass' = [pass EXCEPT !.at = ProbeEnd, !.used = @ + 1]
  <2> DEFINE stop == ProbeEnd
             new == [Track EXCEPT !.cursor = stop]
  <2>1. stop \in 0..MaxNow /\ stop <= first[pass.stream][pass.track]
    BY <1>5, <1>6
  <2>2. pass' = [pass EXCEPT !.at = stop, !.used = @ + 1]
    BY <1>6
  <2>3. db' = WithTrack(db, pass.stream, pass.track, new)
    BY <1>3, <1>6 DEF WithTrack, AdvanceDiscovery
  <2> HIDE DEF stop
  <2>4. /\ new \in TrackRow /\ new.cursor = stop /\ new.earliest = Track.earliest
        /\ new.bars = Track.bars
    BY <1>3, <2>1 DEF TrackRow
  <2> HIDE DEF new
  <2>5. pass.used + 1 \in Nat
    BY <1>2, PassFields
  <2>6. /\ pass' \in Passes /\ pass'.pc = pass.pc /\ pass'.stream = pass.stream
        /\ pass'.track = pass.track /\ pass'.window = pass.window /\ pass'.kept = pass.kept
        /\ pass'.at = stop /\ pass'.end = pass.end
    BY <1>2, <2>1, <2>2, <2>5 DEF Passes
  <2>7. /\ db'[pass.stream][pass.track] = new /\ db'[pass.stream].state = db[pass.stream].state
        /\ \A u \in Tracks \ {pass.track} : db'[pass.stream][u] = db[pass.stream][u]
    BY <1>2, <2>3, <2>4, TrackUpdate
  <2>8. db'[pass.stream]["candles"].bars = db[pass.stream]["candles"].bars
    BY <1>2, <1>3, <2>4, <2>7
  <2>9. PassSearches'
    BY <1>1, <1>2, <1>4, <2>1, <2>4, <2>6, <2>7
    DEF HistInv, PassHolds, PassSearches, Track, Row
  <2>10. PassStates'
    BY <1>1, <2>6, <2>7 DEF HistInv, PassHolds, PassStates, Row
  <2>11. PassWindows'
    BY <1>1, <1>2, <2>6, <2>8 DEF HistInv, PassHolds, PassWindows, Pinned, Auditing
  <2>12. PassPoints'
    BY <1>1, <2>6 DEF PassPoints, Auditing
  <2>13. PassProves'
    BY <1>1, <1>2, <2>6, <2>8 DEF HistInv, PassHolds, PassProves, Whole
  <2>14. PassHolds'
    BY <2>9, <2>10, <2>11, <2>12, <2>13 DEF PassHolds
  <2>15. new.earliest = NoBar /\ new.cursor <= first[pass.stream][pass.track]
    BY <1>4, <2>1, <2>4
  <2>16. new.earliest < now /\ \A b \in new.bars : b < now \/ b \in Track.bars
    BY <1>3, <2>4
  <2>17. pass'.pc # "idle" /\ pass.pc # "idle"
    BY <1>1, <2>6
  <2> QED
    BY <1>1, <2>3, <2>4, <2>6, <2>14, <2>15, <2>16, <2>17, TrackStep
<1>7. CASE \E bar \in ProbeAnswer :
             /\ \A b \in ProbeAnswer : bar <= b
             /\ db' = [db EXCEPT ![pass.stream][pass.track] = Resolve(@, bar)]
             /\ pass' = [pass EXCEPT !.pc = "pin", !.at = 0, !.end = 0, !.used = 0]
  <2>1. PICK bar \in ProbeAnswer :
             /\ \A b \in ProbeAnswer : bar <= b
             /\ db' = [db EXCEPT ![pass.stream][pass.track] = Resolve(@, bar)]
             /\ pass' = [pass EXCEPT !.pc = "pin", !.at = 0, !.end = 0, !.used = 0]
    BY <1>7
  <2> DEFINE new == [Track EXCEPT !.earliest = bar, !.cursor = NoBar]
  <2>2. bar = first[pass.stream][pass.track] /\ bar < now /\ bar \in Bars /\ bar # NoBar
        /\ NoBar <= bar
    BY <1>2, <1>3, <1>5, <2>1, TimeAssumption DEF Bars, NoBar
  <2>3. db' = WithTrack(db, pass.stream, pass.track, new)
    BY <1>3, <2>1 DEF WithTrack, Resolve
  <2>4. /\ new \in TrackRow /\ new.cursor = NoBar /\ new.earliest = bar /\ new.bars = Track.bars
    BY <1>3, <2>2 DEF TrackRow
  <2> HIDE DEF new
  <2>5. 0 \in 0..MaxNow
    BY TimeAssumption
  <2>6. /\ pass' \in Passes /\ pass'.pc = "pin" /\ pass'.stream = pass.stream
        /\ pass'.track = pass.track /\ pass'.window = pass.window /\ pass'.kept = pass.kept
    BY <1>2, <2>1, <2>5 DEF Passes
  <2>7. /\ db'[pass.stream][pass.track] = new /\ db'[pass.stream].state = db[pass.stream].state
        /\ \A u \in Tracks \ {pass.track} : db'[pass.stream][u] = db[pass.stream][u]
    BY <1>2, <2>3, <2>4, TrackUpdate
  <2>8. db'[pass.stream]["candles"].bars = db[pass.stream]["candles"].bars
    BY <1>2, <1>3, <2>4, <2>7
  <2>9. PassSearches'
    BY <2>2, <2>4, <2>6, <2>7 DEF PassSearches, Track, Row
  <2>10. PassStates'
    BY <1>1, <2>6, <2>7 DEF HistInv, PassHolds, PassStates, Row
  <2>11. PassWindows'
    BY <1>1, <1>2, <2>6, <2>8 DEF HistInv, PassHolds, PassWindows, Pinned, Auditing
  <2>12. PassPoints'
    BY <1>1, <2>6 DEF PassPoints, Auditing
  <2>13. PassProves'
    BY <1>1, <1>2, <2>6, <2>8 DEF HistInv, PassHolds, PassProves, Whole
  <2>14. PassHolds'
    BY <2>9, <2>10, <2>11, <2>12, <2>13 DEF PassHolds
  <2>15. /\ new.earliest \in {NoBar, first[pass.stream][pass.track]} /\ new.cursor = NoBar
         /\ new.cursor <= first[pass.stream][pass.track] /\ new.earliest < now
         /\ \A b \in new.bars : b < now \/ b \in Track.bars
    BY <2>2, <2>4
  <2>16. pass'.pc # "idle" /\ pass.pc # "idle"
    BY <1>1, <2>6
  <2> QED
    BY <1>1, <2>3, <2>4, <2>6, <2>14, <2>15, <2>16, TrackStep
<1> QED
  BY <1>6, <1>7 DEF Probe

\* An exception on the candles' track, with the state it leaves the lifecycle in.
LEMMA ThrownHolds ==
    ASSUME HistInv, InPass, pass.pc \notin {"idle", "raised"}, pass.track = "candles",
           db' \in Tables, \A r \in Streams, t \in Tracks : db'[r][t] = db[r][t],
           NEW class \in {"fatal", "recoverable"}, NEW window \in Windows,
           pass' = Thrown(pass, class, window),
           \/ window = pass.window
           \/ window = pass.kept /\ pass.window = NoWindow,
           \/ class = "fatal" /\ db'[pass.stream].state \in {"bootstrapping", "failed"}
           \/ class = "recoverable" /\ db'[pass.stream].state \in {"bootstrapping", "degraded"}
    PROVE  HistInv'
<1>1. class \in Classes
  BY DEF Classes
<1>2. /\ pass' \in Passes /\ pass'.pc = "record_failure" /\ pass'.stream = pass.stream
      /\ pass'.track = "candles" /\ pass'.window = pass.window /\ pass'.kept = window
      /\ pass'.class = class
  BY <1>1, PassContext, ThrownFields
<1>3. /\ now' = now /\ first' = first /\ bootNow' = bootNow
      /\ pass.stream \in Streams /\ "candles" \in Tracks
  BY PassContext
<1>4. db'[pass.stream]["candles"] = db[pass.stream]["candles"]
  BY <1>3
<1>5. PassSearches'
  BY <1>2 DEF PassSearches
<1>6. PassStates'
  BY <1>2 DEF PassStates, Row
<1>7. PassWindows'
  BY <1>2, <1>3, <1>4 DEF HistInv, PassHolds, PassWindows, Pinned, Auditing
<1>8. PassPoints'
  BY <1>2 DEF PassPoints
<1>9. PassProves'
  BY <1>2 DEF PassProves
<1>10. PassHolds'
  BY <1>5, <1>6, <1>7, <1>8, <1>9 DEF PassHolds
<1> QED
  BY <1>2, <1>10, MoveHolds

\* A probe fails: cursor and bound stay.
LEMMA ResolveFailsHolds ==
    ASSUME HistInv, NEW fault \in Faults, ResolveFails(fault)
    PROVE  HistInv'
<1>1. pass.pc = "probe" /\ db' = db /\ InPass /\ Fails(fault, pass.kept)
  BY DEF ResolveFails, At
<1>2. /\ fault \in {"fatal", "recoverable"} /\ fault \in Classes \ {"connecting"}
      /\ db \in Tables /\ pass.window \in Windows /\ pass.kept \in Windows
      /\ pass.track \in Tracks /\ NoMarker \in Markers
  BY <1>1, HistoricalFaultAssumption, PassContext, IdleFacts DEF Classes
<1>3. CASE OnPoints
  <2>1. pass' = Finished(pass, fault, pass.window, NoMarker)
    BY <1>1, <1>3 DEF Fails, Held, Outcome, Finished
  <2> QED
    BY <1>1, <1>2, <2>1, UnprovenEnd
<1>4. CASE ~OnPoints
  <2>1. pass' = Thrown(pass, fault, pass.kept) /\ pass.track = "candles"
    BY <1>1, <1>2, <1>4 DEF Fails, Raises, Thrown, OnPoints, Tracks
  <2>2. pass.window = NoWindow /\ db[pass.stream].state = "bootstrapping"
    BY <1>1, <2>1 DEF HistInv, PassHolds, PassWindows, PassStates, Row
  <2>3. \/ fault = "fatal" /\ db'[pass.stream].state \in {"bootstrapping", "failed"}
        \/ fault = "recoverable" /\ db'[pass.stream].state \in {"bootstrapping", "degraded"}
    BY <1>1, <1>2, <2>2
  <2> QED
    BY <1>1, <1>2, <2>1, <2>2, <2>3, ThrownHolds
<1> QED
  BY <1>3, <1>4

-----------------------------------------------------------------------------
(* The pass: the interval.                                                 *)

\* The pass pins the interval of the candles at the clock it sees.
LEMMA PinWindowHolds == HistInv /\ PinWindow => HistInv'
<1> SUFFICES ASSUME HistInv, PinWindow PROVE HistInv'
  OBVIOUS
<1>1. pass.pc = "pin" /\ pass.track # "oi" /\ db' = db /\ InPass
  BY DEF PinWindow, At, OnPoints
<1>2. /\ now' = now /\ first' = first /\ bootNow' = bootNow /\ db \in Tables
      /\ pass \in Passes /\ now \in 1..MaxNow /\ bootNow \in 1..now
      /\ pass.stream \in Streams /\ pass.track \in Tracks
  BY <1>1, PassContext
<1>3. pass.track = "candles"
  BY <1>1, <1>2 DEF Tracks
<1> DEFINE f == first[pass.stream]["candles"]
           w == [start |-> f, end |-> now]
<1>4. Track.earliest = f /\ f \in Nat /\ f < now
  BY <1>1, <1>3, SearchFacts DEF HistInv, PassHolds, PassSearches
<1>5. pass' = [pass EXCEPT !.pc = "mark_auditing", !.window = w]
  BY <1>2, <1>4 DEF PinWindow, TargetEnd
<1>6. w \in Windows /\ w.start = f /\ w.end = now
  BY <1>2, <1>4, TimeAssumption DEF Windows
<1>7. w # NoWindow
  BY <1>2, <1>6 DEF NoWindow
<1>8. IsPinned(w, f, bootNow, now, db[pass.stream]["candles"].bars)
  BY <1>2, <1>4, <1>6 DEF HistInv, StoredHolds, IsPinned
<1> HIDE DEF w, f
<1>9. /\ pass' \in Passes /\ pass'.pc = "mark_auditing" /\ pass'.stream = pass.stream
      /\ pass'.track = pass.track /\ pass'.window = w /\ pass'.kept = pass.kept
  BY <1>2, <1>5, <1>6 DEF Passes
<1>10. pass.kept = NoWindow
  BY <1>1, <1>3 DEF HistInv, PassHolds, PassWindows
<1>11. PassSearches'
  BY <1>9 DEF PassSearches
<1>12. PassStates'
  BY <1>1, <1>3, <1>9 DEF HistInv, PassHolds, PassStates, Row
<1>13. PassWindows'
  BY <1>1, <1>2, <1>3, <1>7, <1>8, <1>9, <1>10 DEF PassWindows, Pinned, Auditing, f
<1>14. PassPoints'
  BY <1>3, <1>9 DEF PassPoints
<1>15. PassProves'
  BY <1>3, <1>9 DEF PassProves
<1>16. PassHolds'
  BY <1>11, <1>12, <1>13, <1>14, <1>15 DEF PassHolds
<1> QED
  BY <1>1, <1>2, <1>9, <1>16, MoveHolds

\* The pass derives the interval of the points at the clock it sees.
LEMMA PointsWindowHolds == HistInv /\ PointsWindow => HistInv'
<1> SUFFICES ASSUME HistInv, PointsWindow PROVE HistInv'
  OBVIOUS
<1>1. pass.pc = "pin" /\ pass.track = "oi" /\ db' = db /\ InPass
  BY DEF PointsWindow, At, OnPoints
<1>2. /\ now' = now /\ first' = first /\ bootNow' = bootNow /\ db \in Tables
      /\ pass \in Passes /\ now \in 1..MaxNow /\ bootNow \in 1..now
      /\ pass.stream \in Streams
  BY <1>1, PassContext
<1> DEFINE f == first[pass.stream]["oi"]
<1>3. Track.earliest = f /\ f \in Nat /\ f < now
  BY <1>1, SearchFacts DEF HistInv, PassHolds, PassSearches
<1>4. pass' = [pass EXCEPT !.pc = "preaudit", !.at = f, !.end = now]
  BY <1>2, <1>3 DEF PointsWindow, TargetEnd
<1>5. f \in 0..MaxNow /\ now \in 0..MaxNow
  BY <1>2, <1>3, TimeAssumption
<1>6. process # "down" /\ pass.stream \notin admitted
  BY <1>1, <1>2 DEF HistInv, OwnedHolds, Working
<1>7. \A b \in db[pass.stream]["oi"].bars : b < now \/ b <= bootNow
  BY <1>2, <1>6 DEF HistInv, StoredHolds
<1> HIDE DEF f
<1>8. /\ pass' \in Passes /\ pass'.pc = "preaudit" /\ pass'.stream = pass.stream
      /\ pass'.track = pass.track /\ pass'.window = pass.window /\ pass'.kept = pass.kept
      /\ pass'.at = f /\ pass'.end = now
  BY <1>2, <1>4, <1>5 DEF Passes
<1>9. PassSearches'
  BY <1>8 DEF PassSearches
<1>10. PassStates'
  BY <1>1, <1>8 DEF HistInv, PassHolds, PassStates, Row
<1>11. PassWindows'
  BY <1>1, <1>2, <1>8 DEF HistInv, PassHolds, PassWindows, Pinned, Auditing
<1>12. PassPoints'
  BY <1>1, <1>2, <1>3, <1>7, <1>8 DEF PassPoints, f
<1>13. PassProves'
  BY <1>1, <1>2, <1>8 DEF HistInv, PassHolds, PassProves, Whole
<1>14. PassHolds'
  BY <1>9, <1>10, <1>11, <1>12, <1>13 DEF PassHolds
<1> QED
  BY <1>1, <1>2, <1>8, <1>14, MoveHolds

\* The stream enters `auditing`.
LEMMA MarkAuditingHolds == HistInv /\ MarkAuditing => HistInv'
<1> SUFFICES ASSUME HistInv, MarkAuditing PROVE HistInv'
  OBVIOUS
<1>1. pass.pc = "mark_auditing" /\ InPass
  BY DEF MarkAuditing, At
<1>2. /\ now' = now /\ first' = first /\ bootNow' = bootNow /\ db \in Tables
      /\ pass \in Passes /\ pass.stream \in Streams /\ "candles" \in Tracks
      /\ pass.track = "candles" /\ Row.state = "bootstrapping"
  BY <1>1, PassContext DEF HistInv, PassHolds, PassStates
<1>3. MoveTo("auditing", "preaudit")
  BY <1>2 DEF MarkAuditing
<1>4. CanTransition(Row.state, "auditing") /\ "auditing" \in LifecycleStates
  BY <1>2, LegalSteps DEF LifecycleStates
<1>5. /\ db' \in Tables /\ db'[pass.stream].state = "auditing"
      /\ \A r \in Streams, t \in Tracks : db'[r][t] = db[r][t]
      /\ pass' = Went(pass, "preaudit")
  BY <1>2, <1>3, <1>4, MovedRow
<1>6. /\ pass' \in Passes /\ pass'.pc = "preaudit" /\ pass'.stream = pass.stream
      /\ pass'.track = pass.track /\ pass'.window = pass.window /\ pass'.kept = pass.kept
  BY <1>2, <1>5, WentFields DEF PassSteps
<1>7. PassSearches'
  BY <1>6 DEF PassSearches
<1>8. PassStates'
  BY <1>2, <1>5, <1>6 DEF PassStates, Row
<1>9. PassWindows'
  BY <1>1, <1>2, <1>5, <1>6 DEF HistInv, PassHolds, PassWindows, Pinned, Auditing
<1>10. PassPoints'
  BY <1>2, <1>6 DEF PassPoints
<1>11. PassProves'
  BY <1>2, <1>6 DEF PassProves
<1>12. PassHolds'
  BY <1>7, <1>8, <1>9, <1>10, <1>11 DEF PassHolds
<1> QED
  BY <1>1, <1>5, <1>6, <1>12, MoveHolds

-----------------------------------------------------------------------------
(* The pass: the audit and the repair of the interval.                     *)

\* The interval that the audit is about.
Goal == IF OnPoints THEN pass.at..(pass.end - 1)
        ELSE pass.window.start..(pass.window.end - 1)

\* The audited interval begins with the first bar and reaches the start of the
\* process; no bar lies beyond it, but for a point of the bar open at the start.
LEMMA GoalFacts ==
    ASSUME HistInv, InPass, pass.pc \in Auditing
    PROVE  \E start, end \in 0..MaxNow :
              /\ Goal = start..(end - 1) /\ start = first[pass.stream][pass.track]
              /\ start < end /\ bootNow <= end /\ end <= now
              /\ \A b \in Track.bars : b < end \/ b <= bootNow
              /\ end = IF OnPoints THEN pass.end ELSE pass.window.end
              /\ pass.pc \in {"to_repairing", "repair"} => \A b \in pass.todo : b < end
<1>1. /\ pass \in Passes /\ pass.track \in Tracks /\ pass.window \in Windows
      /\ pass.at \in 0..MaxNow /\ pass.end \in 0..MaxNow
  BY PassContext, PassFields
<1>2. CASE pass.track = "oi"
  <2>1. /\ pass.at = first[pass.stream]["oi"] /\ pass.at < pass.end
        /\ bootNow <= pass.end /\ pass.end <= now
        /\ \A b \in db[pass.stream]["oi"].bars : b < pass.end \/ b <= bootNow
        /\ pass.pc \in {"to_repairing", "repair"} => \A b \in pass.todo : b < pass.end
    BY <1>2 DEF HistInv, PassHolds, PassPoints
  <2>2. Goal = pass.at..(pass.end - 1) /\ OnPoints
    BY <1>2 DEF Goal, OnPoints
  <2> QED
    BY <1>1, <1>2, <2>1, <2>2 DEF Track, Row
<1>3. CASE pass.track = "candles"
  <2>1. pass.window # NoWindow
    BY <1>3 DEF HistInv, PassHolds, PassWindows
  <2>2. IsPinned(pass.window, first[pass.stream]["candles"], bootNow, now,
                 db[pass.stream]["candles"].bars)
    BY <2>1 DEF HistInv, PassHolds, PassWindows, Pinned
  <2>3. pass.window.start \in 0..MaxNow /\ pass.window.end \in 0..MaxNow
    BY <1>1, WindowFields
  <2>4. Goal = pass.window.start..(pass.window.end - 1) /\ ~OnPoints
    BY <1>3 DEF Goal, OnPoints
  <2>5. pass.pc \in {"to_repairing", "repair"} => \A b \in pass.todo : b < pass.window.end
    BY <1>3 DEF HistInv, PassHolds, PassWindows
  <2> QED
    BY <1>3, <2>2, <2>3, <2>4, <2>5 DEF IsPinned, Track, Row
<1> QED
  BY <1>1, <1>2, <1>3 DEF Tracks

\* What the audit finds missing lies inside the interval of the track.
LEMMA MissingFacts ==
    ASSUME HistInv, InPass, pass.pc \in Auditing
    PROVE  /\ Missing = Goal \ Track.bars /\ Missing \in SUBSET Bars
           /\ \A b \in Missing : b < IF OnPoints THEN pass.end ELSE pass.window.end
<1>1. Missing = Goal \ Track.bars
  BY DEF Missing, Goal
<1>2. PICK start, end \in 0..MaxNow :
         /\ Goal = start..(end - 1) /\ end <= now
         /\ end = IF OnPoints THEN pass.end ELSE pass.window.end
  BY GoalFacts
<1> QED
  BY <1>1, <1>2, TimeAssumption DEF Bars

\* Nothing is missing in the interval: the track is whole.
LEMMA NothingMissing ==
    ASSUME HistInv, InPass, pass.pc \in Auditing, Missing = {}
    PROVE  Whole(pass.stream, pass.track)
<1>1. PICK start, end \in 0..MaxNow :
         /\ Goal = start..(end - 1) /\ start = first[pass.stream][pass.track]
         /\ start < end /\ bootNow <= end /\ end <= now
         /\ \A b \in Track.bars : b < end \/ b <= bootNow
  BY GoalFacts
<1>2. start..(end - 1) \subseteq Track.bars
  BY <1>1, MissingFacts
<1>3. Track.bars \in SUBSET Bars /\ Track = db[pass.stream][pass.track] /\ bootNow \in 1..now
      /\ now \in 1..MaxNow
  BY SearchFacts, PassContext
<1>4. start \in Track.bars
  BY <1>1, <1>2
<1>5. start..(bootNow - 1) \subseteq Track.bars
  BY <1>1, <1>2, <1>3
<1>6. ASSUME NEW b \in Track.bars, NEW c \in start..b PROVE c \in Track.bars
  <2>1. b \in Int /\ b <= end
    BY <1>1, <1>3, TimeAssumption DEF Bars
  <2>2. CASE c = b
    BY <1>6, <2>2
  <2>3. CASE c < b
    <3>1. c \in start..(end - 1)
      BY <1>1, <1>6, <2>1, <2>3
    <3> QED
      BY <1>2, <3>1
  <2> QED
    BY <1>6, <2>1, <2>2, <2>3
<1> QED
  BY <1>1, <1>3, <1>4, <1>5, <1>6 DEF Whole, IsWhole

\* The audit finds nothing missing: on to the second track, or to the end.
LEMMA ProvenHolds ==
    ASSUME HistInv, InPass, db' = db, pass.pc \in {"preaudit", "postaudit"},
           Missing = {}, TrackProven
    PROVE  HistInv'
<1>1. /\ now' = now /\ first' = first /\ bootNow' = bootNow /\ db \in Tables
      /\ pass \in Passes /\ pass.stream \in Streams /\ pass.track \in Tracks
  BY PassContext
<1>2. pass.pc \in Auditing /\ 0 \in 0..MaxNow
  BY TimeAssumption DEF Auditing
<1>3. Whole(pass.stream, pass.track) /\ Row.state = "auditing"
  BY <1>2, NothingMissing DEF HistInv, PassHolds, PassStates
<1>4. CASE pass.track = "oi"
  <2>1. pass' = [pass EXCEPT !.pc = "connect", !.at = 0, !.end = 0, !.used = 0]
    BY <1>4 DEF TrackProven, OnPoints
  <2>2. /\ pass' \in Passes /\ pass'.pc = "connect" /\ pass'.stream = pass.stream
        /\ pass'.track = pass.track /\ pass'.window = pass.window /\ pass'.kept = pass.kept
    BY <1>1, <1>2, <2>1 DEF Passes
  <2>3. PassSearches'
    BY <2>2 DEF PassSearches
  <2>4. PassStates'
    BY <1>3, <1>4, <2>2 DEF HistInv, PassHolds, PassStates, Row
  <2>5. PassWindows'
    BY <1>1, <1>2, <1>4, <2>2 DEF HistInv, PassHolds, PassWindows, Pinned, Auditing
  <2>6. PassPoints'
    BY <2>2 DEF PassPoints, Auditing
  <2>7. PassProves'
    <3>1. Whole(pass.stream, "candles") /\ Whole(pass.stream, "oi")
      BY <1>3, <1>4 DEF HistInv, PassHolds, PassProves
    <3>2. \A t \in TracksOf(pass.stream) : t \in {"candles", "oi"}
      BY DEF TracksOf, Tracks
    <3> QED
      BY <1>1, <2>2, <3>1, <3>2 DEF PassProves, Whole
  <2>8. PassHolds'
    BY <2>3, <2>4, <2>5, <2>6, <2>7 DEF PassHolds
  <2> QED
    BY <1>1, <2>2, <2>8, MoveHolds
<1>5. CASE pass.track = "candles" /\ pass.stream \in OIStreams
  <2>1. pass' = [pass EXCEPT !.pc = "resolve", !.used = 0, !.track = "oi"]
    BY <1>5 DEF TrackProven, OnPoints, AfterCandles
  <2>2. /\ pass' \in Passes /\ pass'.pc = "resolve" /\ pass'.stream = pass.stream
        /\ pass'.track = "oi" /\ pass'.window = pass.window /\ pass'.kept = pass.kept
    BY <1>1, <2>1 DEF Passes, Tracks
  <2>3. PassSearches'
    BY <2>2 DEF PassSearches
  <2>4. PassStates'
    BY <1>3, <1>5, <2>2 DEF PassStates, Row
  <2>5. PassWindows'
    BY <1>1, <1>2, <1>5, <2>2 DEF HistInv, PassHolds, PassWindows, Pinned, Auditing
  <2>6. PassPoints'
    BY <2>2 DEF PassPoints, Auditing
  <2>7. PassProves'
    BY <1>1, <1>3, <1>5, <2>2 DEF PassProves, Whole
  <2>8. PassHolds'
    BY <2>3, <2>4, <2>5, <2>6, <2>7 DEF PassHolds
  <2> QED
    BY <1>1, <2>2, <2>8, MoveHolds
<1>6. CASE pass.track = "candles" /\ pass.stream \notin OIStreams
  <2>1. pass' = [pass EXCEPT !.pc = "connect", !.used = 0, !.track = @]
    BY <1>6 DEF TrackProven, OnPoints, AfterCandles
  <2>2. /\ pass' \in Passes /\ pass'.pc = "connect" /\ pass'.stream = pass.stream
        /\ pass'.track = "candles" /\ pass'.window = pass.window /\ pass'.kept = pass.kept
    BY <1>1, <1>6, <2>1 DEF Passes
  <2>3. PassSearches'
    BY <2>2 DEF PassSearches
  <2>4. PassStates'
    BY <1>3, <1>6, <2>2 DEF PassStates, Row
  <2>5. PassWindows'
    BY <1>1, <1>2, <1>6, <2>2 DEF HistInv, PassHolds, PassWindows, Pinned, Auditing
  <2>6. PassPoints'
    BY <2>2 DEF PassPoints, Auditing
  <2>7. PassProves'
    <3>1. TracksOf(pass.stream) = {"candles"}
      BY <1>6 DEF TracksOf
    <3> QED
      BY <1>1, <1>3, <1>6, <2>2, <3>1 DEF PassProves, Whole
  <2>8. PassHolds'
    BY <2>3, <2>4, <2>5, <2>6, <2>7 DEF PassHolds
  <2> QED
    BY <1>1, <2>2, <2>8, MoveHolds
<1> QED
  BY <1>1, <1>4, <1>5, <1>6 DEF Tracks

\* The first audit proves the track or plans its repair.
LEMMA PreAuditHolds == HistInv /\ PreAudit => HistInv'
<1> SUFFICES ASSUME HistInv, PreAudit PROVE HistInv'
  OBVIOUS
<1>1. pass.pc = "preaudit" /\ db' = db /\ InPass /\ pass.pc \in Auditing
  BY DEF PreAudit, At, Auditing
<1>2. CASE Missing = {}
  BY <1>1, <1>2, ProvenHolds DEF PreAudit
<1>3. CASE Missing # {}
  <2>1. pass' = [pass EXCEPT !.pc = "to_repairing", !.todo = Missing, !.used = 0]
    BY <1>3 DEF PreAudit
  <2> DEFINE todo == Missing
  <2>2. /\ todo \in SUBSET Bars
        /\ \A b \in todo : b < IF OnPoints THEN pass.end ELSE pass.window.end
    BY <1>1, MissingFacts
  <2>3. pass' = [pass EXCEPT !.pc = "to_repairing", !.todo = todo, !.used = 0]
    BY <2>1
  <2> HIDE DEF todo
  <2>4. /\ now' = now /\ first' = first /\ bootNow' = bootNow /\ db \in Tables
        /\ pass \in Passes /\ pass.stream \in Streams /\ pass.track \in Tracks
    BY <1>1, PassContext
  <2>5. /\ pass' \in Passes /\ pass'.pc = "to_repairing" /\ pass'.stream = pass.stream
        /\ pass'.track = pass.track /\ pass'.window = pass.window /\ pass'.kept = pass.kept
        /\ pass'.at = pass.at /\ pass'.end = pass.end /\ pass'.todo = todo
    BY <2>2, <2>3, <2>4 DEF Passes
  <2>6. PassSearches'
    BY <2>5 DEF PassSearches
  <2>7. PassStates'
    BY <1>1, <2>5 DEF HistInv, PassHolds, PassStates, Row
  <2>8. PassWindows'
    BY <1>1, <2>2, <2>4, <2>5 DEF HistInv, PassHolds, PassWindows, Pinned, Auditing, OnPoints
  <2>9. PassPoints'
    BY <1>1, <2>2, <2>4, <2>5 DEF HistInv, PassHolds, PassPoints, OnPoints
  <2>10. PassProves'
    BY <1>1, <2>4, <2>5 DEF HistInv, PassHolds, PassProves, Whole
  <2>11. PassHolds'
    BY <2>6, <2>7, <2>8, <2>9, <2>10 DEF PassHolds
  <2> QED
    BY <1>1, <2>4, <2>5, <2>11, MoveHolds
<1> QED
  BY <1>2, <1>3

\* The recorder's moves, of either track.
LEMMA RecorderHolds ==
    ASSUME HistInv, InPass, NEW state \in LifecycleStates, NEW next \in PassSteps,
           RecorderMoves(state, next),
           \/ pass.pc = "to_repairing" /\ state = "repairing" /\ next = "repair"
           \/ pass.pc = "repair" /\ state = "auditing" /\ next = "postaudit"
    PROVE  HistInv'
<1>1. /\ now' = now /\ first' = first /\ bootNow' = bootNow /\ db \in Tables
      /\ pass \in Passes /\ pass.stream \in Streams /\ pass.track \in Tracks
      /\ "candles" \in Tracks /\ "oi" \in Tracks
  BY PassContext
<1>2. pass.pc \in Auditing /\ pass.pc # "idle" /\ next \in Auditing /\ next # "idle"
  BY DEF Auditing
<1>3. /\ db' \in Tables /\ \A r \in Streams, t \in Tracks : db'[r][t] = db[r][t]
      /\ pass' = Went(pass, next)
      /\ db'[pass.stream].state = IF pass.track = "oi" THEN db[pass.stream].state ELSE state
  <2>1. CASE pass.track = "oi"
    <3>1. pass' = Went(pass, next) /\ db' = db
      BY <2>1 DEF RecorderMoves, OnPoints, Goto, Went
    <3> QED
      BY <1>1, <2>1, <3>1
  <2>2. CASE pass.track # "oi"
    <3>1. pass.track = "candles"
      BY <1>1, <2>2 DEF Tracks
    <3>2. CanTransition(Row.state, state)
      BY <3>1, LegalSteps DEF HistInv, PassHolds, PassStates
    <3>3. MoveTo(state, next)
      BY <2>2 DEF RecorderMoves, OnPoints
    <3> QED
      BY <1>1, <2>2, <3>2, <3>3, MovedRow
  <2> QED
    BY <2>1, <2>2
<1>4. /\ pass' \in Passes /\ pass'.pc = next /\ pass'.stream = pass.stream
      /\ pass'.track = pass.track /\ pass'.window = pass.window /\ pass'.kept = pass.kept
      /\ pass'.at = pass.at /\ pass'.end = pass.end /\ pass'.todo = pass.todo
  BY <1>1, <1>3, WentFields
<1>5. /\ db'[pass.stream]["candles"] = db[pass.stream]["candles"]
      /\ db'[pass.stream]["oi"] = db[pass.stream]["oi"]
  BY <1>1, <1>3
<1>6. PassSearches'
  BY <1>4 DEF PassSearches
<1>7. PassStates'
  BY <1>1, <1>3, <1>4 DEF HistInv, PassHolds, PassStates, Row, Tracks
<1>8. PassWindows'
  BY <1>1, <1>2, <1>4, <1>5 DEF HistInv, PassHolds, PassWindows, Pinned, Auditing
<1>9. PassPoints'
  BY <1>1, <1>2, <1>4, <1>5 DEF HistInv, PassHolds, PassPoints
<1>10. PassProves'
  BY <1>1, <1>4, <1>5 DEF HistInv, PassHolds, PassProves, Whole
<1>11. PassHolds'
  BY <1>6, <1>7, <1>8, <1>9, <1>10 DEF PassHolds
<1> QED
  BY <1>2, <1>3, <1>4, <1>11, MoveHolds

\* The repair begins, or has used its budget or its plan.
LEMMA RepairEdgesHold == HistInv /\ (TransitionToRepairing \/ RepairEnds) => HistInv'
<1> SUFFICES ASSUME HistInv, TransitionToRepairing \/ RepairEnds PROVE HistInv'
  OBVIOUS
<1>1. CASE TransitionToRepairing
  <2>1. pass.pc = "to_repairing" /\ InPass /\ RecorderMoves("repairing", "repair")
    BY <1>1 DEF TransitionToRepairing, At
  <2> QED
    BY <2>1, RecorderHolds DEF LifecycleStates, PassSteps
<1>2. CASE RepairEnds
  <2>1. pass.pc = "repair" /\ InPass /\ RecorderMoves("auditing", "postaudit")
    BY <1>2 DEF RepairEnds, At
  <2> QED
    BY <2>1, RecorderHolds DEF LifecycleStates, PassSteps
<1> QED
  BY <1>1, <1>2

\* One window is imported: its bars have closed and lie in the interval.
LEMMA RepairWindowHolds ==
    ASSUME HistInv, NEW served, RepairWindow(served)
    PROVE  HistInv'
<1>1. /\ pass.pc = "repair" /\ InPass
      /\ served \subseteq NextWindow \cap Available(pass.stream, pass.track)
      /\ db' = [db EXCEPT ![pass.stream][pass.track].bars = @ \cup served]
      /\ pass' = [pass EXCEPT !.todo = @ \ NextWindow, !.used = @ + 1]
  BY DEF RepairWindow, At
<1>2. /\ now' = now /\ first' = first /\ bootNow' = bootNow /\ db \in Tables
      /\ pass \in Passes /\ now \in 1..MaxNow /\ pass.stream \in Streams /\ pass.track \in Tracks
      /\ "candles" \in Tracks /\ "oi" \in Tracks
  BY <1>1, PassContext
<1>3. /\ Track \in TrackRow /\ Track = db[pass.stream][pass.track]
      /\ first[pass.stream][pass.track] \in Nat /\ Track.bars \in SUBSET Bars
      /\ Track.cursor <= first[pass.stream][pass.track]
      /\ Track.earliest \in {NoBar, first[pass.stream][pass.track]}
      /\ Track.earliest < now
  BY <1>1, SearchFacts
<1>4. pass.todo \in SUBSET Bars /\ pass.used + 1 \in Nat /\ NextWindow \subseteq pass.todo
  BY <1>2, PassFields DEF NextWindow
<1>5. served \subseteq pass.todo /\ \A b \in served : b < now
  BY <1>1, <1>2, <1>3, <1>4 DEF Available
<1> DEFINE todo == pass.todo \ NextWindow
           new == [Track EXCEPT !.bars = @ \cup served]
<1>6. todo \in SUBSET Bars /\ todo \subseteq pass.todo
  BY <1>4
<1>7. pass' = [pass EXCEPT !.todo = todo, !.used = @ + 1]
  BY <1>1
<1>8. db' = WithTrack(db, pass.stream, pass.track, new)
  BY <1>1, <1>3 DEF WithTrack
<1> HIDE DEF todo
<1>9. /\ new \in TrackRow /\ new.cursor = Track.cursor /\ new.earliest = Track.earliest
      /\ new.bars = Track.bars \cup served
  BY <1>3, <1>4, <1>5 DEF TrackRow
<1> HIDE DEF new
<1>10. /\ pass' \in Passes /\ pass'.pc = "repair" /\ pass'.stream = pass.stream
       /\ pass'.track = pass.track /\ pass'.window = pass.window /\ pass'.kept = pass.kept
       /\ pass'.at = pass.at /\ pass'.end = pass.end /\ pass'.todo = todo
  BY <1>1, <1>2, <1>4, <1>6, <1>7 DEF Passes
<1>11. /\ db'[pass.stream][pass.track] = new /\ db'[pass.stream].state = db[pass.stream].state
       /\ \A u \in Tracks \ {pass.track} : db'[pass.stream][u] = db[pass.stream][u]
  BY <1>2, <1>8, <1>9, TrackUpdate
<1>12. PassSearches'
  BY <1>10 DEF PassSearches
<1>13. PassStates'
  BY <1>1, <1>10, <1>11 DEF HistInv, PassHolds, PassStates, Row
<1>14. ASSUME pass.track = "candles" PROVE PassWindows' /\ PassPoints' /\ PassProves'
  <2>1. /\ pass.window # NoWindow /\ pass.kept \in {NoWindow, pass.window}
        /\ \A b \in pass.todo : b < pass.window.end
    BY <1>1, <1>14 DEF HistInv, PassHolds, PassWindows, Auditing
  <2>2. IsPinned(pass.window, first[pass.stream]["candles"], bootNow, now,
                 db[pass.stream]["candles"].bars)
    BY <2>1 DEF HistInv, PassHolds, PassWindows, Pinned
  <2>3. db'[pass.stream]["candles"].bars = db[pass.stream]["candles"].bars \cup served
    BY <1>3, <1>9, <1>11, <1>14
  <2>4. IsPinned(pass.window, first[pass.stream]["candles"], bootNow, now,
                 db'[pass.stream]["candles"].bars)
    BY <1>5, <2>1, <2>2, <2>3 DEF IsPinned
  <2>5. PassWindows'
    BY <1>2, <1>6, <1>10, <1>14, <2>1, <2>4 DEF PassWindows, Pinned
  <2>6. PassPoints'
    BY <1>10, <1>14 DEF PassPoints
  <2>7. PassProves'
    BY <1>10, <1>14 DEF PassProves
  <2> QED
    BY <2>5, <2>6, <2>7
<1>15. ASSUME pass.track = "oi" PROVE PassWindows' /\ PassPoints' /\ PassProves'
  <2>1. db'[pass.stream]["candles"] = db[pass.stream]["candles"]
    BY <1>2, <1>11, <1>15
  <2>2. db'[pass.stream]["oi"].bars = db[pass.stream]["oi"].bars \cup served
    BY <1>3, <1>9, <1>11, <1>15
  <2>3. PassWindows'
    BY <1>1, <1>2, <1>10, <1>15, <2>1 DEF HistInv, PassHolds, PassWindows, Pinned, Auditing
  <2>4. PassPoints'
    BY <1>1, <1>2, <1>5, <1>6, <1>10, <1>15, <2>2 DEF HistInv, PassHolds, PassPoints, Auditing
  <2>5. PassProves'
    BY <1>1, <1>2, <1>10, <2>1 DEF HistInv, PassHolds, PassProves, Whole
  <2> QED
    BY <2>3, <2>4, <2>5
<1>16. PassHolds'
  BY <1>2, <1>12, <1>13, <1>14, <1>15 DEF PassHolds, Tracks
<1>17. /\ new.cursor <= first[pass.stream][pass.track]
       /\ new.earliest \in {NoBar, first[pass.stream][pass.track]}
       /\ new.earliest < now
       /\ \A b \in new.bars : b < now \/ b \in Track.bars
  BY <1>3, <1>5, <1>9
<1>18. new.earliest # NoBar => new.cursor = NoBar
  BY <1>2, <1>3, <1>9 DEF HistInv, SearchHolds, SearchSkipsNothing
<1>19. pass'.pc # "idle" /\ pass.pc # "idle"
  BY <1>1, <1>10
<1> QED
  BY <1>1, <1>8, <1>9, <1>10, <1>16, <1>17, <1>18, <1>19, TrackStep

\* A repair fails: what was imported stays.
LEMMA RepairFailsHolds ==
    ASSUME HistInv, NEW fault \in Faults, RepairFails(fault)
    PROVE  HistInv'
<1>1. pass.pc = "repair" /\ InPass /\ Fails(fault, pass.window)
  BY DEF RepairFails, At
<1>2. /\ fault \in {"fatal", "recoverable"} /\ fault \in Classes \ {"connecting"}
      /\ db \in Tables /\ pass.window \in Windows /\ pass.kept \in Windows
      /\ pass.track \in Tracks /\ NoMarker \in Markers /\ pass.stream \in Streams
  BY <1>1, HistoricalFaultAssumption, PassContext, IdleFacts DEF Classes
<1>3. CASE OnPoints
  <2>1. pass' = Finished(pass, fault, pass.window, NoMarker) /\ db' = db
    BY <1>1, <1>3 DEF Fails, Held, Outcome, Finished, RepairFails
  <2> QED
    BY <1>1, <1>2, <2>1, UnprovenEnd
<1>4. CASE ~OnPoints
  <2> DEFINE state == IF fault = "fatal" THEN "failed" ELSE "degraded"
  <2>1. pass' = Thrown(pass, fault, pass.window) /\ pass.track = "candles"
    BY <1>1, <1>2, <1>4 DEF Fails, Raises, Thrown, OnPoints, Tracks
  <2>2. db' = WithState(db, pass.stream, state)
    BY <1>4 DEF RepairFails, WithState
  <2>3. /\ state \in LifecycleStates
        /\ \/ fault = "fatal" /\ state \in {"bootstrapping", "failed"}
           \/ fault = "recoverable" /\ state \in {"bootstrapping", "degraded"}
    BY <1>2 DEF LifecycleStates
  <2> HIDE DEF state
  <2>4. /\ db' \in Tables /\ db'[pass.stream].state = state
        /\ \A r \in Streams, t \in Tracks : db'[r][t] = db[r][t]
    BY <1>2, <2>2, <2>3, StateUpdate
  <2> QED
    BY <1>1, <1>2, <2>1, <2>3, <2>4, ThrownHolds
<1> QED
  BY <1>3, <1>4

\* A set of bars that is not empty has an oldest one.
LEMMA OldestExists ==
    ASSUME NEW T \in SUBSET Nat, T # {}
    PROVE  \E m \in T : \A x \in T : m <= x
<1> DEFINE Below == {pair \in Nat \X Nat : pair[1] < pair[2]}
<1>1. IsWellFoundedOn(Below, Nat)
  BY NatLessThanWellFounded DEF OpToRel
<1>2. PICK m \in T : \A y \in T : <<y, m>> \notin Below
  <2> HIDE DEF Below
  <2> QED
    BY <1>1, WFMin
<1>3. \A y \in T : ~(y < m)
  BY <1>2
<1> QED
  BY <1>3

\* A marker of the repair is a marker.
LEMMA RepairMarkerType ==
    ASSUME HistInv, InPass, pass.pc \in Auditing, Missing # {}
    PROVE  RepairMarker \in Markers
<1>1. Missing \in SUBSET Bars /\ Missing \in SUBSET Nat
  BY MissingFacts, TimeAssumption DEF Bars
<1>2. \E b \in Missing : \A c \in Missing : b <= c
  BY <1>1, OldestExists
<1> DEFINE oldest == CHOOSE b \in Missing : \A c \in Missing : b <= c
           count == Cardinality(Missing)
           stop == IF OnPoints THEN pass.end ELSE pass.window.end
<1>3. oldest \in Missing
  BY <1>2
<1>a. \A b \in Missing : b \in -1..MaxNow
  BY <1>1, TimeAssumption DEF Bars
<1>4. oldest \in -1..MaxNow
  BY <1>3, <1>a
<1>5. 0 \in Int /\ MaxNow - 1 \in Int /\ IsFiniteSet(Bars) /\ Cardinality(Bars) = MaxNow
  BY FS_Interval, TimeAssumption DEF Bars
<1>6. IsFiniteSet(Missing) /\ count <= MaxNow
  BY <1>1, <1>5, FS_Subset
<1>7. count \in 0..MaxNow
  BY <1>6, FS_CardinalityType, TimeAssumption
<1>8. stop \in 0..MaxNow /\ pass.track \in Tracks
  BY PassContext, PassFields, WindowFields
<1>9. RepairMarker = [kind |-> "repair", at |-> oldest, missing |-> count, end |-> stop,
                      track |-> pass.track]
  BY DEF RepairMarker
<1> HIDE DEF oldest, count, stop
<1> QED
  BY <1>4, <1>7, <1>8, <1>9 DEF Markers

\* The second audit proves the track or ends the pass unproven.
LEMMA PostAuditHolds == HistInv /\ PostAudit => HistInv'
<1> SUFFICES ASSUME HistInv, PostAudit PROVE HistInv'
  OBVIOUS
<1>1. pass.pc = "postaudit" /\ db' = db /\ InPass /\ pass.pc \in Auditing
  BY DEF PostAudit, At, Auditing
<1>2. CASE Proven /\ TrackProven
  BY <1>1, <1>2, ProvenHolds DEF Proven
<1>3. CASE ~Proven /\ Outcome("incomplete", pass.window, RepairMarker)
  <2>1. pass' = Finished(pass, "incomplete", pass.window, RepairMarker)
    BY <1>3 DEF Outcome, Finished
  <2>2. RepairMarker \in Markers
    BY <1>1, <1>3, RepairMarkerType DEF Proven
  <2>3. pass.window \in Windows /\ "incomplete" \in Classes \ {"connecting"}
    BY <1>1, PassContext DEF Classes
  <2> QED
    BY <1>1, <2>1, <2>2, <2>3, UnprovenEnd
<1> QED
  BY <1>2, <1>3 DEF PostAudit

-----------------------------------------------------------------------------
(* The pass: its end.                                                      *)

\* The proven stream enters `connecting`.
LEMMA MarkConnectingHolds == HistInv /\ MarkConnecting => HistInv'
<1> SUFFICES ASSUME HistInv, MarkConnecting PROVE HistInv'
  OBVIOUS
<1>1. pass.pc = "connect" /\ InPass
  BY DEF MarkConnecting, At
<1>2. /\ now' = now /\ first' = first /\ bootNow' = bootNow /\ db \in Tables
      /\ pass \in Passes /\ pass.stream \in Streams /\ "candles" \in Tracks
      /\ Row.state = "auditing" /\ pass.window \in Windows
  BY <1>1, PassContext DEF HistInv, PassHolds, PassStates
<1>3. CanTransition(Row.state, "connecting")
  BY <1>2, LegalSteps
<1>4. /\ db' = WithState(db, pass.stream, "connecting")
      /\ pass' = Finished(pass, "connecting", pass.window, NoMarker)
  BY <1>3 DEF MarkConnecting, WithState, Outcome, Finished
<1>a. "connecting" \in LifecycleStates /\ "connecting" \in Classes /\ NoMarker \in Markers
  BY IdleFacts DEF LifecycleStates, Classes
<1>5. /\ db' \in Tables /\ db'[pass.stream].state = "connecting"
      /\ \A r \in Streams, t \in Tracks : db'[r][t] = db[r][t]
  BY <1>2, <1>4, <1>a, StateUpdate
<1>6. /\ pass' \in Passes /\ pass'.pc = "done" /\ pass'.stream = pass.stream
      /\ pass'.track = pass.track /\ pass'.window = pass.window /\ pass'.kept = pass.window
      /\ pass'.class = "connecting"
  BY <1>2, <1>4, <1>a, FinishedFields
<1>7. PassSearches'
  BY <1>6 DEF PassSearches
<1>8. PassStates'
  BY <1>5, <1>6 DEF HistInv, PassHolds, PassStates, Row
<1>9. PassWindows'
  BY <1>1, <1>2, <1>5, <1>6 DEF HistInv, PassHolds, PassWindows, Pinned, Auditing
<1>10. PassPoints'
  BY <1>6 DEF PassPoints, Auditing
<1>11. PassProves'
  <2>1. \A t \in TracksOf(pass.stream) : t \in Tracks
    BY DEF TracksOf, Tracks
  <2>2. /\ pass.track = "oi" => Whole(pass.stream, "candles")
        /\ \A t \in TracksOf(pass.stream) : Whole(pass.stream, t)
    BY <1>1 DEF HistInv, PassHolds, PassProves
  <2> QED
    BY <1>2, <1>5, <1>6, <2>1, <2>2 DEF PassProves, Whole
<1>12. PassHolds'
  BY <1>7, <1>8, <1>9, <1>10, <1>11 DEF PassHolds
<1> QED
  BY <1>1, <1>5, <1>6, <1>12, MoveHolds

\* The failure of a pass is recorded in the lifecycle.
LEMMA RecordFailureHolds == HistInv /\ RecordFailureState => HistInv'
<1> SUFFICES ASSUME HistInv, RecordFailureState PROVE HistInv'
  OBVIOUS
<1>1. pass.pc = "record_failure" /\ InPass
  BY DEF RecordFailureState, At
<1> DEFINE state == IF pass.class = "fatal" THEN "failed" ELSE "degraded"
<1>2. /\ now' = now /\ first' = first /\ bootNow' = bootNow /\ db \in Tables
      /\ pass \in Passes /\ pass.stream \in Streams /\ "candles" \in Tracks
      /\ pass.track = "candles"
      /\ \/ pass.class = "fatal" /\ Row.state \in {"bootstrapping", "failed"}
         \/ pass.class = "recoverable" /\ Row.state \in {"bootstrapping", "degraded"}
  BY <1>1, PassContext DEF HistInv, PassHolds, PassStates
<1>3. Row.state = state \/ CanTransition(Row.state, state)
  BY <1>2, LegalSteps
<1>4. state \in LifecycleStates
  BY DEF LifecycleStates
<1>5. /\ pass' = Went(pass, "done")
      /\ db' = db \/ db' = WithState(db, pass.stream, state)
  BY <1>3 DEF RecordFailureState, Goto, Went, WithState
<1> HIDE DEF state
<1>6. db' \in Tables /\ \A r \in Streams, t \in Tracks : db'[r][t] = db[r][t]
  <2>1. CASE db' = db
    BY <1>2, <2>1
  <2>2. CASE db' = WithState(db, pass.stream, state)
    BY <1>2, <1>4, <2>2, StateUpdate
  <2> QED
    BY <1>5, <2>1, <2>2
<1>7. /\ pass' \in Passes /\ pass'.pc = "done" /\ pass'.stream = pass.stream
      /\ pass'.track = pass.track /\ pass'.window = pass.window /\ pass'.kept = pass.kept
      /\ pass'.class = pass.class
  BY <1>2, <1>5, WentFields DEF PassSteps
<1>8. PassSearches'
  BY <1>7 DEF PassSearches
<1>9. PassStates'
  BY <1>2, <1>7 DEF PassStates
<1>10. PassWindows'
  BY <1>2, <1>6, <1>7 DEF HistInv, PassHolds, PassWindows, Pinned, Auditing
<1>11. PassPoints'
  BY <1>2, <1>7 DEF PassPoints
<1>12. PassProves'
  BY <1>2, <1>7 DEF PassProves
<1>13. PassHolds'
  BY <1>8, <1>9, <1>10, <1>11, <1>12 DEF PassHolds
<1> QED
  BY <1>1, <1>6, <1>7, <1>13, MoveHolds

-----------------------------------------------------------------------------
(* The theorems.                                                           *)

\* The invariant holds when the first process starts.
LEMMA InitHolds == Init => HistInv
<1> SUFFICES ASSUME Init PROVE HistInv
  OBVIOUS
<1>1. /\ now = 1 /\ first \in FirstTables /\ db = [s \in Streams |-> NewRow]
      /\ process = "startup" /\ starting = Order /\ queue = <<>> /\ pass = PassIdle
      /\ gate = "free" /\ admitted = {} /\ reason = [s \in Streams |-> "none"]
      /\ crashes = 0 /\ bootNow = now
  BY DEF Init, FirstTables
<1>2. NewTrack \in TrackRow /\ NewTrack.bars = {} /\ NewTrack.cursor = -1 /\ NewTrack.earliest = -1
  BY DEF NewTrack, TrackRow, NoBar
<1>3. NewRow \in StreamRow /\ \A t \in Tracks : NewRow[t] = NewTrack
  BY <1>2 DEF NewRow, StreamRow, LifecycleStates, Tracks
<1>4. /\ db \in Tables
      /\ \A s \in Streams, t \in Tracks :
            db[s][t].bars = {} /\ db[s][t].cursor = -1 /\ db[s][t].earliest = -1
  BY <1>1, <1>2, <1>3 DEF Tables
<1>5. Types
  <2>1. reason \in ReasonTables /\ queue \in Seq(Pending)
    BY <1>1, EmptySequence DEF ReasonTables, Reasons
  <2> QED
    BY <1>1, <1>4, <2>1, OrderFacts, IdleFacts, TimeAssumption DEF Types
<1>6. OwnedHolds
  <2>1. \A i, j \in DOMAIN starting : starting[i] = starting[j] => i = j
    BY <1>1, OrderAssumption
  <2>2. \A s \in Streams : \E i \in DOMAIN starting : starting[i] = s
    BY <1>1 DEF Streams
  <2>3. DOMAIN queue = {} /\ pass.pc = "idle"
    BY <1>1, EmptySequence, IdleFacts
  <2> QED
    BY <1>1, <2>1, <2>2, <2>3 DEF OwnedHolds, Waiting, Queued, Working, GivenUp
<1>7. SearchHolds
  <2>1. \A s \in Streams, t \in Tracks : first[s][t] \in 0..MaxFirst
    BY <1>1 DEF FirstTables
  <2> QED
    BY <1>1, <1>4, <2>1, TimeAssumption DEF SearchHolds, SearchSkipsNothing, NoBar
<1>8. StoredHolds
  BY <1>4 DEF StoredHolds, Tracks
<1>9. QueueHolds
  BY <1>1, EmptySequence DEF QueueHolds
<1>10. PassHolds
  <2>1. pass = PassIdle /\ pass.pc = "idle" /\ pass.track = "candles"
        /\ pass.window = NoWindow /\ pass.kept = NoWindow
    BY <1>1, IdleFacts
  <2> QED
    BY <2>1 DEF PassHolds, PassSearches, PassStates, PassWindows, PassPoints, PassProves, Auditing
<1> QED
  BY <1>5, <1>6, <1>7, <1>8, <1>9, <1>10 DEF HistInv

\* The invariant does not speak of anything but the variables.
LEMMA StillHolds == HistInv /\ UNCHANGED vars => HistInv'
<1> SUFFICES ASSUME HistInv, UNCHANGED vars PROVE HistInv'
  OBVIOUS
<1>1. /\ UNCHANGED <<first, db, pass, crashes, bootNow, starting, queue, admitted, reason>>
      /\ process' = process /\ now' = now /\ gate' = gate
  BY DEF vars
<1>2. /\ process \in {"startup", "running", "down"} /\ now \in 1..MaxNow /\ now <= now
      /\ gate \in {"free", "historical", "recovery"}
  BY DEF HistInv, Types
<1> QED
  BY <1>1, <1>2, QuietStep

\* Every step keeps the invariant.
LEMMA StepHolds == HistInv /\ Step => HistInv'
BY PrepareHolds, ToBootstrappingHolds, ResolveHolds, ProbeEndsHolds, ProbeHolds,
   PinWindowHolds, PointsWindowHolds, MarkAuditingHolds, PreAuditHolds, RepairEdgesHold,
   RepairWindowHolds, PostAuditHolds, MarkConnectingHolds, ResolveFailsHolds,
   RepairFailsHolds, RecordFailureHolds
DEF Step

\* The invariant behind the theorems below: who owns each stream, what the
\* durable search has passed, what is stored, which intervals are kept and what
\* the pass has proven are right at every step, crashes included.
THEOREM ReconciliationInvariant == Spec => []HistInv
<1>1. HistInv /\ [Next]_vars => HistInv'
  <2> SUFFICES ASSUME HistInv, [Next]_vars PROVE HistInv'
    OBVIOUS
  <2>1. CASE Tick
    BY <2>1, TickHolds
  <2>2. CASE Crash
    BY <2>2, CrashHolds
  <2>3. CASE Boot
    BY <2>3, BootHolds
  <2>4. CASE RecoveryTakesGate \/ RecoveryReleasesGate
    BY <2>4, RecoveryGateHolds
  <2>5. CASE \E s \in Streams : Realtime(s) \/ RealtimePoint(s)
    BY <2>5, RealtimeHolds, RealtimePointHolds
  <2>6. CASE Startup
    BY <2>6, StartupPassHolds, StartupOutcomeHolds, StartRuntimeHolds DEF Startup
  <2>7. CASE \E i \in DOMAIN queue : BackoffEnds(i)
    BY <2>7, BackoffEndsHolds
  <2>8. CASE Worker
    BY <2>8, RotateHolds, TakeTurnHolds, GateAcquiredHolds, WorkerOutcomeHolds DEF Worker
  <2>9. CASE NothingQueued \/ UNCHANGED vars
    BY <2>9, StillHolds DEF NothingQueued
  <2>10. CASE Step
    BY <2>10, StepHolds
  <2> QED
    BY <2>1, <2>2, <2>3, <2>4, <2>5, <2>6, <2>7, <2>8, <2>9, <2>10 DEF Next
<1> QED
  BY <1>1, InitHolds, PTL DEF Spec

\* SearchSkipsNothing for every constant: no crash, failed probe or spent budget
\* makes the durable cursor pass a bar that REST has, and a resolved lower bound
\* is the first bar.
THEOREM SearchesSkipNothing == Spec => []SearchSkipsNothing
<1>1. HistInv => SearchSkipsNothing
  BY DEF HistInv, SearchHolds
<1> QED
  BY <1>1, ReconciliationInvariant, PTL

\* The places of a stream, counted: an injective sequence has it at most once.
Places(D, f, x) == {i \in D : f[i] = x}
HasPlace(D, f, x) == \E i \in D : f[i] = x

\* An injective sequence has a value at one place or at none.
LEMMA OnePlace ==
    ASSUME NEW D, NEW f, NEW x, \A i, j \in D : f[i] = f[j] => i = j
    PROVE  Cardinality(Places(D, f, x)) = IF HasPlace(D, f, x) THEN 1 ELSE 0
<1>1. ASSUME NEW i \in D, f[i] = x PROVE Cardinality(Places(D, f, x)) = 1
  <2>1. Places(D, f, x) = {i}
    BY <1>1 DEF Places
  <2> QED
    BY <2>1, FS_Singleton
<1>2. ASSUME ~HasPlace(D, f, x) PROVE Cardinality(Places(D, f, x)) = 0
  <2>1. Places(D, f, x) = {}
    BY <1>2 DEF Places, HasPlace
  <2> QED
    BY <2>1, FS_EmptySet
<1> QED
  BY <1>1, <1>2 DEF HasPlace

\* Disjoint places, each held once, add up to one owner.
LEMMA OneOwner == HistInv => OwnedOnce
<1> SUFFICES ASSUME HistInv, process # "down", NEW s \in Streams PROVE Owners(s) = 1
  BY DEF OwnedOnce
<1> DEFINE waits == Cardinality({i \in DOMAIN starting : starting[i] = s})
           queues == Cardinality({i \in DOMAIN queue : queue[i].stream = s})
<1>1. waits = IF Waiting(s) THEN 1 ELSE 0
  <2>1. \A i, j \in DOMAIN starting : starting[i] = starting[j] => i = j
    BY DEF HistInv, OwnedHolds
  <2>2. waits = Cardinality(Places(DOMAIN starting, starting, s))
    BY DEF Places
  <2>3. Waiting(s) <=> HasPlace(DOMAIN starting, starting, s)
    BY DEF Waiting, HasPlace
  <2> HIDE DEF waits
  <2> QED
    BY <2>1, <2>2, <2>3, OnePlace
<1>2. queues = IF Queued(s) THEN 1 ELSE 0
  <2> DEFINE f == [i \in DOMAIN queue |-> queue[i].stream]
  <2>1. \A i, j \in DOMAIN queue : f[i] = f[j] => i = j
    BY DEF HistInv, OwnedHolds
  <2>2. {i \in DOMAIN queue : queue[i].stream = s} = Places(DOMAIN queue, f, s)
    BY DEF Places
  <2>3. Queued(s) <=> HasPlace(DOMAIN queue, f, s)
    BY DEF Queued, HasPlace
  <2>4. queues = Cardinality(Places(DOMAIN queue, f, s))
    BY <2>2
  <2> HIDE DEF f, queues
  <2> QED
    BY <2>1, <2>3, <2>4, OnePlace
<1>3. Owners(s) = waits + queues + (IF Working(s) THEN 1 ELSE 0)
                  + (IF s \in admitted THEN 1 ELSE 0) + (IF GivenUp(s) THEN 1 ELSE 0)
  BY DEF Owners, Working, GivenUp
<1> HIDE DEF waits, queues
<1>4. /\ Waiting(s) => ~Queued(s) /\ ~Working(s) /\ s \notin admitted /\ ~GivenUp(s)
      /\ Queued(s) => ~Working(s) /\ s \notin admitted /\ ~GivenUp(s)
      /\ Working(s) => s \notin admitted /\ ~GivenUp(s)
      /\ s \in admitted => ~GivenUp(s)
      /\ Waiting(s) \/ Queued(s) \/ Working(s) \/ s \in admitted \/ GivenUp(s)
  BY DEF HistInv, OwnedHolds
<1> QED
  BY <1>1, <1>2, <1>3, <1>4

\* QueueInv for every constant: while the process lives, each configured stream
\* is in exactly one place: to come at startup, in the pass, in the worker's
\* queue, in realtime, or given up for good.
THEOREM StreamsAreOwnedOnce == Spec => []QueueInv
<1>1. HistInv => TypeOK
  BY DEF HistInv, Types, TypeOK, FirstTables, Tables, ReasonTables
<1>2. HistInv => QueueInv
  BY <1>1, OneOwner DEF QueueInv
<1> QED
  BY <1>2, ReconciliationInvariant, PTL

\* In every state a pass can find, its next transition is in the table.
LEMMA PassesLegal == HistInv => PassIsLegal
<1> SUFFICES ASSUME HistInv PROVE PassIsLegal
  OBVIOUS
<1>1. pass \in Passes /\ pass.track \in Tracks /\ Row.state \in LifecycleStates /\ PassStates
  BY PassFields, TrackFields DEF HistInv, PassHolds, Types, Row
<1>2. pass.pc # "raised"
  BY <1>1 DEF PassStates
<1>3. CASE pass.pc = "prepare"
  <2>1. Target = PrepareTarget(Row.state)
    BY <1>3 DEF Target, At
  <2>2. CanTransition(Row.state, PrepareTarget(Row.state))
    BY <1>1, LegalSteps DEF PrepareTarget, LifecycleStates
  <2> QED
    BY <1>2, <2>1, <2>2 DEF PassIsLegal
<1>4. CASE pass.pc = "bootstrap"
  <2>1. Target = "bootstrapping" /\ Row.state \in {"uninitialized", "degraded"}
    BY <1>1, <1>4 DEF Target, At, PassStates
  <2> QED
    BY <1>2, <2>1, LegalSteps DEF PassIsLegal
<1>5. CASE pass.pc = "mark_auditing"
  <2>1. Target = "auditing" /\ Row.state = "bootstrapping"
    BY <1>1, <1>5 DEF Target, At, PassStates
  <2> QED
    BY <1>2, <2>1, LegalSteps DEF PassIsLegal
<1>6. CASE pass.pc = "to_repairing" /\ ~OnPoints
  <2>1. Target = "repairing" /\ Row.state = "auditing"
    BY <1>1, <1>6 DEF Target, At, PassStates
  <2> QED
    BY <1>2, <2>1, LegalSteps DEF PassIsLegal
<1>7. CASE pass.pc = "repair" /\ ~OnPoints
  <2>1. Target = "auditing" /\ Row.state = "repairing"
    BY <1>1, <1>7 DEF Target, At, PassStates, OnPoints, Tracks
  <2> QED
    BY <1>2, <2>1, LegalSteps DEF PassIsLegal
<1>8. CASE pass.pc = "connect"
  <2>1. Target = "connecting" /\ Row.state = "auditing"
    BY <1>1, <1>8 DEF Target, At, PassStates
  <2> QED
    BY <1>2, <2>1, LegalSteps DEF PassIsLegal
<1>9. CASE pass.pc = "record_failure"
  <2>1. Target = IF pass.class = "fatal" THEN "failed" ELSE "degraded"
    BY <1>9 DEF Target, At
  <2>2. \/ pass.class = "fatal" /\ Row.state \in {"bootstrapping", "failed"}
        \/ pass.class = "recoverable" /\ Row.state \in {"bootstrapping", "degraded"}
    BY <1>1, <1>9 DEF PassStates
  <2> QED
    BY <1>2, <2>1, <2>2, LegalSteps DEF PassIsLegal
<1>10. CASE /\ pass.pc \notin {"prepare", "bootstrap", "mark_auditing", "connect", "record_failure"}
            /\ ~(pass.pc \in {"to_repairing", "repair"} /\ ~OnPoints)
  <2>1. Target = Row.state
    BY <1>10 DEF Target, At
  <2> QED
    BY <1>2, <2>1 DEF PassIsLegal
<1> QED
  BY <1>3, <1>4, <1>5, <1>6, <1>7, <1>8, <1>9, <1>10

\* PassIsLegal for every constant: from whatever state a crash, realtime or an
\* earlier failure left a stream in, no transaction of a pass asks for a
\* transition that transition_stream_state refuses.
THEOREM PassesAreLegal == Spec => []PassIsLegal
BY PassesLegal, ReconciliationInvariant, PTL

\* A stream enters realtime only from a pass that ended "connecting".
LEMMA AdmittedFromPass ==
    ASSUME HistInv, [Next]_vars, NEW s \in admitted' \ admitted
    PROVE  s = pass.stream /\ pass.pc = "done" /\ pass.class = "connecting"
<1>1. CASE StartupOutcome
  BY <1>1 DEF StartupOutcome
<1>2. CASE WorkerOutcome
  <2>1. pass.pc = "done"
    BY <1>2 DEF WorkerOutcome
  <2>2. CASE pass.class = "connecting"
    BY <1>2, <2>1, <2>2 DEF WorkerOutcome
  <2>3. CASE pass.class # "connecting"
    BY <1>2, <2>3 DEF WorkerOutcome
  <2> QED
    BY <2>2, <2>3
<1>3. CASE Crash
  BY <1>3 DEF Crash
<1>4. CASE admitted' = admitted
  BY <1>4
<1>5. (Tick \/ Boot \/ RecoveryTakesGate \/ RecoveryReleasesGate) => admitted' = admitted
  BY DEF Tick, Boot, RecoveryTakesGate, RecoveryReleasesGate, mem
<1>6. (\E r \in Streams : Realtime(r) \/ RealtimePoint(r)) => admitted' = admitted
  BY DEF Realtime, RealtimePoint, mem
<1>7. (StartupPass \/ StartRuntime \/ Rotate \/ TakeTurn \/ GateAcquired \/ NothingQueued
       \/ UNCHANGED vars) => admitted' = admitted
  BY DEF StartupPass, StartRuntime, Rotate, TakeTurn, GateAcquired, NothingQueued, vars, mem
<1>8. (\E i \in DOMAIN queue : BackoffEnds(i)) => admitted' = admitted
  BY DEF BackoffEnds
<1>9. Step => InPass
  BY DEF Step, PrepareForBootstrap, ToBootstrapping, ResolveLowerBound, ProbeEnds, Probe,
     PinWindow, PointsWindow, MarkAuditing, PreAudit, TransitionToRepairing, RepairWindow,
     RepairEnds, PostAudit, MarkConnecting, ResolveFails, RepairFails, RecordFailureState
<1>10. InPass => admitted' = admitted
  BY DEF InPass, mem
<1> QED
  BY <1>1, <1>2, <1>3, <1>4, <1>5, <1>6, <1>7, <1>8, <1>9, <1>10 DEF Next, Startup, Worker

\* AdmissionIsProven for every constant: a stream is handed to realtime only in
\* "connecting", with every bar of its tracks that REST had when the process
\* started and with nothing missing below the frontier it hands over.
THEOREM AdmissionsAreProven == Spec => AdmissionIsProven
<1> DEFINE Handed(s) ==
        /\ db[s].state = "connecting"
        /\ \A t \in TracksOf(s) :
              /\ db[s][t].bars # {}
              /\ first[s][t]..(bootNow - 1) \subseteq db[s][t].bars
              /\ \A b \in HandedFrontier(s, t) : first[s][t]..b \subseteq db[s][t].bars
<1>1. ASSUME HistInv, [Next]_vars, NEW s \in admitted' \ admitted PROVE Handed(s)
  <2>1. s = pass.stream /\ pass.pc = "done" /\ pass.class = "connecting"
    BY <1>1, AdmittedFromPass
  <2>2. db[s].state = "connecting" /\ \A t \in TracksOf(s) : Whole(s, t)
    BY <1>1, <2>1 DEF HistInv, PassHolds, PassStates, PassProves, Row
  <2> QED
    BY <2>2 DEF Whole, IsWhole, HandedFrontier
<1>2. HistInv /\ [Next]_vars => [\A s \in admitted' \ admitted : Handed(s)]_vars
  BY <1>1
<1> QED
  BY <1>2, ReconciliationInvariant, PTL DEF Spec, AdmissionIsProven

-----------------------------------------------------------------------------
(* The interval of a cycle.                                                *)

\* The interval of the pass, and of the queue, for stream s.
PassPins(p, s, w) ==
    \/ p.pc \notin {"idle", "done"} /\ p.stream = s /\ w = p.window
    \/ p.pc = "done" /\ p.stream = s /\ w = p.kept
QueuePins(q, s, w) == \E i \in DOMAIN q : q[i].stream = s /\ w = q[i].window

\* The intervals of a stream are those in the queue and in the pass.
LEMMA PinnedOfIs ==
    ASSUME NEW s, NEW w
    PROVE  /\ w \in PinnedOf(s) <=> QueuePins(queue, s, w) \/ PassPins(pass, s, w)
           /\ w \in PinnedOf(s)' <=> QueuePins(queue', s, w) \/ PassPins(pass', s, w)
BY DEF PinnedOf, QueuePins, PassPins

\* A transaction of the pass keeps the interval, if there is one.
StepPins ==
    /\ pass.pc \notin {"idle", "done"} /\ pass'.pc # "idle" /\ pass'.stream = pass.stream
    /\ \/ pass.window = NoWindow
       \/ pass'.pc # "done" /\ pass'.window = pass.window
       \/ pass'.pc = "done" /\ pass'.kept = pass.window

\* The next transaction keeps the interval.
LEMMA WentPins ==
    ASSUME HistInv, NEW pc \in PassSteps \ {"idle", "done"}, pass.pc \notin {"idle", "done"},
           pass' = Went(pass, pc)
    PROVE  StepPins
BY WentFields DEF HistInv, Types, StepPins

\* A failure keeps the interval.
LEMMA ThrownPins ==
    ASSUME HistInv, NEW class \in Classes, NEW window \in Windows,
           pass.pc \notin {"idle", "done"}, pass' = Thrown(pass, class, window)
    PROVE  StepPins
BY ThrownFields DEF HistInv, Types, StepPins

\* A result carries the interval on.
LEMMA FinishedPins ==
    ASSUME HistInv, NEW class \in Classes, NEW window \in Windows, NEW marker \in Markers,
           pass.pc \notin {"idle", "done"}, window = pass.window \/ pass.window = NoWindow,
           pass' = Finished(pass, class, window, marker)
    PROVE  StepPins
BY FinishedFields DEF HistInv, Types, StepPins

\* A lifecycle transition keeps the interval.
LEMMA MoveToPins ==
    ASSUME HistInv, NEW state, NEW next \in PassSteps \ {"idle", "done"},
           pass.pc \notin {"idle", "done"}, MoveTo(state, next)
    PROVE  StepPins
<1>1. CASE CanTransition(Row.state, state)
  <2>1. pass' = Went(pass, next)
    BY <1>1 DEF MoveTo, Goto, Went
  <2> QED
    BY <2>1, WentPins
<1>2. CASE ~CanTransition(Row.state, state)
  <2>1. pass' = Thrown(pass, "fatal", pass.kept)
    BY <1>2 DEF MoveTo, Raises, Thrown
  <2>2. pass.kept \in Windows /\ "fatal" \in Classes
    BY PassFields DEF HistInv, Types, Classes
  <2> QED
    BY <2>1, <2>2, ThrownPins
<1> QED
  BY <1>1, <1>2

\* An unproven search keeps the interval.
LEMMA UnprovenPins ==
    ASSUME HistInv, NEW marker \in Markers, pass.pc \in {"resolve", "probe"}, Unproven(marker)
    PROVE  StepPins
<1>1. /\ pass.window \in Windows /\ pass.kept \in Windows /\ "incomplete" \in Classes
      /\ pass.track \in Tracks
  BY PassFields DEF HistInv, Types, Classes
<1>2. CASE OnPoints
  <2>1. pass' = Finished(pass, "incomplete", pass.window, marker)
    BY <1>2 DEF Unproven, Held, Outcome, Finished
  <2> QED
    BY <1>1, <2>1, FinishedPins
<1>3. CASE ~OnPoints
  <2>1. pass' = Finished(pass, "incomplete", pass.kept, marker)
    BY <1>3 DEF Unproven, Outcome, Finished
  <2>2. pass.window = NoWindow
    BY <1>1, <1>3 DEF HistInv, PassHolds, PassWindows, OnPoints, Tracks
  <2> QED
    BY <1>1, <2>1, <2>2, FinishedPins
<1> QED
  BY <1>2, <1>3

\* A failed request keeps the interval.
LEMMA FailsPins ==
    ASSUME HistInv, NEW fault \in Faults, NEW window \in Windows,
           pass.pc \notin {"idle", "done"}, Fails(fault, window)
    PROVE  StepPins
<1>1. pass.window \in Windows /\ fault \in Classes /\ NoMarker \in Markers
  BY HistoricalFaultAssumption, PassFields, IdleFacts DEF HistInv, Types, Classes
<1>2. CASE OnPoints
  <2>1. pass' = Finished(pass, fault, pass.window, NoMarker)
    BY <1>2 DEF Fails, Held, Outcome, Finished
  <2> QED
    BY <1>1, <2>1, FinishedPins
<1>3. CASE ~OnPoints
  <2>1. pass' = Thrown(pass, fault, window)
    BY <1>3 DEF Fails, Raises, Thrown
  <2> QED
    BY <1>1, <2>1, ThrownPins
<1> QED
  BY <1>2, <1>3

\* Proving a track keeps the interval.
LEMMA TrackProvenPins ==
    ASSUME HistInv, pass.pc \notin {"idle", "done"}, TrackProven
    PROVE  StepPins
<1>1. pass \in Passes
  BY DEF HistInv, Types
<1>2. CASE OnPoints
  <2>1. pass' = [pass EXCEPT !.pc = "connect", !.at = 0, !.end = 0, !.used = 0]
    BY <1>2 DEF TrackProven
  <2> QED
    BY <1>1, <2>1 DEF Passes, StepPins
<1>3. CASE ~OnPoints
  <2> DEFINE pc == AfterCandles
             track == IF AfterCandles = "resolve" THEN "oi" ELSE pass.track
  <2>1. pass' = [pass EXCEPT !.pc = pc, !.used = 0, !.track = track]
    BY <1>3 DEF TrackProven
  <2>2. pc \in {"resolve", "connect"}
    BY DEF AfterCandles
  <2> HIDE DEF pc, track
  <2>3. pass'.pc = pc /\ pass'.stream = pass.stream /\ pass'.window = pass.window
    BY <1>1, <2>1 DEF Passes
  <2> QED
    BY <2>2, <2>3 DEF StepPins
<1> QED
  BY <1>2, <1>3

\* The repair recorder keeps the interval.
LEMMA RecorderPins ==
    ASSUME HistInv, NEW state, NEW next \in PassSteps \ {"idle", "done"},
           pass.pc \notin {"idle", "done"}, RecorderMoves(state, next)
    PROVE  StepPins
<1>1. CASE OnPoints
  <2>1. pass' = Went(pass, next)
    BY <1>1 DEF RecorderMoves, Goto, Went
  <2> QED
    BY <2>1, WentPins
<1>2. CASE ~OnPoints
  BY <1>2, MoveToPins DEF RecorderMoves
<1> QED
  BY <1>1, <1>2

\* Every transaction of the pass.
LEMMA EveryStepPins == HistInv /\ Step => StepPins
<1> SUFFICES ASSUME HistInv, Step PROVE StepPins
  OBVIOUS
<1>p. pass \in Passes /\ pass.window \in Windows /\ pass.kept \in Windows /\ pass.track \in Tracks
  BY PassFields DEF HistInv, Types
<1>q. Prepared \in PassSteps \ {"idle", "done"}
  BY DEF Prepared, PassSteps
<1>1. CASE PrepareForBootstrap
  <2>1. pass.pc = "prepare" /\ InPass
    BY <1>1 DEF PrepareForBootstrap, At
  <2>2. CASE Row.state = "bootstrapping"
    <3>1. pass' = Went(pass, Prepared)
      BY <1>1, <2>2 DEF PrepareForBootstrap, Goto, Went
    <3> QED
      BY <1>q, <2>1, <3>1, WentPins
  <2>3. CASE Row.state # "bootstrapping"
    <3> DEFINE target == PrepareTarget(Row.state)
               next == IF target = "bootstrapping" THEN Prepared ELSE "bootstrap"
    <3>1. MoveTo(target, next)
      BY <1>1, <2>3 DEF PrepareForBootstrap
    <3>2. next \in PassSteps \ {"idle", "done"}
      BY <1>q DEF PassSteps
    <3> HIDE DEF target, next
    <3> QED
      BY <2>1, <3>1, <3>2, MoveToPins
  <2> QED
    BY <2>2, <2>3
<1>2. CASE ToBootstrapping
  BY <1>2, <1>q, MoveToPins DEF ToBootstrapping, At
<1>3. CASE ResolveLowerBound
  <2>1. pass.pc = "resolve" /\ InPass
    BY <1>3 DEF ResolveLowerBound, At
  <2>2. CASE Goto("pin")
    <3>1. pass' = Went(pass, "pin")
      BY <2>2 DEF Goto, Went
    <3> QED
      BY <2>1, <3>1, WentPins DEF PassSteps
  <2>3. CASE Unproven(CursorMarker(SearchStart(Track)))
    <3>1. SearchStart(Track) \in -1..MaxNow
      BY <2>1, SearchFacts, TimeAssumption DEF SearchStart, NoBar
    <3>2. CursorMarker(SearchStart(Track)) \in Markers
      BY <1>p, <3>1, MarkerFacts
    <3> QED
      BY <2>1, <2>3, <3>2, UnprovenPins
  <2>4. CASE pass' = [pass EXCEPT !.pc = "probe", !.at = SearchStart(Track),
                                  !.end = now, !.used = 0]
    BY <1>p, <2>1, <2>4 DEF Passes, StepPins
  <2> QED
    BY <1>3, <2>2, <2>3, <2>4 DEF ResolveLowerBound
<1>4. CASE ProbeEnds
  <2>1. pass.pc = "probe" /\ InPass /\ Unproven(CursorMarker(Track.cursor))
    BY <1>4 DEF ProbeEnds, At
  <2>2. Track.cursor \in -1..MaxNow
    BY <2>1, SearchFacts
  <2>3. CursorMarker(Track.cursor) \in Markers
    BY <1>p, <2>2, MarkerFacts
  <2> QED
    BY <2>1, <2>3, UnprovenPins
<1>5. CASE Probe
  <2>1. /\ pass.pc = "probe"
        /\ \/ pass' = [pass EXCEPT !.at = ProbeEnd, !.used = @ + 1]
           \/ pass' = [pass EXCEPT !.pc = "pin", !.at = 0, !.end = 0, !.used = 0]
    BY <1>5 DEF Probe, At
  <2> QED
    BY <1>p, <2>1 DEF Passes, StepPins
<1>6. CASE PinWindow
  <2>1. pass.pc = "pin" /\ pass.track = "candles"
    BY <1>6, <1>p DEF PinWindow, At, OnPoints, Tracks
  <2>2. pass.window = NoWindow
    BY <2>1 DEF HistInv, PassHolds, PassWindows
  <2>3. CASE Outcome("incomplete", pass.kept, NoMarker)
    <3>1. pass' = Finished(pass, "incomplete", pass.kept, NoMarker)
      BY <2>3 DEF Outcome, Finished
    <3> QED
      BY <1>p, <2>1, <2>2, <3>1, FinishedPins, IdleFacts DEF Classes
  <2>4. CASE pass' = [pass EXCEPT !.pc = "mark_auditing",
                        !.window = [start |-> Track.earliest, end |-> TargetEnd]]
    BY <1>p, <2>1, <2>2, <2>4 DEF Passes, StepPins
  <2> QED
    BY <1>6, <2>3, <2>4 DEF PinWindow
<1>7. CASE PointsWindow
  <2>1. /\ pass.pc = "pin"
        /\ \/ pass' = [pass EXCEPT !.pc = "connect"]
           \/ pass' = [pass EXCEPT !.pc = "preaudit", !.at = Track.earliest, !.end = TargetEnd]
    BY <1>7 DEF PointsWindow, At
  <2> QED
    BY <1>p, <2>1 DEF Passes, StepPins
<1>8. CASE MarkAuditing
  <2>1. pass.pc = "mark_auditing"
    BY <1>8 DEF MarkAuditing, At
  <2>2. CASE Goto("preaudit")
    <3>1. pass' = Went(pass, "preaudit")
      BY <2>2 DEF Goto, Went
    <3> QED
      BY <2>1, <3>1, WentPins DEF PassSteps
  <2>3. CASE MoveTo("auditing", "preaudit")
    BY <2>1, <2>3, MoveToPins DEF PassSteps
  <2> QED
    BY <1>8, <2>2, <2>3 DEF MarkAuditing
<1>9. CASE PreAudit
  <2>1. pass.pc = "preaudit"
    BY <1>9 DEF PreAudit, At
  <2>2. CASE TrackProven
    BY <2>1, <2>2, TrackProvenPins
  <2>3. CASE pass' = [pass EXCEPT !.pc = "to_repairing", !.todo = Missing, !.used = 0]
    BY <1>p, <2>1, <2>3 DEF Passes, StepPins
  <2> QED
    BY <1>9, <2>2, <2>3 DEF PreAudit
<1>10. CASE TransitionToRepairing
  BY <1>10, RecorderPins DEF TransitionToRepairing, At, PassSteps
<1>11. CASE \E served \in SUBSET NextWindow : RepairWindow(served)
  <2>1. pass.pc = "repair" /\ pass' = [pass EXCEPT !.todo = @ \ NextWindow, !.used = @ + 1]
    BY <1>11 DEF RepairWindow, At
  <2> QED
    BY <1>p, <2>1 DEF Passes, StepPins
<1>12. CASE RepairEnds
  BY <1>12, RecorderPins DEF RepairEnds, At, PassSteps
<1>13. CASE PostAudit
  <2>1. pass.pc = "postaudit" /\ InPass /\ pass.pc \in Auditing
    BY <1>13 DEF PostAudit, At, Auditing
  <2>2. CASE TrackProven
    BY <2>1, <2>2, TrackProvenPins
  <2>3. CASE ~Proven /\ Outcome("incomplete", pass.window, RepairMarker)
    <3>1. pass' = Finished(pass, "incomplete", pass.window, RepairMarker)
      BY <2>3 DEF Outcome, Finished
    <3>2. RepairMarker \in Markers /\ "incomplete" \in Classes
      BY <2>1, <2>3, RepairMarkerType DEF Proven, Classes
    <3> QED
      BY <1>p, <2>1, <3>1, <3>2, FinishedPins
  <2> QED
    BY <1>13, <2>2, <2>3 DEF PostAudit
<1>14. CASE MarkConnecting
  <2>1. pass.pc = "connect"
    BY <1>14 DEF MarkConnecting, At
  <2>2. CASE Outcome("connecting", pass.window, NoMarker)
    <3>1. pass' = Finished(pass, "connecting", pass.window, NoMarker)
      BY <2>2 DEF Outcome, Finished
    <3> QED
      BY <1>p, <2>1, <3>1, FinishedPins, IdleFacts DEF Classes
  <2>3. CASE Raises("fatal", pass.kept)
    <3>1. pass' = Thrown(pass, "fatal", pass.kept)
      BY <2>3 DEF Raises, Thrown
    <3> QED
      BY <1>p, <2>1, <3>1, ThrownPins DEF Classes
  <2> QED
    BY <1>14, <2>2, <2>3 DEF MarkConnecting
<1>15. CASE \E fault \in Faults : ResolveFails(fault) \/ RepairFails(fault)
  <2>1. PICK fault \in Faults : ResolveFails(fault) \/ RepairFails(fault)
    BY <1>15
  <2>2. /\ pass.pc \notin {"idle", "done"}
        /\ Fails(fault, pass.kept) \/ Fails(fault, pass.window)
    BY <2>1 DEF ResolveFails, RepairFails, At
  <2> QED
    BY <1>p, <2>2, FailsPins
<1>16. CASE RecordFailureState
  <2>1. pass.pc = "record_failure" /\ pass.window \in {NoWindow, pass.kept}
    BY <1>16 DEF RecordFailureState, At, HistInv, PassHolds, PassWindows
  <2>2. pass' = Went(pass, "done") \/ pass' = Went(pass, "raised")
    BY <1>16 DEF RecordFailureState, Goto, Went
  <2>3. CASE pass' = Went(pass, "raised")
    BY <2>1, <2>3, WentPins DEF PassSteps
  <2>4. CASE pass' = Went(pass, "done")
    <3>1. pass'.pc = "done" /\ pass'.stream = pass.stream /\ pass'.kept = pass.kept
      BY <1>p, <2>4, WentFields DEF PassSteps
    <3> QED
      BY <2>1, <3>1 DEF StepPins
  <2> QED
    BY <2>2, <2>3, <2>4
<1> QED
  BY <1>1, <1>2, <1>3, <1>4, <1>5, <1>6, <1>7, <1>8, <1>9, <1>10, <1>11, <1>12, <1>13,
     <1>14, <1>15, <1>16 DEF Step

Pins(s, w) == QueuePins(queue, s, w) \/ PassPins(pass, s, w)
PinsNext(s, w) == QueuePins(queue', s, w) \/ PassPins(pass', s, w)

\* A stream has one interval at a time.
LEMMA OnePin ==
    ASSUME HistInv, NEW s \in Streams, NEW v, NEW w, Pins(s, v), Pins(s, w)
    PROVE  v = w
<1>1. QueuePins(queue, s, v) /\ QueuePins(queue, s, w) => v = w
  BY DEF HistInv, OwnedHolds, QueuePins
<1>2. PassPins(pass, s, v) /\ PassPins(pass, s, w) => v = w
  BY DEF PassPins
<1>3. \A x : QueuePins(queue, s, x) => Queued(s)
  BY DEF QueuePins, Queued
<1>4. \A x : PassPins(pass, s, x) => Working(s)
  BY DEF PassPins, Working
<1>5. ~(Queued(s) /\ Working(s))
  BY DEF HistInv, OwnedHolds
<1> QED
  BY <1>1, <1>2, <1>3, <1>4, <1>5 DEF Pins

\* The outcome of a pass hands its interval to the queue, or drops it.
LEMMA OutcomePins ==
    ASSUME HistInv, StartupOutcome \/ WorkerOutcome, NEW s \in Streams, NEW v, PinsNext(s, v)
    PROVE  Pins(s, v)
<1>1. pass.pc = "done" /\ pass' = PassIdle /\ queue \in Seq(Pending) /\ pass \in Passes
  BY DEF StartupOutcome, WorkerOutcome, HistInv, Types
<1>2. ~PassPins(pass', s, v)
  BY <1>1, IdleFacts DEF PassPins
<1>3. QueuePins(queue', s, v)
  BY <1>2 DEF PinsNext
<1>4. \/ queue' = queue
      \/ \E e \in Pending : /\ queue' = Append(queue, e)
                            /\ e.stream = pass.stream /\ e.window = pass.kept
  <2>1. /\ pass.stream \in Streams /\ pass.kept \in Windows
        /\ pass.outMarker \in Markers /\ pass.marker \in Markers
    BY <1>1, PassFields
  <2>2. CASE StartupOutcome
    <3> DEFINE e == [stream |-> pass.stream, window |-> pass.kept,
                     marker |-> pass.outMarker, due |-> TRUE]
    <3>1. e \in Pending /\ e.stream = pass.stream /\ e.window = pass.kept
      BY <2>1 DEF Pending
    <3>2. queue' = queue \/ queue' = Append(queue, e)
      BY <2>2 DEF StartupOutcome
    <3> HIDE DEF e
    <3> QED
      BY <3>1, <3>2
  <2>3. CASE WorkerOutcome /\ ~Requeue(pass)
    BY <2>3 DEF WorkerOutcome
  <2>4. CASE Requeue(pass)
    <3> DEFINE again == pass.class = "incomplete" /\ Progressed(pass)
               mark == IF pass.class = "incomplete" THEN pass.outMarker ELSE pass.marker
               e == [stream |-> pass.stream, window |-> pass.kept, due |-> again,
                     marker |-> mark]
    <3>1. queue' = Append(queue, e)
      BY <2>4 DEF Requeue, Requeued, Kept
    <3>2. again \in BOOLEAN /\ mark \in Markers
      BY <2>1 DEF Progressed
    <3> HIDE DEF again, mark
    <3>3. e \in Pending /\ e.stream = pass.stream /\ e.window = pass.kept
      BY <2>1, <3>2 DEF Pending
    <3> HIDE DEF e
    <3> QED
      BY <3>1, <3>3
  <2> QED
    BY <2>2, <2>3, <2>4
<1>5. CASE queue' = queue
  BY <1>3, <1>5 DEF Pins
<1>6. ASSUME NEW e \in Pending, queue' = Append(queue, e), e.stream = pass.stream,
             e.window = pass.kept
      PROVE  Pins(s, v)
  <2>1. /\ Len(queue) \in Nat /\ DOMAIN queue = 1..Len(queue)
        /\ DOMAIN queue' = 1..(Len(queue) + 1) /\ queue'[Len(queue) + 1] = e
        /\ \A i \in 1..Len(queue) : queue'[i] = queue[i]
    BY <1>1, <1>6, AppendFacts
  <2>2. e.stream = pass.stream /\ e.window = pass.kept
    BY <1>6
  <2>3. PICK i \in DOMAIN queue' : queue'[i].stream = s /\ v = queue'[i].window
    BY <1>3 DEF QueuePins
  <2>4. CASE i \in DOMAIN queue
    BY <2>1, <2>3, <2>4 DEF Pins, QueuePins
  <2>5. CASE i = Len(queue) + 1
    BY <1>1, <2>1, <2>2, <2>3, <2>5 DEF Pins, PassPins
  <2> QED
    BY <2>1, <2>4, <2>5
<1> QED
  BY <1>4, <1>5, <1>6

\* The worker rearranges its queue and takes turns with the intervals it has.
LEMMA WorkerPins ==
    ASSUME HistInv, Rotate \/ TakeTurn \/ GateAcquired \/ (\E i \in DOMAIN queue : BackoffEnds(i)),
           NEW s \in Streams, NEW v, PinsNext(s, v)
    PROVE  Pins(s, v)
<1>1. queue \in Seq(Pending) /\ pass \in Passes
  BY DEF HistInv, Types
<1>2. CASE GateAcquired
  <2>1. pass' = Went(pass, "prepare") /\ queue' = queue /\ pass.pc = "gate"
    BY <1>2 DEF GateAcquired, Went
  <2>2. pass'.pc = "prepare" /\ pass'.stream = pass.stream /\ pass'.window = pass.window
    BY <1>1, <2>1, WentFields DEF PassSteps
  <2> QED
    BY <2>1, <2>2 DEF Pins, PinsNext, PassPins
<1>3. CASE \E i \in DOMAIN queue : BackoffEnds(i)
  <2>1. PICK i \in DOMAIN queue : BackoffEnds(i)
    BY <1>3
  <2>2. queue' = [queue EXCEPT ![i].due = TRUE] /\ pass' = pass
    BY <2>1 DEF BackoffEnds
  <2>3. /\ DOMAIN queue' = DOMAIN queue
        /\ \A j \in DOMAIN queue : /\ queue'[j].stream = queue[j].stream
                                   /\ queue'[j].window = queue[j].window
    <3> DEFINE e == [queue[i] EXCEPT !.due = TRUE]
    <3>1. queue[i] \in Pending
      BY <1>1
    <3>2. e.stream = queue[i].stream /\ e.window = queue[i].window
      BY <3>1 DEF Pending
    <3>3. queue' = [queue EXCEPT ![i] = e]
      BY <2>2
    <3> HIDE DEF e
    <3> QED
      BY <1>1, <3>2, <3>3
  <2>4. pass' = pass
    BY <2>2
  <2> QED
    BY <2>3, <2>4 DEF Pins, PinsNext, QueuePins
<1>4. ASSUME Rotate \/ TakeTurn
      PROVE  /\ queue # <<>> /\ pass.pc = "idle"
             /\ Len(queue) \in Nat \ {0} /\ DOMAIN queue = 1..Len(queue)
             /\ Head(queue) = queue[1] /\ Head(queue) \in Pending
             /\ Tail(queue) \in Seq(Pending) /\ Len(Tail(queue)) = Len(queue) - 1
             /\ DOMAIN Tail(queue) = 1..(Len(queue) - 1)
             /\ \A i \in 1..(Len(queue) - 1) : Tail(queue)[i] = queue[i + 1]
  <2>1. queue # <<>> /\ pass.pc = "idle"
    BY <1>4 DEF Rotate, TakeTurn, WorkerIdle
  <2> QED
    BY <1>1, <2>1, TailFacts
<1>5. CASE Rotate
  <2>1. queue' = Append(Tail(queue), Head(queue)) /\ pass' = pass
    BY <1>5 DEF Rotate
  <2>2. /\ DOMAIN queue' = 1..Len(queue) /\ queue'[Len(queue)] = queue[1]
        /\ \A i \in 1..(Len(queue) - 1) : queue'[i] = queue[i + 1]
    BY <1>4, <1>5, <2>1, AppendFacts
  <2>3. \A i \in DOMAIN queue' : \E j \in DOMAIN queue : queue'[i] = queue[j]
    <3> SUFFICES ASSUME NEW i \in DOMAIN queue' PROVE \E j \in DOMAIN queue : queue'[i] = queue[j]
      OBVIOUS
    <3>1. CASE i = Len(queue)
      BY <1>4, <1>5, <2>2, <3>1
    <3>2. CASE i # Len(queue)
      <4>1. i + 1 \in DOMAIN queue /\ queue'[i] = queue[i + 1]
        BY <1>4, <1>5, <2>2, <3>2
      <4> QED
        BY <4>1
    <3> QED
      BY <3>1, <3>2
  <2>4. pass' = pass
    BY <2>1
  <2> QED
    BY <2>3, <2>4 DEF Pins, PinsNext, QueuePins
<1>6. CASE TakeTurn
  <2>1. /\ queue' = Tail(queue)
        /\ pass' = [PassIdle EXCEPT !.pc = "gate", !.stream = Head(queue).stream,
                       !.window = Head(queue).window, !.kept = Head(queue).window,
                       !.marker = Head(queue).marker]
    BY <1>6 DEF TakeTurn
  <2>2. 1 \in DOMAIN queue /\ Head(queue) = queue[1]
    BY <1>4, <1>6
  <2>3. /\ pass'.pc = "gate" /\ pass'.stream = queue[1].stream /\ pass'.window = queue[1].window
    BY <2>1, <2>2, IdleFacts DEF Passes
  <2>4. \A i \in DOMAIN queue' : i + 1 \in DOMAIN queue /\ queue'[i] = queue[i + 1]
    BY <1>4, <1>6, <2>1
  <2>5. PassPins(pass', s, v) => QueuePins(queue, s, v)
    BY <2>2, <2>3 DEF PassPins, QueuePins
  <2>6. QueuePins(queue', s, v) => QueuePins(queue, s, v)
    BY <2>4 DEF QueuePins
  <2> QED
    BY <2>5, <2>6 DEF Pins, PinsNext
<1> QED
  BY <1>2, <1>3, <1>5, <1>6

\* From one step to the next, an interval of a stream is followed by no other.
LEMMA PinsStay ==
    ASSUME HistInv, [Next]_vars, NEW s \in Streams, NEW w, NEW v,
           Pins(s, w), w # NoWindow, PinsNext(s, v)
    PROVE  v = w
<1>1. CASE queue' = queue /\ pass' = pass
  BY <1>1, OnePin DEF Pins, PinsNext
<1>2. (Tick \/ Boot \/ RecoveryTakesGate \/ RecoveryReleasesGate \/ StartRuntime
       \/ NothingQueued \/ UNCHANGED vars) => queue' = queue /\ pass' = pass
  BY DEF Tick, Boot, RecoveryTakesGate, RecoveryReleasesGate, StartRuntime, NothingQueued,
     vars, mem
<1>3. (\E r \in Streams : Realtime(r) \/ RealtimePoint(r)) => queue' = queue /\ pass' = pass
  BY DEF Realtime, RealtimePoint, mem
<1>4. CASE Crash
  <2>1. DOMAIN queue' = {} /\ pass'.pc = "idle"
    BY <1>4, EmptySequence, IdleFacts DEF Crash
  <2> QED
    BY <2>1 DEF PinsNext, QueuePins, PassPins
<1>5. CASE StartupPass
  <2>1. /\ pass.pc = "idle" /\ starting # <<>> /\ queue' = queue /\ starting \in Seq(Streams)
        /\ pass' = [PassIdle EXCEPT !.pc = "prepare", !.stream = Head(starting)]
    BY <1>5 DEF StartupPass, HistInv, Types
  <2>2. 1 \in DOMAIN starting /\ Head(starting) = starting[1]
    BY <2>1, TailFacts
  <2>3. pass'.stream = starting[1]
    BY <2>1, <2>2, IdleFacts DEF Passes
  <2>4. QueuePins(queue, s, w)
    BY <2>1 DEF Pins, PassPins
  <2>5. s # starting[1]
    BY <2>2, <2>4 DEF HistInv, OwnedHolds, Waiting, Queued, QueuePins
  <2>6. ~PassPins(pass', s, v)
    BY <2>3, <2>5 DEF PassPins
  <2>7. Pins(s, v)
    BY <2>1, <2>6 DEF Pins, PinsNext
  <2> QED
    BY <2>7, OnePin
<1>6. CASE StartupOutcome \/ WorkerOutcome
  BY <1>6, OutcomePins, OnePin
<1>7. CASE Rotate \/ TakeTurn \/ GateAcquired \/ (\E i \in DOMAIN queue : BackoffEnds(i))
  BY <1>7, WorkerPins, OnePin
<1>8. CASE Step
  <2>1. StepPins
    BY <1>8, EveryStepPins
  <2>2. InPass
    BY <1>8 DEF Step, PrepareForBootstrap, ToBootstrapping, ResolveLowerBound, ProbeEnds, Probe,
       PinWindow, PointsWindow, MarkAuditing, PreAudit, TransitionToRepairing, RepairWindow,
       RepairEnds, PostAudit, MarkConnecting, ResolveFails, RepairFails, RecordFailureState
  <2>3. queue' = queue
    BY <2>2 DEF InPass, mem
  <2>4. CASE QueuePins(queue', s, v)
    BY <2>3, <2>4, OnePin DEF Pins
  <2>5. CASE PassPins(pass', s, v)
    <3>1. s = pass.stream
      BY <2>1, <2>5 DEF StepPins, PassPins
    <3>2. Pins(s, pass.window)
      BY <2>1, <3>1 DEF StepPins, Pins, PassPins
    <3>3. w = pass.window
      BY <3>2, OnePin
    <3> QED
      BY <2>1, <2>5, <3>3 DEF StepPins, PassPins
  <2> QED
    BY <2>4, <2>5 DEF PinsNext
<1> QED
  BY <1>1, <1>2, <1>3, <1>4, <1>5, <1>6, <1>7, <1>8 DEF Next, Startup, Worker

\* IntervalIsFixed for every constant: until a stream is admitted, given up or
\* the process ends, every pass of its cycle works on the interval the first one
\* pinned, through requeues, failures and the hold of the second track.
THEOREM IntervalsAreFixed == Spec => IntervalIsFixed
<1> DEFINE Fixed == \A s \in Streams :
                       \A w \in PinnedOf(s) \ {NoWindow} : PinnedOf(s)' \subseteq {w}
<1>1. ASSUME HistInv, [Next]_vars PROVE Fixed
  <2> SUFFICES ASSUME NEW s \in Streams, NEW w \in PinnedOf(s), w # NoWindow,
                      NEW v \in PinnedOf(s)'
               PROVE  v = w
    OBVIOUS
  <2>1. Pins(s, w)
    BY PinnedOfIs DEF Pins
  <2>2. PinsNext(s, v)
    BY PinnedOfIs DEF PinsNext
  <2> QED
    BY <1>1, <2>1, <2>2, PinsStay
<1>2. HistInv /\ [Next]_vars => [Fixed]_vars
  BY <1>1
<1> QED
  BY <1>2, ReconciliationInvariant, PTL DEF Spec, IntervalIsFixed
=============================================================================
