--------------------------- MODULE BackfillProofs ---------------------------
(***************************************************************************)
(* The operator's backfill keeps the promise of loading, spends no more    *)
(* than its budget, works on a whole schema and reports "complete" only    *)
(* when it is, for every set of streams, every window size and budget and  *)
(* every fault and crash.                                                  *)
(***************************************************************************)
EXTENDS OperatorBackfill, WellFoundedInduction, TLAPS

RowTables == [Streams -> StateRows \cup {NoRow}]
BootTables == [Processes -> Boots]

\* What the clock, REST and the operator give.
OutsideHolds ==
    /\ rest \in 1..Attempts /\ now \in 1..MaxNow /\ first \in Firsts
    /\ crashes \in 0..MaxCrashes

\* Of every row: only backfill's states, a cursor and a bound below which REST
\* has no bar, and a bound that has closed.
RowsHold ==
    \A s \in Streams :
        /\ rows[s].state \in {"absent", "uninitialized", "bootstrapping", "auditing",
                              "degraded", "failed"}
        /\ rows[s].cursor <= first[s]
        /\ rows[s].earliest \in {NoBar, first[s]}
        /\ rows[s].earliest < now

Registering == {"idle", "verify", "prepare", "register", "report"}

\* The windows asked for and still to be asked for.
BudgetHolds ==
    /\ cmd.pc \in Registering \cup {"ensure", "resolve"} => cmd.asked = 0 /\ cmd.probes = 0
    /\ cmd.pc \in {"probe", "plan"} => cmd.asked = cmd.probes
    /\ cmd.pc \in Registering \cup {"begin", "load"} => cmd.asked + cmd.left <= MaxWindows

\* Of the stream in turn, step by step.
TurnHolds ==
    /\ cmd.pos \in DOMAIN Coverages[cmd.cov]
    /\ cmd.since <= now
    /\ cmd.pc \notin Registering => Row \in StateRows
    /\ cmd.pc = "probe" => Row.earliest = NoBar /\ cmd.at <= first[S] /\ cmd.end <= now
    /\ cmd.pc = "plan" => Row.earliest # NoBar
    /\ cmd.pc \in {"begin", "load", "finish"} /\ cmd.kind = "all" =>
          cmd.start < cmd.end /\ cmd.since <= cmd.end /\ Row.earliest = first[S]
    /\ cmd.pc \in {"load", "finish"} => Row.state \notin {"uninitialized", "degraded"}
    /\ cmd.pc = "load" => \A c \in Row.candles : c < cmd.at

\* Stream j of coverage i had its turn before the one in turn.
Earlier(i, j) == i < cmd.cov \/ (i = cmd.cov /\ j < cmd.pos)

Loaded(s) == /\ rows[s].earliest = first[s]
             /\ Latest(rows[s]) >= cmd.since - 1
             /\ rows[s].state \in {"auditing", "failed"}

\* As long as nothing was left out, every stream that had its turn is loaded.
ReportHolds ==
    cmd.kind = "all" /\ cmd.status = "complete" /\ cmd.pc # "idle" =>
        \A i \in DOMAIN Coverages : \A j \in DOMAIN Coverages[i] :
            Earlier(i, j) \/ cmd.pc = "report" => Loaded(Coverages[i][j])

\* The inductive invariant.
BackInv ==
    /\ schema \in Schemas /\ rows \in RowTables /\ boot \in BootTables /\ cmd \in Commands
    /\ OutsideHolds
    /\ PreparedIsWhole
    /\ RowsHold
    /\ BudgetHolds
    /\ TurnHolds
    /\ ReportHolds

-----------------------------------------------------------------------------
USE SchemaBoundAssumption DEF Bars, NoBar

\* The naturals below a bound that are in a set have a largest one.
LEMMA LargestExists ==
    ASSUME NEW T \in SUBSET Nat, NEW n \in Nat, T # {}, \A x \in T : x <= n
    PROVE  \E m \in T : \A x \in T : x <= m
<1> DEFINE Below == {pair \in Nat \X Nat : pair[1] < pair[2]}
           Gaps == {k \in Nat : \E x \in T : x + k = n}
<1>1. IsWellFoundedOn(Below, Nat)
  BY NatLessThanWellFounded DEF OpToRel
<1>2. PICK e \in T : TRUE
  OBVIOUS
<1>3. n - e \in Gaps
  BY <1>2
<1>4. Gaps \subseteq Nat /\ Gaps # {}
  BY <1>3
<1>5. PICK t \in Gaps : \A y \in Gaps : <<y, t>> \notin Below
  <2> HIDE DEF Below, Gaps
  <2> QED
    BY <1>1, <1>4, WFMin
<1>6. \A y \in Gaps : ~(y < t)
  BY <1>4, <1>5
<1>7. PICK m \in T : m + t = n
  BY <1>5
<1>8. ASSUME NEW x \in T PROVE x <= m
  <2>1. n - x \in Gaps
    OBVIOUS
  <2> QED
    BY <2>1, <1>6, <1>7
<1> QED
  BY <1>8

\* The newest bar of a set of bars is in it and below none, or there is no bar.
LEMMA NewestExists ==
    ASSUME NEW bars \in SUBSET Bars
    PROVE  \E b \in bars \cup {-1} : \A c \in bars : c <= b
<1>1. CASE bars = {}
  BY <1>1
<1>2. CASE bars # {}
  <2>1. bars \in SUBSET Nat /\ \A x \in bars : x <= MaxNow
    OBVIOUS
  <2> QED
    BY <1>2, <2>1, LargestExists
<1> QED
  BY <1>1, <1>2

\* The newest stored bar of a row, or -1, is a bound of what is stored.
LEMMA LatestIs ==
    ASSUME NEW row, row.candles \subseteq Bars
    PROVE  /\ Latest(row) \in row.candles \cup {-1}
           /\ \A c \in row.candles : c <= Latest(row)
           /\ Latest(row) \in -1..(MaxNow - 1) \/ Latest(row) = -1
           /\ Latest(row) \in Int
<1>1. \E b \in row.candles \cup {-1} : \A c \in row.candles : c <= b
  BY NewestExists
<1>2. Latest(row) \in row.candles \cup {-1} /\ \A c \in row.candles : c <= Latest(row)
  BY <1>1 DEF Latest
<1> QED
  BY <1>2

\* More bars never make the newest one older.
LEMMA LatestGrows ==
    ASSUME NEW row, NEW more, row.candles \subseteq more.candles, more.candles \subseteq Bars
    PROVE  Latest(row) <= Latest(more)
<1>1. /\ Latest(row) \in row.candles \cup {-1} /\ Latest(row) \in Int
      /\ Latest(more) \in more.candles \cup {-1} /\ Latest(more) \in Int
      /\ \A c \in more.candles : c <= Latest(more)
  BY LatestIs
<1>2. -1 <= Latest(more)
  BY <1>1
<1> QED
  BY <1>1, <1>2

\* The fields of the command, and of a row.
LEMMA CmdFields ==
    ASSUME cmd \in Commands
    PROVE  /\ cmd.kind \in {"all", "one", "range"} /\ cmd.cov \in DOMAIN Coverages
           /\ cmd.pos \in Nat /\ cmd.probes \in 0..MaxWindows /\ cmd.left \in 0..MaxWindows
           /\ cmd.asked \in 0..MaxWindows /\ cmd.start \in 0..MaxNow /\ cmd.at \in 0..MaxNow
           /\ cmd.end \in 0..MaxNow /\ cmd.since \in 0..MaxNow /\ MaxWindows \in Nat
           /\ cmd.status \in {"complete", "incomplete", "failed"} /\ cmd.error \in BOOLEAN
BY WindowAssumption DEF Commands

\* The fields of a row of the state table.
LEMMA RowFields ==
    ASSUME rows \in RowTables, NEW s \in Streams
    PROVE  /\ rows[s].earliest \in Bars \cup {-1}
           /\ rows[s].cursor \in {-1} \cup 0..MaxNow
           /\ rows[s].candles \subseteq Bars
           /\ rows[s] \in StateRows \cup {NoRow}
           /\ rows[s] \in StateRows => rows[s].state \in LifecycleStates
BY DEF RowTables, StateRows, NoRow

\* The coverages name streams, all of them, and none is empty.
LEMMA CoverageFacts ==
    /\ DOMAIN Coverages = 1..Len(Coverages) /\ Len(Coverages) \in Nat /\ 1 \in DOMAIN Coverages
    /\ \A i \in DOMAIN Coverages :
          /\ DOMAIN Coverages[i] = 1..Len(Coverages[i]) /\ Len(Coverages[i]) \in Nat
          /\ 1 \in DOMAIN Coverages[i]
          /\ \A j \in DOMAIN Coverages[i] : Coverages[i][j] \in Streams
    /\ \A s \in Streams : \E i \in DOMAIN Coverages : \E j \in DOMAIN Coverages[i] :
          s = Coverages[i][j]
<1>1. /\ DOMAIN Coverages = 1..Len(Coverages) /\ Len(Coverages) \in Nat /\ 1 \in DOMAIN Coverages
  BY CoverageAssumption
<1>2. ASSUME NEW i \in DOMAIN Coverages
      PROVE  /\ DOMAIN Coverages[i] = 1..Len(Coverages[i]) /\ Len(Coverages[i]) \in Nat
             /\ 1 \in DOMAIN Coverages[i]
             /\ \A j \in DOMAIN Coverages[i] : Coverages[i][j] \in Streams
  <2>1. Coverages[i] \in Seq(Streams) /\ Coverages[i] # <<>>
    BY CoverageAssumption
  <2> QED
    BY <2>1
<1>3. \A s \in Streams : \E i \in DOMAIN Coverages : \E j \in DOMAIN Coverages[i] :
          s = Coverages[i][j]
  BY CoverageAssumption
<1> QED
  BY <1>1, <1>2, <1>3

\* The stream in turn is configured.
LEMMA InTurn ==
    ASSUME BackInv
    PROVE  /\ S \in Streams /\ Row \in StateRows \cup {NoRow} /\ Row = rows[S]
           /\ Row.candles \subseteq Bars
           /\ first \in [Streams -> 0..(MaxNow - 1)] /\ first[S] \in Bars
<1>1. cmd.cov \in DOMAIN Coverages /\ cmd.pos \in DOMAIN Coverages[cmd.cov] /\ rows \in RowTables
  BY CmdFields DEF BackInv, TurnHolds
<1>2. S \in Streams
  BY <1>1, CoverageFacts DEF S
<1>3. first \in [Streams -> 0..(MaxNow - 1)]
  BY FirstAssumption DEF BackInv, OutsideHolds
<1> QED
  BY <1>1, <1>2, <1>3, RowFields DEF Row

\* A command that waits is one.
LEMMA IdleIs == Idle \in Commands
BY CoverageFacts, WindowAssumption DEF Idle, Commands

\* Where NextStream leaves a command: at a stream not yet worked on, or at the
\* report, and then no stream is left unless the status says so.
LEMMA NextStreamHolds ==
    ASSUME BackInv, NEW status \in {"complete", "incomplete", "failed"}, NEW error \in BOOLEAN,
           NextStream(status, error)
    PROVE  /\ cmd' \in Commands /\ cmd'.pos \in DOMAIN Coverages[cmd'.cov]
           /\ cmd'.pc \in {"report", "prepare", "verify"}
           /\ cmd'.asked = 0 /\ cmd'.probes = 0 /\ cmd'.left = 0
           /\ cmd'.kind = cmd.kind /\ cmd'.since = cmd.since
           /\ cmd'.status = IF status = "complete" THEN cmd.status ELSE status
           /\ cmd.kind = "all" /\ status = "complete" =>
                \A i \in DOMAIN Coverages : \A j \in DOMAIN Coverages[i] :
                    (Earlier(i, j)' \/ cmd'.pc = "report")
                       => Earlier(i, j) \/ (i = cmd.cov /\ j = cmd.pos)
<1>0. /\ cmd \in Commands /\ cmd.cov \in DOMAIN Coverages /\ cmd.pos \in DOMAIN Coverages[cmd.cov]
      /\ cmd.kind \in {"all", "one", "range"} /\ cmd.pos \in Nat /\ cmd.since \in 0..MaxNow
      /\ cmd.status \in {"complete", "incomplete", "failed"} /\ cmd.error \in BOOLEAN
  BY CmdFields DEF BackInv, TurnHolds
<1>n. /\ cmd.cov \in 1..Len(Coverages) /\ Len(Coverages) \in Nat
      /\ DOMAIN Coverages = 1..Len(Coverages)
      /\ cmd.pos \in 1..Len(Coverages[cmd.cov]) /\ Len(Coverages[cmd.cov]) \in Nat
      /\ DOMAIN Coverages[cmd.cov] = 1..Len(Coverages[cmd.cov])
  BY <1>0, CoverageFacts
<1> DEFINE result == IF status = "complete" THEN cmd.status ELSE status
           failed == cmd.error \/ error
           turn == [Idle EXCEPT !.since = cmd.since, !.cov = cmd.cov, !.pos = cmd.pos,
                      !.kind = cmd.kind, !.error = failed, !.status = result]
           half == [Idle EXCEPT !.since = cmd.since, !.cov = cmd.cov, !.pos = cmd.pos]
<1>1. cmd' = IF cmd.kind # "all" \/ status = "failed"
             THEN [turn EXCEPT !.pc = "report"]
             ELSE IF cmd.pos < Len(Coverages[cmd.cov])
             THEN [turn EXCEPT !.pos = @ + 1, !.pc = "prepare"]
             ELSE IF cmd.cov < Len(Coverages)
             THEN [turn EXCEPT !.cov = @ + 1, !.pos = 1, !.pc = "verify"]
             ELSE [turn EXCEPT !.pc = "report"]
  BY Zenon DEF NextStream
<1>2. result \in {"complete", "incomplete", "failed"} /\ failed \in BOOLEAN
  BY <1>0
<1> HIDE DEF failed, result
<1> DEFINE Like(c) == /\ c \in Commands /\ c.asked = 0 /\ c.probes = 0 /\ c.left = 0
                      /\ c.kind = cmd.kind /\ c.since = cmd.since /\ c.status = result
<1>3. Like(turn) /\ turn.cov = cmd.cov /\ turn.pos = cmd.pos
  <2>1. Idle \in Commands /\ Idle.asked = 0 /\ Idle.probes = 0 /\ Idle.left = 0
    BY IdleIs DEF Idle
  <2>2. /\ half \in Commands /\ half.cov = cmd.cov /\ half.pos = cmd.pos
        /\ half.since = cmd.since /\ half.asked = 0 /\ half.probes = 0 /\ half.left = 0
    BY <1>0, <2>1 DEF Commands
  <2> DEFINE more == [half EXCEPT !.kind = cmd.kind]
  <2>3. turn = [more EXCEPT !.error = failed, !.status = result]
    OBVIOUS
  <2> HIDE DEF half, turn
  <2>4. /\ more \in Commands /\ more.kind = cmd.kind
        /\ more.cov = half.cov /\ more.pos = half.pos /\ more.since = half.since
        /\ more.asked = half.asked /\ more.probes = half.probes /\ more.left = half.left
    BY <1>0, <2>2 DEF Commands
  <2> HIDE DEF more
  <2>5. turn \in Commands
    BY <1>2, <2>3, <2>4 DEF Commands
  <2>6. turn.kind = more.kind /\ turn.status = result
    BY <2>3, <2>4 DEF Commands
  <2>7. /\ turn.cov = more.cov /\ turn.pos = more.pos /\ turn.since = more.since
        /\ turn.asked = more.asked /\ turn.probes = more.probes /\ turn.left = more.left
    BY <2>3, <2>4 DEF Commands
  <2> QED
    BY <2>2, <2>4, <2>5, <2>6, <2>7
<1> HIDE DEF turn
<1>4. PICK c \in DOMAIN Coverages, p \in Nat, pc \in {"report", "prepare", "verify"} :
        /\ Like(cmd') /\ cmd'.cov = c /\ cmd'.pos = p /\ cmd'.pc = pc
        /\ p \in DOMAIN Coverages[c]
        /\ cmd.kind = "all" /\ status = "complete" =>
             \/ c = cmd.cov /\ p = cmd.pos + 1 /\ pc = "prepare"
             \/ c = cmd.cov + 1 /\ p = 1 /\ pc = "verify" /\ cmd.pos = Len(Coverages[cmd.cov])
             \/ /\ c = cmd.cov /\ p = cmd.pos /\ pc = "report"
                /\ cmd.pos = Len(Coverages[cmd.cov]) /\ cmd.cov = Len(Coverages)
  <2>1. CASE cmd.kind # "all" \/ status = "failed"
    <3>1. cmd' = [turn EXCEPT !.pc = "report"]
      BY <1>1, <2>1
    <3>2. Like(cmd') /\ cmd'.cov = cmd.cov /\ cmd'.pos = cmd.pos /\ cmd'.pc = "report"
      BY <1>3, <3>1 DEF Commands
    <3> QED
      BY <1>0, <2>1, <3>2
  <2>2. CASE ~(cmd.kind # "all" \/ status = "failed") /\ cmd.pos < Len(Coverages[cmd.cov])
    <3>0. cmd' = [turn EXCEPT !.pos = turn.pos + 1, !.pc = "prepare"]
      BY <1>1, <2>2
    <3>1. cmd' = [turn EXCEPT !.pos = cmd.pos + 1, !.pc = "prepare"]
      BY <1>3, <3>0
    <3>2. cmd.pos + 1 \in Nat /\ cmd.pos + 1 \in DOMAIN Coverages[cmd.cov]
      BY <1>n, <2>2
    <3>3. Like(cmd') /\ cmd'.cov = cmd.cov /\ cmd'.pos = cmd.pos + 1 /\ cmd'.pc = "prepare"
      BY <1>3, <3>1, <3>2 DEF Commands
    <3> QED
      BY <1>0, <3>2, <3>3
  <2>3. CASE /\ ~(cmd.kind # "all" \/ status = "failed") /\ ~(cmd.pos < Len(Coverages[cmd.cov]))
             /\ cmd.cov < Len(Coverages)
    <3>0. cmd' = [turn EXCEPT !.cov = turn.cov + 1, !.pos = 1, !.pc = "verify"]
      BY <1>1, <2>3
    <3>1. cmd' = [turn EXCEPT !.cov = cmd.cov + 1, !.pos = 1, !.pc = "verify"]
      BY <1>3, <3>0
    <3>2. /\ cmd.cov + 1 \in DOMAIN Coverages /\ cmd.pos = Len(Coverages[cmd.cov])
      BY <1>n, <2>3
    <3>3. 1 \in DOMAIN Coverages[cmd.cov + 1] /\ 1 \in Nat
      BY <3>2, CoverageFacts
    <3>4. Like(cmd') /\ cmd'.cov = cmd.cov + 1 /\ cmd'.pos = 1 /\ cmd'.pc = "verify"
      BY <1>3, <3>1, <3>2 DEF Commands
    <3> QED
      BY <3>2, <3>3, <3>4
  <2>4. CASE /\ ~(cmd.kind # "all" \/ status = "failed") /\ ~(cmd.pos < Len(Coverages[cmd.cov]))
             /\ ~(cmd.cov < Len(Coverages))
    <3>1. cmd' = [turn EXCEPT !.pc = "report"]
      BY <1>1, <2>4
    <3>2. cmd.pos = Len(Coverages[cmd.cov]) /\ cmd.cov = Len(Coverages)
      BY <1>0, <2>4, CoverageFacts
    <3>3. Like(cmd') /\ cmd'.cov = cmd.cov /\ cmd'.pos = cmd.pos /\ cmd'.pc = "report"
      BY <1>3, <3>1 DEF Commands
    <3> QED
      BY <1>0, <3>2, <3>3
  <2> QED
    BY <2>1, <2>2, <2>3, <2>4
<1>5. /\ cmd' \in Commands /\ cmd'.cov = c /\ cmd'.pos = p /\ cmd'.pc = pc
      /\ cmd'.asked = 0 /\ cmd'.probes = 0 /\ cmd'.left = 0
      /\ cmd'.kind = cmd.kind /\ cmd'.since = cmd.since /\ cmd'.status = result
  BY <1>4
<1>6. ASSUME cmd.kind = "all", status = "complete",
             NEW i \in DOMAIN Coverages, NEW j \in DOMAIN Coverages[i],
             Earlier(i, j)' \/ cmd'.pc = "report"
      PROVE  Earlier(i, j) \/ (i = cmd.cov /\ j = cmd.pos)
  <2>1. i \in 1..Len(Coverages) /\ j \in 1..Len(Coverages[i]) /\ Len(Coverages[i]) \in Nat
        /\ Len(Coverages) \in Nat /\ cmd.cov \in 1..Len(Coverages)
    BY <1>0, CoverageFacts
  <2>2. i < c \/ (i = c /\ j < p) \/ pc = "report"
    BY <1>5, <1>6 DEF Earlier
  <2> QED
    BY <1>0, <1>4, <1>6, <2>1, <2>2 DEF Earlier
<1> QED
  BY <1>4, <1>5, <1>6 DEF result

\* A loaded stream stays loaded: bars and bounds are never deleted, and no step of a
\* command that is still complete takes a stream out of "auditing" or "failed".
LEMMA ReportFrame ==
    ASSUME BackInv, rows' \in RowTables, cmd' \in Commands,
           cmd.pc # "idle", cmd'.pc # "report",
           cmd'.kind = cmd.kind, cmd'.status = cmd.status, cmd'.since = cmd.since,
           cmd'.cov = cmd.cov, cmd'.pos = cmd.pos, first' = first,
           \A s \in Streams :
              /\ rows[s].candles \subseteq rows'[s].candles
              /\ rows'[s].earliest \in {rows[s].earliest, first[s]}
              /\ rows[s].state \in {"auditing", "failed"} => rows'[s].state = rows[s].state
    PROVE  ReportHolds'
<1> SUFFICES ASSUME cmd.kind = "all", cmd.status = "complete",
                    NEW i \in DOMAIN Coverages, NEW j \in DOMAIN Coverages[i],
                    Earlier(i, j)
             PROVE  Loaded(Coverages[i][j])'
  BY DEF ReportHolds, Earlier
<1> DEFINE s == Coverages[i][j]
<1>1. s \in Streams
  BY CoverageFacts
<1>2. Loaded(s)
  BY DEF BackInv, ReportHolds
<1> HIDE DEF s
<1>3. rows[s].candles \subseteq rows'[s].candles /\ rows'[s].candles \subseteq Bars
  BY <1>1 DEF RowTables, StateRows, NoRow
<1>4. Latest(rows[s]) <= Latest(rows'[s]) /\ Latest(rows[s]) \in Int /\ Latest(rows'[s]) \in Int
  BY <1>3, LatestGrows, LatestIs
<1>5. cmd.since \in Int
  BY CmdFields DEF BackInv
<1> QED
  BY <1>1, <1>2, <1>4, <1>5 DEF Loaded, s

\* The end of a stream's turn.
LEMMA TurnEnds ==
    ASSUME BackInv, NEW status \in {"complete", "incomplete", "failed"}, NEW error \in BOOLEAN,
           NextStream(status, error), rows' \in RowTables, now' = now, first' = first,
           cmd.pc # "idle",
           \A s \in Streams :
              /\ rows[s].candles \subseteq rows'[s].candles
              /\ rows'[s].earliest \in {rows[s].earliest, first[s]}
              /\ rows[s].state \in {"auditing", "failed"} /\ status = "complete"
                    => rows'[s].state = rows[s].state,
           status = "complete" /\ cmd.kind = "all" =>
              /\ rows'[S].earliest = first[S]
              /\ Latest(rows'[S]) >= cmd.since - 1
              /\ rows'[S].state \in {"auditing", "failed"}
    PROVE  cmd' \in Commands /\ BudgetHolds' /\ TurnHolds' /\ ReportHolds'
<1> DEFINE Next2 ==
      /\ cmd' \in Commands /\ cmd'.pos \in DOMAIN Coverages[cmd'.cov]
      /\ cmd'.pc \in {"report", "prepare", "verify"}
      /\ cmd'.asked = 0 /\ cmd'.probes = 0 /\ cmd'.left = 0
      /\ cmd'.kind = cmd.kind /\ cmd'.since = cmd.since
<1>1. Next2
  BY NextStreamHolds
<1>2. BudgetHolds'
  BY <1>1, WindowAssumption DEF BudgetHolds, Registering
<1>3. TurnHolds'
  BY <1>1 DEF BackInv, TurnHolds, Registering
<1>4. ReportHolds'
  <2> SUFFICES ASSUME cmd'.kind = "all", cmd'.status = "complete",
                      NEW i \in DOMAIN Coverages, NEW j \in DOMAIN Coverages[i],
                      Earlier(i, j)' \/ cmd'.pc = "report"
               PROVE  Loaded(Coverages[i][j])'
    BY DEF ReportHolds
  <2> DEFINE s == Coverages[i][j]
  <2>1. cmd.kind = "all" /\ status = "complete" /\ cmd.status = "complete"
    BY <1>1, NextStreamHolds
  <2>2. Earlier(i, j) \/ (i = cmd.cov /\ j = cmd.pos)
    BY <2>1, NextStreamHolds
  <2>3. Loaded(s) \/ Loaded(s)'
    BY <2>1, <2>2, <1>1 DEF BackInv, ReportHolds, S, Loaded
  <2>4. s \in Streams
    BY CoverageFacts
  <2> HIDE DEF s
  <2>5. rows[s].candles \subseteq rows'[s].candles /\ rows'[s].candles \subseteq Bars
    BY <2>4 DEF RowTables, StateRows, NoRow
  <2>6. Latest(rows[s]) <= Latest(rows'[s]) /\ Latest(rows[s]) \in Int /\ Latest(rows'[s]) \in Int
    BY <2>5, LatestGrows, LatestIs
  <2>7. cmd.since \in Int /\ cmd'.since = cmd.since
    BY <1>1, CmdFields DEF BackInv
  <2> QED
    BY <2>1, <2>3, <2>4, <2>6, <2>7 DEF Loaded, s
<1> QED
  BY <1>1, <1>2, <1>3, <1>4

-----------------------------------------------------------------------------
\* The script has eight statements, each a table, an index or the version.
LEMMA ScriptFacts ==
    /\ Len(Script) = 8 /\ DOMAIN Script = 1..8
    /\ \A i \in 1..8 : Script[i] = "version" \/ Script[i] \in BaseTables
<1>1. Len(Script) = 8 /\ DOMAIN Script = 1..8
  BY DEF Script
<1> QED
  BY <1>1 DEF BaseTables

\* A table is never dropped and the column never lost, so that a process is on a
\* whole schema as long as it was let through on one.
LEMMA WholeFrame ==
    ASSUME PreparedIsWhole, schema.tables \subseteq schema'.tables,
           schema.column => schema'.column,
           \A q \in Processes : boot'[q].pc = "up" =>
              boot[q].pc = "up" \/ (Required \subseteq schema'.tables /\ schema'.column)
    PROVE  PreparedIsWhole'
BY DEF PreparedIsWhole, At

\* One process moves to another place of initialize_database.
LEMMA BootMoves ==
    ASSUME boot \in BootTables, NEW p \in Processes,
           NEW pc \in {"off", "exists", "create", "read", "v1_to_v2", "v2_to_v3", "validate",
                       "validate_tables", "up", "failed"},
           BootGoes(p, pc)
    PROVE  /\ boot' \in BootTables /\ boot'[p].pc = pc
           /\ \A q \in Processes \ {p} : boot'[q] = boot[q]
BY DEF BootGoes, BootTables, Boots

\* The steps of initialize_database keep the file in its domain.
LEMMA BootStepHolds ==
    ASSUME schema \in Schemas, rows \in RowTables, boot \in BootTables, PreparedIsWhole,
           NEW p \in Processes, BootStep(p)
    PROVE  /\ schema' \in Schemas /\ boot' \in BootTables /\ PreparedIsWhole'
           /\ rows' = rows \/ rows' = [s \in Streams |-> CopyRow(rows[s])]
<1>0. /\ schema.tables \subseteq BaseTables \cup Tracks /\ schema.column \in BOOLEAN
      /\ schema.version \in {"none", "1", "2", "3"}
      /\ boot[p] \in Boots /\ boot[p].at \in 1..9
  BY ScriptFacts DEF Schemas, BootTables, Boots
<1>1. ASSUME NEW pc \in {"exists", "create", "read", "v1_to_v2", "v2_to_v3", "validate",
                         "validate_tables", "up", "failed"},
             BootGoes(p, pc), schema' \in Schemas, schema.tables \subseteq schema'.tables,
             schema.column => schema'.column,
             pc = "up" => Required \subseteq schema'.tables /\ schema'.column
      PROVE  boot' \in BootTables /\ PreparedIsWhole'
  <2>1. /\ boot' \in BootTables /\ boot'[p].pc = pc
        /\ \A q \in Processes \ {p} : boot'[q] = boot[q]
    BY <1>1, BootMoves
  <2>2. \A q \in Processes : boot'[q].pc = "up" =>
          boot[q].pc = "up" \/ (Required \subseteq schema'.tables /\ schema'.column)
    BY <1>1, <2>1
  <2> QED
    BY <1>1, <2>1, <2>2, WholeFrame
<1>2. CASE SchemaExists(p)
  BY <1>1, <1>2 DEF SchemaExists
<1>3. CASE CreateStatement(p)
  <2> DEFINE item == Script[boot[p].at]
             clash == IF item = "version" THEN schema.version # "none" ELSE item \in schema.tables
  <2>1. boot[p].at \in 1..8 /\ (item = "version" \/ item \in BaseTables) /\ rows' = rows
    BY <1>0, <1>3, ScriptFacts DEF CreateStatement
  <2>2. CASE clash
    <3>1. BootGoes(p, "failed") /\ schema' = schema
      BY <1>3, <2>2 DEF CreateStatement
    <3> QED
      BY <1>1, <2>1, <3>1
  <2>3. CASE ~clash
    <3>1. /\ schema' = IF item = "version" THEN [schema EXCEPT !.version = "2"]
                       ELSE [schema EXCEPT !.tables = @ \cup {item},
                                     !.column = @ \/ item = "stream_state"]
          /\ boot' = [boot EXCEPT ![p].at = boot[p].at + 1]
      BY <1>3, <2>3 DEF CreateStatement
    <3> HIDE DEF item, clash
    <3>2. /\ schema' \in Schemas /\ schema.tables \subseteq schema'.tables
          /\ schema.column => schema'.column
      <4>1. CASE item = "version"
        BY <1>0, <3>1, <4>1 DEF Schemas
      <4>2. CASE item # "version"
        <5> DEFINE column == schema.column \/ item = "stream_state"
        <5>1. column \in BOOLEAN /\ (schema.column => column)
          OBVIOUS
        <5>2. schema' = [schema EXCEPT !.tables = schema.tables \cup {item}, !.column = column]
          BY <3>1, <4>2
        <5> HIDE DEF column
        <5> QED
          BY <1>0, <2>1, <4>2, <5>1, <5>2 DEF Schemas
      <4> QED
        BY <4>1, <4>2
    <3>3. boot[p].at + 1 \in 1..(Len(Script) + 1)
      BY <2>1, ScriptFacts
    <3>4. boot' \in BootTables /\ \A q \in Processes : boot'[q].pc = boot[q].pc
      BY <3>1, <3>3 DEF BootTables, Boots
    <3> QED
      BY <2>1, <3>2, <3>4, WholeFrame
  <2> QED
    BY <2>2, <2>3
<1>4. CASE CreateEnds(p)
  BY <1>1, <1>4 DEF CreateEnds
<1>5. CASE MigrateSchema(p)
  <2>1. \E pc \in {"validate", "v2_to_v3", "v1_to_v2", "failed"} : BootGoes(p, pc)
    BY <1>0, <1>5 DEF MigrateSchema
  <2> QED
    BY <1>1, <1>5, <2>1 DEF MigrateSchema
<1>6. CASE MigrateV1ToV2(p)
  <2>1. schema' \in Schemas /\ schema'.tables = schema.tables /\ schema'.column = TRUE
    BY <1>0, <1>6 DEF MigrateV1ToV2, Schemas
  <2> QED
    BY <1>1, <1>6, <2>1 DEF MigrateV1ToV2
<1>7. CASE MigrateV2ToV3(p)
  <2>1. CASE Tracks \cap schema.tables # {}
    BY <1>1, <1>7, <2>1 DEF MigrateV2ToV3
  <2>2. CASE ~(Tracks \cap schema.tables # {})
    <3>1. /\ schema' = [schema EXCEPT !.tables = schema.tables \cup Tracks, !.version = "3"]
          /\ BootGoes(p, "validate") /\ rows' = rows
      BY <1>7, <2>2 DEF MigrateV2ToV3
    <3>2. /\ schema' \in Schemas /\ schema.tables \subseteq schema'.tables
          /\ schema'.column = schema.column
      BY <1>0, <3>1 DEF Schemas
    <3> QED
      BY <1>1, <3>1, <3>2
  <2> QED
    BY <2>1, <2>2
<1>8. CASE ValidateVersion(p)
  BY <1>1, <1>8 DEF ValidateVersion
<1>9. CASE ValidateTables(p)
  <2>1. CASE MissingTables = {} /\ schema.column
    BY <1>1, <1>9, <2>1 DEF ValidateTables, MissingTables
  <2>2. CASE ~(MissingTables = {} /\ schema.column)
    BY <1>1, <1>9, <2>2 DEF ValidateTables
  <2> QED
    BY <2>1, <2>2
<1> QED
  BY <1>2, <1>3, <1>4, <1>5, <1>6, <1>7, <1>8, <1>9 DEF BootStep

\* A process starts again or ends.
LEMMA BootReset ==
    ASSUME schema \in Schemas, boot \in BootTables, PreparedIsWhole, NEW p \in Processes,
           NEW pc \in {"off", "exists"}, boot' = [boot EXCEPT ![p] = [pc |-> pc, at |-> 1]],
           schema' = schema
    PROVE  boot' \in BootTables /\ PreparedIsWhole'
<1>1. [pc |-> pc, at |-> 1] \in Boots
  BY ScriptFacts DEF Boots
<1>2. boot' \in BootTables /\ \A q \in Processes : boot'[q].pc = "up" => boot[q].pc = "up"
  BY <1>1 DEF BootTables
<1> QED
  BY <1>2, WholeFrame

\* The file as it is found.
LEMMA SchemaStarts ==
    ASSUME SchemaInit
    PROVE  /\ schema \in Schemas /\ rows \in RowTables /\ boot \in BootTables /\ PreparedIsWhole
           /\ \A s \in Streams : rows[s] \in {NoRow, UsedRow}
<1>1. PICK o \in Origins :
        /\ schema = Origin(o)
        /\ rows \in [Streams -> IF o = "empty" THEN {NoRow} ELSE {NoRow, UsedRow}]
        /\ boot = [p \in Processes |-> Off]
  BY DEF SchemaInit
<1>2. schema \in Schemas
  <2>1. o \in {"empty", "1", "2", "3"}
    BY OriginAssumption
  <2> QED
    BY <1>1, <2>1 DEF Origin, Schemas
<1>3. \A s \in Streams : rows[s] \in {NoRow, UsedRow}
  BY <1>1
<1>4. UsedRow \in StateRows
  BY DEF UsedRow, StateRows, LifecycleStates
<1>5. rows \in RowTables
  BY <1>1, <1>3, <1>4 DEF RowTables
<1>6. boot \in BootTables /\ PreparedIsWhole
  BY <1>1, ScriptFacts DEF BootTables, Boots, Off, PreparedIsWhole, At
<1> QED
  BY <1>2, <1>3, <1>5, <1>6

\* A row that is registered is one of the table.
LEMMA RegisterHolds ==
    ASSUME rows \in RowTables, NEW s \in Streams, rows' = [rows EXCEPT ![s] = Registered(@)]
    PROVE  /\ rows' \in RowTables /\ rows'[s] \in StateRows
           /\ \A t \in Streams : \/ rows'[t] = rows[t]
                                 \/ rows[t] = NoRow /\ rows'[t] = NewRow
<1>1. NewRow \in StateRows
  BY DEF NewRow, NoRow, StateRows, LifecycleStates
<1>2. rows[s] \in StateRows \cup {NoRow}
  BY DEF RowTables
<1>3. Registered(rows[s]) \in StateRows
  BY <1>1, <1>2 DEF Registered
<1>4. Registered(rows[s]) = rows[s] \/ (rows[s] = NoRow /\ Registered(rows[s]) = NewRow)
  BY DEF Registered
<1>5. rows' = [rows EXCEPT ![s] = Registered(rows[s])]
  OBVIOUS
<1> HIDE DEF Registered
<1> QED
  BY <1>3, <1>4, <1>5 DEF RowTables

\* A migrated table is one.
LEMMA CopyHolds ==
    ASSUME rows \in RowTables, rows' = [s \in Streams |-> CopyRow(rows[s])]
    PROVE  /\ rows' \in RowTables
           /\ \A s \in Streams :
                 /\ rows'[s].candles = rows[s].candles /\ rows'[s].earliest = rows[s].earliest
                 /\ rows'[s].state = rows[s].state /\ rows'[s].cursor = -1
                 /\ rows[s] \in StateRows => rows'[s] \in StateRows
<1>1. ASSUME NEW s \in Streams
      PROVE  /\ CopyRow(rows[s]) \in StateRows \cup {NoRow}
             /\ rows[s] \in StateRows => CopyRow(rows[s]) \in StateRows
             /\ CopyRow(rows[s]).candles = rows[s].candles
             /\ CopyRow(rows[s]).earliest = rows[s].earliest
             /\ CopyRow(rows[s]).state = rows[s].state /\ CopyRow(rows[s]).cursor = -1
  <2>1. CASE rows[s] \in StateRows
    BY <2>1 DEF CopyRow, StateRows
  <2>2. CASE rows[s] = NoRow
    <3>1. CopyRow(rows[s]) = NoRow
      BY <2>2 DEF CopyRow, NoRow
    <3> QED
      BY <2>2, <3>1 DEF NoRow, StateRows, LifecycleStates
  <2> QED
    BY <2>1, <2>2 DEF RowTables
<1> QED
  BY <1>1 DEF RowTables

\* A process that initialize_database let through works on a whole schema,
\* whatever any number of others do to the file at the same time.
THEOREM PreparedSchemaIsWhole == SchemaSpec => []PreparedIsWhole
<1> DEFINE Inv == /\ schema \in Schemas /\ rows \in RowTables /\ boot \in BootTables
                  /\ PreparedIsWhole
<1>1. SchemaInit => Inv
  BY SchemaStarts
<1>2. Inv /\ [SchemaNext]_schemaVars => Inv'
  <2> SUFFICES ASSUME Inv, [SchemaNext]_schemaVars PROVE Inv'
    OBVIOUS
  <2>1. ASSUME NEW p \in Processes, StartBoot(p) \/ BootCrash(p) PROVE Inv'
    BY <2>1, BootReset DEF StartBoot, BootCrash, Off
  <2>2. ASSUME NEW p \in Processes, BootStep(p) PROVE Inv'
    BY <2>2, BootStepHolds, CopyHolds
  <2>3. ASSUME NEW p \in Processes, NEW s \in Streams, RegisterStream(p, s) PROVE Inv'
    BY <2>3, RegisterHolds DEF RegisterStream, PreparedIsWhole, At
  <2>4. CASE UNCHANGED schemaVars
    BY <2>4 DEF schemaVars, PreparedIsWhole, At
  <2> QED
    BY <2>1, <2>2, <2>3, <2>4 DEF SchemaNext
<1>3. Inv => PreparedIsWhole
  OBVIOUS
<1> QED
  BY <1>1, <1>2, <1>3, PTL DEF SchemaSpec

-----------------------------------------------------------------------------
(* Every step keeps the invariant.                                         *)

USE WindowAssumption, CommandAssumption

\* There is a first attempt.
LEMMA AttemptFacts == Attempts \in Nat /\ 1 \in 1..Attempts
BY RetryAssumption DEF Attempts, Larger

\* A command that has not begun, or is at its end.
LEMMA IdleHolds ==
    ASSUME cmd' = Idle, now' \in 1..MaxNow
    PROVE  cmd' \in Commands /\ BudgetHolds' /\ TurnHolds' /\ ReportHolds'
<1>1. /\ cmd'.pc = "idle" /\ cmd'.asked = 0 /\ cmd'.probes = 0 /\ cmd'.left = 0
      /\ cmd'.pos = 1 /\ cmd'.cov = 1 /\ cmd'.since = 0
  BY DEF Idle
<1>2. BudgetHolds'
  BY <1>1 DEF BudgetHolds, Registering
<1>3. TurnHolds'
  <2>1. cmd'.pos \in DOMAIN Coverages[cmd'.cov] /\ cmd'.since <= now'
    <3>1. 1 \in DOMAIN Coverages[1]
      BY CoverageFacts
    <3> QED
      BY <1>1, <3>1
  <2>2. cmd'.pc \in Registering /\ cmd'.pc \notin {"probe", "plan", "begin", "load", "finish"}
    BY <1>1 DEF Registering
  <2> QED
    BY <2>1, <2>2 DEF TurnHolds
<1>4. ReportHolds'
  BY <1>1 DEF ReportHolds
<1> QED
  BY <1>2, <1>3, <1>4, IdleIs

\* The file as it is found, and no command.
LEMMA BackStarts == Init => BackInv
<1> SUFFICES ASSUME Init PROVE BackInv
  OBVIOUS
<1>1. /\ schema \in Schemas /\ rows \in RowTables /\ boot \in BootTables /\ PreparedIsWhole
      /\ \A s \in Streams : rows[s] \in {NoRow, UsedRow}
  BY SchemaStarts DEF Init
<1>2. /\ cmd.pc = "idle" /\ cmd.asked = 0 /\ cmd.probes = 0 /\ cmd.left = 0
      /\ cmd.pos = 1 /\ cmd.cov = 1 /\ cmd.since = 0 /\ cmd \in Commands
  BY IdleIs DEF Init, Idle
<1>3. now \in 1..MaxNow /\ first \in Firsts /\ first \in [Streams -> 0..(MaxNow - 1)]
  BY FirstAssumption DEF Init
<1>4. OutsideHolds
  BY <1>3, AttemptFacts DEF Init, OutsideHolds, Fresh
<1>5. RowsHold
  <2>1. ASSUME NEW s \in Streams
        PROVE  /\ rows[s].state \in {"absent", "bootstrapping"} /\ rows[s].cursor = -1
               /\ rows[s].earliest = -1 \/ (rows[s].earliest = 0 /\ first[s] = 0)
    BY <1>1 DEF NoRow, UsedRow, Init
  <2>2. ASSUME NEW s \in Streams PROVE first[s] \in Nat /\ now \in Nat /\ now > 0
    BY <1>3
  <2> QED
    BY <2>1, <2>2 DEF RowsHold
<1>6. BudgetHolds /\ ReportHolds
  BY <1>2 DEF BudgetHolds, Registering, ReportHolds
<1>7. TurnHolds
  <2>1. cmd.pos \in DOMAIN Coverages[cmd.cov] /\ cmd.since <= now
    BY <1>2, <1>3, CoverageFacts
  <2> QED
    BY <1>2, <2>1 DEF TurnHolds, Registering
<1> QED
  BY <1>1, <1>2, <1>4, <1>5, <1>6, <1>7 DEF BackInv

\* A bar closes.
LEMMA TickKeeps == ASSUME BackInv, Tick PROVE BackInv'
<1> USE DEF Tick, durable
<1>1. now' = now + 1 /\ now \in 1..MaxNow /\ now' \in 1..MaxNow
  BY DEF BackInv, OutsideHolds
<1>2. OutsideHolds' /\ PreparedIsWhole' /\ BudgetHolds'
  BY <1>1 DEF BackInv, OutsideHolds, PreparedIsWhole, At, BudgetHolds
<1>3. RowsHold'
  <2>1. \A s \in Streams : rows[s].earliest \in Int
    BY RowFields DEF BackInv
  <2> QED
    BY <1>1, <2>1 DEF BackInv, RowsHold
<1>4. TurnHolds'
  BY <1>1, CmdFields DEF BackInv, TurnHolds, S, Row
<1>5. ReportHolds'
  BY DEF BackInv, ReportHolds, Earlier, Loaded
<1> QED
  BY <1>2, <1>3, <1>4, <1>5 DEF BackInv

\* The rows, the clock and REST's bars are as they were.
LEMMA RowsFrame ==
    ASSUME BackInv, UNCHANGED <<rows, first, now, crashes>>, rest' \in 1..Attempts
    PROVE  OutsideHolds' /\ RowsHold' /\ rows' \in RowTables
BY DEF BackInv, OutsideHolds, RowsHold

\* The command reports, or is killed.
LEMMA EndKeeps == ASSUME BackInv, Crash \/ Report PROVE BackInv'
<1>1. /\ cmd' = Idle /\ boot' = [boot EXCEPT !["command"] = Off]
      /\ UNCHANGED <<schema, rows, now, first>> /\ rest' \in 1..Attempts
      /\ crashes' \in 0..MaxCrashes
  BY AttemptFacts DEF Crash, Report, durable, outside, Fresh, BackInv, OutsideHolds
<1>2. schema \in Schemas /\ rows \in RowTables /\ boot \in BootTables /\ PreparedIsWhole
      /\ OutsideHolds /\ RowsHold
  BY DEF BackInv
<1>3. boot' \in BootTables /\ PreparedIsWhole'
  BY <1>1, <1>2, BootReset DEF Off
<1>4. OutsideHolds' /\ RowsHold'
  BY <1>1, <1>2 DEF OutsideHolds, RowsHold
<1>5. cmd' \in Commands /\ BudgetHolds' /\ TurnHolds' /\ ReportHolds'
  BY <1>1, <1>2, IdleHolds DEF OutsideHolds
<1> QED
  BY <1>1, <1>2, <1>3, <1>4, <1>5 DEF BackInv

\* A command begins, with nothing asked for.
LEMMA StartKeeps == ASSUME BackInv, StartAll \/ StartOne PROVE BackInv'
<1>0. schema \in Schemas /\ rows \in RowTables /\ boot \in BootTables /\ PreparedIsWhole
      /\ OutsideHolds /\ RowsHold /\ now \in 1..MaxNow
  BY DEF BackInv, OutsideHolds
<1>1. ASSUME NEW c \in Commands, Start(c), c.pos \in DOMAIN Coverages[c.cov],
             c.since <= now, c.asked = 0, c.probes = 0, c.status = "complete",
             c.kind = "all" => c.cov = 1 /\ c.pos = 1
      PROVE  BackInv'
  <2>1. /\ cmd' = [c EXCEPT !.pc = "verify"] /\ UNCHANGED <<schema, rows, boot, rest>>
        /\ UNCHANGED <<now, first, crashes>>
    BY <1>1 DEF Start, durable, outside
  <2>2. /\ cmd' \in Commands /\ cmd'.pc = "verify" /\ cmd'.pos = c.pos /\ cmd'.cov = c.cov
        /\ cmd'.since = c.since /\ cmd'.asked = 0 /\ cmd'.probes = 0 /\ cmd'.left \in 0..MaxWindows
        /\ cmd'.kind = c.kind
    BY <1>1, <2>1 DEF Commands
  <2>3. BudgetHolds'
    BY <2>2 DEF BudgetHolds, Registering
  <2>4. TurnHolds'
    BY <1>1, <2>1, <2>2 DEF TurnHolds, Registering
  <2>5. ReportHolds'
    <3>1. ASSUME cmd'.kind = "all", NEW i \in DOMAIN Coverages, NEW j \in DOMAIN Coverages[i]
          PROVE  ~Earlier(i, j)'
      <4>1. i \in 1..Len(Coverages) /\ Len(Coverages) \in Nat
            /\ j \in 1..Len(Coverages[i]) /\ Len(Coverages[i]) \in Nat
        BY CoverageFacts
      <4> QED
        BY <1>1, <2>2, <3>1, <4>1 DEF Earlier
    <3> QED
      BY <2>2, <3>1 DEF ReportHolds
  <2>6. OutsideHolds' /\ RowsHold' /\ PreparedIsWhole'
    BY <1>0, <2>1 DEF OutsideHolds, RowsHold, PreparedIsWhole, At
  <2> QED
    BY <1>0, <2>1, <2>2, <2>3, <2>4, <2>5, <2>6 DEF BackInv
<1>2. Idle \in Commands /\ Idle.asked = 0 /\ Idle.probes = 0 /\ Idle.status = "complete"
      /\ Idle.cov = 1 /\ Idle.pos = 1 /\ Idle.since = 0
  BY IdleIs DEF Idle
<1>3. CASE StartAll
  <2> DEFINE c == [Idle EXCEPT !.since = now]
  <2>1. /\ c \in Commands /\ c.since = now /\ c.asked = 0 /\ c.probes = 0 /\ c.cov = 1
        /\ c.pos = 1 /\ c.status = "complete"
    BY <1>0, <1>2 DEF Commands
  <2>2. Start(c)
    BY <1>3 DEF StartAll
  <2>3. now <= now /\ 1 \in DOMAIN Coverages[1]
    BY <1>0, CoverageFacts
  <2> HIDE DEF c
  <2> QED
    BY <1>1, <2>1, <2>2, <2>3
<1>4. CASE StartOne
  <2>0. PICK i \in DOMAIN Coverages : \E j \in DOMAIN Coverages[i] :
          \/ Start([Idle EXCEPT !.kind = "one", !.cov = i, !.pos = j])
          \/ \E r \in Ranges :
                Start([Idle EXCEPT !.kind = "range", !.cov = i, !.pos = j,
                                   !.start = r[1], !.end = r[2], !.left = MaxWindows])
    BY <1>4 DEF StartOne
  <2>1. PICK j \in DOMAIN Coverages[i] :
          \/ Start([Idle EXCEPT !.kind = "one", !.cov = i, !.pos = j])
          \/ \E r \in Ranges :
                Start([Idle EXCEPT !.kind = "range", !.cov = i, !.pos = j,
                                   !.start = r[1], !.end = r[2], !.left = MaxWindows])
    BY <2>0
  <2>2. j \in Nat /\ 0 <= now
    <3>1. DOMAIN Coverages[i] = 1..Len(Coverages[i]) /\ Len(Coverages[i]) \in Nat
      BY CoverageFacts
    <3>2. j \in 1..Len(Coverages[i])
      BY <2>1, <3>1, Zenon
    <3>3. j \in Nat
      BY <3>1, <3>2
    <3> QED
      BY <1>0, <3>3
  <2>3. CASE Start([Idle EXCEPT !.kind = "one", !.cov = i, !.pos = j])
    <3> DEFINE c == [Idle EXCEPT !.kind = "one", !.cov = i, !.pos = j]
    <3>1. /\ c \in Commands /\ c.since = 0 /\ c.asked = 0 /\ c.probes = 0 /\ c.cov = i
          /\ c.pos = j /\ c.status = "complete" /\ c.kind = "one"
      BY <1>2, <2>2 DEF Commands
    <3>2. Start(c)
      BY <2>3
    <3> HIDE DEF c
    <3> QED
      BY <1>1, <2>2, <3>1, <3>2
  <2>4. ASSUME NEW r \in Ranges,
               Start([Idle EXCEPT !.kind = "range", !.cov = i, !.pos = j,
                                  !.start = r[1], !.end = r[2], !.left = MaxWindows])
        PROVE  BackInv'
    <3> DEFINE b == [Idle EXCEPT !.kind = "range", !.cov = i, !.pos = j]
               c == [b EXCEPT !.start = r[1], !.end = r[2], !.left = MaxWindows]
    <3>0. r[1] \in 0..MaxNow /\ r[2] \in 0..MaxNow /\ MaxWindows \in 0..MaxWindows
      BY RangeAssumption
    <3>1. /\ b \in Commands /\ b.since = 0 /\ b.asked = 0 /\ b.probes = 0 /\ b.cov = i
          /\ b.pos = j /\ b.status = "complete" /\ b.kind = "range"
      BY <1>2, <2>2 DEF Commands
    <3>2. Start(c)
      BY <2>4
    <3> HIDE DEF b
    <3>3. /\ c \in Commands /\ c.since = 0 /\ c.asked = 0 /\ c.probes = 0 /\ c.cov = i
          /\ c.pos = j /\ c.status = "complete" /\ c.kind = "range"
      BY <3>0, <3>1 DEF Commands
    <3> HIDE DEF c
    <3> QED
      BY <1>1, <2>2, <3>2, <3>3
  <2> QED
    BY <2>1, <2>3, <2>4
<1> QED
  BY <1>3, <1>4

-----------------------------------------------------------------------------
(* The steps that leave the rows alone.                                    *)

\* What the command keeps through a stream's turn.
SameTurn ==
    /\ cmd'.kind = cmd.kind /\ cmd'.status = cmd.status /\ cmd'.since = cmd.since
    /\ cmd'.cov = cmd.cov /\ cmd'.pos = cmd.pos

\* The parts of the invariant together.
LEMMA StepHolds ==
    ASSUME BackInv, UNCHANGED <<schema, boot>>, UNCHANGED <<now, first, crashes>>,
           rest' \in 1..Attempts, rows' \in RowTables, RowsHold', cmd' \in Commands,
           BudgetHolds', TurnHolds', ReportHolds'
    PROVE  BackInv'
<1>1. OutsideHolds' /\ PreparedIsWhole'
  BY DEF BackInv, OutsideHolds, PreparedIsWhole, At
<1> QED
  BY <1>1 DEF BackInv

\* A step within a turn that leaves the rows alone.
LEMMA MoveHolds ==
    ASSUME BackInv, UNCHANGED <<schema, boot>>, UNCHANGED <<now, first, crashes>>,
           UNCHANGED rows, rest' \in 1..Attempts, cmd' \in Commands, SameTurn,
           cmd.pc # "idle", cmd'.pc # "report", BudgetHolds', TurnHolds'
    PROVE  BackInv'
<1>1. RowsHold' /\ rows' \in RowTables
  BY DEF BackInv, RowsHold
<1>2. ReportHolds'
  BY <1>1, ReportFrame DEF SameTurn
<1> QED
  BY <1>1, <1>2, StepHolds

\* A turn that ends and leaves the rows alone.
LEMMA LeaveHolds ==
    ASSUME BackInv, UNCHANGED <<schema, boot>>, UNCHANGED <<now, first, crashes>>,
           UNCHANGED rows, rest' \in 1..Attempts, cmd.pc # "idle",
           NEW status \in {"incomplete", "failed"}, NEW error \in BOOLEAN,
           NextStream(status, error)
    PROVE  BackInv'
<1>1. RowsHold' /\ rows' \in RowTables
  BY DEF BackInv, RowsHold
<1>2. cmd' \in Commands /\ BudgetHolds' /\ TurnHolds' /\ ReportHolds'
  BY <1>1, TurnEnds
<1> QED
  BY <1>1, <1>2, StepHolds

\* Only the place of the command changes.
LEMMA GoesIs ==
    ASSUME cmd \in Commands, NEW pc \in {"prepare", "register", "ensure", "resolve", "plan",
                                         "begin", "load", "finish"}, Goes(pc)
    PROVE  /\ cmd' \in Commands /\ cmd'.pc = pc /\ SameTurn
           /\ cmd'.probes = cmd.probes /\ cmd'.left = cmd.left /\ cmd'.asked = cmd.asked
           /\ cmd'.start = cmd.start /\ cmd'.at = cmd.at /\ cmd'.end = cmd.end
BY DEF Goes, Commands, SameTurn

\* What a request leaves of the attempts.
LEMMA RestHolds ==
    ASSUME OutsideHolds, RestRetries \/ (\E how \in Faults \cup {"rows"} : RestEnds(how))
                         \/ rest' = rest
    PROVE  rest' \in 1..Attempts
BY AttemptFacts DEF OutsideHolds, RestRetries, RestEnds, AttemptLeft, Fresh

\* Instruments are verified, or left out; the transport is asked again.
LEMMA VerifyKeeps ==
    ASSUME BackInv, VerifyMetadata \/ (\E how \in Faults : VerifyFails(how)) \/ RequestRetried
    PROVE  BackInv'
<1>0. OutsideHolds /\ cmd \in Commands /\ TurnHolds /\ BudgetHolds
  BY DEF BackInv
<1>1. UNCHANGED <<schema, boot>> /\ UNCHANGED <<now, first, crashes>> /\ UNCHANGED rows
      /\ rest' \in 1..Attempts /\ cmd.pc # "idle"
  BY <1>0, RestHolds DEF VerifyMetadata, VerifyFails, RequestRetried, durable, outside,
       CmdAt, Probing, Loading
<1>2. CASE VerifyMetadata
  <2>1. /\ cmd' \in Commands /\ cmd'.pc = "prepare" /\ SameTurn /\ cmd.pc = "verify"
        /\ cmd'.probes = cmd.probes /\ cmd'.left = cmd.left /\ cmd'.asked = cmd.asked
    BY <1>0, <1>2, GoesIs DEF VerifyMetadata, CmdAt
  <2>2. BudgetHolds'
    BY <1>0, <2>1 DEF BudgetHolds, Registering
  <2>3. TurnHolds'
    BY <1>0, <1>1, <2>1 DEF TurnHolds, Registering, SameTurn
  <2> QED
    BY <1>1, <2>1, <2>2, <2>3, MoveHolds
<1>3. ASSUME NEW how \in Faults, VerifyFails(how) PROVE BackInv'
  <2> DEFINE status == IF FailureClass(how) = "fatal" THEN "failed" ELSE "incomplete"
             turn == [cmd EXCEPT !.error = TRUE, !.status = status]
  <2>1. /\ cmd.pc = "verify"
        /\ cmd' = IF FailureClass(how) = "fatal" \/ cmd.kind # "all" \/ cmd.cov = Len(Coverages)
                  THEN [turn EXCEPT !.pc = "report"]
                  ELSE [turn EXCEPT !.cov = turn.cov + 1, !.pos = 1]
    BY <1>3 DEF VerifyFails, SkipCoverage, CmdAt
  <2>2. status \in {"failed", "incomplete"}
    OBVIOUS
  <2> HIDE DEF status
  <2>3. /\ turn \in Commands /\ turn.cov = cmd.cov /\ turn.pos = cmd.pos /\ turn.pc = "verify"
        /\ turn.status = status /\ turn.since = cmd.since /\ turn.asked = cmd.asked
        /\ turn.probes = cmd.probes /\ turn.left = cmd.left
    BY <1>0, <2>1, <2>2 DEF Commands
  <2> HIDE DEF turn
  <2>4. cmd.cov \in DOMAIN Coverages /\ cmd.pos \in DOMAIN Coverages[cmd.cov]
    BY <1>0, CmdFields DEF TurnHolds
  <2>5. /\ cmd' \in Commands /\ cmd'.pc \in {"verify", "report"} /\ cmd'.status = status
        /\ cmd'.pos \in DOMAIN Coverages[cmd'.cov] /\ cmd'.since = cmd.since
        /\ cmd'.asked = cmd.asked /\ cmd'.probes = cmd.probes /\ cmd'.left = cmd.left
    <3>1. CASE FailureClass(how) = "fatal" \/ cmd.kind # "all" \/ cmd.cov = Len(Coverages)
      <4>1. cmd' = [turn EXCEPT !.pc = "report"]
        BY <2>1, <3>1
      <4> QED
        BY <2>3, <2>4, <4>1 DEF Commands
    <3>2. CASE ~(FailureClass(how) = "fatal" \/ cmd.kind # "all" \/ cmd.cov = Len(Coverages))
      <4>1. cmd' = [turn EXCEPT !.cov = cmd.cov + 1, !.pos = 1]
        BY <2>1, <2>3, <3>2
      <4>2. cmd.cov + 1 \in DOMAIN Coverages
        <5>1. cmd.cov \in 1..Len(Coverages) /\ Len(Coverages) \in Nat
          BY <2>4, CoverageFacts
        <5> QED
          BY <3>2, <5>1, CoverageFacts
      <4>3. 1 \in DOMAIN Coverages[cmd.cov + 1] /\ 1 \in Nat
        BY <4>2, CoverageFacts
      <4> QED
        BY <2>3, <4>1, <4>2, <4>3 DEF Commands
    <3> QED
      BY <3>1, <3>2
  <2>6. BudgetHolds'
    BY <1>0, <2>1, <2>5 DEF BudgetHolds, Registering
  <2>7. TurnHolds'
    BY <1>0, <1>1, <2>1, <2>5 DEF TurnHolds, Registering
  <2>8. ReportHolds'
    BY <2>2, <2>5 DEF ReportHolds
  <2>9. RowsHold' /\ rows' \in RowTables
    BY <1>1 DEF BackInv, RowsHold
  <2> QED
    BY <1>1, <2>5, <2>6, <2>7, <2>8, <2>9, StepHolds
<1>4. CASE RequestRetried
  <2>1. cmd' = cmd /\ cmd.pc \in {"verify", "probe", "load"}
    BY <1>4 DEF RequestRetried, CmdAt, Probing, Loading
  <2>2. BudgetHolds'
    BY <1>0, <2>1 DEF BudgetHolds
  <2>3. TurnHolds'
    BY <1>0, <1>1, <2>1 DEF TurnHolds, Row, S
  <2> QED
    BY <1>0, <1>1, <2>1, <2>2, <2>3, MoveHolds DEF SameTurn
<1> QED
  BY <1>2, <1>3, <1>4

\* initialize_database of the command, up to where it fails.
LEMMA PrepareKeeps ==
    ASSUME BackInv, PrepareStarts \/ Preparing \/ PrepareFails
    PROVE  BackInv'
<1>0. /\ schema \in Schemas /\ rows \in RowTables /\ boot \in BootTables /\ PreparedIsWhole
      /\ OutsideHolds /\ RowsHold /\ cmd \in Commands /\ TurnHolds /\ BudgetHolds
      /\ "command" \in Processes
  BY DEF BackInv
<1>1. CASE PrepareStarts
  <2>1. /\ cmd' \in Commands /\ cmd'.pc = "register" /\ SameTurn /\ cmd.pc = "prepare"
        /\ cmd'.probes = cmd.probes /\ cmd'.left = cmd.left /\ cmd'.asked = cmd.asked
    BY <1>0, <1>1, GoesIs DEF PrepareStarts, CmdAt
  <2>2. /\ boot' = [boot EXCEPT !["command"] = [pc |-> "exists", at |-> 1]]
        /\ UNCHANGED <<schema, rows, rest, now, first, crashes>>
    BY <1>1 DEF PrepareStarts, StartBoot, outside
  <2>3. boot' \in BootTables /\ PreparedIsWhole'
    BY <1>0, <2>2, BootReset
  <2>4. BudgetHolds'
    BY <1>0, <2>1 DEF BudgetHolds, Registering
  <2>5. TurnHolds'
    BY <1>0, <2>1, <2>2 DEF TurnHolds, Registering, SameTurn
  <2>6. ReportHolds'
    BY <1>0, <2>1, <2>2, ReportFrame DEF SameTurn
  <2>7. OutsideHolds' /\ RowsHold'
    BY <1>0, <2>2 DEF OutsideHolds, RowsHold
  <2> QED
    BY <1>0, <2>1, <2>2, <2>3, <2>4, <2>5, <2>6, <2>7 DEF BackInv
<1>2. CASE Preparing
  <2>1. BootStep("command") /\ cmd' = cmd /\ cmd.pc = "register"
        /\ UNCHANGED <<rest, now, first, crashes>>
    BY <1>2 DEF Preparing, outside, CmdAt
  <2>2. /\ schema' \in Schemas /\ boot' \in BootTables /\ PreparedIsWhole'
        /\ rows' = rows \/ rows' = [s \in Streams |-> CopyRow(rows[s])]
    BY <1>0, <2>1, BootStepHolds
  <2>3. /\ rows' \in RowTables
        /\ \A s \in Streams :
              /\ rows'[s].candles = rows[s].candles /\ rows'[s].earliest = rows[s].earliest
              /\ rows'[s].state = rows[s].state
              /\ rows'[s].cursor = rows[s].cursor \/ rows'[s].cursor = -1
    BY <1>0, <2>2, CopyHolds
  <2>4. RowsHold'
    <3>1. \A s \in Streams : first[s] \in Nat
      BY <1>0, FirstAssumption DEF OutsideHolds
    <3> QED
      BY <1>0, <2>1, <2>3, <3>1 DEF RowsHold
  <2>5. BudgetHolds' /\ OutsideHolds'
    BY <1>0, <2>1 DEF BudgetHolds, OutsideHolds
  <2>6. TurnHolds'
    BY <1>0, <2>1 DEF TurnHolds, Registering
  <2>7. ReportHolds'
    BY <1>0, <2>1, <2>3, ReportFrame
  <2> QED
    BY <1>0, <2>1, <2>2, <2>3, <2>4, <2>5, <2>6, <2>7 DEF BackInv
<1>3. CASE PrepareFails
  <2>1. /\ cmd' = [cmd EXCEPT !.pc = "report", !.status = "failed", !.error = TRUE]
        /\ cmd.pc = "register" /\ UNCHANGED <<schema, boot>> /\ UNCHANGED <<now, first, crashes>>
        /\ UNCHANGED <<rest, rows>>
    BY <1>3 DEF PrepareFails, CmdAt, durable, outside
  <2>2. /\ cmd' \in Commands /\ cmd'.pc = "report" /\ cmd'.status = "failed"
        /\ cmd'.probes = cmd.probes /\ cmd'.left = cmd.left /\ cmd'.asked = cmd.asked
        /\ cmd'.cov = cmd.cov /\ cmd'.pos = cmd.pos /\ cmd'.since = cmd.since
    BY <1>0, <2>1 DEF Commands
  <2>3. BudgetHolds'
    BY <1>0, <2>1, <2>2 DEF BudgetHolds, Registering
  <2>4. TurnHolds' /\ ReportHolds'
    BY <1>0, <2>1, <2>2 DEF TurnHolds, Registering, ReportHolds
  <2>5. RowsHold' /\ OutsideHolds'
    BY <1>0, <2>1 DEF RowsHold, OutsideHolds
  <2> QED
    BY <1>0, <2>1, <2>2, <2>3, <2>4, <2>5, StepHolds DEF OutsideHolds
<1> QED
  BY <1>1, <1>2, <1>3

\* The search and the load up to where they end, fail or hand over.
LEMMA SearchKeeps ==
    ASSUME BackInv, ResolveLowerBound \/ ProbeEnds \/ Plan \/ LoadEnds
    PROVE  BackInv'
<1>0. /\ rows \in RowTables /\ OutsideHolds /\ RowsHold /\ cmd \in Commands
      /\ TurnHolds /\ BudgetHolds
  BY DEF BackInv
<1>1. UNCHANGED <<schema, boot>> /\ UNCHANGED <<now, first, crashes>> /\ UNCHANGED rows
      /\ rest' \in 1..Attempts
  BY <1>0, RestHolds DEF ResolveLowerBound, ProbeEnds, Plan, LoadEnds, InCommand, outside
<1>2. /\ S \in Streams /\ Row = rows[S] /\ first[S] \in 0..(MaxNow - 1) /\ now \in 1..MaxNow
      /\ Row.earliest \in Bars \cup {-1} /\ Row.cursor \in {-1} \cup 0..MaxNow
  BY <1>0, InTurn, RowFields DEF OutsideHolds
<1>3. ASSUME NEW status \in {"incomplete", "failed"}, NextStream(status, FALSE), cmd.pc # "idle"
      PROVE  BackInv'
  BY <1>1, <1>3, LeaveHolds
<1>4. CASE ResolveLowerBound
  <2> DEFINE from == IF Row.cursor = NoBar THEN 0 ELSE Row.cursor
  <2>1. cmd.pc = "resolve"
    BY <1>4 DEF ResolveLowerBound, CmdAt
  <2>2. \/ Row.earliest # NoBar /\ Goes("plan")
        \/ NextStream("incomplete", FALSE)
        \/ /\ Row.earliest = NoBar /\ from < now
           /\ cmd' = [cmd EXCEPT !.pc = "probe", !.at = from, !.end = now]
    BY <1>4 DEF ResolveLowerBound
  <2>3. CASE Row.earliest # NoBar /\ Goes("plan")
    <3>1. /\ cmd' \in Commands /\ cmd'.pc = "plan" /\ SameTurn
          /\ cmd'.probes = cmd.probes /\ cmd'.left = cmd.left /\ cmd'.asked = cmd.asked
      BY <1>0, <2>3, GoesIs
    <3>2. BudgetHolds'
      BY <1>0, <2>1, <3>1 DEF BudgetHolds, Registering
    <3>3. TurnHolds'
      BY <1>0, <1>1, <2>1, <2>3, <3>1 DEF TurnHolds, Registering, SameTurn, S, Row
    <3> QED
      BY <1>1, <2>1, <3>1, <3>2, <3>3, MoveHolds
  <2>4. CASE /\ Row.earliest = NoBar /\ from < now
             /\ cmd' = [cmd EXCEPT !.pc = "probe", !.at = from, !.end = now]
    <3>1. from \in 0..MaxNow /\ now \in 0..MaxNow /\ from <= first[S]
      BY <1>0, <1>2, <2>4 DEF RowsHold
    <3> HIDE DEF from
    <3>2. /\ cmd' \in Commands /\ cmd'.pc = "probe" /\ SameTurn
          /\ cmd'.probes = cmd.probes /\ cmd'.left = cmd.left /\ cmd'.asked = cmd.asked
          /\ cmd'.at = from /\ cmd'.end = now
      BY <1>0, <2>4, <3>1 DEF Commands, SameTurn
    <3>3. BudgetHolds'
      BY <1>0, <2>1, <3>2 DEF BudgetHolds, Registering
    <3>4. TurnHolds'
      BY <1>0, <1>1, <1>2, <2>1, <2>4, <3>1, <3>2 DEF TurnHolds, Registering, SameTurn, S, Row
    <3> QED
      BY <1>1, <2>1, <3>2, <3>3, <3>4, MoveHolds
  <2> QED
    BY <1>3, <2>1, <2>2, <2>3, <2>4
<1>5. CASE ProbeEnds
  BY <1>3, <1>5 DEF ProbeEnds, CmdAt
<1>6. CASE Plan
  <2>1. cmd.pc = "plan" /\ cmd.asked = cmd.probes /\ cmd.probes \in 0..MaxWindows
    BY <1>0, <1>6, CmdFields DEF Plan, CmdAt, BudgetHolds
  <2>2. CASE RemainingBudget <= 0
    BY <1>3, <1>6, <2>1, <2>2 DEF Plan
  <2>3. CASE ~(RemainingBudget <= 0)
    <3>1. cmd' = [cmd EXCEPT !.pc = "begin", !.start = Row.earliest, !.end = now,
                             !.left = RemainingBudget]
      BY <1>6, <2>3 DEF Plan
    <3>2. /\ RemainingBudget \in 0..MaxWindows /\ cmd.asked + RemainingBudget = MaxWindows
          /\ Row.earliest \in 0..MaxNow /\ now \in 0..MaxNow /\ Row.earliest < now
          /\ Row.earliest = first[S]
      BY <1>0, <1>2, <2>1, <2>3 DEF RemainingBudget, RowsHold, TurnHolds
    <3> HIDE DEF RemainingBudget
    <3>3. /\ cmd' \in Commands /\ cmd'.pc = "begin" /\ SameTurn
          /\ cmd'.left = RemainingBudget /\ cmd'.asked = cmd.asked
          /\ cmd'.start = Row.earliest /\ cmd'.end = now
      <4>1. cmd' \in Commands
        BY <1>0, <3>1, <3>2 DEF Commands
      <4>2. /\ cmd'.pc = "begin" /\ cmd'.left = RemainingBudget
            /\ cmd'.start = Row.earliest /\ cmd'.end = now
        BY <1>0, <3>1 DEF Commands
      <4>3. SameTurn /\ cmd'.asked = cmd.asked
        BY <1>0, <3>1 DEF Commands, SameTurn
      <4> QED
        BY <4>1, <4>2, <4>3
    <3>4. BudgetHolds'
      BY <2>1, <3>2, <3>3 DEF BudgetHolds, Registering
    <3>5. TurnHolds'
      BY <1>0, <1>1, <1>2, <2>1, <3>2, <3>3 DEF TurnHolds, Registering, SameTurn, S, Row
    <3> QED
      BY <1>1, <2>1, <3>3, <3>4, <3>5, MoveHolds
  <2> QED
    BY <2>2, <2>3
<1>7. CASE LoadEnds
  <2>1. /\ cmd' \in Commands /\ cmd'.pc = "finish" /\ SameTurn /\ cmd.pc = "load"
        /\ cmd'.start = cmd.start /\ cmd'.end = cmd.end
    BY <1>0, <1>7, GoesIs DEF LoadEnds, CmdAt
  <2>2. BudgetHolds'
    BY <2>1 DEF BudgetHolds, Registering
  <2>3. TurnHolds'
    BY <1>0, <1>1, <2>1 DEF TurnHolds, Registering, SameTurn, S, Row
  <2> QED
    BY <1>1, <2>1, <2>2, <2>3, MoveHolds
<1> QED
  BY <1>4, <1>5, <1>6, <1>7

\* A request fails; its window was asked for.
LEMMA FailKeeps ==
    ASSUME BackInv, ProbeUnavailable \/ (\E how \in Faults : ProbeFails(how) \/ LoadFails(how))
    PROVE  BackInv'
<1>0. /\ OutsideHolds /\ cmd \in Commands /\ TurnHolds /\ BudgetHolds
  BY DEF BackInv
<1>1. PICK class \in {"recoverable", "fatal", "unavailable"} :
        /\ Probing \/ Loading
        /\ cmd' = [cmd EXCEPT !.pc = "failure", !.class = class, !.asked = cmd.asked + 1]
  BY DEF ProbeUnavailable, ProbeFails, LoadFails, FailureClass
<1>2. UNCHANGED <<schema, boot>> /\ UNCHANGED <<now, first, crashes>> /\ UNCHANGED rows
      /\ rest' \in 1..Attempts
  BY <1>0, RestHolds DEF ProbeUnavailable, ProbeFails, LoadFails, durable, outside
<1>3. cmd.asked + 1 \in 0..MaxWindows /\ cmd.pc \in {"probe", "load"}
  BY <1>0, <1>1, CmdFields DEF Probing, Loading, CmdAt, BudgetHolds
<1>4. /\ cmd' \in Commands /\ cmd'.pc = "failure" /\ SameTurn
  BY <1>0, <1>1, <1>3 DEF Commands, SameTurn
<1>5. BudgetHolds'
  BY <1>4 DEF BudgetHolds, Registering
<1>6. TurnHolds'
  BY <1>0, <1>2, <1>3, <1>4 DEF TurnHolds, Registering, SameTurn, S, Row
<1> QED
  BY <1>2, <1>3, <1>4, <1>5, <1>6, MoveHolds

-----------------------------------------------------------------------------
(* The steps that write the row of the stream in turn.                     *)

\* The row of the stream in turn is replaced by one that RowsHold allows.
LEMMA RowChanges ==
    ASSUME BackInv, NEW row \in StateRows, rows' = [rows EXCEPT ![S] = row],
           UNCHANGED <<now, first, crashes>>,
           row.state \in {"uninitialized", "bootstrapping", "auditing", "degraded", "failed"},
           row.cursor <= first[S], row.earliest \in {NoBar, first[S]}, row.earliest < now
    PROVE  /\ rows' \in RowTables /\ RowsHold' /\ rows'[S] = row
           /\ \A t \in Streams \ {S} : rows'[t] = rows[t]
<1>1. S \in Streams /\ rows \in RowTables /\ RowsHold
  BY InTurn DEF BackInv
<1>2. rows' \in RowTables /\ rows'[S] = row /\ \A t \in Streams \ {S} : rows'[t] = rows[t]
  BY <1>1 DEF RowTables
<1>3. RowsHold'
  <2> SUFFICES ASSUME NEW t \in Streams
               PROVE  /\ rows'[t].state \in {"absent", "uninitialized", "bootstrapping",
                                             "auditing", "degraded", "failed"}
                      /\ rows'[t].cursor <= first[t]
                      /\ rows'[t].earliest \in {NoBar, first[t]}
                      /\ rows'[t].earliest < now
    BY DEF RowsHold
  <2>1. CASE t = S
    BY <1>2, <2>1
  <2>2. CASE t # S
    BY <1>1, <1>2, <2>2 DEF RowsHold
  <2> QED
    BY <2>1, <2>2
<1> QED
  BY <1>2, <1>3

\* What is known of the row of a registered stream in turn.
LEMMA TurnRow ==
    ASSUME BackInv, cmd.pc \notin Registering
    PROVE  /\ S \in Streams /\ Row \in StateRows /\ Row = rows[S] /\ rows \in RowTables
           /\ Row.state \in {"uninitialized", "bootstrapping", "auditing", "degraded", "failed"}
           /\ Row.cursor <= first[S] /\ Row.earliest \in {-1, first[S]} /\ Row.earliest < now
           /\ first[S] \in Bars /\ now \in 1..MaxNow
<1>1. S \in Streams /\ Row \in StateRows /\ Row = rows[S] /\ first[S] \in Bars
  BY InTurn DEF BackInv, TurnHolds
<1>2. Row.state # "absent"
  BY <1>1 DEF StateRows, LifecycleStates
<1> QED
  BY <1>1, <1>2 DEF BackInv, RowsHold, OutsideHolds

\* register_stream.
LEMMA RegisterKeeps == ASSUME BackInv, Register PROVE BackInv'
<1>0. /\ rows \in RowTables /\ OutsideHolds /\ RowsHold /\ cmd \in Commands
      /\ TurnHolds /\ BudgetHolds
  BY DEF BackInv
<1>1. /\ cmd.pc = "register" /\ rows' = [rows EXCEPT ![S] = Registered(@)]
      /\ UNCHANGED <<schema, boot>> /\ UNCHANGED <<now, first, crashes>> /\ rest' = rest
  BY DEF Register, RegisterStream, CmdAt, outside
<1>2. S \in Streams
  BY InTurn
<1>3. /\ rows' \in RowTables /\ rows'[S] \in StateRows
      /\ \A t \in Streams : \/ rows'[t] = rows[t]
                            \/ rows[t] = NoRow /\ rows'[t] = NewRow
  BY <1>0, <1>1, <1>2, RegisterHolds
<1>4. /\ NewRow.state = "uninitialized" /\ NewRow.cursor = -1 /\ NewRow.earliest = -1
      /\ NewRow.candles = {} /\ NoRow.candles = {} /\ NoRow.state = "absent"
      /\ NoRow.earliest = -1
  BY DEF NewRow, NoRow
<1>5. RowsHold'
  <2>1. \A t \in Streams : first[t] \in Nat /\ now \in Nat
    BY <1>0, FirstAssumption DEF OutsideHolds
  <2> QED
    BY <1>0, <1>1, <1>3, <1>4, <2>1 DEF RowsHold
<1>6. PICK pc \in {"begin", "ensure"} : Goes(pc) /\ (pc = "begin" => cmd.kind = "range")
  BY DEF Register
<1>7. /\ cmd' \in Commands /\ cmd'.pc = pc /\ SameTurn
      /\ cmd'.probes = cmd.probes /\ cmd'.left = cmd.left /\ cmd'.asked = cmd.asked
  BY <1>0, <1>6, GoesIs
<1>8. BudgetHolds'
  BY <1>0, <1>1, <1>6, <1>7 DEF BudgetHolds, Registering
<1>9. TurnHolds'
  BY <1>0, <1>1, <1>3, <1>6, <1>7 DEF TurnHolds, Registering, SameTurn, S, Row
<1>10. ReportHolds'
  <2>1. \A t \in Streams :
          /\ rows[t].candles \subseteq rows'[t].candles /\ rows'[t].earliest = rows[t].earliest
          /\ rows[t].state \in {"auditing", "failed"} => rows'[t].state = rows[t].state
    BY <1>3, <1>4
  <2> QED
    BY <1>1, <1>3, <1>7, <2>1, ReportFrame DEF SameTurn
<1> QED
  BY <1>0, <1>1, <1>3, <1>5, <1>7, <1>8, <1>9, <1>10, StepHolds DEF OutsideHolds

\* _ensure_bootstrapping changes only the state, and leaves it what backfill
\* can end with.
LEMMA EnsuredIs ==
    ASSUME NEW row \in StateRows,
           row.state \in {"uninitialized", "bootstrapping", "auditing", "degraded", "failed"}
    PROVE  /\ Ensured(row) \in StateRows
           /\ Ensured(row).state \in {"bootstrapping", "auditing", "failed"}
           /\ row.state \in {"auditing", "failed"} => Ensured(row).state = row.state
           /\ Ensured(row).candles = row.candles /\ Ensured(row).earliest = row.earliest
           /\ Ensured(row).cursor = row.cursor
<1>1. CASE row.state \in {"uninitialized", "degraded"}
  BY <1>1 DEF Ensured, StateRows, LifecycleStates
<1>2. CASE row.state \notin {"uninitialized", "degraded"}
  BY <1>2 DEF Ensured
<1> QED
  BY <1>1, <1>2

\* _ensure_bootstrapping, and the start of the load.
LEMMA EnsureKeeps == ASSUME BackInv, EnsureBootstrapping \/ Begin PROVE BackInv'
<1>0. /\ rows \in RowTables /\ OutsideHolds /\ RowsHold /\ cmd \in Commands
      /\ TurnHolds /\ BudgetHolds
  BY DEF BackInv
<1>1. /\ cmd.pc \in {"ensure", "begin"} /\ rows' = [rows EXCEPT ![S] = Ensured(@)]
      /\ UNCHANGED <<schema, boot>> /\ UNCHANGED <<now, first, crashes>> /\ rest' = rest
  BY DEF EnsureBootstrapping, Begin, InCommand, CmdAt, outside
<1> DEFINE row == Ensured(rows[S])
<1>2. /\ S \in Streams /\ Row \in StateRows /\ Row = rows[S]
      /\ Row.state \in {"uninitialized", "bootstrapping", "auditing", "degraded", "failed"}
      /\ Row.cursor <= first[S] /\ Row.earliest \in {-1, first[S]} /\ Row.earliest < now
  BY <1>1, TurnRow DEF Registering
<1>3. /\ row \in StateRows /\ row.state \in {"bootstrapping", "auditing", "failed"}
      /\ rows[S].state \in {"auditing", "failed"} => row.state = rows[S].state
      /\ row.candles = rows[S].candles /\ row.earliest = rows[S].earliest
      /\ row.cursor = rows[S].cursor
  BY <1>2, EnsuredIs
<1>4. rows' = [rows EXCEPT ![S] = row]
  BY <1>1
<1> HIDE DEF row
<1>5. /\ rows' \in RowTables /\ RowsHold' /\ rows'[S] = row
      /\ \A t \in Streams \ {S} : rows'[t] = rows[t]
  BY <1>1, <1>2, <1>3, <1>4, RowChanges
<1>6. \A t \in Streams :
        /\ rows[t].candles \subseteq rows'[t].candles /\ rows'[t].earliest = rows[t].earliest
        /\ rows[t].state \in {"auditing", "failed"} => rows'[t].state = rows[t].state
  BY <1>3, <1>5
<1>7. ASSUME cmd' \in Commands, SameTurn, cmd'.pc # "report", BudgetHolds', TurnHolds'
      PROVE  BackInv'
  <2>1. ReportHolds'
    BY <1>1, <1>5, <1>6, <1>7, ReportFrame DEF SameTurn
  <2> QED
    BY <1>0, <1>1, <1>5, <1>7, <2>1, StepHolds DEF OutsideHolds
<1>8. ASSUME SameTurn
      PROVE  S' = S /\ Row' = row /\ (Row.earliest = first[S] => Row'.earliest = first'[S'])
  <2>1. S' = S /\ Row' = row
    BY <1>5, <1>8 DEF SameTurn, S, Row
  <2> QED
    BY <1>1, <1>2, <1>3, <2>1
<1>9. CASE EnsureBootstrapping
  <2>1. /\ cmd' \in Commands /\ cmd'.pc = "resolve" /\ SameTurn /\ cmd.pc = "ensure"
        /\ cmd'.probes = cmd.probes /\ cmd'.asked = cmd.asked
    BY <1>0, <1>9, GoesIs DEF EnsureBootstrapping, CmdAt
  <2>2. BudgetHolds'
    BY <1>0, <2>1 DEF BudgetHolds, Registering
  <2>3. TurnHolds'
    BY <1>0, <1>1, <1>3, <1>8, <2>1 DEF TurnHolds, Registering, SameTurn
  <2> QED
    BY <1>7, <2>1, <2>2, <2>3
<1>10. CASE Begin
  <2>0. cmd.pc = "begin" /\ cmd.start \in 0..MaxNow /\ cmd.end \in 0..MaxNow
    BY <1>0, <1>10, CmdFields DEF Begin, CmdAt
  <2>1. Latest(Row) \in Int /\ \A c \in Row.candles : c <= Latest(Row) /\ c \in Int
    BY InTurn, LatestIs
  <2>2. ResumeStart \in Int /\ ResumeStart >= cmd.start /\ \A c \in Row.candles : c < ResumeStart
    BY <2>0, <2>1 DEF ResumeStart, Larger
  <2>3. CASE ResumeStart >= cmd.end
    <3>1. /\ cmd' \in Commands /\ cmd'.pc = "finish" /\ SameTurn
          /\ cmd'.start = cmd.start /\ cmd'.end = cmd.end
      <4>1. Goes("finish")
        BY <1>10, <2>3 DEF Begin, Goes
      <4> QED
        BY <1>0, <4>1, GoesIs
    <3>2. BudgetHolds'
      BY <3>1 DEF BudgetHolds, Registering
    <3>3. TurnHolds'
      BY <1>0, <1>1, <1>3, <1>8, <2>0, <3>1 DEF TurnHolds, Registering, SameTurn
    <3> QED
      BY <1>7, <3>1, <3>2, <3>3
  <2>4. CASE ~(ResumeStart >= cmd.end)
    <3>1. cmd' = [cmd EXCEPT !.pc = "load", !.at = ResumeStart] /\ ResumeStart \in 0..MaxNow
      BY <1>10, <2>0, <2>2, <2>4 DEF Begin
    <3>2. \A c \in row.candles : c < ResumeStart
      BY <1>2, <1>3, <2>2
    <3> HIDE DEF ResumeStart
    <3>3. /\ cmd' \in Commands /\ cmd'.pc = "load" /\ SameTurn /\ cmd'.at = ResumeStart
          /\ cmd'.start = cmd.start /\ cmd'.end = cmd.end
          /\ cmd'.asked = cmd.asked /\ cmd'.left = cmd.left
      BY <1>0, <3>1 DEF Commands, SameTurn
    <3>4. BudgetHolds'
      BY <1>0, <2>0, <3>3 DEF BudgetHolds, Registering
    <3>5. TurnHolds'
      BY <1>0, <1>1, <1>3, <1>8, <2>0, <3>2, <3>3 DEF TurnHolds, Registering, SameTurn
    <3> QED
      BY <1>7, <3>3, <3>4, <3>5
  <2> QED
    BY <2>3, <2>4
<1> QED
  BY <1>9, <1>10

\* A window begins at the command's time, is not empty and ends by its end.
LEMMA WindowFacts ==
    ASSUME cmd \in Commands, cmd.at < cmd.end
    PROVE  /\ WindowEnd \in 0..MaxNow /\ cmd.at < WindowEnd /\ WindowEnd <= cmd.end
           /\ WindowEnd - cmd.at <= MaxCandles
           /\ \A b \in Window : b \in Int /\ cmd.at <= b /\ b < WindowEnd
           /\ \A b \in Int : cmd.at <= b /\ b < WindowEnd => b \in Window
<1>1. cmd.at \in 0..MaxNow /\ cmd.end \in 0..MaxNow
  BY CmdFields
<1>2. /\ WindowEnd \in 0..MaxNow /\ cmd.at < WindowEnd /\ WindowEnd <= cmd.end
      /\ WindowEnd - cmd.at <= MaxCandles
  BY <1>1 DEF WindowEnd, Smaller
<1> QED
  BY <1>1, <1>2 DEF Window

\* A probe that finds nothing leaves only bars REST does not have behind; the
\* first bar a probe finds is the first there is.
LEMMA ProbeFinds ==
    ASSUME BackInv, Probing
    PROVE  /\ Row.earliest = -1
           /\ Available(S) \cap Window = {} => WindowEnd <= first[S]
           /\ \A bar \in Available(S) \cap Window :
                 (\A b \in Available(S) \cap Window : bar <= b) => bar = first[S] /\ bar < now
<1>1. /\ cmd \in Commands /\ cmd.pc = "probe" /\ cmd.at < cmd.end
      /\ Row.earliest = -1 /\ cmd.at <= first[S] /\ cmd.end <= now
  BY DEF BackInv, Probing, CmdAt, TurnHolds
<1>2. first[S] \in Bars /\ now \in 1..MaxNow /\ cmd.at \in 0..MaxNow /\ cmd.end \in 0..MaxNow
  BY <1>1, InTurn, CmdFields DEF BackInv, OutsideHolds
<1>3. /\ WindowEnd \in 0..MaxNow /\ cmd.at < WindowEnd /\ WindowEnd <= cmd.end
      /\ \A b \in Window : b \in Int /\ cmd.at <= b /\ b < WindowEnd
      /\ \A b \in Int : cmd.at <= b /\ b < WindowEnd => b \in Window
  BY <1>1, WindowFacts
<1>4. first[S] < WindowEnd => first[S] \in Available(S) \cap Window
  BY <1>1, <1>2, <1>3 DEF Available
<1>5. ASSUME NEW bar \in Available(S) \cap Window,
             \A b \in Available(S) \cap Window : bar <= b
      PROVE  bar = first[S] /\ bar < now
  <2>1. bar \in Int /\ first[S] <= bar /\ bar < now /\ bar < WindowEnd
    BY <1>2, <1>3 DEF Available
  <2>2. first[S] \in Available(S) \cap Window
    BY <1>2, <1>3, <1>4, <2>1
  <2> QED
    BY <1>2, <1>5, <2>1, <2>2
<1> QED
  BY <1>1, <1>2, <1>3, <1>4, <1>5

\* One probe of the search.
LEMMA ProbeKeeps == ASSUME BackInv, Probe PROVE BackInv'
<1>0. /\ rows \in RowTables /\ OutsideHolds /\ RowsHold /\ cmd \in Commands
      /\ TurnHolds /\ BudgetHolds
  BY DEF BackInv
<1>1. /\ Probing /\ UNCHANGED <<schema, boot>> /\ UNCHANGED <<now, first, crashes>>
      /\ rest' \in 1..Attempts /\ cmd.pc = "probe"
  BY <1>0, RestHolds DEF Probe, outside, Probing, CmdAt
<1>2. /\ S \in Streams /\ Row \in StateRows /\ Row = rows[S]
      /\ Row.state \in {"uninitialized", "bootstrapping", "auditing", "degraded", "failed"}
      /\ Row.cursor <= first[S] /\ Row.earliest \in {-1, first[S]} /\ Row.earliest < now
      /\ first[S] \in Bars /\ now \in 1..MaxNow
  BY <1>1, TurnRow DEF Registering
<1>3. /\ cmd.probes + 1 \in 0..MaxWindows /\ cmd.asked = cmd.probes
      /\ cmd.asked + 1 \in 0..MaxWindows /\ cmd.at < cmd.end
  BY <1>0, <1>1, CmdFields DEF Probing, BudgetHolds
<1>4. WindowEnd \in 0..MaxNow
  BY <1>0, <1>3, WindowFacts
<1> DEFINE turn == [cmd EXCEPT !.probes = cmd.probes + 1, !.asked = cmd.asked + 1]
           found == Available(S) \cap Window
<1>5. /\ turn \in Commands /\ turn.pc = "probe" /\ turn.at = cmd.at /\ turn.end = cmd.end
      /\ turn.probes = cmd.probes + 1 /\ turn.asked = cmd.asked + 1
      /\ turn.kind = cmd.kind /\ turn.status = cmd.status /\ turn.since = cmd.since
      /\ turn.cov = cmd.cov /\ turn.pos = cmd.pos
  BY <1>0, <1>1, <1>3 DEF Commands
<1>6. \/ /\ found = {}
         /\ rows' = [rows EXCEPT ![S].cursor = WindowEnd]
         /\ cmd' = [turn EXCEPT !.at = WindowEnd]
      \/ \E bar \in found :
            /\ \A b \in found : bar <= b
            /\ rows' = [rows EXCEPT ![S].earliest = bar, ![S].cursor = NoBar]
            /\ cmd' = [turn EXCEPT !.pc = "plan"]
  BY Zenon DEF Probe, AdvancedCursor
<1>7. /\ found = {} => WindowEnd <= first[S]
      /\ \A bar \in found : (\A b \in found : bar <= b) => bar = first[S] /\ bar < now
  BY <1>1, ProbeFinds
<1> HIDE DEF turn, found
<1>8. ASSUME NEW row \in StateRows, rows' = [rows EXCEPT ![S] = row],
             row.state = Row.state, row.candles = Row.candles, row.cursor <= first[S],
             row.earliest \in {NoBar, first[S]}, row.earliest < now,
             cmd' \in Commands, SameTurn, cmd'.pc \in {"probe", "plan"},
             cmd'.probes = cmd'.asked, cmd'.end = cmd.end,
             cmd'.pc = "probe" => row.earliest = NoBar /\ cmd'.at <= first[S],
             cmd'.pc = "plan" => row.earliest # NoBar
      PROVE  BackInv'
  <2>1. /\ rows' \in RowTables /\ RowsHold' /\ rows'[S] = row
        /\ \A t \in Streams \ {S} : rows'[t] = rows[t]
    BY <1>1, <1>2, <1>8, RowChanges
  <2>2. \A t \in Streams :
          /\ rows[t].candles \subseteq rows'[t].candles
          /\ rows'[t].earliest \in {rows[t].earliest, first[t]}
          /\ rows[t].state \in {"auditing", "failed"} => rows'[t].state = rows[t].state
    <3>1. Row.earliest = NoBar
      BY <1>1, ProbeFinds
    <3> QED
      BY <1>2, <1>8, <2>1, <3>1
  <2>3. ReportHolds'
    BY <1>1, <1>8, <2>1, <2>2, ReportFrame DEF SameTurn
  <2>4. BudgetHolds'
    BY <1>8 DEF BudgetHolds, Registering
  <2>5. S' = S /\ Row' = row
    BY <1>8, <2>1 DEF SameTurn, S, Row
  <2>6. TurnHolds'
    BY <1>0, <1>1, <1>8, <2>5 DEF TurnHolds, Registering, SameTurn
  <2> QED
    BY <1>0, <1>1, <1>8, <2>1, <2>3, <2>4, <2>6, StepHolds
<1>9. CASE /\ found = {} /\ rows' = [rows EXCEPT ![S].cursor = WindowEnd]
           /\ cmd' = [turn EXCEPT !.at = WindowEnd]
  <2> DEFINE row == [rows[S] EXCEPT !.cursor = WindowEnd]
  <2>1. /\ row \in StateRows /\ row.state = Row.state /\ row.candles = Row.candles
        /\ row.cursor = WindowEnd /\ row.earliest = Row.earliest
    BY <1>2, <1>4 DEF StateRows
  <2>2. rows' = [rows EXCEPT ![S] = row]
    BY <1>9
  <2>3. /\ cmd' \in Commands /\ SameTurn /\ cmd'.pc = "probe" /\ cmd'.probes = cmd'.asked
        /\ cmd'.end = cmd.end /\ cmd'.at = WindowEnd
    BY <1>3, <1>4, <1>5, <1>9 DEF Commands, SameTurn
  <2>4. Row.earliest = NoBar
    BY <1>1, ProbeFinds
  <2> HIDE DEF row
  <2> QED
    BY <1>2, <1>7, <1>8, <1>9, <2>1, <2>2, <2>3, <2>4
<1>10. ASSUME NEW bar \in found, \A b \in found : bar <= b,
              rows' = [rows EXCEPT ![S].earliest = bar, ![S].cursor = NoBar],
              cmd' = [turn EXCEPT !.pc = "plan"]
       PROVE  BackInv'
  <2> DEFINE row == [rows[S] EXCEPT !.earliest = bar, !.cursor = NoBar]
  <2>0. bar = first[S] /\ bar < now /\ bar \in Bars
    BY <1>2, <1>7, <1>10
  <2>1. /\ row \in StateRows /\ row.state = Row.state /\ row.candles = Row.candles
        /\ row.cursor = -1 /\ row.earliest = bar
    BY <1>2, <2>0 DEF StateRows
  <2>2. rows' = [rows EXCEPT ![S] = row]
    BY <1>2, <1>10, <1>0 DEF RowTables
  <2>3. /\ cmd' \in Commands /\ SameTurn /\ cmd'.pc = "plan" /\ cmd'.probes = cmd'.asked
        /\ cmd'.end = cmd.end
    BY <1>3, <1>5, <1>10 DEF Commands, SameTurn
  <2>4. -1 <= first[S] /\ first[S] # -1
    BY <1>2
  <2> HIDE DEF row
  <2> QED
    BY <1>8, <2>0, <2>1, <2>2, <2>3, <2>4
<1> QED
  BY <1>6, <1>9, <1>10

\* One window of the load.
LEMMA LoadKeeps == ASSUME BackInv, NEW bars \in SUBSET Bars, LoadWindow(bars) PROVE BackInv'
<1>0. /\ rows \in RowTables /\ OutsideHolds /\ RowsHold /\ cmd \in Commands
      /\ TurnHolds /\ BudgetHolds
  BY DEF BackInv
<1>1. /\ Loading /\ UNCHANGED <<schema, boot>> /\ UNCHANGED <<now, first, crashes>>
      /\ rest' \in 1..Attempts /\ cmd.pc = "load" /\ cmd.left > 0 /\ cmd.at < cmd.end
      /\ bars \subseteq Window /\ rows' = [rows EXCEPT ![S].candles = @ \cup bars]
      /\ cmd' = [cmd EXCEPT !.at = WindowEnd, !.left = @ - 1, !.asked = @ + 1]
  BY <1>0, RestHolds DEF LoadWindow, outside, Loading, CmdAt
<1>2. /\ S \in Streams /\ Row \in StateRows /\ Row = rows[S]
      /\ Row.state \in {"uninitialized", "bootstrapping", "auditing", "degraded", "failed"}
      /\ Row.cursor <= first[S] /\ Row.earliest \in {-1, first[S]} /\ Row.earliest < now
  BY <1>1, TurnRow DEF Registering
<1>3. /\ WindowEnd \in 0..MaxNow /\ cmd.at < WindowEnd
      /\ \A b \in Window : b \in Int /\ cmd.at <= b /\ b < WindowEnd
  BY <1>0, <1>1, WindowFacts
<1>4. /\ cmd.left - 1 \in 0..MaxWindows /\ cmd.asked + 1 \in 0..MaxWindows
      /\ cmd.asked + 1 + (cmd.left - 1) <= MaxWindows
  BY <1>0, <1>1, CmdFields DEF BudgetHolds
<1>5. /\ cmd' \in Commands /\ SameTurn /\ cmd'.pc = "load" /\ cmd'.at = WindowEnd
      /\ cmd'.left = cmd.left - 1 /\ cmd'.asked = cmd.asked + 1
      /\ cmd'.start = cmd.start /\ cmd'.end = cmd.end
  BY <1>0, <1>1, <1>3, <1>4 DEF Commands, SameTurn
<1> DEFINE row == [rows[S] EXCEPT !.candles = rows[S].candles \cup bars]
<1>6. /\ row \in StateRows /\ row.state = Row.state /\ row.cursor = Row.cursor
      /\ row.earliest = Row.earliest /\ row.candles = Row.candles \cup bars
  BY <1>2 DEF StateRows
<1>7. rows' = [rows EXCEPT ![S] = row]
  BY <1>1
<1> HIDE DEF row
<1>8. /\ rows' \in RowTables /\ RowsHold' /\ rows'[S] = row
      /\ \A t \in Streams \ {S} : rows'[t] = rows[t]
  BY <1>1, <1>2, <1>6, <1>7, RowChanges
<1>9. \A t \in Streams :
        /\ rows[t].candles \subseteq rows'[t].candles
        /\ rows[t].state \in {"auditing", "failed"} => rows'[t].state = rows[t].state
  BY <1>2, <1>6, <1>8
<1>10. ReportHolds'
  BY <1>1, <1>5, <1>8, <1>9, ReportFrame DEF SameTurn
<1>11. BudgetHolds'
  BY <1>4, <1>5 DEF BudgetHolds, Registering
<1>12. S' = S /\ Row' = row
  BY <1>5, <1>8 DEF SameTurn, S, Row
<1>13. \A c \in row.candles : c < WindowEnd
  <2>1. \A c \in Row.candles : c < cmd.at /\ c \in Int
    BY <1>0, <1>1, InTurn DEF TurnHolds
  <2>2. cmd.at \in Int
    BY <1>0, CmdFields
  <2> QED
    BY <1>1, <1>3, <1>6, <2>1, <2>2
<1>14. TurnHolds'
  BY <1>0, <1>1, <1>5, <1>6, <1>12, <1>13 DEF TurnHolds, Registering, SameTurn
<1> QED
  BY <1>1, <1>5, <1>8, <1>10, <1>11, <1>14, StepHolds

\* The end of a load and the record of a failure.
LEMMA FinishKeeps == ASSUME BackInv, Finish \/ RecordFailure PROVE BackInv'
<1>0. /\ rows \in RowTables /\ OutsideHolds /\ RowsHold /\ cmd \in Commands /\ TurnHolds
  BY DEF BackInv
<1>1. /\ UNCHANGED <<schema, boot>> /\ UNCHANGED <<now, first, crashes>>
      /\ rest' \in 1..Attempts /\ cmd.pc \in {"finish", "failure"}
  BY <1>0 DEF Finish, RecordFailure, InCommand, outside, CmdAt, OutsideHolds
<1>2. /\ S \in Streams /\ Row \in StateRows /\ Row = rows[S]
      /\ Row.state \in {"uninitialized", "bootstrapping", "auditing", "degraded", "failed"}
      /\ Row.cursor <= first[S] /\ Row.earliest \in {-1, first[S]} /\ Row.earliest < now
  BY <1>1, TurnRow DEF Registering
<1>3. ASSUME NEW state \in {"auditing", "degraded", "failed"},
             rows' = [rows EXCEPT ![S].state = state]
      PROVE  /\ rows' \in RowTables /\ RowsHold' /\ rows'[S].state = state
             /\ rows'[S].candles = rows[S].candles /\ rows'[S].earliest = rows[S].earliest
             /\ \A t \in Streams \ {S} : rows'[t] = rows[t]
  <2> DEFINE row == [rows[S] EXCEPT !.state = state]
  <2>1. /\ row \in StateRows /\ row.state = state /\ row.cursor = Row.cursor
        /\ row.earliest = Row.earliest /\ row.candles = Row.candles
    BY <1>2, <1>3 DEF StateRows, LifecycleStates
  <2>2. rows' = [rows EXCEPT ![S] = row]
    BY <1>3
  <2> HIDE DEF row
  <2>3. /\ rows' \in RowTables /\ RowsHold' /\ rows'[S] = row
        /\ \A t \in Streams \ {S} : rows'[t] = rows[t]
    BY <1>1, <1>2, <1>3, <2>1, <2>2, RowChanges
  <2> QED
    BY <1>2, <2>1, <2>3
<1>4. rows' = rows => rows' \in RowTables /\ RowsHold'
  BY <1>0, <1>1 DEF RowsHold
<1>5. CASE RecordFailure
  <2>1. rows' = rows \/ \E state \in {"degraded", "failed"} : rows' = [rows EXCEPT ![S].state = state]
    BY <1>5 DEF RecordFailure
  <2>2. /\ rows' \in RowTables /\ RowsHold'
        /\ \A t \in Streams : /\ rows[t].candles \subseteq rows'[t].candles
                               /\ rows'[t].earliest = rows[t].earliest
    BY <1>3, <1>4, <2>1
  <2>3. \E status \in {"incomplete", "failed"} : NextStream(status, TRUE)
    BY <1>5 DEF RecordFailure
  <2>4. cmd' \in Commands /\ BudgetHolds' /\ TurnHolds' /\ ReportHolds'
    BY <1>1, <2>2, <2>3, TurnEnds
  <2> QED
    BY <1>1, <2>2, <2>4, StepHolds
<1>6. CASE Finish
  <2>0. cmd.pc = "finish"
    BY <1>6 DEF Finish, CmdAt
  <2>1. Row.state \in {"bootstrapping", "auditing", "failed"}
    BY <1>0, <1>2, <2>0 DEF TurnHolds
  <2>2. CASE ReachedEnd
    <3>1. NextStream("complete", FALSE)
      BY <1>6, <2>2 DEF Finish
    <3>2. \/ Row.state = "bootstrapping" /\ rows' = [rows EXCEPT ![S].state = "auditing"]
          \/ Row.state # "bootstrapping" /\ rows' = rows
      BY <1>6, <2>2 DEF Finish
    <3>3. rows' \in RowTables /\ RowsHold' /\ rows'[S].state \in {"auditing", "failed"}
          /\ rows'[S].candles = rows[S].candles /\ rows'[S].earliest = rows[S].earliest
      BY <1>2, <1>3, <1>4, <2>1, <3>2
    <3>4. \A t \in Streams :
            /\ rows[t].candles \subseteq rows'[t].candles /\ rows'[t].earliest = rows[t].earliest
            /\ rows[t].state \in {"auditing", "failed"} => rows'[t].state = rows[t].state
      BY <1>2, <1>3, <3>2
    <3>5. cmd.kind = "all" => Latest(rows'[S]) >= cmd.since - 1 /\ rows'[S].earliest = first[S]
      <4>1. Latest(Row) \in Int /\ Latest(rows'[S]) = Latest(Row)
        BY <1>2, <3>3, InTurn, LatestIs DEF Latest
      <4>2. cmd.start \in Int /\ cmd.end \in Int /\ cmd.since \in Int
        BY <1>0, CmdFields
      <4>3. cmd.kind = "all" => cmd.start < cmd.end /\ cmd.since <= cmd.end
                                  /\ rows[S].earliest = first[S]
        BY <1>0, <1>2, <2>0 DEF TurnHolds
      <4> QED
        BY <2>2, <3>3, <4>1, <4>2, <4>3 DEF ReachedEnd, ResumeStart, Larger
    <3>6. cmd' \in Commands /\ BudgetHolds' /\ TurnHolds' /\ ReportHolds'
      BY <1>1, <3>1, <3>3, <3>4, <3>5, TurnEnds
    <3> QED
      BY <1>1, <3>3, <3>6, StepHolds
  <2>3. CASE ~ReachedEnd
    <3>1. NextStream("incomplete", FALSE) /\ rows' = rows
      BY <1>6, <2>3 DEF Finish
    <3> QED
      BY <1>1, <3>1, LeaveHolds
  <2> QED
    BY <2>2, <2>3
<1> QED
  BY <1>5, <1>6

-----------------------------------------------------------------------------
\* Every step.
LEMMA BackNextKeeps == ASSUME BackInv, [Next]_vars PROVE BackInv'
<1>1. CASE Next
  <2>1. CASE StartAll \/ StartOne
    BY <2>1, StartKeeps
  <2>2. CASE Crash
    BY <2>2, EndKeeps
  <2>3. CASE Tick
    BY <2>3, TickKeeps
  <2>4. CASE Command
    BY <2>4, VerifyKeeps, PrepareKeeps, RegisterKeeps, EnsureKeeps, SearchKeeps, EndKeeps,
       FailKeeps, ProbeKeeps, LoadKeeps, FinishKeeps DEF Command
  <2> QED
    BY <1>1, <2>1, <2>2, <2>3, <2>4 DEF Next
<1>2. CASE UNCHANGED vars
  <2> USE <1>2 DEF vars, BackInv
  <2>1. OutsideHolds' /\ PreparedIsWhole' /\ RowsHold' /\ BudgetHolds'
    BY DEF OutsideHolds, PreparedIsWhole, At, RowsHold, BudgetHolds
  <2>2. TurnHolds'
    BY DEF TurnHolds, S, Row
  <2>3. ReportHolds'
    BY DEF ReportHolds, Earlier, Loaded
  <2> QED
    BY <2>1, <2>2, <2>3
<1> QED
  BY <1>1, <1>2

\* The invariant holds of the command, however often it is run and killed.
THEOREM BackfillInvariant == Spec => []BackInv
<1>1. BackInv /\ [Next]_vars => BackInv'
  BY BackNextKeeps
<1> QED
  BY <1>1, BackStarts, PTL DEF Spec

\* Every variable stays in its domain, and so no request has more attempts than
\* retry_attempts and no stream is asked for more windows than --max-windows.
THEOREM BackfillType == Spec => []BackfillTypeOK
<1>1. BackInv => BackfillTypeOK
  BY DEF BackInv, OutsideHolds, BackfillTypeOK, SchemaTypeOK, RowTables, BootTables
<1> QED
  BY <1>1, BackfillInvariant, PTL

\* A command for all streams that reports "complete" has both ends of every
\* history: the first bar there is as lower bound, and a newest stored bar that
\* reaches the clock the command started at.
THEOREM CompleteReportIsLoaded == Spec => []CompleteIsLoaded
<1>1. BackInv => CompleteIsLoaded
  <2> SUFFICES ASSUME BackInv, CmdAt("report"), cmd.kind = "all", cmd.status = "complete",
                      NEW s \in Streams
               PROVE  Loaded(s)
    BY DEF CompleteIsLoaded, Loaded
  <2>1. PICK i \in DOMAIN Coverages : \E j \in DOMAIN Coverages[i] : s = Coverages[i][j]
    BY CoverageFacts
  <2>2. PICK j \in DOMAIN Coverages[i] : s = Coverages[i][j]
    BY <2>1
  <2>3. cmd.pc = "report"
    BY DEF CmdAt
  <2> QED
    BY <2>2, <2>3 DEF BackInv, ReportHolds
<1> QED
  BY <1>1, BackfillInvariant, PTL

-----------------------------------------------------------------------------
(* The refinement of LoadedHistory.                                        *)

\* What the promise sees of the rows.
LoadedBars == [s \in Streams |-> rows[s].candles]
LowerBounds == [s \in Streams |-> rows[s].earliest]

\* A step that leaves the bars and the bounds of all rows is a stutter of the promise.
LEMMA PromiseStutters ==
    ASSUME first' = first,
           \A s \in Streams : rows'[s].candles = rows[s].candles /\ rows'[s].earliest = rows[s].earliest
    PROVE  UNCHANGED <<first, LoadedBars, LowerBounds>>
BY DEF LoadedBars, LowerBounds

\* A window of the load is the promise's LoadWindow.
LEMMA LoadImplements ==
    ASSUME BackInv, NEW bars \in SUBSET Bars, LoadWindow(bars)
    PROVE  Promise!Next
<1>1. /\ Loading /\ first' = first /\ cmd.pc = "load" /\ cmd.at < cmd.end
      /\ bars \subseteq Window /\ rows' = [rows EXCEPT ![S].candles = @ \cup bars]
  BY DEF LoadWindow, outside, Loading, CmdAt
<1>2. /\ S \in Streams /\ Row \in StateRows /\ Row = rows[S] /\ rows \in RowTables
  BY <1>1, TurnRow DEF Registering
<1>3. /\ WindowEnd \in 0..MaxNow /\ WindowEnd - cmd.at <= MaxCandles /\ cmd.at \in 0..MaxNow
      /\ \A b \in Window : b \in Int /\ cmd.at <= b /\ b < WindowEnd
  BY <1>1, WindowFacts, CmdFields DEF BackInv
<1>4. \A s \in Streams : /\ rows'[s].earliest = rows[s].earliest
                         /\ rows'[s].candles = IF s = S THEN rows[S].candles \cup bars
                                               ELSE rows[s].candles
  BY <1>1, <1>2 DEF RowTables, StateRows
<1>5. LowerBounds' = LowerBounds
  BY <1>4 DEF LowerBounds
<1>6. LoadedBars' = [LoadedBars EXCEPT ![S] = LoadedBars[S] \cup bars] /\ LoadedBars[S] = rows[S].candles
  BY <1>2, <1>4 DEF LoadedBars
<1>7. Latest(Row) \in Int /\ Latest(Row) < cmd.at
  <2>1. Latest(Row) \in Row.candles \cup {-1} /\ Latest(Row) \in Int
    BY InTurn, LatestIs
  <2>2. \A c \in Row.candles : c < cmd.at
    BY <1>1 DEF BackInv, TurnHolds
  <2> QED
    BY <1>3, <2>1, <2>2
<1>8. Promise!Newest(LoadedBars[S]) = Latest(Row)
  BY <1>2, <1>6 DEF Promise!Newest, Latest
<1>9. bars \in SUBSET ((Latest(Row) + 1)..(MaxNow - 1))
  BY <1>1, <1>3, <1>7
<1>10. \A b, c \in bars : b - c < MaxCandles
  BY <1>1, <1>3
<1>11. PICK s \in Streams : s = S
  BY <1>2
<1>12. Promise!LoadWindow(s)
  BY <1>1, <1>5, <1>6, <1>8, <1>9, <1>10, <1>11 DEF Promise!LoadWindow, LoadedBars, LowerBounds
<1> QED
  BY <1>12 DEF Promise!Next

\* A probe that finds a bar is the promise's FindBound, any other a stutter.
LEMMA ProbeImplements ==
    ASSUME BackInv, Probe
    PROVE  Promise!Next \/ UNCHANGED <<first, LoadedBars, LowerBounds>>
<1>1. Probing /\ first' = first /\ cmd.pc = "probe"
  BY DEF Probe, outside, Probing, CmdAt
<1>2. S \in Streams /\ Row \in StateRows /\ Row = rows[S] /\ rows \in RowTables
  BY <1>1, TurnRow DEF Registering
<1>3. \/ rows' = [rows EXCEPT ![S].cursor = WindowEnd]
      \/ \E bar \in Available(S) \cap Window :
            /\ \A b \in Available(S) \cap Window : bar <= b
            /\ rows' = [rows EXCEPT ![S].earliest = bar, ![S].cursor = NoBar]
  BY Zenon DEF Probe, AdvancedCursor
<1>4. CASE rows' = [rows EXCEPT ![S].cursor = WindowEnd]
  <2>1. \A s \in Streams :
          rows'[s].candles = rows[s].candles /\ rows'[s].earliest = rows[s].earliest
    BY <1>2, <1>4 DEF RowTables, StateRows
  <2> QED
    BY <1>1, <2>1, PromiseStutters
<1>5. ASSUME NEW bar \in Available(S) \cap Window,
             \A b \in Available(S) \cap Window : bar <= b,
             rows' = [rows EXCEPT ![S].earliest = bar, ![S].cursor = NoBar]
      PROVE  Promise!Next
  <2>1. bar = first[S] /\ rows[S].earliest = -1
    BY <1>1, <1>2, <1>5, ProbeFinds
  <2>2. \A s \in Streams : /\ rows'[s].candles = rows[s].candles
                           /\ rows'[s].earliest = IF s = S THEN first[S] ELSE rows[s].earliest
    BY <1>2, <1>5, <2>1 DEF RowTables, StateRows
  <2>3. LoadedBars' = LoadedBars
    BY <2>2 DEF LoadedBars
  <2>4. LowerBounds' = [LowerBounds EXCEPT ![S] = first[S]] /\ LowerBounds[S] = -1
    BY <1>2, <2>1, <2>2 DEF LowerBounds
  <2>5. PICK s \in Streams : s = S
    BY <1>2
  <2>6. Promise!FindBound(s)
    BY <1>1, <2>3, <2>4, <2>5 DEF Promise!FindBound, LoadedBars, LowerBounds
  <2> QED
    BY <2>6 DEF Promise!Next
<1> QED
  BY <1>3, <1>4, <1>5

\* A change of the state alone leaves what the promise sees.
LEMMA StateStutters ==
    ASSUME rows \in RowTables, first' = first, NEW s \in Streams, NEW row,
           rows' = [rows EXCEPT ![s] = row], row.candles = rows[s].candles,
           row.earliest = rows[s].earliest
    PROVE  UNCHANGED <<first, LoadedBars, LowerBounds>>
<1>1. \A t \in Streams : rows'[t].candles = rows[t].candles /\ rows'[t].earliest = rows[t].earliest
  BY DEF RowTables
<1> QED
  BY <1>1, PromiseStutters

\* Every step of the command, the operator, the clock or a crash is one of the
\* promise, or one the promise does not see.
LEMMA StepImplements ==
    ASSUME BackInv, [Next]_vars
    PROVE  [Promise!Next]_<<first, LoadedBars, LowerBounds>>
<1>0. rows \in RowTables /\ S \in Streams
  BY InTurn DEF BackInv
<1>1. ASSUME rows' = rows, first' = first
      PROVE  UNCHANGED <<first, LoadedBars, LowerBounds>>
  BY <1>1, PromiseStutters
<1>2. CASE StartAll \/ StartOne \/ Crash \/ Tick \/ UNCHANGED vars
  BY <1>1, <1>2 DEF StartAll, StartOne, Start, Crash, Tick, durable, outside, vars
<1>3. CASE \/ VerifyMetadata \/ PrepareStarts \/ PrepareFails \/ ResolveLowerBound \/ ProbeEnds
           \/ Plan \/ LoadEnds \/ Report \/ ProbeUnavailable \/ RequestRetried
           \/ \E how \in Faults : VerifyFails(how) \/ ProbeFails(how) \/ LoadFails(how)
  BY <1>1, <1>3 DEF VerifyMetadata, PrepareStarts, StartBoot, PrepareFails, ResolveLowerBound,
       ProbeEnds, Plan, LoadEnds, Report, ProbeUnavailable, RequestRetried, VerifyFails,
       ProbeFails, LoadFails, InCommand, durable, outside
<1>4. CASE Preparing
  <2>1. /\ schema \in Schemas /\ boot \in BootTables /\ PreparedIsWhole /\ BootStep("command")
        /\ first' = first
    BY <1>4 DEF Preparing, outside, BackInv
  <2>2. rows' = rows \/ rows' = [s \in Streams |-> CopyRow(rows[s])]
    BY <1>0, <2>1, BootStepHolds
  <2> QED
    BY <1>0, <1>1, <2>1, <2>2, CopyHolds, PromiseStutters
<1>5. CASE Register
  <2>1. rows' = [rows EXCEPT ![S] = Registered(rows[S])] /\ first' = first
    BY <1>5 DEF Register, RegisterStream, outside
  <2>2. /\ Registered(rows[S]).candles = rows[S].candles
        /\ Registered(rows[S]).earliest = rows[S].earliest
    BY DEF Registered, NewRow, NoRow
  <2> HIDE DEF Registered
  <2> QED
    BY <1>0, <2>1, <2>2, StateStutters
<1>6. CASE EnsureBootstrapping \/ Begin
  <2>1. rows' = [rows EXCEPT ![S] = Ensured(rows[S])] /\ first' = first
        /\ cmd.pc \in {"ensure", "begin"}
    BY <1>6 DEF EnsureBootstrapping, Begin, InCommand, outside, CmdAt
  <2>2. /\ Ensured(rows[S]).candles = rows[S].candles
        /\ Ensured(rows[S]).earliest = rows[S].earliest
    BY <2>1, TurnRow, EnsuredIs DEF Registering
  <2> HIDE DEF Ensured
  <2> QED
    BY <1>0, <2>1, <2>2, StateStutters
<1>7. CASE Finish \/ RecordFailure
  <2>1. /\ first' = first /\ cmd.pc \in {"finish", "failure"}
        /\ rows' = rows \/ \E state \in {"auditing", "degraded", "failed"} :
                              rows' = [rows EXCEPT ![S].state = state]
    BY <1>7 DEF Finish, RecordFailure, InCommand, outside, CmdAt
  <2>2. ASSUME NEW state, rows' = [rows EXCEPT ![S].state = state]
        PROVE  UNCHANGED <<first, LoadedBars, LowerBounds>>
    <3> DEFINE row == [rows[S] EXCEPT !.state = state]
    <3>1. row.candles = rows[S].candles /\ row.earliest = rows[S].earliest
      BY <2>1, TurnRow DEF Registering, StateRows
    <3>2. rows' = [rows EXCEPT ![S] = row]
      BY <2>2
    <3> HIDE DEF row
    <3> QED
      BY <1>0, <2>1, <3>1, <3>2, StateStutters
  <2> QED
    BY <1>1, <2>1, <2>2
<1>8. CASE Probe
  BY <1>8, ProbeImplements
<1>9. ASSUME NEW bars \in SUBSET Bars, LoadWindow(bars)
      PROVE  Promise!Next
  BY <1>9, LoadImplements
<1> QED
  BY <1>2, <1>3, <1>4, <1>5, <1>6, <1>7, <1>8, <1>9 DEF Next, Command

\* The command implements the promise of loading: bars grow only beyond the
\* newest one, window by window, and the lower bound, once known, is the first
\* bar there is and stays, whatever crash, failure or migration comes between.
THEOREM BackfillKeepsHistory == Spec => KeepsHistory
<1>1. Init => Promise!Init
  <2> SUFFICES ASSUME Init PROVE Promise!Init
    OBVIOUS
  <2>1. BackInv /\ first \in [Streams -> 0..(MaxNow - 1)]
    BY BackStarts, InTurn
  <2>2. \A s \in Streams : rows[s].candles \in SUBSET Bars /\ rows[s].earliest \in {-1, first[s]}
    BY <2>1, RowFields DEF BackInv, RowsHold
  <2> QED
    BY <2>1, <2>2 DEF Promise!Init
<1>2. BackInv /\ [Next]_vars => [Promise!Next]_<<first, LoadedBars, LowerBounds>>
  BY StepImplements
<1> QED
  BY <1>1, <1>2, BackfillInvariant, PTL DEF Spec, KeepsHistory, Promise!Spec, LoadedBars, LowerBounds
=============================================================================
