-------------------------- MODULE GapPlanningProofs --------------------------
(***************************************************************************)
(* The gaps an audit reports and the windows a repair plans are right for  *)
(* every window, every set of stored bars, every request size and budget.  *)
(***************************************************************************)
EXTENDS GapPlanning, TLAPS

\* What a call holds.
LEMMA CallType ==
    ASSUME call \in Inputs
    PROVE  /\ call.start \in Nat /\ call.end \in Nat /\ call.start < call.end
           /\ call.maxCandles \in Nat \ {0} /\ call.budget \in Nat \ {0}
           /\ call.stored \subseteq Nat
BY InputAssumption DEF InputType

\* What a list is after gaps.append or after another window is yielded.
LEMMA AppendFacts ==
    ASSUME NEW S, NEW s \in Seq(S), NEW e \in S
    PROVE  /\ Append(s, e) \in Seq(S)
           /\ Len(s) \in Nat
           /\ Len(Append(s, e)) = Len(s) + 1
           /\ DOMAIN s = 1..Len(s)
           /\ DOMAIN Append(s, e) = 1..(Len(s) + 1)
           /\ \A i \in 1..Len(s) : Append(s, e)[i] = s[i] /\ s[i] \in S
           /\ Append(s, e)[Len(s) + 1] = e
OBVIOUS

\* The elements of a list of intervals.
LEMMA IntervalFacts ==
    ASSUME NEW s \in Seq(Intervals), NEW i \in DOMAIN s
    PROVE  s[i].start \in Nat /\ s[i].end \in Nat /\ s[i].start < s[i].end
BY DEF Intervals

\* A new interval is one when it is not empty.
LEMMA IntervalIs ==
    ASSUME NEW a \in Nat, NEW b \in Nat, a < b
    PROVE  /\ Interval(a, b) \in Intervals
           /\ Interval(a, b).start = a
           /\ Interval(a, b).end = b
BY DEF Interval, Intervals

\* The invariant holds before the scan.
LEMMA PlanStarts == Init => PlanInv
<1> SUFFICES ASSUME Init PROVE PlanInv
  OBVIOUS
<1>1. call \in Inputs
  BY DEF Init
<1>2. /\ pc = "check" /\ gaps = <<>> /\ windows = <<>> /\ g = 1
      /\ at = call.start /\ cursor = call.start /\ gapStart = NoGap
  BY DEF Init
<1>3. DOMAIN gaps = {} /\ DOMAIN windows = {} /\ Len(windows) = 0
  BY <1>2
<1>4. TypeOK
  BY <1>1, <1>2, CallType DEF TypeOK, NoGap
<1>5. NothingPlanned /\ NothingFound /\ ScanHolds /\ GapsAreExact /\ PlanIsFull
  BY <1>2 DEF NothingPlanned, NothingFound, ScanHolds, GapsAreExact, PlanIsFull
<1>6. Maximal /\ Apart /\ CutHolds
  BY <1>2, <1>3 DEF Maximal, Apart, CutHolds
<1>7. WindowsTile
  BY <1>2, <1>3 DEF WindowsTile
<1> QED
  BY <1>1, <1>3, <1>4, <1>5, <1>6, <1>7, CallType DEF PlanInv

\* A rejected call plans nothing; a window without a stored bar is one gap.
LEMMA CheckKeeps == PlanInv /\ Check => PlanInv'
<1> SUFFICES ASSUME PlanInv, Check PROVE PlanInv'
  OBVIOUS
<1>1. /\ call \in Inputs /\ call' = call /\ cursor' = cursor /\ gapStart' = gapStart
      /\ g' = g /\ at' = at /\ windows' = windows /\ pc = "check"
  BY DEF PlanInv, TypeOK, Check
<1>2. /\ gaps = <<>> /\ windows = <<>> /\ g = 1 /\ at = call.start
      /\ cursor = call.start /\ gapStart = NoGap
  BY <1>1 DEF PlanInv, NothingPlanned, NothingFound
<1>3. /\ call.start \in Nat /\ call.end \in Nat /\ call.start < call.end
      /\ call.budget \in Nat \ {0} /\ call.stored \subseteq Nat
  BY <1>1, CallType
<1>4. DOMAIN windows' = {} /\ Len(windows') = 0 /\ Len(windows') <= call'.budget
  BY <1>1, <1>2, <1>3
<1>5. CASE pc' \in {"rejected", "scan"} /\ gaps' = gaps
  <2>1. DOMAIN gaps' = {}
    BY <1>2, <1>5
  <2>2. TypeOK'
    BY <1>1, <1>2, <1>3, <1>5 DEF TypeOK, NoGap
  <2>3. NothingPlanned' /\ NothingFound' /\ GapsAreExact' /\ PlanIsFull'
    BY <1>1, <1>2, <1>5
       DEF NothingPlanned, NothingFound, GapsAreExact, PlanIsFull
  <2>4. Maximal' /\ Apart' /\ CutHolds'
    BY <1>4, <1>5, <2>1 DEF Maximal, Apart, CutHolds
  <2>5. ScanHolds'
    BY <1>1, <1>2, <1>3, <1>5, <2>1 DEF ScanHolds, Bars
  <2>6. WindowsTile'
    BY <1>4, <1>5 DEF WindowsTile
  <2> QED
    BY <1>4, <2>2, <2>3, <2>4, <2>5, <2>6 DEF PlanInv
<1>6. CASE /\ pc' = "split" /\ gaps' = <<Interval(call.start, call.end)>>
           /\ Observed = {}
  <2>1. /\ Interval(call.start, call.end) \in Intervals
        /\ Interval(call.start, call.end).start = call.start
        /\ Interval(call.start, call.end).end = call.end
    BY <1>3, IntervalIs
  <2>2. /\ DOMAIN gaps' = {1} /\ gaps'[1].start = call.start
        /\ gaps'[1].end = call.end /\ gaps' \in Seq(Intervals)
    BY <1>6, <2>1
  <2>3. TypeOK'
    BY <1>1, <1>2, <1>3, <1>6, <2>2 DEF TypeOK, NoGap
  <2>4. NothingPlanned' /\ NothingFound' /\ ScanHolds' /\ PlanIsFull'
    BY <1>6 DEF NothingPlanned, NothingFound, ScanHolds, PlanIsFull
  <2>5. Maximal'
    BY <1>1, <1>3, <2>2 DEF Maximal
  <2>6. Apart'
    BY <2>2 DEF Apart
  <2>7. CutHolds'
    BY <1>1, <1>2, <1>3, <1>4, <2>2 DEF CutHolds
  <2>8. ASSUME NEW b \in Bars'
        PROVE  /\ b \in Missing' /\ InGap(b)' /\ ~(b < at')
    <3>1. b \in Int /\ call.start <= b /\ b < call.end
      BY <1>1, <1>3 DEF Bars
    <3>2. b \notin call'.stored
      BY <1>1, <1>3, <1>6, <3>1 DEF Observed
    <3> QED
      BY <1>1, <1>2, <1>3, <2>2, <3>1, <3>2 DEF Missing, InGap, Within
  <2>9. GapsAreExact'
    BY <2>5, <2>6, <2>8 DEF GapsAreExact
  <2>10. \A b : ~InWindow(b)'
    BY <1>4 DEF InWindow
  <2>11. WindowsTile'
    BY <1>4, <2>8, <2>10 DEF WindowsTile
  <2> QED
    BY <1>4, <2>3, <2>4, <2>5, <2>6, <2>7, <2>9, <2>11 DEF PlanInv
<1> QED
  BY <1>5, <1>6 DEF Check

\* One turn of the scan accounts for one more bar.
LEMMA ScanBarKeeps == PlanInv /\ ScanBar => PlanInv'
<1> SUFFICES ASSUME PlanInv, ScanBar PROVE PlanInv'
  OBVIOUS
<1>1. /\ call \in Inputs /\ call' = call /\ g' = g /\ at' = at /\ windows' = windows
      /\ pc = "scan" /\ pc' = "scan" /\ cursor' = cursor + 1 /\ cursor < call.end
      /\ gaps \in Seq(Intervals) /\ gapStart \in Nat \cup {NoGap} /\ cursor \in Nat
      /\ g \in Nat \ {0} /\ at \in Nat /\ windows \in Seq(Intervals)
  BY DEF PlanInv, TypeOK, ScanBar
<1>2. /\ call.start \in Nat /\ call.end \in Nat /\ call.start < call.end
      /\ call.budget \in Nat \ {0} /\ call.stored \subseteq Nat
  BY <1>1, CallType
<1>3. windows = <<>> /\ g = 1 /\ at = call.start
  BY <1>1 DEF PlanInv, NothingPlanned
<1>4. DOMAIN windows' = {} /\ Len(windows') <= call'.budget
  BY <1>1, <1>2, <1>3 DEF PlanInv
<1>5. /\ call.start <= cursor
      /\ gapStart # NoGap => /\ call.start <= gapStart /\ gapStart < cursor
                             /\ gapStart = call.start \/ gapStart - 1 \in call.stored
      /\ \A b \in Bars : b < cursor =>
              (b \in Missing <=> InGap(b) \/ (gapStart # NoGap /\ gapStart <= b))
      /\ \A i \in DOMAIN gaps : /\ gaps[i].end < cursor
                                /\ gapStart # NoGap => gaps[i].end < gapStart
  BY <1>1 DEF PlanInv, ScanHolds
<1>6. Bars' = Bars /\ Missing' = Missing
  BY <1>1 DEF Bars, Missing
<1>7. cursor \in Bars /\ (cursor \in Observed <=> cursor \notin Missing)
  BY <1>1, <1>2, <1>5 DEF Bars, Missing, Observed
<1>8. \A b \in Bars : b \in Int /\ (b < cursor + 1 <=> b < cursor \/ b = cursor)
  BY <1>1, <1>2 DEF Bars
<1>9. \A i \in DOMAIN gaps : /\ gaps[i].start \in Nat /\ gaps[i].end \in Nat
                             /\ gaps[i].start < gaps[i].end
  BY <1>1, IntervalFacts
<1>10. Maximal /\ Apart
  BY DEF PlanInv
<1>11. NothingPlanned' /\ NothingFound' /\ GapsAreExact' /\ PlanIsFull' /\ CutHolds'
  BY <1>1, <1>3, <1>4
     DEF NothingPlanned, NothingFound, GapsAreExact, PlanIsFull, CutHolds
<1>12. WindowsTile'
  BY <1>1, <1>4 DEF WindowsTile
<1>13. SUFFICES /\ gaps' \in Seq(Intervals) /\ gapStart' \in Nat \cup {NoGap}
                /\ Maximal' /\ Apart' /\ ScanHolds'
  <2>1. ASSUME gaps' \in Seq(Intervals), gapStart' \in Nat \cup {NoGap}
        PROVE  TypeOK'
    BY <1>1, <2>1 DEF TypeOK
  <2> QED
    BY <1>4, <1>11, <1>12, <2>1 DEF PlanInv
<1>14. CASE gaps' = gaps
  <2>1. Maximal' /\ Apart'
    BY <1>1, <1>10, <1>14 DEF Maximal, Apart
  <2>2. \A b : InGap(b)' <=> InGap(b)
    BY <1>14 DEF InGap
  <2>3. ~InGap(cursor)
    BY <1>1, <1>5, <1>9 DEF InGap, Within
  <2>4. CASE cursor \in Missing /\ gapStart = NoGap /\ gapStart' = cursor
    <3>1. gapStart' # NoGap
      BY <1>1, <2>4 DEF NoGap
    <3>2. ASSUME cursor # call.start PROVE cursor - 1 \in call.stored
      <4>1. cursor - 1 \in Bars /\ cursor - 1 < cursor
        BY <1>1, <1>2, <1>5, <3>2 DEF Bars
      <4>2. ~InGap(cursor - 1)
        BY <1>1, <1>5, <1>9 DEF InGap, Within
      <4> QED
        BY <1>5, <2>4, <4>1, <4>2 DEF Missing
    <3>3. \A b \in Bars : b < cursor + 1 =>
              (b \in Missing <=> InGap(b) \/ cursor <= b)
      BY <1>1, <1>5, <1>8, <2>4
    <3> QED
      BY <1>1, <1>2, <1>5, <1>6, <1>9, <1>14, <2>1, <2>2, <2>4, <3>1, <3>2, <3>3
         DEF ScanHolds
  <2>5. CASE cursor \in Missing /\ gapStart # NoGap /\ gapStart' = gapStart
    <3>1. \A b \in Bars : b < cursor + 1 =>
              (b \in Missing <=> InGap(b) \/ gapStart <= b)
      BY <1>1, <1>5, <1>8, <2>5
    <3> QED
      BY <1>1, <1>2, <1>5, <1>6, <1>9, <1>14, <2>1, <2>2, <2>5, <3>1 DEF ScanHolds
  <2>6. CASE cursor \notin Missing /\ gapStart = NoGap /\ gapStart' = gapStart
    <3>1. \A b \in Bars : b < cursor + 1 => (b \in Missing <=> InGap(b))
      BY <1>1, <1>5, <1>8, <2>3, <2>6
    <3> QED
      BY <1>1, <1>2, <1>5, <1>6, <1>9, <1>14, <2>1, <2>2, <2>6, <3>1 DEF ScanHolds
  <2>7. CASE cursor \notin Missing /\ gapStart # NoGap
    <3>1. gaps' = CloseGap(gaps, gapStart, cursor)
      BY <1>7, <2>7 DEF ScanBar
    <3>2. Interval(gapStart, cursor) \in Intervals
      BY <1>1, <1>5, <2>7, IntervalIs
    <3> QED
      BY <1>1, <1>14, <3>1, <3>2, AppendFacts DEF CloseGap
  <2> QED
    BY <1>7, <2>4, <2>5, <2>6, <2>7 DEF ScanBar
<1>15. CASE /\ cursor \notin Missing /\ gapStart # NoGap /\ gapStart' = NoGap
            /\ gaps' = Append(gaps, Interval(gapStart, cursor))
  <2> DEFINE new == Interval(gapStart, cursor)
  <2>1. /\ new \in Intervals /\ new.start = gapStart /\ new.end = cursor
        /\ gapStart \in Nat
    BY <1>1, <1>5, <1>15, IntervalIs
  <2>2. /\ gaps' \in Seq(Intervals) /\ Len(gaps) \in Nat
        /\ DOMAIN gaps = 1..Len(gaps) /\ DOMAIN gaps' = 1..(Len(gaps) + 1)
        /\ \A i \in 1..Len(gaps) : gaps'[i] = gaps[i]
        /\ gaps'[Len(gaps) + 1] = new
    BY <1>1, <1>15, <2>1, AppendFacts
  <2>3. cursor \in call.stored
    BY <1>7, <1>15 DEF Missing
  <2> HIDE DEF new
  <2>4. \A i \in DOMAIN gaps' : i \in DOMAIN gaps \/ gaps'[i] = new
    BY <2>2
  <2>5. Maximal'
    BY <1>1, <1>2, <1>5, <1>10, <1>15, <2>1, <2>2, <2>3, <2>4 DEF Maximal
  <2>6. Apart'
    BY <1>5, <1>10, <1>15, <2>1, <2>2 DEF Apart
  <2>7. \A b : InGap(b)' <=> InGap(b) \/ (gapStart <= b /\ b < cursor)
    BY <2>1, <2>2 DEF InGap, Within
  <2>8. ~InGap(cursor)
    BY <1>1, <1>5, <1>9 DEF InGap, Within
  <2>9. \A b \in Bars : b < cursor + 1 => (b \in Missing <=> InGap(b)')
    BY <1>1, <1>5, <1>8, <1>15, <2>7, <2>8
  <2>10. \A i \in DOMAIN gaps' : gaps'[i].end < cursor + 1
    BY <1>1, <1>5, <1>9, <2>1, <2>2, <2>4
  <2> QED
    BY <1>1, <1>2, <1>5, <1>6, <1>15, <2>2, <2>5, <2>6, <2>9, <2>10 DEF ScanHolds
<1> QED
  BY <1>7, <1>14, <1>15 DEF ScanBar, CloseGap

\* The end of the scan closes the open gap, and the gaps are exact.
LEMMA ScanEndsKeeps == PlanInv /\ ScanEnds => PlanInv'
<1> SUFFICES ASSUME PlanInv, ScanEnds PROVE PlanInv'
  OBVIOUS
<1>1. /\ call \in Inputs /\ call' = call /\ g' = g /\ windows' = windows
      /\ pc = "scan" /\ cursor' = cursor /\ cursor >= call.end /\ gapStart' = gapStart
      /\ gaps \in Seq(Intervals) /\ gapStart \in Nat \cup {NoGap} /\ cursor \in Nat
      /\ g \in Nat \ {0} /\ at \in Nat /\ windows \in Seq(Intervals)
      /\ gaps' = LastGap
  BY DEF PlanInv, TypeOK, ScanEnds
<1>2. /\ call.start \in Nat /\ call.end \in Nat /\ call.start < call.end
      /\ call.budget \in Nat \ {0} /\ call.stored \subseteq Nat
  BY <1>1, CallType
<1>3. windows = <<>> /\ g = 1 /\ at = call.start
  BY <1>1 DEF PlanInv, NothingPlanned
<1>4. DOMAIN windows' = {} /\ Len(windows') <= call'.budget
  BY <1>1, <1>2, <1>3 DEF PlanInv
<1>5. /\ cursor = call.end
      /\ gapStart # NoGap => /\ call.start <= gapStart /\ gapStart < cursor
                             /\ gapStart = call.start \/ gapStart - 1 \in call.stored
      /\ \A b \in Bars : b < cursor =>
              (b \in Missing <=> InGap(b) \/ (gapStart # NoGap /\ gapStart <= b))
      /\ \A i \in DOMAIN gaps : /\ gaps[i].end < cursor
                                /\ gapStart # NoGap => gaps[i].end < gapStart
  BY <1>1, <1>2 DEF PlanInv, ScanHolds
<1>6. Bars' = Bars /\ Missing' = Missing
  BY <1>1 DEF Bars, Missing
<1>7. \A b \in Bars : b \in Int /\ call.start <= b /\ b < call.end
  BY <1>2 DEF Bars
<1>8. Maximal /\ Apart
  BY DEF PlanInv
<1>9. /\ gaps' \in Seq(Intervals) /\ Maximal' /\ Apart'
      /\ \A b \in Bars : b \in Missing <=> InGap(b)'
  <2>1. CASE gapStart = NoGap
    <3>1. gaps' = gaps
      BY <1>1, <2>1 DEF LastGap
    <3>2. Maximal' /\ Apart'
      BY <1>1, <1>8, <3>1 DEF Maximal, Apart
    <3>3. \A b : InGap(b)' <=> InGap(b)
      BY <3>1 DEF InGap
    <3> QED
      BY <1>1, <1>5, <1>7, <2>1, <3>1, <3>2, <3>3
  <2>2. CASE gapStart # NoGap
    <3> DEFINE new == Interval(gapStart, call.end)
    <3>1. /\ new \in Intervals /\ new.start = gapStart /\ new.end = call.end
          /\ gapStart \in Nat
      BY <1>1, <1>2, <1>5, <2>2, IntervalIs
    <3>2. /\ gaps' \in Seq(Intervals) /\ Len(gaps) \in Nat
          /\ DOMAIN gaps = 1..Len(gaps) /\ DOMAIN gaps' = 1..(Len(gaps) + 1)
          /\ \A i \in 1..Len(gaps) : gaps'[i] = gaps[i]
          /\ gaps'[Len(gaps) + 1] = new
      BY <1>1, <2>2, <3>1, AppendFacts DEF LastGap
    <3> HIDE DEF new
    <3>3. \A i \in DOMAIN gaps' : i \in DOMAIN gaps \/ gaps'[i] = new
      BY <3>2
    <3>4. Maximal'
      BY <1>1, <1>2, <1>5, <1>8, <2>2, <3>1, <3>2, <3>3 DEF Maximal
    <3>5. Apart'
      BY <1>5, <1>8, <2>2, <3>1, <3>2 DEF Apart
    <3>6. \A b : InGap(b)' <=> InGap(b) \/ (gapStart <= b /\ b < call.end)
      BY <3>1, <3>2 DEF InGap, Within
    <3> QED
      BY <1>5, <1>7, <2>2, <3>2, <3>4, <3>5, <3>6
  <2> QED
    BY <2>1, <2>2
<1>10. GapsAreExact'
  BY <1>6, <1>9 DEF GapsAreExact
<1>11. \A b : ~InWindow(b)'
  BY <1>4 DEF InWindow
<1>12. CASE gaps' = <<>> /\ pc' = "done" /\ at' = at
  <2>1. \A b : ~InGap(b)'
    BY <1>12 DEF InGap
  <2>2. Missing' = {}
    BY <1>6, <1>9, <2>1 DEF Missing
  <2>3. TypeOK'
    BY <1>1, <1>9, <1>12 DEF TypeOK
  <2>4. NothingPlanned' /\ NothingFound' /\ ScanHolds' /\ PlanIsFull' /\ CutHolds'
    BY <1>4, <1>12, <2>2
       DEF NothingPlanned, NothingFound, ScanHolds, PlanIsFull, CutHolds
  <2>5. WindowsTile'
    BY <1>4, <1>11, <2>2 DEF WindowsTile
  <2> QED
    BY <1>4, <1>9, <1>10, <2>3, <2>4, <2>5 DEF PlanInv
<1>13. CASE gaps' # <<>> /\ pc' = "split" /\ at' = gaps'[1].start
  <2>1. 1 \in DOMAIN gaps'
    BY <1>9, <1>13
  <2>2. /\ gaps'[1].start \in Nat /\ gaps'[1].start < gaps'[1].end
    BY <1>9, <2>1, IntervalFacts
  <2>3. TypeOK'
    BY <1>1, <1>9, <1>13, <2>2 DEF TypeOK
  <2>4. NothingPlanned' /\ NothingFound' /\ ScanHolds' /\ PlanIsFull'
    BY <1>13 DEF NothingPlanned, NothingFound, ScanHolds, PlanIsFull
  <2>5. CutHolds'
    BY <1>1, <1>3, <1>4, <1>13, <2>1, <2>2 DEF CutHolds
  <2>6. \A i \in DOMAIN gaps' : i \in Nat /\ 1 <= i
    BY <1>9
  <2>7. \A i \in DOMAIN gaps' : at' <= gaps'[i].start
    <3>1. TAKE i \in DOMAIN gaps'
    <3>2. gaps'[i].start \in Nat /\ gaps'[1].end \in Nat
      BY <1>9, <2>1, IntervalFacts
    <3>3. CASE i = 1
      BY <1>13, <3>2, <3>3
    <3>4. CASE i # 1
      <4>1. gaps'[1].end < gaps'[i].start
        BY <1>9, <2>1, <2>6, <3>4 DEF Apart
      <4> QED
        BY <1>13, <2>2, <3>2, <4>1
    <3> QED
      BY <3>3, <3>4
  <2>8. \A b \in Bars' : ~(b \in Missing' /\ b < at')
    <3>1. ASSUME NEW b \in Bars, b \in Missing PROVE ~(b < at')
      <4>1. PICK i \in DOMAIN gaps' : gaps'[i].start <= b
        BY <1>9, <3>1 DEF InGap, Within
      <4>2. gaps'[i].start \in Nat
        BY <1>9, IntervalFacts
      <4> QED
        BY <1>7, <1>13, <2>2, <2>7, <4>1, <4>2
    <3> QED
      BY <1>6, <3>1
  <2>9. WindowsTile'
    BY <1>4, <1>11, <2>8 DEF WindowsTile
  <2> QED
    BY <1>4, <1>9, <1>10, <2>3, <2>4, <2>5, <2>9 DEF PlanInv
<1> QED
  BY <1>12, <1>13 DEF ScanEnds

\* The next window covers the missing bars from its start to its end, and the
\* window after it starts at the next missing bar.
LEMMA PlanWindowKeeps == PlanInv /\ PlanWindow => PlanInv'
<1> SUFFICES ASSUME PlanInv, PlanWindow PROVE PlanInv'
  OBVIOUS
<1> DEFINE end == WindowEnd(at, gaps[g])
<1> DEFINE new == Interval(at, end)
<1>1. /\ call \in Inputs /\ call' = call /\ cursor' = cursor /\ gapStart' = gapStart
      /\ gaps' = gaps /\ pc = "split" /\ windows' = Append(windows, new)
      /\ gaps \in Seq(Intervals) /\ gapStart \in Nat \cup {NoGap} /\ cursor \in Nat
      /\ g \in Nat \ {0} /\ at \in Nat /\ windows \in Seq(Intervals)
      /\ Len(windows) < call.budget
  BY DEF PlanInv, TypeOK, PlanWindow
<1>2. /\ call.start \in Nat /\ call.end \in Nat /\ call.start < call.end
      /\ call.budget \in Nat \ {0} /\ call.maxCandles \in Nat \ {0}
  BY <1>1, CallType
<1>3. g \in DOMAIN gaps /\ gaps[g].start <= at /\ at < gaps[g].end
  BY <1>1 DEF PlanInv, CutHolds
<1>4. \A i \in DOMAIN gaps : /\ gaps[i].start \in Nat /\ gaps[i].end \in Nat
                             /\ gaps[i].start < gaps[i].end
  BY <1>1, IntervalFacts
<1>5. /\ end \in Nat /\ at < end /\ end <= gaps[g].end
      /\ end - at <= call.maxCandles
  <2>1. at \in Nat /\ gaps[g].end \in Nat /\ call.maxCandles \in Nat \ {0}
    BY <1>1, <1>2, <1>3, <1>4
  <2>2. end = IF at + call.maxCandles < gaps[g].end THEN at + call.maxCandles ELSE gaps[g].end
    BY DEF WindowEnd
  <2> HIDE DEF end
  <2> QED
    BY <1>3, <2>1, <2>2
<1>6. new \in Intervals /\ new.start = at /\ new.end = end
  BY <1>1, <1>5, IntervalIs
<1>7. /\ windows' \in Seq(Intervals) /\ Len(windows) \in Nat
      /\ Len(windows') = Len(windows) + 1
      /\ DOMAIN windows = 1..Len(windows) /\ DOMAIN windows' = 1..(Len(windows) + 1)
      /\ \A i \in 1..Len(windows) : windows'[i] = windows[i]
      /\ windows'[Len(windows) + 1] = new
  BY <1>1, <1>6, AppendFacts
<1>8. \/ end < gaps[g].end /\ at' = end /\ g' = g /\ pc' = "split"
      \/ /\ end >= gaps[g].end /\ g < Len(gaps) /\ g' = g + 1
         /\ at' = gaps[g + 1].start /\ pc' = "split"
      \/ end >= gaps[g].end /\ g = Len(gaps) /\ at' = end /\ g' = g /\ pc' = "done"
  BY <1>1 DEF PlanWindow
<1> HIDE DEF new, end
<1>9. Len(windows') <= call'.budget
  BY <1>1, <1>2, <1>7
<1>10. Bars' = Bars /\ Missing' = Missing
  BY <1>1 DEF Bars, Missing
<1>11. \A b \in Bars : b \in Int /\ call.start <= b /\ b < call.end
  BY <1>2 DEF Bars
<1>12. Maximal /\ Apart /\ (\A b \in Bars : b \in Missing <=> InGap(b))
  BY <1>1 DEF PlanInv, GapsAreExact
<1>13. /\ \A i \in DOMAIN windows :
            /\ windows[i].end - windows[i].start <= call.maxCandles
            /\ \E k \in DOMAIN gaps : /\ gaps[k].start <= windows[i].start
                                      /\ windows[i].end <= gaps[k].end
       /\ \A i, j \in DOMAIN windows : i < j => windows[i].end <= windows[j].start
       /\ \A b \in Bars : (b \in Missing /\ b < at) <=> InWindow(b)
  BY <1>1 DEF PlanInv, WindowsTile
<1>14. \A i \in DOMAIN windows : windows[i].end <= at /\ windows[i].end \in Nat
  BY <1>1, IntervalFacts DEF PlanInv, CutHolds
<1>15. Maximal' /\ Apart'
  BY <1>1, <1>12 DEF Maximal, Apart
<1>16. \A b : InGap(b)' <=> InGap(b)
  BY <1>1 DEF InGap
<1>17. GapsAreExact'
  BY <1>10, <1>12, <1>15, <1>16 DEF GapsAreExact
<1>18. \A b : InWindow(b)' <=> InWindow(b) \/ (at <= b /\ b < end)
  BY <1>6, <1>7 DEF InWindow, Within
<1>19. \A i \in DOMAIN windows' : i \in DOMAIN windows \/ windows'[i] = new
  BY <1>7
<1>20. \A i \in DOMAIN windows' :
            /\ windows'[i].end - windows'[i].start <= call'.maxCandles
            /\ \E k \in DOMAIN gaps' : /\ gaps'[k].start <= windows'[i].start
                                       /\ windows'[i].end <= gaps'[k].end
  BY <1>1, <1>3, <1>5, <1>6, <1>7, <1>13, <1>19
<1>21. \A i, j \in DOMAIN windows' : i < j => windows'[i].end <= windows'[j].start
  BY <1>6, <1>7, <1>13, <1>14
\* Up to the end of the new window, the missing bars are in a window.
<1>22. \A b \in Bars : (b \in Missing /\ b < end) <=> InWindow(b)'
  <2>1. TAKE b \in Bars
  <2>2. at <= b /\ b < end => b \in Missing
    <3>1. at <= b /\ b < end => gaps[g].start <= b /\ b < gaps[g].end
      BY <1>1, <1>3, <1>4, <1>5, <1>11
    <3> QED
      BY <1>3, <1>12, <3>1 DEF InGap, Within
  <2>3. b < end <=> b < at \/ (at <= b /\ b < end)
    BY <1>1, <1>5, <1>11
  <2> QED
    BY <1>13, <1>18, <2>2, <2>3
<1>23. NothingPlanned' /\ NothingFound' /\ ScanHolds'
  BY <1>8 DEF NothingPlanned, NothingFound, ScanHolds
<1>24. \A i \in DOMAIN windows' : windows'[i].end <= end
  BY <1>1, <1>5, <1>6, <1>7, <1>14, <1>19
<1>25. DOMAIN gaps = 1..Len(gaps) /\ Len(gaps) \in Nat
  BY <1>1
<1>26. CASE end < gaps[g].end /\ at' = end /\ g' = g /\ pc' = "split"
  <2>1. TypeOK'
    BY <1>1, <1>5, <1>7, <1>26 DEF TypeOK
  <2>2. CutHolds'
    BY <1>1, <1>3, <1>4, <1>5, <1>24, <1>26 DEF CutHolds
  <2>3. WindowsTile'
    BY <1>10, <1>20, <1>21, <1>22, <1>26 DEF WindowsTile
  <2>4. PlanIsFull'
    BY <1>26 DEF PlanIsFull
  <2> QED
    BY <1>9, <1>15, <1>17, <1>23, <2>1, <2>2, <2>3, <2>4 DEF PlanInv
<1>27. CASE /\ end >= gaps[g].end /\ g < Len(gaps) /\ g' = g + 1
            /\ at' = gaps[g + 1].start /\ pc' = "split"
  <2>1. g + 1 \in DOMAIN gaps
    BY <1>1, <1>25, <1>27
  <2>2. end = gaps[g].end /\ end < gaps[g + 1].start
    BY <1>1, <1>3, <1>4, <1>5, <1>12, <1>27, <2>1 DEF Apart
  <2>3. TypeOK'
    BY <1>1, <1>4, <1>7, <1>27, <2>1 DEF TypeOK
  <2>4. CutHolds'
    <3>1. \A i \in DOMAIN windows' : windows'[i].end <= at'
      <4>1. TAKE i \in DOMAIN windows'
      <4>2. windows'[i].end \in Nat
        BY <1>7, IntervalFacts
      <4> QED
        BY <1>4, <1>5, <1>24, <1>27, <2>1, <2>2, <4>2
    <3> QED
      BY <1>1, <1>4, <1>27, <2>1, <3>1 DEF CutHolds
  <2>5. \A b \in Bars : b \in Missing /\ b < at' => b < end
    <3>1. SUFFICES ASSUME NEW b \in Bars, b \in Missing, b < at' PROVE b < end
      OBVIOUS
    <3>2. PICK i \in DOMAIN gaps : gaps[i].start <= b /\ b < gaps[i].end
      BY <1>12, <3>1 DEF InGap, Within
    <3>3. CASE i > g
      <4>1. CASE i = g + 1
        BY <1>4, <1>11, <1>27, <3>1, <3>2, <4>1
      <4>2. CASE i > g + 1
        <5>1. gaps[g + 1].end < gaps[i].start
          BY <1>12, <2>1, <4>2 DEF Apart
        <5> QED
          BY <1>4, <1>11, <1>27, <2>1, <3>1, <3>2, <5>1
      <4> QED
        BY <1>1, <1>25, <3>3, <4>1, <4>2
    <3>4. CASE i <= g
      <4>1. gaps[i].end <= gaps[g].end
        <5>1. CASE i = g
          BY <1>3, <1>4, <5>1
        <5>2. CASE i < g
          <6>1. gaps[i].end < gaps[g].start
            BY <1>3, <1>12, <5>2 DEF Apart
          <6> QED
            BY <1>3, <1>4, <6>1
        <5> QED
          BY <1>1, <1>25, <3>4, <5>1, <5>2
      <4> QED
        BY <1>3, <1>4, <1>11, <2>2, <3>2, <4>1
    <3> QED
      BY <1>1, <1>25, <3>3, <3>4
  <2>6. \A b \in Bars : (b \in Missing /\ b < at') <=> InWindow(b)'
    <3>1. \A b \in Bars : b < end => b < at'
      BY <1>4, <1>5, <1>11, <1>27, <2>1, <2>2
    <3> QED
      BY <1>22, <2>5, <3>1
  <2>7. WindowsTile'
    BY <1>10, <1>20, <1>21, <2>6 DEF WindowsTile
  <2>8. PlanIsFull'
    BY <1>27 DEF PlanIsFull
  <2> QED
    BY <1>9, <1>15, <1>17, <1>23, <2>3, <2>4, <2>7, <2>8 DEF PlanInv
<1>28. CASE end >= gaps[g].end /\ g = Len(gaps) /\ at' = end /\ g' = g /\ pc' = "done"
  <2>1. TypeOK'
    BY <1>1, <1>5, <1>7, <1>28 DEF TypeOK
  <2>2. CutHolds'
    BY <1>24, <1>28 DEF CutHolds
  <2>3. WindowsTile'
    BY <1>10, <1>20, <1>21, <1>22, <1>28 DEF WindowsTile
  <2>4. ASSUME NEW b \in Missing PROVE InWindow(b)'
    <3>1. b \in Bars
      BY DEF Missing
    <3>2. PICK i \in DOMAIN gaps : gaps[i].start <= b /\ b < gaps[i].end
      BY <1>12, <3>1, <2>4 DEF InGap, Within
    <3>3. gaps[i].end <= gaps[g].end
      <4>1. CASE i = g
        BY <1>3, <1>4, <4>1
      <4>2. CASE i < g
        <5>1. gaps[i].end < gaps[g].start
          BY <1>3, <1>12, <4>2 DEF Apart
        <5> QED
          BY <1>3, <1>4, <5>1
      <4> QED
        BY <1>1, <1>25, <1>28, <4>1, <4>2
    <3>4. b < end
      BY <1>3, <1>4, <1>5, <1>11, <1>28, <3>1, <3>2, <3>3
    <3> QED
      BY <1>22, <2>4, <3>1, <3>4
  <2>5. PlanIsFull'
    BY <1>10, <2>4 DEF PlanIsFull
  <2> QED
    BY <1>9, <1>15, <1>17, <1>23, <2>1, <2>2, <2>3, <2>5 DEF PlanInv
<1> QED
  BY <1>8, <1>26, <1>27, <1>28

\* A spent budget ends the plan where it is.
LEMMA BudgetKeeps == PlanInv /\ BudgetSpent => PlanInv'
<1> SUFFICES ASSUME PlanInv, BudgetSpent PROVE PlanInv'
  OBVIOUS
<1>1. /\ UNCHANGED <<call, cursor, gapStart, gaps, g, at, windows>>
      /\ pc = "split" /\ pc' = "done" /\ Len(windows) >= call.budget
      /\ call \in Inputs /\ windows \in Seq(Intervals)
  BY DEF BudgetSpent, PlanInv, TypeOK
<1>2. Len(windows) = call.budget
  BY <1>1, CallType DEF PlanInv
<1>3. TypeOK' /\ NothingPlanned' /\ NothingFound' /\ ScanHolds' /\ PlanIsFull'
  BY <1>1, <1>2
     DEF PlanInv, TypeOK, NothingPlanned, NothingFound, ScanHolds, PlanIsFull
<1>4. Maximal' /\ Apart' /\ CutHolds'
  BY <1>1 DEF PlanInv, Maximal, Apart, CutHolds
<1>5. GapsAreExact'
  BY <1>1, <1>4 DEF PlanInv, GapsAreExact, Bars, Missing, InGap
<1>6. WindowsTile'
  BY <1>1 DEF PlanInv, WindowsTile, Bars, Missing, InWindow
<1> QED
  BY <1>1, <1>2, <1>3, <1>4, <1>5, <1>6, CallType DEF PlanInv

\* Every reachable state of an audit and of the plan made from it satisfies
\* PlanInv.
THEOREM PlanInvariant == Spec => []PlanInv
<1>1. PlanInv /\ UNCHANGED vars => PlanInv'
  BY DEF PlanInv, vars, TypeOK, NothingPlanned, NothingFound, Maximal, Apart,
         ScanHolds, CutHolds, GapsAreExact, WindowsTile, PlanIsFull, Bars,
         Missing, InGap, InWindow
<1>2. PlanInv /\ [Next]_vars => PlanInv'
  BY <1>1, CheckKeeps, ScanBarKeeps, ScanEndsKeeps, PlanWindowKeeps, BudgetKeeps
     DEF Next
<1> QED
  BY <1>2, PlanStarts, PTL DEF Spec

\* find_gaps and build_continuity_report report exactly the maximal runs of
\* missing bars, whatever is stored.
THEOREM AuditGapsAreExact == Spec => []GapsAreExact
<1>1. PlanInv => GapsAreExact
  BY DEF PlanInv
<1> QED
  BY <1>1, PlanInvariant, PTL

\* The REST windows of a repair are disjoint pieces of the gaps, oldest first,
\* and cover the missing bars up to the next one.
THEOREM RepairWindowsTile == Spec => []WindowsTile
<1>1. PlanInv => WindowsTile
  BY DEF PlanInv
<1> QED
  BY <1>1, PlanInvariant, PTL

\* A repair that stops before its budget asked for every missing bar.
THEOREM RepairPlanIsFull == Spec => []PlanIsFull
<1>1. PlanInv => PlanIsFull
  BY DEF PlanInv
<1> QED
  BY <1>1, PlanInvariant, PTL

\* A window that is planned is full or reaches the end of its gap; no other
\* step changes the gaps once a window is planned.
LEMMA FullKeeps == PlanInv /\ WindowsFull /\ [Next]_vars => WindowsFull'
<1> SUFFICES ASSUME PlanInv, WindowsFull, [Next]_vars PROVE WindowsFull'
  OBVIOUS
<1>1. CASE PlanWindow
  <2> DEFINE end == WindowEnd(at, gaps[g])
  <2> DEFINE new == Interval(at, end)
  <2>1. /\ call \in Inputs /\ call' = call /\ gaps' = gaps /\ pc = "split"
        /\ windows' = Append(windows, new) /\ windows \in Seq(Intervals)
        /\ gaps \in Seq(Intervals) /\ at \in Nat
    BY <1>1 DEF PlanInv, TypeOK, PlanWindow
  <2>2. g \in DOMAIN gaps /\ gaps[g].start <= at /\ at < gaps[g].end
    BY <2>1 DEF PlanInv, CutHolds
  <2>3. call.maxCandles \in Nat \ {0} /\ gaps[g].end \in Nat
    BY <2>1, <2>2, CallType, IntervalFacts
  <2>4. /\ end \in Nat /\ at < end /\ end <= gaps[g].end
        /\ end = at + call.maxCandles \/ end = gaps[g].end
    BY <2>1, <2>2, <2>3 DEF WindowEnd
  <2>5. new \in Intervals /\ new.start = at /\ new.end = end
    BY <2>1, <2>4, IntervalIs
  <2>6. /\ Len(windows) \in Nat /\ DOMAIN windows = 1..Len(windows)
        /\ DOMAIN windows' = 1..(Len(windows) + 1)
        /\ \A i \in 1..Len(windows) : windows'[i] = windows[i]
        /\ windows'[Len(windows) + 1] = new
    BY <2>1, <2>5, AppendFacts
  <2> HIDE DEF new, end
  <2> SUFFICES ASSUME NEW i \in DOMAIN windows'
               PROVE  \E k \in DOMAIN gaps :
                         /\ gaps[k].start <= windows'[i].start
                         /\ windows'[i].end <= gaps[k].end
                         /\ \/ windows'[i].end = windows'[i].start + call.maxCandles
                            \/ windows'[i].end = gaps[k].end
    BY <2>1 DEF WindowsFull
  <2>7. CASE i \in DOMAIN windows
    BY <2>6, <2>7 DEF WindowsFull
  <2>8. CASE i = Len(windows) + 1
    BY <2>2, <2>4, <2>5, <2>6, <2>8
  <2> QED
    BY <2>6, <2>7, <2>8
<1>2. CASE Check \/ ScanBar \/ ScanEnds
  <2>1. windows = <<>> /\ windows' = windows
    BY <1>2 DEF PlanInv, NothingPlanned, Check, ScanBar, ScanEnds
  <2> QED
    BY <2>1 DEF WindowsFull
<1>3. CASE BudgetSpent \/ UNCHANGED vars
  <2>1. windows' = windows /\ gaps' = gaps /\ call' = call
    BY <1>3 DEF BudgetSpent, vars
  <2> QED
    BY <2>1 DEF WindowsFull
<1> QED
  BY <1>1, <1>2, <1>3 DEF Next

\* A full window that holds only missing bars, and before which a stored bar or
\* the end of the request stops the search, is the next one.
LEMMA FullIsNext == PlanInv /\ WindowsFull => PlanIsNextWindow
<1> SUFFICES ASSUME PlanInv, WindowsFull, NEW i \in DOMAIN windows
             PROVE  NextWindow({b \in Missing : b >= windows[i].start})
                        = {b \in Missing : Within(b, windows[i])}
  BY DEF PlanIsNextWindow
<1> DEFINE w == windows[i]
           todo == {b \in Missing : b >= w.start}
<1>1. /\ call \in Inputs /\ windows \in Seq(Intervals) /\ gaps \in Seq(Intervals)
      /\ pc \in {"split", "done"}
  <2>1. windows # <<>>
    OBVIOUS
  <2> QED
    BY <2>1 DEF PlanInv, TypeOK, NothingPlanned
<1>2. /\ call.start \in Nat /\ call.end \in Nat /\ call.maxCandles \in Nat \ {0}
      /\ w.start \in Nat /\ w.end \in Nat /\ w.start < w.end
  BY <1>1, CallType, IntervalFacts
<1>3. PICK k \in DOMAIN gaps :
        /\ gaps[k].start <= w.start /\ w.end <= gaps[k].end
        /\ w.end = w.start + call.maxCandles \/ w.end = gaps[k].end
  BY DEF WindowsFull
<1>4. gaps[k].start \in Nat /\ gaps[k].end \in Nat
  BY <1>1, IntervalFacts
<1>5. /\ call.start <= gaps[k].start /\ gaps[k].end <= call.end
      /\ gaps[k].end = call.end \/ gaps[k].end \in call.stored
      /\ \A b \in Bars : b \in Missing <=> InGap(b)
  BY <1>1 DEF PlanInv, GapsAreExact, Maximal
<1>6. w.end - w.start <= call.maxCandles
  BY DEF PlanInv, WindowsTile
<1>7. \A b \in Missing : b \in Int /\ call.start <= b /\ b < call.end /\ b \notin call.stored
  BY <1>2 DEF Missing, Bars
<1>8. \A b \in Int : gaps[k].start <= b /\ b < gaps[k].end => b \in Missing
  <2> SUFFICES ASSUME NEW b \in Int, gaps[k].start <= b, b < gaps[k].end
               PROVE  b \in Missing
    OBVIOUS
  <2>1. b \in Bars
    BY <1>2, <1>4, <1>5 DEF Bars
  <2>2. InGap(b)
    BY DEF InGap, Within
  <2> QED
    BY <1>5, <2>1, <2>2
<1> HIDE DEF w
<1>9. ASSUME NEW b \in NextWindow(todo) PROVE b \in Missing /\ Within(b, w)
  <2>1. /\ b \in Missing /\ b >= w.start
        /\ \A c \in todo : c < b =>
              b - c < call.maxCandles /\ \A d \in c..b : d \in todo
    BY DEF NextWindow
  <2>2. b \in Int /\ b < call.end
    BY <1>7, <2>1
  <2>3. SUFFICES ASSUME b >= w.end PROVE FALSE
    BY <1>2, <2>1, <2>2 DEF Within
  <2>4. w.start \in todo /\ w.start < b
    BY <1>2, <1>3, <1>4, <1>8, <2>2, <2>3
  <2>5. b - w.start < call.maxCandles /\ \A d \in w.start..b : d \in todo
    BY <2>1, <2>4
  <2>6. w.end = gaps[k].end
    BY <1>2, <1>3, <2>2, <2>3, <2>5
  <2>7. w.end \in Missing
    BY <1>2, <2>2, <2>3, <2>5
  <2> QED
    BY <1>2, <1>5, <1>7, <2>6, <2>7
<1>10. ASSUME NEW b \in Missing, Within(b, w) PROVE b \in NextWindow(todo)
  <2>1. b \in Int /\ w.start <= b /\ b < w.end
    BY <1>7, <1>10 DEF Within
  <2>2. b \in todo
    BY <1>2, <2>1
  <2>3. ASSUME NEW c \in todo, c < b
        PROVE  b - c < call.maxCandles /\ \A d \in c..b : d \in todo
    <3>1. c \in Int /\ w.start <= c
      BY <1>2, <1>7
    <3>2. b - c < call.maxCandles
      BY <1>2, <1>6, <2>1, <3>1
    <3>3. ASSUME NEW d \in c..b PROVE d \in todo
      <4>1. d \in Int /\ w.start <= d /\ d < w.end
        BY <1>2, <2>1, <3>1
      <4>2. d \in Missing
        BY <1>2, <1>3, <1>4, <1>8, <4>1
      <4> QED
        BY <1>2, <4>1, <4>2
    <3> QED
      BY <3>2, <3>3
  <2> QED
    BY <2>2, <2>3 DEF NextWindow
<1> QED
  <2>1. NextWindow(todo) = {b \in Missing : Within(b, w)}
    BY <1>9, <1>10
  <2> QED
    BY <2>1 DEF w

\* Every request of a repair (_planned_windows, iter_fetch_windows) asks for
\* exactly the oldest bars left to do, up to the first stored bar and the size
\* of a request: what the larger models take for one REST window.
THEOREM PlannedWindowIsNext == Spec => []PlanIsNextWindow
<1>1. Init => WindowsFull
  BY DEF Init, WindowsFull
<1> QED
  BY <1>1, FullKeeps, FullIsNext, PlanInvariant, PTL DEF Spec
=============================================================================
