----------------------------- MODULE GapPlanning -----------------------------
(***************************************************************************)
(* The arithmetic under every audit and repair: build_continuity_report    *)
(* and find_gaps scan one audited window for missing bars, and             *)
(* _planned_windows with iter_fetch_windows cuts the gaps into REST        *)
(* windows, of which a repair takes its budget.  A time is its bar on the  *)
(* timeframe grid.                                                         *)
(***************************************************************************)
EXTENDS Integers, Sequences

CONSTANT Inputs \* the calls: stored bars, audited window, sizes

\* aligned: the window, and every stored open time in it, is on the grid.
InputType == [stored : SUBSET Nat, aligned : BOOLEAN, start : Nat, end : Nat,
              maxCandles : Nat \ {0}, budget : Nat \ {0}]

\* AuditStreamContinuityRequest and TimeWindow reject an empty interval.
ASSUME InputAssumption == \A c \in Inputs : c \in InputType /\ c.start < c.end

VARIABLES
    call,     \* the arguments
    pc,       \* "check", "scan", "split", "done", or "rejected"
    cursor,   \* find_gaps: the bar looked at
    gapStart, \* find_gaps: the start of the open gap, or NoGap
    gaps,     \* the gaps found so far
    g,        \* _planned_windows: the gap being cut
    at,       \* iter_fetch_windows: the start of the next window
    windows   \* the REST windows planned so far

vars == <<call, pc, cursor, gapStart, gaps, g, at, windows>>

NoGap == -1

\* Gap and TimeWindow: neither can be empty.
Intervals == {i \in [start : Nat, end : Nat] : i.start < i.end}
Interval(a, b) == [start |-> a, end |-> b]

\* What the reader of open times returns: the stored bars inside the window.
Observed == {b \in call.stored : call.start <= b /\ b < call.end}

Init ==
    /\ call \in Inputs
    /\ pc = "check"
    /\ cursor = call.start
    /\ gapStart = NoGap
    /\ gaps = <<>>
    /\ g = 1
    /\ at = call.start
    /\ windows = <<>>

\* A misaligned window or open time raises ValueError; a window without any
\* stored bar is one gap.
Check ==
    /\ pc = "check"
    /\ \/ /\ ~call.aligned
          /\ pc' = "rejected"
          /\ UNCHANGED gaps
       \/ /\ call.aligned
          /\ Observed = {}
          /\ gaps' = <<Interval(call.start, call.end)>>
          /\ pc' = "split"
       \/ /\ call.aligned
          /\ Observed # {}
          /\ pc' = "scan"
          /\ UNCHANGED gaps
    /\ UNCHANGED <<call, cursor, gapStart, g, at, windows>>

\* Mutant of CloseGap: the bar that closes the gap is part of it.
CloseGapLate(found, start, bar) == Append(found, Interval(start, bar + 1))

CloseGap(found, start, bar) == Append(found, Interval(start, bar))

\* One turn of find_gaps' loop.
ScanBar ==
    /\ pc = "scan"
    /\ cursor < call.end
    /\ \/ /\ cursor \notin Observed
          /\ gapStart' = IF gapStart = NoGap THEN cursor ELSE gapStart
          /\ UNCHANGED gaps
       \/ /\ cursor \in Observed
          /\ gapStart # NoGap
          /\ gaps' = CloseGap(gaps, gapStart, cursor)
          /\ gapStart' = NoGap
       \/ /\ cursor \in Observed
          /\ gapStart = NoGap
          /\ UNCHANGED <<gaps, gapStart>>
    /\ cursor' = cursor + 1
    /\ UNCHANGED <<call, pc, g, at, windows>>

\* The gap that is still open reaches to the end of the window.
LastGap ==
    IF gapStart = NoGap THEN gaps ELSE Append(gaps, Interval(gapStart, call.end))

\* The scan is over; without a gap there is nothing to plan.
ScanEnds ==
    /\ pc = "scan"
    /\ cursor >= call.end
    /\ gaps' = LastGap
    /\ \/ /\ gaps' = <<>>
          /\ pc' = "done"
          /\ UNCHANGED at
       \/ /\ gaps' # <<>>
          /\ pc' = "split"
          /\ at' = gaps'[1].start
    /\ UNCHANGED <<call, cursor, gapStart, g, windows>>

\* Mutant of WindowEnd: a window is not cut at the end of its gap.
WindowEndUncut(a, gap) == a + call.maxCandles

\* Mutant of WindowEnd: the last bar of a request is taken for its end.
WindowEndInclusive(a, gap) ==
    IF a + call.maxCandles < gap.end THEN a + call.maxCandles - 1 ELSE gap.end

WindowEnd(a, gap) ==
    IF a + call.maxCandles < gap.end THEN a + call.maxCandles ELSE gap.end

\* The next REST window; after the last one of a gap the next gap begins.
PlanWindow ==
    /\ pc = "split"
    /\ Len(windows) < call.budget
    /\ LET end == WindowEnd(at, gaps[g])
       IN  /\ windows' = Append(windows, Interval(at, end))
           /\ \/ /\ end < gaps[g].end
                 /\ at' = end
                 /\ UNCHANGED <<g, pc>>
              \/ /\ end >= gaps[g].end
                 /\ g < Len(gaps)
                 /\ g' = g + 1
                 /\ at' = gaps[g + 1].start
                 /\ UNCHANGED pc
              \/ /\ end >= gaps[g].end
                 /\ g = Len(gaps)
                 /\ at' = end
                 /\ pc' = "done"
                 /\ UNCHANGED g
    /\ UNCHANGED <<call, cursor, gapStart, gaps>>

\* Mutant of BudgetSpent: one window of the budget is not used.
BudgetSpentEarly ==
    /\ pc = "split"
    /\ Len(windows) + 1 >= call.budget
    /\ pc' = "done"
    /\ UNCHANGED <<call, cursor, gapStart, gaps, g, at, windows>>

\* islice: the budget is spent.
BudgetSpent ==
    /\ pc = "split"
    /\ Len(windows) >= call.budget
    /\ pc' = "done"
    /\ UNCHANGED <<call, cursor, gapStart, gaps, g, at, windows>>

Next == Check \/ ScanBar \/ ScanEnds \/ PlanWindow \/ BudgetSpent

Spec == Init /\ [][Next]_vars

-----------------------------------------------------------------------------
(* Properties, against the set of missing bars.                            *)

Bars == call.start..(call.end - 1)
Missing == Bars \ call.stored
Within(b, i) == i.start <= b /\ b < i.end
InGap(b) == \E i \in DOMAIN gaps : Within(b, gaps[i])
InWindow(b) == \E i \in DOMAIN windows : Within(b, windows[i])

\* Every variable stays in its domain; no gap and no window is empty, which
\* Gap and TimeWindow would reject in the middle of the loop.
TypeOK ==
    /\ call \in Inputs
    /\ pc \in {"check", "scan", "split", "done", "rejected"}
    /\ cursor \in Nat
    /\ gapStart \in Nat \cup {NoGap}
    /\ gaps \in Seq(Intervals)
    /\ g \in Nat \ {0}
    /\ at \in Nat
    /\ windows \in Seq(Intervals)

\* Every gap lies in the window, starts after a stored bar or at the window's
\* start, and ends at a stored bar or at the window's end.
Maximal ==
    \A i \in DOMAIN gaps :
        /\ call.start <= gaps[i].start
        /\ gaps[i].end <= call.end
        /\ gaps[i].start = call.start \/ gaps[i].start - 1 \in call.stored
        /\ gaps[i].end = call.end \/ gaps[i].end \in call.stored

\* Two gaps never touch.
Apart == \A i, j \in DOMAIN gaps : i < j => gaps[i].end < gaps[j].start

\* An audit's gaps (build_continuity_report, find_gaps) are exactly the maximal
\* runs of missing bars of the window, oldest first.
GapsAreExact ==
    pc \in {"split", "done"} =>
        /\ Maximal
        /\ Apart
        /\ \A b \in Bars : b \in Missing <=> InGap(b)

\* The windows a repair asks for (iter_fetch_windows) lie inside the gaps, are
\* disjoint, oldest first and no longer than a request may be.  Together they
\* hold exactly the missing bars before the start of the next one: a budget
\* that cuts the plan short leaves out the newest bars only.
WindowsTile ==
    /\ \A i \in DOMAIN windows :
          /\ windows[i].end - windows[i].start <= call.maxCandles
          /\ \E k \in DOMAIN gaps : /\ gaps[k].start <= windows[i].start
                                    /\ windows[i].end <= gaps[k].end
    /\ \A i, j \in DOMAIN windows : i < j => windows[i].end <= windows[j].start
    /\ pc \in {"split", "done"} =>
          \A b \in Bars : (b \in Missing /\ b < at) <=> InWindow(b)

\* A plan ends with the budget used up or with every missing bar asked for:
\* what an INCOMPLETE repair that spent less than its budget still misses is
\* missing because the exchange did not return it.
PlanIsFull ==
    pc = "done" =>
        \/ Len(windows) = call.budget
        \/ \A b \in Missing : InWindow(b)

\* The bars of one request as the models of the recovery and of the
\* reconciliation take them: the oldest of those left to do, up to the first
\* stored bar and the size of a request.
NextWindow(todo) ==
    {b \in todo : \A c \in todo : c < b =>
        b - c < call.maxCandles /\ \A d \in c..b : d \in todo}

\* Each planned window holds exactly the bars of NextWindow: the abbreviation
\* the larger models use is what the two nested loops compute.
PlanIsNextWindow ==
    \A i \in DOMAIN windows :
        NextWindow({b \in Missing : b >= windows[i].start})
            = {b \in Missing : Within(b, windows[i])}

-----------------------------------------------------------------------------
(* The inductive invariant behind GapsAreExact and WindowsTile.            *)

\* Before the plan starts, nothing is planned.
NothingPlanned ==
    pc \in {"check", "scan", "rejected"} => windows = <<>> /\ g = 1 /\ at = call.start

NothingFound ==
    pc \in {"check", "rejected"} =>
        gaps = <<>> /\ gapStart = NoGap /\ cursor = call.start

\* Below the cursor, the missing bars are those of the gaps found and of the
\* open one; the open one has not met a stored bar.
ScanHolds ==
    pc = "scan" =>
        /\ call.start <= cursor /\ cursor <= call.end
        /\ gapStart # NoGap =>
              /\ call.start <= gapStart /\ gapStart < cursor
              /\ gapStart = call.start \/ gapStart - 1 \in call.stored
        /\ \A b \in Bars : b < cursor =>
              (b \in Missing <=> InGap(b) \/ (gapStart # NoGap /\ gapStart <= b))
        /\ \A i \in DOMAIN gaps :
              /\ gaps[i].end < cursor
              /\ gapStart # NoGap => gaps[i].end < gapStart

\* While windows are cut, the next one starts inside the gap being cut.
CutHolds ==
    /\ pc = "split" => /\ g \in DOMAIN gaps
                       /\ gaps[g].start <= at /\ at < gaps[g].end
    /\ \A i \in DOMAIN windows : windows[i].end <= at

PlanInv ==
    /\ TypeOK
    /\ NothingPlanned
    /\ NothingFound
    /\ Maximal
    /\ Apart
    /\ ScanHolds
    /\ CutHolds
    /\ GapsAreExact
    /\ WindowsTile
    /\ PlanIsFull
    /\ Len(windows) <= call.budget

\* A window ends where the request is full or its gap ends.
WindowsFull ==
    \A i \in DOMAIN windows : \E k \in DOMAIN gaps :
        /\ gaps[k].start <= windows[i].start
        /\ windows[i].end <= gaps[k].end
        /\ \/ windows[i].end = windows[i].start + call.maxCandles
           \/ windows[i].end = gaps[k].end
=============================================================================
