---------------------------- MODULE LoadedHistory ----------------------------
(***************************************************************************)
(* What loading history promises, however often it is cut off and started  *)
(* again: the bars of a stream grow only beyond its newest one, by at most *)
(* one REST window at a time, and its lower bound is found once, is the    *)
(* first bar of which REST has a valid row, and stays.                     *)
(***************************************************************************)
EXTENDS Integers, FiniteSets

CONSTANTS Streams, MaxNow, MaxCandles

VARIABLES first,  \* the first bar with a valid row of each stream
          loaded, \* the bars of each stream
          bound   \* the lower bound of each stream, -1 while unknown

Newest(bars) == CHOOSE b \in bars \cup {-1} : \A c \in bars : c <= b

Init ==
    /\ loaded \in [Streams -> SUBSET (0..(MaxNow - 1))]
    /\ first \in [Streams -> 0..(MaxNow - 1)]
    /\ \A s \in Streams : bound[s] \in {-1, first[s]}
    /\ DOMAIN bound = Streams

LoadWindow(s) ==
    /\ \E more \in SUBSET ((Newest(loaded[s]) + 1)..(MaxNow - 1)) :
          /\ \A b, c \in more : b - c < MaxCandles
          /\ loaded' = [loaded EXCEPT ![s] = @ \cup more]
    /\ UNCHANGED <<first, bound>>

FindBound(s) ==
    /\ bound[s] = -1
    /\ bound' = [bound EXCEPT ![s] = first[s]]
    /\ UNCHANGED <<first, loaded>>

Next == \E s \in Streams : LoadWindow(s) \/ FindBound(s)

Spec == Init /\ [][Next]_<<first, loaded, bound>>
=============================================================================
