--------------------------- MODULE CanonicalStore ---------------------------
(***************************************************************************)
(* What canonical storage promises of one stream, whoever writes it: one   *)
(* row per open time, never deleted; a row changes only to a value REST    *)
(* reported, with the old value kept as evidence; and the latest pointer   *)
(* is the newest row.                                                      *)
(***************************************************************************)
EXTENDS Integers

CONSTANTS MaxOpen, \* bound: the newest open time, in bars
          Values   \* the OHLCV texts a candle can have

VARIABLE db        \* the committed database

Opens == 0..MaxOpen
NoOpen == -1

\* A canonical row; NoRow where there is none.
Sources == {"rest", "websocket"}
Rows == [value : Values, source : Sources]
NoRow == [value |-> "none", source |-> "none"]

\* Quarantine: for a correction the value that was stored and the other one.
Corrections == [open : Opens, existing : Values, incoming : Values]

\* rows: candles; latest: stream_state.latest_committed_open_time_ms; refused:
\* the open times of quarantined candles that never became rows.
Store == [rows : [Opens -> Rows \cup {NoRow}], latest : Opens \cup {NoOpen},
          corrections : SUBSET Corrections, refused : SUBSET Opens]
Empty == [rows |-> [o \in Opens |-> NoRow], latest |-> NoOpen,
          corrections |-> {}, refused |-> {}]

Stored(s) == {o \in Opens : s.rows[o] # NoRow}

\* The latest pointer is the newest row.
Newest(s) ==
    /\ \A o \in Stored(s) : o <= s.latest
    /\ s.latest # NoOpen => s.latest \in Stored(s)

\* t keeps all that s holds.
Extends(s, t) ==
    /\ \A o \in Stored(s) :
          \/ t.rows[o] = s.rows[o]
          \/ /\ o \in Stored(t)
             /\ t.rows[o].source = "rest"
             /\ \E c \in t.corrections :
                   c.open = o /\ c.existing = s.rows[o].value
    /\ s.corrections \subseteq t.corrections
    /\ s.refused \subseteq t.refused

Init == db = Empty

\* One transaction: whatever it did, the result keeps the promise.
Transact == db' \in Store /\ Extends(db, db') /\ Newest(db')

Spec == Init /\ [][Transact]_db
=============================================================================
