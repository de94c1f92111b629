---------------------------- MODULE ConsumerRead ----------------------------
(***************************************************************************)
(* The read API over canonical ingestion: GET /v1/candles, the continuity  *)
(* audit, and POST /v1/historical-candles, which is given the hash that    *)
(* one of the others handed out.  An audit is three transactions, and the  *)
(* writers commit between them.                                            *)
(*                                                                         *)
(* Open time 0 is the stream's lower bound.  The canonical hash stands for *)
(* the document it is taken of: the range and the OHLCV texts, not the     *)
(* source and not the open interest.                                       *)
(***************************************************************************)
EXTENDS CanonicalIngestion

VARIABLES
    ready,  \* stream_state.state is ready
    audit,  \* AuditStreamRange.execute: where it is, and its locals
    issued  \* the last hash a consumer was given

readVars == <<db, tx, open, imp, ready, audit, issued>>

\* What validate_requested_range lets through: [from, to).
Requests == {r \in [from : Opens, to : 1..(MaxOpen + 1)] : r.from < r.to}
Grid(r) == r.from..(r.to - 1)

\* list_range, in the snapshot s.
Listed(s, r) == Stored(s) \cap Grid(r)

\* validate_complete_grid.
CompleteGrid(s, r) == Listed(s, r) = Grid(r)

\* canonical_market_data_hash.
MarketDataHash(s, r) == [range |-> r, candles |-> [o \in Listed(s, r) |-> s.rows[o].value]]

NoRequest == [from |-> 0, to |-> 0]
NoHash == [range |-> NoRequest, candles |-> [o \in {} |-> "none"]]
NoAudit == [pc |-> "idle", range |-> NoRequest, continuous |-> FALSE]

ReadInit ==
    /\ Init
    /\ ready = FALSE
    /\ audit = NoAudit
    /\ issued = NoHash

-----------------------------------------------------------------------------
\* A lifecycle transaction of the recorders; when they move a stream to ready
\* and back is the matter of RealtimeRecovery.
MarkReady ==
    /\ CanBegin("recorder")
    /\ ready' = ~ready
    /\ UNCHANGED <<db, tx, open, imp, audit, issued>>

\* GetCandleRange.execute, on one snapshot.
GetCandleRange(r) ==
    /\ ready
    /\ db.latest # Promise!NoOpen
    /\ r.to <= db.latest + 1
    /\ CompleteGrid(db, r)
    /\ issued' = MarketDataHash(db, r)
    /\ UNCHANGED <<db, tx, open, imp, ready, audit>>

\* Mutant of Continuous: the last bar of the range is not asked for.
ContinuousShort(s, r) == r.from..(r.to - 2) \subseteq Stored(s)

\* report.is_continuous.
Continuous(s, r) == Grid(r) \subseteq Stored(s)

\* AuditStreamRange.execute: the report needs the writer's slot.
AuditReport(r) ==
    /\ audit.pc = "idle"
    /\ CanBegin("audit")
    /\ audit' = [pc |-> "state", range |-> r, continuous |-> Continuous(db, r)]
    /\ UNCHANGED <<db, tx, open, imp, ready, issued>>

\* The state has a transaction of its own, which also takes the slot.
AuditState ==
    /\ audit.pc = "state"
    /\ CanBegin("audit")
    /\ audit' = IF audit.continuous THEN [audit EXCEPT !.pc = "hash"] ELSE NoAudit
    /\ UNCHANGED <<db, tx, open, imp, ready, issued>>

\* The hash is of the snapshot that is current now, after the report.
AuditHash ==
    /\ audit.pc = "hash"
    /\ issued' = MarketDataHash(db, audit.range)
    /\ audit' = NoAudit
    /\ UNCHANGED <<db, tx, open, imp, ready>>

\* One of the three raised: the handler answers with an error.
AuditFails ==
    /\ audit.pc # "idle"
    /\ audit' = NoAudit
    /\ UNCHANGED <<db, tx, open, imp, ready, issued>>

\* GetHistoricalCandleRange.execute, asked with the hash h on the snapshot s.
HistoricalCandleRange(s, h) ==
    IF ~CompleteGrid(s, h.range) THEN "continuity_invariant_broken"
    ELSE IF MarketDataHash(s, h.range) # h THEN "coverage_stale"
    ELSE "candles"

ReadNext ==
    \/ Next /\ UNCHANGED <<ready, audit, issued>>
    \/ MarkReady \/ AuditState \/ AuditHash \/ AuditFails
    \/ \E r \in Requests : GetCandleRange(r) \/ AuditReport(r)

ReadSpec == ReadInit /\ [][ReadNext]_readVars

-----------------------------------------------------------------------------
(* Properties.                                                             *)

\* Whatever is written after a hash was handed out, a historical read with it
\* returns the candles it was taken of or coverage_stale, and stale only
\* because a correction replaced one of them: bars that arrive between the
\* audit's report and its hash, or after it, never break the read.
IssuedHashHolds ==
    issued # NoHash =>
        \/ HistoricalCandleRange(db, issued) = "candles"
        \/ /\ HistoricalCandleRange(db, issued) = "coverage_stale"
           /\ \E c \in db.corrections :
                 /\ c.open \in Grid(issued.range)
                 /\ c.existing = issued.candles[c.open]
                 /\ db.rows[c.open].value # c.existing
=============================================================================
