------------------------- MODULE CanonicalIngestion -------------------------
(***************************************************************************)
(* Canonical ingestion of one stream: the realtime handler ingests one     *)
(* WebSocket candle per transaction, the historical import a whole REST    *)
(* window, and the lifecycle recorders rewrite the stream-state row that   *)
(* holds the latest pointer.  Every writer works on what its transaction   *)
(* read and replaces it at commit; BEGIN IMMEDIATE keeps them apart.       *)
(***************************************************************************)
EXTENDS Integers, FiniteSets

CONSTANTS MaxOpen, \* bound: the newest open time, in bars
          Values,  \* the OHLCV texts a candle can have
          MaxRows  \* bound: candles in one REST response

ASSUME IngestAssumption == MaxOpen \in Nat /\ MaxRows \in Nat
ASSUME ValueAssumption == "none" \notin Values

VARIABLES
    db,   \* the committed database
    tx,   \* the database as each writer's transaction sees it
    open, \* the writers with an open transaction
    imp   \* ImportHistoricalWindow.execute: where it is, and its locals

vars == <<db, tx, open, imp>>

\* The promise of canonical storage, and its vocabulary.
Promise == INSTANCE CanonicalStore WITH MaxOpen <- MaxOpen, Values <- Values, db <- db

Opens == Promise!Opens
Rows == Promise!Rows
NoRow == Promise!NoRow
Store == Promise!Store
Stored(s) == Promise!Stored(s)

Writers == {"import", "realtime", "recorder"}

\* kind is what validate_observed_candle and stream_exists say of a candle;
\* foreign: of another stream, or outside the requested window.
Kinds == {"valid", "invalid", "unconfirmed", "unconfigured", "foreign"}
Candles == [open : Opens, value : Values, kind : Kinds]

\* active: the window's transaction is open; seen, committed: candles of the
\* response handled so far, and those counted as committed.
Imports == [active : BOOLEAN, seen : 0..MaxRows, committed : Nat]
ImportIdle == [active |-> FALSE, seen |-> 0, committed |-> 0]

-----------------------------------------------------------------------------
(* IngestObservedCandle.execute_in_unit_of_work.                           *)

\* classify_against_existing, after the rejections.
Classify(s, candle) ==
    CASE candle.kind = "foreign" -> "unexpected"
      [] candle.kind = "unconfigured" -> "rejected_unconfigured"
      [] candle.kind = "unconfirmed" -> "rejected_unconfirmed"
      [] candle.kind = "invalid" -> "rejected_invalid"
      [] OTHER ->
           IF s.rows[candle.open] = NoRow THEN "committed"
           ELSE IF s.rows[candle.open].value = candle.value THEN "duplicate"
           ELSE "corrected"

\* Mutant of Advance: the last candle ingested, not the newest.
AdvanceAlways(latest, time) == time

\* _advance_stream_state.
Advance(latest, time) == IF time > latest THEN time ELSE latest

Refuse(s, candle) == [s EXCEPT !.refused = @ \cup {candle.open}]

Write(s, candle, source) ==
    [s EXCEPT !.rows[candle.open] = [value |-> candle.value, source |-> source],
              !.latest = Advance(@, candle.open)]

\* _handle_correction: both values are kept, and only REST replaces the row.
HandleCorrection(s, candle, source) ==
    LET kept == [s EXCEPT !.corrections = @ \cup
                   {[open |-> candle.open, existing |-> s.rows[candle.open].value,
                     incoming |-> candle.value]}]
    IN  IF source = "rest" THEN Write(kept, candle, source) ELSE kept

Ingest(s, candle, source) ==
    CASE Classify(s, candle) \in {"rejected_invalid", "rejected_unconfirmed"} ->
            Refuse(s, candle)
      [] Classify(s, candle) = "committed" -> Write(s, candle, source)
      [] Classify(s, candle) = "corrected" -> HandleCorrection(s, candle, source)
      [] OTHER -> s

-----------------------------------------------------------------------------
Init ==
    /\ db = Promise!Empty
    /\ tx = [w \in Writers |-> Promise!Empty]
    /\ open = {}
    /\ imp = ImportIdle

\* Mutant of CanBegin: a deferred transaction reads without the write lock.
CanBeginDeferred(w) == w \notin open

\* BEGIN IMMEDIATE: a transaction starts when no other is open.
CanBegin(w) == open = {}

Begin(w, s) ==
    /\ CanBegin(w)
    /\ open' = open \cup {w}
    /\ tx' = [tx EXCEPT ![w] = s]

\* ImportHistoricalWindow.execute: the response was fetched before the
\* transaction began, so it knows nothing of what was committed in between.
BeginImport ==
    /\ Begin("import", db)
    /\ imp' = [ImportIdle EXCEPT !.active = TRUE]
    /\ UNCHANGED db

\* Mutant of CommittedCount: corrections are counted as committed bars.
CommittedCountLoose(s, candle) ==
    IF Classify(s, candle) \in {"committed", "corrected"} THEN 1 ELSE 0

CommittedCount(s, candle) == IF Classify(s, candle) = "committed" THEN 1 ELSE 0

\* The next candle of the response; an unexpected one is only recorded.
ImportCandle ==
    /\ imp.active
    /\ imp.seen < MaxRows
    /\ \E candle \in Candles :
          LET s == tx["import"]
          IN  /\ tx' = [tx EXCEPT !["import"] =
                          IF candle.kind = "foreign" THEN Refuse(s, candle)
                          ELSE Ingest(s, candle, "rest")]
              /\ imp' = [imp EXCEPT !.seen = @ + 1,
                           !.committed = @ + CommittedCount(s, candle)]
    /\ UNCHANGED <<db, open>>

CommitImport ==
    /\ imp.active
    /\ db' = tx["import"]
    /\ open' = open \ {"import"}
    /\ tx' = [tx EXCEPT !["import"] = Promise!Empty]
    /\ imp' = ImportIdle

\* RealtimeCandleHandler.handle: unconfirmed candles never come this far.
IngestRealtime ==
    /\ \E candle \in Candles :
          /\ candle.kind \notin {"unconfirmed", "foreign"}
          /\ Begin("realtime", Ingest(db, candle, "websocket"))
    /\ UNCHANGED <<db, imp>>

\* The lifecycle recorders save the whole snapshot, latest pointer included.
RecordState ==
    /\ Begin("recorder", db)
    /\ UNCHANGED <<db, imp>>

Commit(w) ==
    /\ w \in open \ {"import"}
    /\ db' = tx[w]
    /\ open' = open \ {w}
    /\ tx' = [tx EXCEPT ![w] = Promise!Empty]
    /\ UNCHANGED imp

\* An exception, or the end of the process: the transaction leaves nothing.
Rollback(w) ==
    /\ w \in open
    /\ open' = open \ {w}
    /\ tx' = [tx EXCEPT ![w] = Promise!Empty]
    /\ imp' = IF w = "import" THEN ImportIdle ELSE imp
    /\ UNCHANGED db

Next ==
    \/ BeginImport \/ ImportCandle \/ CommitImport
    \/ IngestRealtime \/ RecordState
    \/ \E w \in Writers : Commit(w) \/ Rollback(w)

Spec == Init /\ [][Next]_vars

-----------------------------------------------------------------------------
(* Properties.                                                             *)

\* Every variable stays in its domain.
TypeOK ==
    /\ db \in Store
    /\ tx \in [Writers -> Store]
    /\ open \subseteq Writers
    /\ imp \in Imports

\* An open transaction is the only one, and would keep the promise if it
\* committed now.
OpenKeepsPromise ==
    /\ \A w, v \in open : w = v
    /\ \A w \in open : /\ Promise!Extends(db, tx[w])
                       /\ Promise!Newest(tx[w])

\* The count of the open window is the number of bars it has added so far.
CountHolds ==
    imp.active => imp.committed = Cardinality(Stored(tx["import"]) \ Stored(db))

\* The inductive invariant.
IngestInv ==
    /\ TypeOK
    /\ Promise!Newest(db)
    /\ OpenKeepsPromise
    /\ CountHolds
    /\ imp.active <=> "import" \in open

\* REST windows, live candles and recorders together implement the promise:
\* no row is lost or overwritten by a WebSocket value, no replaced value lacks
\* evidence, and the latest pointer never leaves the newest row.
KeepsPromise == Promise!Spec

\* ImportWindowResult.committed, which decides whether a recovery has bars to
\* announce, is the number of bars that the window added, whatever the response
\* repeats or corrects and whatever was committed since it was fetched.
CountIsExact ==
    [][ CommitImport =>
          imp.committed = Cardinality(Stored(db') \ Stored(db)) ]_vars
=============================================================================
