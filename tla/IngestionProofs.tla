--------------------------- MODULE IngestionProofs ---------------------------
(***************************************************************************)
(* Canonical ingestion implements the storage promise, and the read API    *)
(* over it hands out hashes that keep their meaning, for every number of   *)
(* bars, set of values and size of response.                               *)
(***************************************************************************)
EXTENDS ConsumerRead, FiniteSetTheorems, TLAPS

USE DEF Opens, Rows, NoRow, Store, Stored,
        Promise!Opens, Promise!Rows, Promise!NoRow, Promise!NoOpen,
        Promise!Sources, Promise!Corrections, Promise!Store, Promise!Stored

\* Every row differs from the missing one: "none" is no OHLCV text.
LEMMA RowExists == \A r \in Rows : r # NoRow
BY ValueAssumption

\* The empty database keeps the promise.
LEMMA EmptyIsStore == Promise!Empty \in Store /\ Promise!Newest(Promise!Empty)
BY IngestAssumption DEF Promise!Empty, Promise!Newest

\* Storage keeps itself.
LEMMA ExtendsSelf == ASSUME NEW s \in Store PROVE Promise!Extends(s, s)
BY DEF Promise!Extends

\* A refused candle leaves rows and the pointer alone.
LEMMA RefuseKeeps ==
    ASSUME NEW s \in Store, NEW t \in Store, NEW c \in Candles,
           Promise!Extends(s, t), Promise!Newest(t)
    PROVE  /\ Refuse(t, c) \in Store
           /\ Promise!Extends(s, Refuse(t, c))
           /\ Promise!Newest(Refuse(t, c))
<1> DEFINE u == Refuse(t, c)
<1>1. /\ u \in Store /\ u.rows = t.rows /\ u.latest = t.latest
      /\ u.corrections = t.corrections /\ t.refused \subseteq u.refused
  BY DEF Refuse, Candles
<1>2. Promise!Extends(s, u)
  BY <1>1 DEF Promise!Extends
<1>3. Promise!Newest(u)
  BY <1>1 DEF Promise!Newest
<1> QED
  BY <1>1, <1>2, <1>3

\* A new row moves the pointer no further than itself.
LEMMA WriteNewKeeps ==
    ASSUME NEW s \in Store, NEW t \in Store, NEW c \in Candles,
           NEW source \in Promise!Sources,
           Promise!Extends(s, t), Promise!Newest(t), t.rows[c.open] = NoRow
    PROVE  /\ Write(t, c, source) \in Store
           /\ Promise!Extends(s, Write(t, c, source))
           /\ Promise!Newest(Write(t, c, source))
<1> DEFINE u == Write(t, c, source)
<1>0. c.open \in Opens /\ c.value \in Values
  BY DEF Candles
<1>1. /\ u \in Store
      /\ u.rows = [t.rows EXCEPT ![c.open] = [value |-> c.value, source |-> source]]
      /\ u.latest = Advance(t.latest, c.open)
      /\ u.corrections = t.corrections /\ u.refused = t.refused
  BY <1>0, IngestAssumption DEF Write, Advance
<1>2. [value |-> c.value, source |-> source] \in Rows
  BY <1>0
<1> HIDE DEF u
<1>3. c.open \notin Stored(s)
  BY RowExists DEF Promise!Extends
<1>4. Promise!Extends(s, u)
  BY <1>1, <1>3 DEF Promise!Extends
<1>5. c.open \in Stored(u) /\ Stored(u) = Stored(t) \cup {c.open}
  <2>1. t.rows \in [Opens -> Rows \cup {NoRow}]
    OBVIOUS
  <2>2. \A o \in Opens : o # c.open => u.rows[o] = t.rows[o]
    BY <1>1, <2>1
  <2>3. u.rows[c.open] # NoRow
    BY <1>0, <1>1, <1>2, <2>1, RowExists
  <2> QED
    BY <1>0, <2>2, <2>3
<1>6. t.latest \in Int /\ c.open \in Int /\ \A o \in Opens : o \in Int
  BY <1>0, IngestAssumption
<1>9. Stored(t) \subseteq Opens
  OBVIOUS
<1> SUFFICES Promise!Newest(u)
  BY <1>1, <1>4 DEF u
<1> HIDE DEF Promise!Stored, Promise!Store
<1>7. CASE c.open > t.latest
  <2>1. u.latest = c.open
    BY <1>1, <1>7 DEF Advance
  <2>2. \A o \in Stored(t) : o \in Int /\ o <= t.latest
    BY <1>6, <1>9 DEF Promise!Newest
  <2>3. \A o \in Stored(u) : o <= u.latest
    BY <2>1, <2>2, <1>5, <1>6, <1>7
  <2> QED
    BY <2>1, <2>3, <1>5 DEF Promise!Newest
<1>8. CASE ~(c.open > t.latest)
  <2>1. u.latest = t.latest
    BY <1>1, <1>8 DEF Advance
  <2>2. \A o \in Stored(u) : o <= u.latest
    BY <2>1, <1>5, <1>6, <1>8, <1>9 DEF Promise!Newest
  <2>3. u.latest # Promise!NoOpen => u.latest \in Stored(u)
    BY <2>1, <1>5 DEF Promise!Newest
  <2> QED
    BY <2>2, <2>3 DEF Promise!Newest
<1> QED
  BY <1>7, <1>8

\* A REST correction replaces a row and keeps its value as evidence; a
\* WebSocket correction only leaves evidence.
LEMMA CorrectionKeeps ==
    ASSUME NEW s \in Store, NEW t \in Store, NEW c \in Candles,
           NEW source \in Promise!Sources,
           Promise!Extends(s, t), Promise!Newest(t), t.rows[c.open] # NoRow
    PROVE  /\ HandleCorrection(t, c, source) \in Store
           /\ Promise!Extends(s, HandleCorrection(t, c, source))
           /\ Promise!Newest(HandleCorrection(t, c, source))
<1> DEFINE e == [open |-> c.open, existing |-> t.rows[c.open].value,
                 incoming |-> c.value]
           k == [t EXCEPT !.corrections = @ \cup {e}]
           u == Write(k, c, "rest")
<1>0. c.open \in Opens /\ c.value \in Values /\ t.rows[c.open] \in Rows
  BY DEF Candles
<1>1. e \in Promise!Corrections
  BY <1>0
<1>2. /\ k \in Store /\ k.rows = t.rows /\ k.latest = t.latest
      /\ k.corrections = t.corrections \cup {e} /\ k.refused = t.refused
  BY <1>1
<1>3. Promise!Extends(s, k)
  BY <1>2 DEF Promise!Extends
<1>4. Promise!Newest(k)
  BY <1>2 DEF Promise!Newest
<1>5. c.open <= t.latest
  BY <1>0 DEF Promise!Newest
<1>6. /\ u \in Store
      /\ u.rows = [t.rows EXCEPT ![c.open] = [value |-> c.value, source |-> "rest"]]
      /\ u.corrections = t.corrections \cup {e} /\ u.refused = t.refused
  BY <1>0, <1>2, IngestAssumption DEF Write, Advance
<1>7. u.latest = t.latest
  BY <1>0, <1>2, <1>5, IngestAssumption DEF Write, Advance
<1>8. [value |-> c.value, source |-> "rest"] \in Rows
  BY <1>0
<1> HIDE DEF u, k
<1>9. /\ \A o \in Opens : o # c.open => u.rows[o] = t.rows[o]
      /\ u.rows[c.open] = [value |-> c.value, source |-> "rest"]
      /\ u.rows[c.open] # NoRow
  BY <1>0, <1>6, <1>8, RowExists
<1>10. Stored(u) = Stored(t)
  BY <1>0, <1>9
<1>11. Promise!Newest(u)
  BY <1>7, <1>10 DEF Promise!Newest
<1>12. Promise!Extends(s, u)
  <2>1. ASSUME NEW o \in Stored(s), o # c.open
        PROVE  \/ u.rows[o] = s.rows[o]
               \/ /\ o \in Stored(u)
                  /\ u.rows[o].source = "rest"
                  /\ \E d \in u.corrections :
                        d.open = o /\ d.existing = s.rows[o].value
    BY <2>1, <1>6, <1>9, <1>10 DEF Promise!Extends
  <2>2. ASSUME c.open \in Stored(s)
        PROVE  \E d \in u.corrections :
                  d.open = c.open /\ d.existing = s.rows[c.open].value
    <3>1. CASE t.rows[c.open] = s.rows[c.open]
      <4>1. e \in u.corrections /\ e.open = c.open /\ e.existing = t.rows[c.open].value
        BY <1>6
      <4> QED
        BY <4>1, <3>1
    <3>2. CASE t.rows[c.open] # s.rows[c.open]
      <4>1. \E d \in t.corrections :
               d.open = c.open /\ d.existing = s.rows[c.open].value
        BY <2>2, <3>2 DEF Promise!Extends
      <4>2. t.corrections \subseteq u.corrections
        BY <1>6
      <4> QED
        BY <4>1, <4>2
    <3> QED
      BY <3>1, <3>2
  <2>3. s.corrections \subseteq u.corrections /\ s.refused \subseteq u.refused
    BY <1>6 DEF Promise!Extends
  <2>4. c.open \in Stored(u) /\ u.rows[c.open].source = "rest"
    BY <1>0, <1>9
  <2> QED
    BY <2>1, <2>2, <2>3, <2>4 DEF Promise!Extends
<1> QED
  BY <1>2, <1>3, <1>4, <1>6, <1>11, <1>12 DEF HandleCorrection, u, k

\* Whatever a candle is, ingesting it keeps the promise.
LEMMA IngestKeeps ==
    ASSUME NEW s \in Store, NEW t \in Store, NEW c \in Candles,
           NEW source \in Promise!Sources,
           Promise!Extends(s, t), Promise!Newest(t)
    PROVE  /\ Ingest(t, c, source) \in Store
           /\ Promise!Extends(s, Ingest(t, c, source))
           /\ Promise!Newest(Ingest(t, c, source))
<1>1. Classify(t, c) = "committed" => t.rows[c.open] = NoRow
  BY DEF Classify
<1>2. Classify(t, c) = "corrected" => t.rows[c.open] # NoRow
  BY DEF Classify
<1>3. \/ Ingest(t, c, source) = Refuse(t, c)
      \/ Classify(t, c) = "committed" /\ Ingest(t, c, source) = Write(t, c, source)
      \/ /\ Classify(t, c) = "corrected"
         /\ Ingest(t, c, source) = HandleCorrection(t, c, source)
      \/ Ingest(t, c, source) = t
  BY DEF Ingest
<1>4. CASE Ingest(t, c, source) = Refuse(t, c)
  BY <1>4, RefuseKeeps
<1>5. CASE Classify(t, c) = "committed" /\ Ingest(t, c, source) = Write(t, c, source)
  BY <1>1, <1>5, WriteNewKeeps
<1>6. CASE /\ Classify(t, c) = "corrected"
           /\ Ingest(t, c, source) = HandleCorrection(t, c, source)
  BY <1>2, <1>6, CorrectionKeeps
<1>7. CASE Ingest(t, c, source) = t
  BY <1>7
<1> QED
  BY <1>3, <1>4, <1>5, <1>6, <1>7

\* What ingesting a candle does to the set of stored bars: a committed one is
\* new, any other leaves the set alone.
LEMMA IngestStored ==
    ASSUME NEW t \in Store, NEW c \in Candles, NEW source \in Promise!Sources
    PROVE  IF Classify(t, c) = "committed"
           THEN /\ c.open \notin Stored(t)
                /\ Stored(Ingest(t, c, source)) = Stored(t) \cup {c.open}
           ELSE Stored(Ingest(t, c, source)) = Stored(t)
<1>0. /\ c.open \in Opens /\ c.value \in Values
      /\ t.rows \in [Opens -> Rows \cup {NoRow}]
      /\ [value |-> c.value, source |-> source] \in Rows
  BY DEF Candles
<1> DEFINE r == [value |-> c.value, source |-> source]
<1>1. ASSUME NEW u \in Store, u.rows = [t.rows EXCEPT ![c.open] = r]
      PROVE  Stored(u) = Stored(t) \cup {c.open}
  <2>1. \A o \in Opens : o # c.open => u.rows[o] = t.rows[o]
    BY <1>0, <1>1
  <2>2. u.rows[c.open] # NoRow
    BY <1>0, <1>1, RowExists
  <2> QED
    BY <1>0, <2>1, <2>2
<1>2. ASSUME NEW u \in Store, u.rows = t.rows PROVE Stored(u) = Stored(t)
  BY <1>2
<1>3. CASE Classify(t, c) = "committed"
  <2>1. t.rows[c.open] = NoRow /\ Ingest(t, c, source) = Write(t, c, source)
    BY <1>3 DEF Classify, Ingest
  <2>2. /\ Write(t, c, source) \in Store
        /\ Write(t, c, source).rows = [t.rows EXCEPT ![c.open] = r]
    BY <1>0, IngestAssumption DEF Write, Advance
  <2> QED
    BY <1>1, <1>3, <2>1, <2>2
<1>4. CASE Classify(t, c) = "corrected"
  <2>1. c.open \in Stored(t) /\ Ingest(t, c, source) = HandleCorrection(t, c, source)
    BY <1>0, <1>4 DEF Classify, Ingest
  <2> DEFINE e == [open |-> c.open, existing |-> t.rows[c.open].value,
                   incoming |-> c.value]
             k == [t EXCEPT !.corrections = @ \cup {e}]
  <2>0. t.rows[c.open] \in Rows
    BY <1>0, <2>1
  <2>2. k \in Store /\ k.rows = t.rows
    BY <1>0, <2>0
  <2>3. Write(k, c, source) \in Store
        /\ Write(k, c, source).rows = [t.rows EXCEPT ![c.open] = r]
    BY <1>0, <2>2, IngestAssumption DEF Write, Advance
  <2>4. Stored(k) = Stored(t) /\ Stored(Write(k, c, source)) = Stored(t) \cup {c.open}
    BY <1>1, <1>2, <2>2, <2>3
  <2>5. HandleCorrection(t, c, source) \in {k, Write(k, c, source)}
    BY DEF HandleCorrection
  <2> HIDE DEF k
  <2> QED
    BY <1>4, <2>1, <2>4, <2>5
<1>5. CASE Classify(t, c) \notin {"committed", "corrected"}
  <2>1. Ingest(t, c, source) \in {t, Refuse(t, c)}
    BY <1>5 DEF Ingest
  <2>2. Refuse(t, c) \in Store /\ Refuse(t, c).rows = t.rows
    BY <1>0 DEF Refuse
  <2> QED
    BY <1>2, <1>5, <2>1, <2>2
<1> QED
  BY <1>3, <1>4, <1>5

\* The count of committed candles follows the bars that are new to the
\* database s the transaction started from.
LEMMA IngestCounts ==
    ASSUME NEW s \in Store, NEW t \in Store, NEW c \in Candles,
           NEW source \in Promise!Sources, Promise!Extends(s, t),
           NEW u \in Store,
           u = IF c.kind = "foreign" THEN Refuse(t, c) ELSE Ingest(t, c, source)
    PROVE  Cardinality(Stored(u) \ Stored(s)) =
             Cardinality(Stored(t) \ Stored(s)) + CommittedCount(t, c)
<1>0. Stored(s) \subseteq Stored(t)
  BY DEF Promise!Extends
<1>1. IsFiniteSet(Stored(t) \ Stored(s))
  <2>1. IsFiniteSet(Opens)
    BY FS_Interval, IngestAssumption
  <2> QED
    BY <2>1, FS_Subset
<1>2. Cardinality(Stored(t) \ Stored(s)) \in Nat
  BY <1>1, FS_CardinalityType
<1> HIDE DEF Promise!Stored
<1>3. CASE c.kind = "foreign"
  <2>1. Stored(u) = Stored(t)
    BY <1>3 DEF Refuse, Promise!Stored
  <2>2. CommittedCount(t, c) = 0
    BY <1>3 DEF CommittedCount, Classify
  <2>3. Cardinality(Stored(u) \ Stored(s)) = Cardinality(Stored(t) \ Stored(s))
    BY <2>1, Zenon
  <2> QED
    BY <1>2, <2>2, <2>3
<1>4. CASE c.kind # "foreign" /\ Classify(t, c) # "committed"
  <2>1. Stored(u) = Stored(t)
    BY <1>4, IngestStored
  <2>2. CommittedCount(t, c) = 0
    BY <1>4 DEF CommittedCount
  <2>3. Cardinality(Stored(u) \ Stored(s)) = Cardinality(Stored(t) \ Stored(s))
    BY <2>1, Zenon
  <2> QED
    BY <1>2, <2>2, <2>3
<1>5. CASE c.kind # "foreign" /\ Classify(t, c) = "committed"
  <2>1. c.open \notin Stored(t) /\ Stored(u) = Stored(t) \cup {c.open}
    BY <1>5, IngestStored
  <2>2. /\ c.open \notin Stored(t) \ Stored(s)
        /\ Stored(u) \ Stored(s) = (Stored(t) \ Stored(s)) \cup {c.open}
    BY <1>0, <2>1
  <2>3. Cardinality(Stored(u) \ Stored(s)) = Cardinality(Stored(t) \ Stored(s)) + 1
    BY <1>1, <2>2, FS_AddElement
  <2>4. CommittedCount(t, c) = 1
    BY <1>5 DEF CommittedCount
  <2> QED
    BY <2>3, <2>4
<1> QED
  BY <1>3, <1>4, <1>5

-----------------------------------------------------------------------------
(* The invariant.                                                          *)

\* A transaction that starts from the database or one ingestion beyond it.
LEMMA BeginKeeps ==
    ASSUME IngestInv, NEW w \in Writers, NEW s \in Store, Begin(w, s),
           Promise!Extends(db, s), Promise!Newest(s), UNCHANGED db
    PROVE  tx' \in [Writers -> Store] /\ open' \subseteq Writers /\ OpenKeepsPromise'
           /\ open' = {w}
<1>1. open' = {w}
  BY DEF Begin, CanBegin
<1>2. tx' = [tx EXCEPT ![w] = s] /\ tx \in [Writers -> Store]
  BY DEF Begin, IngestInv, TypeOK
<1>3. tx' \in [Writers -> Store] /\ tx'[w] = s
  BY <1>2
<1> QED
  BY <1>1, <1>3 DEF OpenKeepsPromise

\* A transaction that ends leaves no other.
LEMMA EndKeeps ==
    ASSUME IngestInv, NEW w \in open, open' = open \ {w},
           tx' = [tx EXCEPT ![w] = Promise!Empty]
    PROVE  tx' \in [Writers -> Store] /\ open' = {} /\ OpenKeepsPromise'
<1>1. open' = {}
  BY DEF IngestInv, OpenKeepsPromise
<1>2. tx' \in [Writers -> Store]
  BY EmptyIsStore DEF IngestInv, TypeOK
<1> QED
  BY <1>1, <1>2 DEF OpenKeepsPromise

\* The first state: an empty database.
LEMMA InitIngest == Init => IngestInv
<1> SUFFICES ASSUME Init PROVE IngestInv
  OBVIOUS
<1>1. TypeOK
  BY EmptyIsStore, IngestAssumption DEF Init, TypeOK, Imports, ImportIdle
<1> QED
  BY <1>1, EmptyIsStore DEF Init, IngestInv, OpenKeepsPromise, CountHolds, ImportIdle

\* Every step of every writer keeps the invariant, and changes the database
\* only to a store that keeps the promise.
LEMMA StepIngest ==
    ASSUME IngestInv, Next
    PROVE  IngestInv' /\ (db' = db \/ Promise!Transact)
<1> USE DEF IngestInv
<1>0. /\ TypeOK /\ db \in Store /\ tx \in [Writers -> Store] /\ imp \in Imports
      /\ Promise!Extends(db, db) /\ Promise!Newest(db)
      /\ ImportIdle \in Imports /\ ImportIdle.active = FALSE
  BY ExtendsSelf, IngestAssumption DEF TypeOK, Imports, ImportIdle
<1>1. CASE BeginImport
  <2>1. "import" \in Writers /\ imp' \in Imports /\ imp'.active = TRUE /\ db' = db
    BY <1>1, <1>0 DEF BeginImport, Writers, Imports, ImportIdle
  <2>2. /\ tx' \in [Writers -> Store] /\ open' \subseteq Writers
        /\ OpenKeepsPromise' /\ open' = {"import"}
    BY <1>1, <1>0, <2>1, BeginKeeps DEF BeginImport
  <2>3. CountHolds'
    <3>1. tx'["import"] = db /\ imp'.committed = 0
      BY <1>0, <1>1, <2>1 DEF BeginImport, Begin, ImportIdle
    <3>2. Stored(db) \ Stored(db) = {}
      OBVIOUS
    <3> QED
      BY <2>1, <3>1, <3>2, FS_EmptySet DEF CountHolds
  <2> QED
    BY <1>0, <2>1, <2>2, <2>3 DEF TypeOK, Promise!Newest
<1>2. CASE ImportCandle
  <2>1. PICK c \in Candles :
           /\ tx' = [tx EXCEPT !["import"] =
                       IF c.kind = "foreign" THEN Refuse(tx["import"], c)
                       ELSE Ingest(tx["import"], c, "rest")]
           /\ imp' = [imp EXCEPT !.seen = @ + 1,
                        !.committed = @ + CommittedCount(tx["import"], c)]
    BY <1>2 DEF ImportCandle
  <2>2. imp.active /\ imp.seen < MaxRows /\ UNCHANGED <<db, open>>
    BY <1>2 DEF ImportCandle
  <2>3. open = {"import"} /\ tx["import"] \in Store /\ "import" \in Writers
        /\ Promise!Extends(db, tx["import"]) /\ Promise!Newest(tx["import"])
    BY <1>0, <2>2 DEF OpenKeepsPromise, Writers
  <2>4. imp' \in Imports /\ imp'.active
    <3>1. CommittedCount(tx["import"], c) \in {0, 1}
      BY DEF CommittedCount
    <3>2. imp.seen + 1 \in 0..MaxRows /\ imp.committed \in Nat /\ imp.active \in BOOLEAN
      BY <1>0, <2>2, IngestAssumption DEF Imports
    <3>3. imp.committed + CommittedCount(tx["import"], c) \in Nat
      BY <3>1, <3>2
    <3> HIDE DEF Imports
    <3>4. /\ imp' = [active |-> imp.active, seen |-> imp.seen + 1,
                     committed |-> imp.committed + CommittedCount(tx["import"], c)]
      BY <1>0, <2>1 DEF Imports
    <3> QED
      BY <2>2, <3>2, <3>3, <3>4 DEF Imports
  <2> DEFINE t == tx'["import"]
  <2>5. t = (IF c.kind = "foreign" THEN Refuse(tx["import"], c)
             ELSE Ingest(tx["import"], c, "rest"))
    BY <1>0, <2>1, <2>3
  <2>6. t \in Store /\ Promise!Extends(db, t) /\ Promise!Newest(t)
    <3>1. CASE c.kind = "foreign"
      BY <1>0, <2>3, <2>5, <3>1, RefuseKeeps
    <3>2. CASE c.kind # "foreign"
      <4> HIDE DEF t
      <4>1. t = Ingest(tx["import"], c, "rest")
        BY <2>5, <3>2
      <4> HIDE DEF Promise!Store, IngestInv
      <4> QED
        BY <1>0, <2>3, <4>1, IngestKeeps
    <3> QED
      BY <3>1, <3>2
  <2>7. tx' \in [Writers -> Store]
    BY <1>0, <2>1, <2>5, <2>6
  <2> HIDE DEF t
  <2>8. OpenKeepsPromise'
    BY <2>2, <2>3, <2>6 DEF OpenKeepsPromise, t
  <2>9. CountHolds'
    <3> HIDE DEF Promise!Store, Promise!Stored, IngestInv
    <3>1. Cardinality(Stored(t) \ Stored(db)) =
            Cardinality(Stored(tx["import"]) \ Stored(db))
              + CommittedCount(tx["import"], c)
      BY <1>0, <2>3, <2>5, <2>6, IngestCounts
    <3>2. imp'.committed = imp.committed + CommittedCount(tx["import"], c)
      BY <1>0, <2>1 DEF Imports
    <3> QED
      <4>1. imp.committed = Cardinality(Stored(tx["import"]) \ Stored(db))
        BY <2>2 DEF CountHolds, IngestInv
      <4>2. imp'.committed = Cardinality(Stored(t) \ Stored(db))
        BY <3>1, <3>2, <4>1
      <4>3. db' = db
        BY <2>2
      <4> QED
        BY <4>2, <4>3, Zenon DEF CountHolds, t
  <2> QED
    BY <1>0, <2>2, <2>3, <2>4, <2>7, <2>8, <2>9 DEF TypeOK, Promise!Newest
<1>3. CASE CommitImport
  <2>1. /\ "import" \in open /\ db' = tx["import"] /\ open' = open \ {"import"}
        /\ tx' = [tx EXCEPT !["import"] = Promise!Empty] /\ imp' = ImportIdle
    BY <1>3 DEF CommitImport
  <2>2. db' \in Store /\ Promise!Extends(db, db') /\ Promise!Newest(db')
    BY <1>0, <2>1 DEF OpenKeepsPromise, TypeOK
  <2>3. tx' \in [Writers -> Store] /\ open' = {} /\ OpenKeepsPromise'
    BY <2>1, EndKeeps
  <2> QED
    BY <1>0, <2>1, <2>2, <2>3 DEF TypeOK, Promise!Newest, Promise!Transact, CountHolds
<1>4. CASE IngestRealtime
  <2>1. PICK c \in Candles : Begin("realtime", Ingest(db, c, "websocket"))
    BY <1>4 DEF IngestRealtime
  <2>2. /\ Ingest(db, c, "websocket") \in Store
        /\ Promise!Extends(db, Ingest(db, c, "websocket"))
        /\ Promise!Newest(Ingest(db, c, "websocket"))
    BY <1>0, IngestKeeps
  <2>3. UNCHANGED <<db, imp>> /\ "realtime" \in Writers /\ open = {}
    BY <1>4, <2>1 DEF IngestRealtime, Writers, Begin, CanBegin
  <2>4. /\ tx' \in [Writers -> Store] /\ open' \subseteq Writers
        /\ OpenKeepsPromise' /\ open' = {"realtime"}
    BY <2>1, <2>2, <2>3, BeginKeeps
  <2> QED
    BY <1>0, <2>3, <2>4 DEF TypeOK, Promise!Newest, CountHolds
<1>5. CASE RecordState
  <2>1. UNCHANGED <<db, imp>> /\ "recorder" \in Writers /\ open = {}
    BY <1>5 DEF RecordState, Writers, Begin, CanBegin
  <2>2. /\ tx' \in [Writers -> Store] /\ open' \subseteq Writers
        /\ OpenKeepsPromise' /\ open' = {"recorder"}
    BY <1>0, <1>5, <2>1, BeginKeeps DEF RecordState
  <2> QED
    BY <1>0, <2>1, <2>2 DEF TypeOK, Promise!Newest, CountHolds
<1>6. ASSUME NEW w \in Writers, Commit(w)
      PROVE  IngestInv' /\ (db' = db \/ Promise!Transact)
  <2>1. /\ w \in open /\ w # "import" /\ db' = tx[w] /\ open' = open \ {w}
        /\ tx' = [tx EXCEPT ![w] = Promise!Empty] /\ imp' = imp
    BY <1>6 DEF Commit
  <2>2. db' \in Store /\ Promise!Extends(db, db') /\ Promise!Newest(db')
    BY <1>0, <2>1 DEF OpenKeepsPromise, TypeOK
  <2>3. tx' \in [Writers -> Store] /\ open' = {} /\ OpenKeepsPromise'
    BY <2>1, EndKeeps
  <2>4. "import" \notin open
    BY <2>1 DEF OpenKeepsPromise
  <2> QED
    BY <1>0, <2>1, <2>2, <2>3, <2>4 DEF TypeOK, Promise!Newest, Promise!Transact, CountHolds
<1>7. ASSUME NEW w \in Writers, Rollback(w)
      PROVE  IngestInv' /\ (db' = db \/ Promise!Transact)
  <2>1. /\ w \in open /\ db' = db /\ open' = open \ {w}
        /\ tx' = [tx EXCEPT ![w] = Promise!Empty]
        /\ imp' = IF w = "import" THEN ImportIdle ELSE imp
    BY <1>7 DEF Rollback
  <2>2. tx' \in [Writers -> Store] /\ open' = {} /\ OpenKeepsPromise'
    BY <2>1, EndKeeps
  <2>3. ~imp'.active /\ imp' \in Imports
    BY <1>0, <2>1 DEF OpenKeepsPromise
  <2> QED
    BY <1>0, <2>1, <2>2, <2>3 DEF TypeOK, Promise!Newest, CountHolds
<1> QED
  BY <1>1, <1>2, <1>3, <1>4, <1>5, <1>6, <1>7 DEF Next

\* The ingestion invariant holds in every reachable state.
THEOREM IngestionInvariant == Spec => []IngestInv
<1>1. IngestInv /\ UNCHANGED vars => IngestInv'
  <2> SUFFICES ASSUME IngestInv, UNCHANGED vars PROVE IngestInv'
    OBVIOUS
  <2>1. CountHolds'
    BY DEF IngestInv, CountHolds, vars
  <2> QED
    BY <2>1 DEF IngestInv, TypeOK, OpenKeepsPromise, vars, Promise!Newest,
       Promise!Extends
<1>2. IngestInv /\ [Next]_vars => IngestInv'
  BY <1>1, StepIngest
<1> QED
  BY InitIngest, <1>2, PTL DEF Spec

\* Canonical ingestion implements the storage promise: live candles, REST
\* windows and the recorders' snapshots, in any order and with any rollback,
\* never lose a row, never let a WebSocket value replace one, never replace one
\* without evidence, and keep the latest pointer on the newest row.
THEOREM IngestionKeepsPromise == Spec => KeepsPromise
<1>1. Init => Promise!Init
  BY DEF Init, Promise!Init
<1>2. IngestInv /\ [Next]_vars => [Promise!Transact]_db
  BY StepIngest DEF vars
<1> QED
  BY <1>1, <1>2, IngestionInvariant, PTL DEF Spec, KeepsPromise, Promise!Spec

\* ImportWindowResult.committed is the number of bars the window added to the
\* database, for every response.
THEOREM ImportCountIsExact == Spec => CountIsExact
<1>1. ASSUME IngestInv, CommitImport
      PROVE  imp.committed = Cardinality(Stored(db') \ Stored(db))
  <2>1. imp.committed = Cardinality(Stored(tx["import"]) \ Stored(db))
    BY <1>1 DEF IngestInv, CountHolds, CommitImport
  <2>2. db' = tx["import"]
    BY <1>1 DEF CommitImport
  <2> QED
    BY <2>1, <2>2, Zenon
<1>2. IngestInv /\ [Next]_vars =>
        [CommitImport => imp.committed = Cardinality(Stored(db') \ Stored(db))]_vars
  BY <1>1
<1> QED
  BY <1>2, IngestionInvariant, PTL DEF Spec, CountIsExact

-----------------------------------------------------------------------------
(* The read API.                                                           *)

\* The vocabulary of the readers stays in its domain.
ReadTypeOK ==
    /\ ready \in BOOLEAN
    /\ audit \in [pc : {"idle", "state", "hash"}, range : Requests \cup {NoRequest},
                  continuous : BOOLEAN]
    /\ audit.pc # "idle" => audit.range \in Requests

\* A report that found its range continuous stays true, for rows are not lost.
ReportHolds ==
    audit.pc = "hash" \/ (audit.pc = "state" /\ audit.continuous)
        => Grid(audit.range) \subseteq Stored(db)

\* Every candle of a hash that was handed out is still stored, with its value
\* or with evidence of the value that was replaced.
HashExplained ==
    issued # NoHash =>
        /\ issued.range \in Requests
        /\ issued.candles \in [Grid(issued.range) -> Values]
        /\ issued = [range |-> issued.range, candles |-> issued.candles]
        /\ Grid(issued.range) \subseteq Stored(db)
        /\ \A o \in Grid(issued.range) :
              \/ db.rows[o].value = issued.candles[o]
              \/ \E c \in db.corrections :
                    c.open = o /\ c.existing = issued.candles[o]

\* The inductive invariant of readers and writers together.
ReadInv == IngestInv /\ ReadTypeOK /\ ReportHolds /\ HashExplained

\* A range of the grid lies in the stream, and its rows have OHLCV texts.
LEMMA GridInOpens == \A r \in Requests : Grid(r) \subseteq Opens
BY IngestAssumption DEF Requests, Grid

\* A stored row carries a value.
LEMMA StoredHasValue ==
    ASSUME NEW s \in Store, NEW o \in Stored(s)
    PROVE  s.rows[o] \in Rows /\ s.rows[o].value \in Values
OBVIOUS

\* A hash that is taken of a whole range explains itself.
LEMMA FreshHash ==
    ASSUME IngestInv, NEW r \in Requests, Grid(r) \subseteq Stored(db),
           issued' = MarketDataHash(db, r), db' = db
    PROVE  HashExplained'
<1>1. Listed(db, r) = Grid(r)
  BY DEF Listed
<1>2. db \in Store
  BY DEF IngestInv, TypeOK
<1>3. issued' = [range |-> r, candles |-> [o \in Grid(r) |-> db.rows[o].value]]
  BY <1>1 DEF MarketDataHash
<1>4. [o \in Grid(r) |-> db.rows[o].value] \in [Grid(r) -> Values]
  BY <1>2, StoredHasValue
<1> QED
  BY <1>3, <1>4 DEF HashExplained

\* Writers explain what they change: a hash stays explained, a report true.
LEMMA WritersKeepReaders ==
    ASSUME IngestInv, ReadTypeOK, ReportHolds, HashExplained,
           db' \in Store, Promise!Extends(db, db'), UNCHANGED <<ready, audit, issued>>
    PROVE  ReadTypeOK' /\ ReportHolds' /\ HashExplained'
<1>0. db \in Store
  BY DEF IngestInv, TypeOK
<1>1. Stored(db) \subseteq Stored(db')
  BY <1>0 DEF Promise!Extends
<1>2. ReadTypeOK' /\ ReportHolds'
  BY <1>1 DEF ReadTypeOK, ReportHolds
<1>3. ASSUME issued # NoHash, NEW o \in Grid(issued.range)
      PROVE  \/ db'.rows[o].value = issued.candles[o]
             \/ \E c \in db'.corrections : c.open = o /\ c.existing = issued.candles[o]
  <2>1. o \in Stored(db) /\ db.corrections \subseteq db'.corrections
    BY <1>3 DEF HashExplained, Promise!Extends
  <2>2. CASE db.rows[o].value = issued.candles[o]
    <3>1. \/ db'.rows[o] = db.rows[o]
          \/ \E c \in db'.corrections : c.open = o /\ c.existing = db.rows[o].value
      BY <2>1 DEF Promise!Extends
    <3> QED
      BY <2>2, <3>1
  <2>3. CASE \E c \in db.corrections : c.open = o /\ c.existing = issued.candles[o]
    BY <2>1, <2>3
  <2> QED
    BY <1>3, <2>2, <2>3 DEF HashExplained
<1>4. HashExplained'
  BY <1>1, <1>3 DEF HashExplained
<1> QED
  BY <1>2, <1>4

\* An explained hash yields its candles, or a correction tells why not.
LEMMA ExplainedIsHeld == IngestInv /\ HashExplained => IssuedHashHolds
<1> SUFFICES ASSUME IngestInv, HashExplained, issued # NoHash
             PROVE  \/ HistoricalCandleRange(db, issued) = "candles"
                    \/ /\ HistoricalCandleRange(db, issued) = "coverage_stale"
                       /\ \E c \in db.corrections :
                             /\ c.open \in Grid(issued.range)
                             /\ c.existing = issued.candles[c.open]
                             /\ db.rows[c.open].value # c.existing
  BY DEF IssuedHashHolds
<1> DEFINE r == issued.range
<1>1. /\ r \in Requests /\ Grid(r) \subseteq Stored(db)
      /\ issued.candles \in [Grid(r) -> Values]
      /\ issued = [range |-> r, candles |-> issued.candles]
  BY DEF HashExplained
<1>2. Listed(db, r) = Grid(r) /\ CompleteGrid(db, r)
  BY <1>1 DEF Listed, CompleteGrid
<1>3. MarketDataHash(db, r) = [range |-> r, candles |-> [o \in Grid(r) |-> db.rows[o].value]]
  BY <1>2 DEF MarketDataHash
<1>4. CASE \A o \in Grid(r) : db.rows[o].value = issued.candles[o]
  <2>1. issued.candles = [o \in Grid(r) |-> db.rows[o].value]
    BY <1>1, <1>4
  <2>2. MarketDataHash(db, r) = issued
    BY <1>1, <1>3, <2>1
  <2> QED
    BY <1>2, <2>2 DEF HistoricalCandleRange
<1>5. CASE ~(\A o \in Grid(r) : db.rows[o].value = issued.candles[o])
  <2>1. PICK o \in Grid(r) : db.rows[o].value # issued.candles[o]
    BY <1>5
  <2>2. PICK c \in db.corrections : c.open = o /\ c.existing = issued.candles[o]
    BY <2>1 DEF HashExplained
  <2>3. MarketDataHash(db, r) # issued
    <3>1. MarketDataHash(db, r).candles[o] = db.rows[o].value
      BY <1>3
    <3> QED
      BY <2>1, <3>1
  <2>4. HistoricalCandleRange(db, issued) = "coverage_stale"
    BY <1>2, <2>3 DEF HistoricalCandleRange
  <2> QED
    BY <2>1, <2>2, <2>4
<1> QED
  BY <1>4, <1>5

\* Nothing has been read at first.
LEMMA InitRead == ReadInit => ReadInv
<1> SUFFICES ASSUME ReadInit PROVE ReadInv
  OBVIOUS
<1>1. IngestInv
  BY InitIngest DEF ReadInit
<1>2. ReadTypeOK /\ ReportHolds /\ HashExplained
  BY DEF ReadInit, NoAudit, ReadTypeOK, ReportHolds, HashExplained
<1> QED
  BY <1>1, <1>2 DEF ReadInv

\* Every step of a writer or a reader keeps the invariant.
LEMMA StepRead == ASSUME ReadInv, ReadNext PROVE ReadInv'
<1>0. IngestInv /\ ReadTypeOK /\ ReportHolds /\ HashExplained /\ db \in Store
  BY DEF ReadInv, IngestInv, TypeOK
<1>1. ASSUME UNCHANGED <<db, tx, open, imp>> PROVE IngestInv'
  <2>1. CountHolds'
    BY <1>0, <1>1 DEF IngestInv, CountHolds
  <2> QED
    BY <1>0, <1>1, <2>1 DEF IngestInv, TypeOK, OpenKeepsPromise, Promise!Newest,
       Promise!Extends
<1>2. CASE Next /\ UNCHANGED <<ready, audit, issued>>
  <2>1. IngestInv' /\ (db' = db \/ Promise!Transact)
    BY <1>0, <1>2, StepIngest
  <2>2. db' \in Store /\ Promise!Extends(db, db')
    BY <1>0, <2>1, ExtendsSelf DEF Promise!Transact
  <2> QED
    BY <1>0, <1>2, <2>1, <2>2, WritersKeepReaders DEF ReadInv
<1>3. CASE MarkReady
  <2>1. UNCHANGED <<db, tx, open, imp, audit, issued>> /\ ready' \in BOOLEAN
    BY <1>3 DEF MarkReady
  <2> QED
    BY <1>0, <1>1, <2>1 DEF ReadInv, ReadTypeOK, ReportHolds, HashExplained
<1>4. ASSUME NEW r \in Requests, GetCandleRange(r) PROVE ReadInv'
  <2>1. /\ UNCHANGED <<db, tx, open, imp, ready, audit>>
        /\ issued' = MarketDataHash(db, r) /\ Grid(r) \subseteq Stored(db)
    BY <1>4 DEF GetCandleRange, CompleteGrid, Listed
  <2>2. HashExplained'
    BY <1>0, <2>1, FreshHash
  <2> QED
    BY <1>0, <1>1, <2>1, <2>2 DEF ReadInv, ReadTypeOK, ReportHolds
<1>5. ASSUME NEW r \in Requests, AuditReport(r) PROVE ReadInv'
  <2>1. /\ UNCHANGED <<db, tx, open, imp, ready, issued>>
        /\ audit' = [pc |-> "state", range |-> r, continuous |-> Continuous(db, r)]
    BY <1>5 DEF AuditReport
  <2>2. audit'.continuous <=> Grid(r) \subseteq Stored(db)
    BY <2>1 DEF Continuous
  <2>3. ReadTypeOK' /\ ReportHolds'
    BY <1>0, <2>1, <2>2 DEF ReadTypeOK, ReportHolds, Continuous
  <2> QED
    BY <1>0, <1>1, <2>1, <2>3 DEF ReadInv, HashExplained
<1>6. CASE AuditState
  <2>1. /\ UNCHANGED <<db, tx, open, imp, ready, issued>> /\ audit.pc = "state"
        /\ audit' = IF audit.continuous THEN [audit EXCEPT !.pc = "hash"] ELSE NoAudit
    BY <1>6 DEF AuditState
  <2>2. ReadTypeOK' /\ ReportHolds'
    BY <1>0, <2>1 DEF ReadTypeOK, ReportHolds, NoAudit
  <2> QED
    BY <1>0, <1>1, <2>1, <2>2 DEF ReadInv, HashExplained
<1>7. CASE AuditHash
  <2>1. /\ UNCHANGED <<db, tx, open, imp, ready>> /\ audit' = NoAudit
        /\ issued' = MarketDataHash(db, audit.range)
        /\ audit.range \in Requests /\ Grid(audit.range) \subseteq Stored(db)
    BY <1>0, <1>7 DEF AuditHash, ReadTypeOK, ReportHolds
  <2>2. HashExplained'
    BY <1>0, <2>1, FreshHash
  <2> QED
    BY <1>0, <1>1, <2>1, <2>2 DEF ReadInv, ReadTypeOK, ReportHolds, NoAudit
<1>8. CASE AuditFails
  <2>1. UNCHANGED <<db, tx, open, imp, ready, issued>> /\ audit' = NoAudit
    BY <1>8 DEF AuditFails
  <2> QED
    BY <1>0, <1>1, <2>1 DEF ReadInv, ReadTypeOK, ReportHolds, NoAudit, HashExplained
<1> QED
  BY <1>2, <1>3, <1>4, <1>5, <1>6, <1>7, <1>8 DEF ReadNext

\* The invariant holds in every reachable state of readers and writers.
LEMMA ReadInvariant == ReadSpec => []ReadInv
<1>1. ReadInv /\ UNCHANGED readVars => ReadInv'
  <2> SUFFICES ASSUME ReadInv, UNCHANGED readVars PROVE ReadInv'
    OBVIOUS
  <2>1. CountHolds'
    BY DEF ReadInv, IngestInv, CountHolds, readVars
  <2>2. IngestInv'
    BY <2>1 DEF ReadInv, IngestInv, TypeOK, OpenKeepsPromise, readVars, Promise!Newest,
       Promise!Extends
  <2> QED
    BY <2>2 DEF ReadInv, ReadTypeOK, ReportHolds, HashExplained, readVars
<1>2. ReadInv /\ [ReadNext]_readVars => ReadInv'
  BY <1>1, StepRead
<1> QED
  BY InitRead, <1>2, PTL DEF ReadSpec

\* A hash handed out by GET /v1/candles or by the three transactions of an audit
\* keeps its meaning: a historical read with it returns the very candles it was
\* taken of, or coverage_stale with the correction that replaced one of them.
THEOREM IssuedHashesHold == ReadSpec => []IssuedHashHolds
<1>1. ReadInv => IssuedHashHolds
  BY ExplainedIsHeld DEF ReadInv
<1> QED
  BY <1>1, ReadInvariant, PTL
=============================================================================
