# Verification of the market data service

The service keeps gap-free candle history of configured streams in SQLite. It
fills history over REST, follows the exchange over a WebSocket, repairs gaps,
and tells readers, per stream, whether the data is *ready*. What makes it hard is
that three sources of bars (backfill, live candles, recovery) and two actors (the
asyncio event loop and a recovery thread) write the same stream, and that
readiness is decided from in-memory facts while the truth is in the database.

Around that core there are an operator's command that loads history into the same
database, a schema that any of these processes may create or migrate, readers that
are given hashes of what they read, and a process whose tasks start, fail and stop
together.

This directory holds a TLA+ model of that machinery, TLC runs that check it on
small instances, and TLAPS proofs that hold for every instance. Paths below are
relative to `src/src/market_data_service/`.

## Inventory

| Component | State | Operations | Hard behaviour | What makes it correct |
|---|---|---|---|---|
| Lifecycle table (`domain/stream_state.py`) | durable state | `can_transition` | - | only table transitions are stored |
| Supervisor (`application/realtime/supervisor*.py`, `frontier.py`) | `RealtimeStreamFacts` | observe event / outcome, detect stale, record result | facts lag the database, results arrive late | the frontier never claims a missing bar |
| Recovery worker (`runtime/realtime_recovery_worker.py`, `..._intent.py`) | one intent per stream | enqueue, run, execute | signals absorbed while an attempt runs, retries, backoff | a wanted recovery always has an owner and ends |
| Recovery coordinator (`application/realtime/recovery*.py`) | locals of an attempt | plan, audit, repair, restore | a thread, one transaction at a time | restored means the interval is stored |
| Gap repair (`application/repair_gaps.py`, `repair_state.py`) | lifecycle, gaps | audit, import windows, re-audit | partly served or failing windows | never leaves `auditing`/`repairing` behind |
| Lifecycle recorder and sweep (`runtime/lifecycle.py`, `realtime_lifecycle.py`) | durable state | mark_x | read, decide, then write | transitions are legal when written |
| Coordinator, admission (`runtime/realtime.py`, `admission.py`) | admitted streams | admit, on_event, on_outcome, stale worker | admission while the session runs | admission never loses a recovery |
| Status store (`runtime/status.py`) | published readiness | update, block | readers see it at any time | ready implies continuous |
| Connector (`application/realtime/connector.py`) | session, failures | run, reconnect | disconnects, exceptions of handlers | every reconnect asks for recovery |
| Canonical ingestion (`application/ingest.py`, `import_window.py`) | candle rows, latest, quarantine | ingest one, import a window | corrections from two sources, rollback | one row per bar, REST is authoritative |
| Historical worker, reconciler (`runtime/historical_worker.py`, `reconciliation.py`) | queue of streams | pin, reconcile, requeue | backoff, shared operation gate, moving end | a stream is admitted only once proven |
| Lower bound (`application/lower_bound*.py`) | durable cursor and bound of each track | probe, resolve | restart between two windows | nothing skipped, nothing searched twice |
| Bootstrap and backfill command (`full_bootstrap.py`, `backfill_stream.py`, `multi_stream_backfill.py`, `entrypoints/backfill.py`) | window budget, latest | verify, prepare, search, load, report | cut off anywhere and run again, failures of some streams | the report is true, running it again finishes |
| Gap arithmetic (`domain/gaps.py`, `windows.py`) | - | find_gaps, iter_fetch_windows | boundaries | the windows tile the missing bars |
| Notification (`runtime/committed_bar_notification.py`) | bounded queue | enqueue, deliver | queue full, failing receiver, repeated cancellation during a POST | newest bar is announced or recovered, no POST is left behind |
| Open interest (`runtime/open_interest_*.py`, `application/*open_interest*.py`) | second track's progress | prefetch, reconcile, publish | two frontiers gate one stream | published, and admitted, only when both tracks are proven |
| Database schema (`adapters/sqlite/schema.py`, `bootstrap.py`) | tables, version | create, migrate, validate, register | a script that commits statement by statement, two processes at once | work only starts on a whole schema |
| Service process (`runtime/service.py`, `runtime/realtime.py`, `event_loop_lag.py`) | tasks, `stop_event`, health | startup, signal, task groups, exit | a task that fails or ends while others wait | a failure is told and the process ends |
| REST source (`adapters/bybit/rest_client.py`, `http_transport.py`) | attempt | get, retry | HTTP failures, transient return codes | bounded attempts, failures classified |
| Read API (`application/consumer_read/`, `application/history_planning/`) | - | candles, historical candles, audit | an audit is three transactions | a hash handed out keeps its meaning |
| HTTP server (`adapters/http/`) | - | health, readiness, data routes | threads that read while the loop writes | code and body do not contradict a failure |
| Parsing, settings, wiring, diagnostics, smoke checks | - | construction and I/O | - | - |

How they interact: the service process prepares the schema, runs one historical pass
per stream, then starts its task groups. The historical worker admits a proven stream
to the realtime coordinator; from then on the connector's events, the stale check and
recovery results change the supervisor's facts, every change is followed by a
lifecycle sweep that writes the durable state and the status store, and committed bars
go to the notification queue. Historical worker and recovery worker share one
operation gate. The operator's command is another process on the same file. HTTP
threads read the status store and the database.

## Modules

* `StreamLifecycle` - the durable states and their transition table.
* `RealtimeRecovery` - the realtime runtime of one stream. The event loop
  (variable `loop`) runs one handler at a time; a handler's in-memory effect is
  one step, and each SQLite access of the sweep that ends it is one more
  (`SyncRead`, `MarkRead`, `MarkCommit`, `MarkRaises`). The recovery attempt
  (variable `thread`) takes one step per transaction, from `MarkUnavailable` to
  `MarkRestored`. `facts` is the supervisor's `RealtimeStreamFacts`, `intent` the
  worker's `RecoveryIntent`, `durable`/`latest`/`candles` the database,
  `published` the status projection, `notified` the newest announced bar. Bars
  are numbers on the timeframe grid; bar 0 is the earliest available candle, so
  `0..b \subseteq candles` says that history through `b` has no hole.
* `RecoveryInvariant` - the two inductive invariants of that module: `RecoveryInv`,
  used by a run and by the proofs about the frontier, and `EpisodeInv`, what a
  recovery episode owes to the facts, the lifecycle and the receivers.
* `MCRealtimeRecovery` - what TLC runs.
* `RealtimeRecoveryProofs`, `FrontierProofs` - the theorems about it.
* `CanonicalStore` - the abstract promise of canonical storage for one stream: a
  row is never lost and changes only to a value REST gave, with the old value kept
  in the same step, and `latest` is the newest row.
* `CanonicalIngestion` - the three writers that keep that promise together: the
  REST window importer (one transaction per response), the live handler (one per
  candle) and the lifecycle recorders, which read the stream state and write it
  back. Each reads and works on `txn`, the private view of its transaction; commit
  installs it, rollback drops it. `CanBegin` is `BEGIN IMMEDIATE`.
  `IngestionProofs` proves it.
* `ConsumerRead` - the read API on top of those writers: `GET /v1/candles` on one
  snapshot, the continuity audit with its report, state and hash in three
  transactions (`audit`), and `POST /v1/historical-candles`, which is given a hash
  (`issued`) from before. The hash is the document it is taken of, so the model has
  no collisions. `MCConsumerRead` instantiates both modules; `IngestionProofs` proves
  this one too.
* `HistoricalReconciliation` - startup and the background worker over several
  streams, with a crash between any two transactions. `db` is what survives
  (lifecycle, and per track the lower bound, its search cursor and the stored bars);
  the queue, the pinned intervals, the backoff marks, the operation gate and the pass
  in progress do not. A pass prepares the lifecycle, searches the lower bound window
  by window, pins its interval, audits, imports up to its budget of windows and audits
  again. For a stream with open interest the same pass then proves the second track
  (`pass.track`), with windows, budget, bound and cursor of its own and without
  touching the lifecycle, and the stream is held until it is proven. A probe is
  answered with every valid row of the window it asks for: rows that fail validation
  are passed over (`lower_bound_probe.py:57-70`), a response of such rows alone is a
  failure. An import answers with any part of its window; points may also be stored by the prefetch of an earlier process
  (`RealtimePoint`). Bar 0 is the instrument's launch, and `first` the first bar of
  which the exchange has a valid row in a track. An exchange that leaves out a valid
  row in one answer and gives it later could move a bound above it; the code has no
  defence against that, and the models do not assume one. `MCHistoricalReconciliation` has two streams, one
  with an open-interest track. `HistoricalProofs` proves it for any number.
* `GapPlanning` - `find_gaps` and `iter_fetch_windows` as the loops they are,
  against the set of missing bars. The larger models import `NextWindow`, the
  oldest missing bars up to the first stored one and the size of a request;
  `PlanIsNextWindow` shows that this is what the loops plan. `MCGapPlanning`
  instantiates it, `GapPlanningProofs` proves it.
* `BarPublication` - what a receiver hears about one admitted stream, with or
  without the open-interest flag. `queue` and `worker` are the notification
  worker, `facts` the part of the supervisor's facts with the two frontiers,
  `candles` and `points` the two tables, `thread` the recovery attempt over both
  tracks, `prefetch` and `flight` the prefetch of the open bar's point. The loop
  takes one step per handler, a thread one per repaired track, append or POST
  (`RealtimeRecovery` has the repair transaction by transaction). A cancellation is
  two steps: `Cancel`, which may come any number of times, and `Interrupted`, where
  the worker meets it. During a POST the worker remembers it (`raises`) and waits on
  behind a new shield, until the thread has returned (`SendReturns`) and the loop has
  seen it (`SendObserved`); anywhere else the worker ends, and an append that was
  running in its thread still stores its point. `owed`, `worker.cancelled` and
  `worker.late` (POSTs begun since shutdown) only record what happened, for the
  properties. It starts from a ready stream; rejected and failed outcomes and the
  lifecycle sweep are in `RealtimeRecovery`. An attempt's wait for the operation gate
  is part of its start: a signal that arrives during the wait is absorbed as one that
  arrives after it. `MCBarPublication` is what TLC runs, `PublicationProofs` proves
  it.
* `DatabaseSchema` - the file before any stream can be worked on: `create_schema`
  statement by statement, both migrations with the version they read beforehand,
  validation and registration, by several processes that may end anywhere.
  `MCDatabaseSchema` runs it alone.
* `RestSource` - one request of the REST adapter: its attempts, and the class of
  failure its caller sees.
* `OperatorBackfill` - the backfill command, composed of the two modules above: for
  each stream it verifies the instrument, prepares the database, searches the lower
  bound, and loads windows after the newest bar. `cmd` is the command's program
  counter and locals; `rows` are the durable stream states. The command for all
  streams, for one, and for a range are commands of the same machine, and a crash may
  end each anywhere. `MCOperatorBackfill` is what TLC runs.
* `LoadedHistory` - the abstract promise of loading, which the command implements:
  bars grow only beyond the newest one and by one window at a time; the lower bound is
  found once, is the first bar, and stays. `BackfillProofs` proves the refinement,
  and what the command and the schema promise.
* `ServiceProcess` - one service process: `RuntimeService.run`, both task groups, the
  connector with its reconnect budget, the sweep stream by stream, the status store,
  and an HTTP thread that reads document and flag separately. A session that fails is
  first closed (`closing`; leaving `transport.connect` awaits the close handshake) and
  only then reported to the supervisor (`failed`, `TransportFailed`): in between its
  streams may still be shown as ready, which `ReadyIsSubscribed` excepts. A
  `WebSocketDisconnected` is reported by two events, whose sweeps are one here. A recovery
  is its result, which may come after the session it was for. `MCServiceProcess` is what TLC
  runs, `ServiceProofs` proves it.

Environment choices: a live candle may be any closed bar, in any order, or (with
`Lead = 1`) one our clock still shows open; the model does not tie it to the
subscription, because the connector hands over whatever a session delivers. REST
may return any part of a window. The clock moves between any two steps. Backoff
delays are left open (an intent may be taken at once or late). The failures are
the members of `Faults`.

## Runs

| Run | Question | Bounds |
|---|---|---|
| `RecoveryCore` | frontier, readiness, stale-check memory, lifecycle ownership, announcements, the inductive invariant; the stream is admitted while the session runs | 2 bars with clock lead 1 (so a gap can open), all faults, history proven at any bar |
| `RecoveryEnds` | a wanted recovery of a stream admitted at startup ends | 2 bars, fair, recoverable REST failures |
| `Ingestion` | three writers of one stream implement `CanonicalStore`; a window's count is exact; a hash handed to a reader yields its candles or, after a correction, `coverage_stale` | 2 bars, 2 values, responses of 3 candles: repeated, foreign and invalid ones too; every range |
| `Historical` | the search of either track skips nothing, a stream is neither lost nor doubled, intervals stay fixed, admission proves the history of both tracks, a prompt retry means progress | 2 streams, one with open interest, 3 bars, one crash, recoverable and fatal REST failures |
| `HistoricalEnds` | every stream with history is admitted | 2 streams, one with open interest, 2 bars, fair, no crash |
| `GapPlanning` | gaps and windows against the set of missing bars | windows up to 6 bars, every set of stored bars |
| `Publication` | frontiers, announced bars and recovery requests of a stream with one or two tracks; a POST is waited for and a cancellation kept, however many come | 3 bars (a gap in either track), queue of 1, recoverable REST failures, any number of cancellations |
| `PublicationEnds` | both frontiers reach every closed bar; after shutdown the worker ends and at most the bar in preparation is still sent | 2 bars, queue of 1, fair, outages, shutdown and any number of cancellations |
| `Backfill` | the command implements `LoadedHistory`, keeps to its window budget, works on a whole schema, reports truthfully, and loads everything when run again | 2 streams whose histories start at different bars, 2 bars, windows of 1, budget of 2, an empty or a version 1 file, 2 attempts per request, every failure, one crash |
| `Service` | readiness ends with the session, a failure is told and ends the process, the reconnect budget counts short sessions in a row | 2 streams, one worker in each group, 2 failures |
| `FrozenInterval` | violated: finding 1 | 4 bars, two windows per attempt |
| `ForwardOnly` | violated: finding 2 | a version 1 file, two processes |

The safety properties of `RecoveryCore` also hold with three bars and a start in
bar 2 (13 million states, four minutes), which is too slow to repeat on every change.
Two bars beyond the starting one are enough for a hole below a stored bar, for a
bar that closes during an attempt, and for both at once; `MaxCandles = 2` makes a
window that is served in part. `MaxWindows = 1` is the budget for which the
frontier is sound; `FrozenInterval` shows what the default of 2 allows.

In `Historical` the budget of one probe and one import per pass makes every stream
come back to the queue in the middle of its search and of its repair, and three
bars leave room for a search that fails, a hole, and a bar that closes during the
pass. One crash, at any transaction, gives every lifecycle state and every cursor
a first process can leave behind; deeper histories of crashes are not explored.
The type invariant is checked with the ownership of streams, as `QueueInv`, there, and
as part of `RecoveryInv` and `IngestInv` in the runs of those modules; that of
`GapPlanning` is proved.

In `Backfill` two bars and windows of one make a search that finds nothing in its first
window and a load that needs its budget again; the stream that starts late is the one
an interrupted search could skip. The budget of two is spent by the search alone in
some behaviours, shared in others. One crash at any statement leaves every half-made
file a start can meet. The schema alone was also explored with two processes and every
old version: `PreparedIsWhole` holds there too (1536 states).

In `Service` two streams make the aggregate differ from each of them, and a sweep that
is half done; a budget of two is the least for which a steady session and a short one
differ.

In `BarPublication` the last bar of the model never closes, so three bars leave two
that can: enough for a point or a candle that arrives above a hole. Outages and
shutdown (`Events`) multiply the states, and are explored with one closed bar; a
cancellation is possible in both runs, and again after the worker has met one. The system may stop for good after shutdown, so its runs do not check
deadlock.

In `GapPlanning` six bars hold
three gaps, a gap of two windows and a remainder. The run stops when its plan is
done, so deadlock is not checked there.

**Fairness of `RealtimeRecovery`** (`FairSpec`). The event loop serves ready callbacks in turn, hence
weak fairness of the sweep and of a handler's continuation and strong fairness of
the worker's three steps and the stale check, which compete with others for the
idle loop. The thread runs (weak fairness of `Attempt`). REST, asked for a window
again and again, at some point serves all of it (strong fairness of the full
`RepairWindow`): without it a recovery may retry for ever, as the code intends.

**Fairness of `HistoricalReconciliation`** (`FairSpec`, for `HistoricalEnds`). The
main task and the worker's thread go on; `asyncio.Lock` wakes its waiters in order,
so a worker that asks for the gate again and again gets it; a backoff delay ends;
and REST, asked again and again, at some point answers in full. A stream whose first
bar lies beyond the clock is searched for ever and must not hold up the other.

**Fairness of `BarPublication`** (`FairSpec`). The clock goes on; the loop serves the
stale check, the recovery worker and the notification worker in turn; threads run;
REST, asked for the missing bars of a window again and again, at some point returns
all of them (strong fairness of a full repair). Nothing is assumed of the session,
of live points or of the prefetch: `CatchesUp` must hold without them.

**Fairness of `OperatorBackfill`** (`FairSpec`). A command that runs goes on; the
operator runs it again (`StartAll`, strong, because other commands come between); and
no instrument's verification, no probe and no window asked for by those runs fails for
ever: asked again and again, REST at some point answers in full. A crash is bounded,
not fair.

**Fairness of `ServiceProcess`** (`FairSpec`). The event loop goes on with a sweep and
with the tasks that can go on (weak for `Run` and the sweep; strong for the connector's
own steps and for a worker's end, which compete for the loop); a worker looks at
`stop_event` again after a bounded pass; a connection attempt ends. Nothing is assumed
of the exchange: sessions need not be confirmed, nor last.

## Findings

1. *Interval not frozen* (`FrozenInterval`). A recoverable failure after a partly served
   window leaves no frozen interval. A startup intent, which has no hint, plans its
   retry from the newest committed bar, beyond the hole, and is then declared restored.
   `docs/operational-scenarios.md:167` says that one interval is frozen.
2. *Migration goes back* (`ForwardOnly`). The version is read outside the migration's
   transaction. Of two processes that both read version 1, the second migrates a file
   that is at version 3 already: its first step sets the version to 2, its second fails,
   and every later start fails with it. `schema.py:26` says "forward-only".

## Divergences

Three more disagreements have a property in the modules that the code does not have;
each can be reproduced by checking it with the constants given here.

* *Lost admission recovery* (`RecoveryOwned` in `RealtimeRecovery`; `MaxBar = 3`,
  `FirstBars = {2}`, `MaxWindows = 1`, `MaxCandles = 2`, `Lead = 0`, `Faults = {}`,
  `AdmittedAtStart = FALSE`). `detect_stale` and a reconnect mark a stream
  `recovery_pending` before it is admitted, and the admission filter drops their
  signals. `admit()` (`runtime/realtime.py:113`) then sees "already pending" and
  enqueues nothing: the stream stays pending with no intent until the next reconnect.
* *Sweep against thread* (`SweepIsLegal` in the same module, same constants with
  `AdmittedAtStart = TRUE`). `mark_degraded` and its siblings (`runtime/lifecycle.py:81`)
  read the state, then write in a later transaction. The recovery thread's transaction
  in between makes the write illegal; `InvalidStreamTransition` ends the session or the
  whole task group.
* *Held bar never announced* (`HeldIsAnnounced` in `BarPublication`; `Capacity = 1`,
  `MaxNow = 2`, `Faults = {}`, `Events = {}`, deadlock not checked). A bar whose candle
  was stored before a stale recovery became pending, and whose point is stored by the
  worker's own append while it is, is held for that recovery; the recovery has nothing
  to commit, restores, and announces nothing. The receiver hears of the bar with the
  next one at the earliest.

Others were seen while modelling, and the models follow the code:

* A fatal failure of the lower-bound search other than `HistoricalLowerBoundUnavailable`
  carries no `failure_disposition` (`full_bootstrap.py:111`), so `--all` goes on to the
  next stream; the repository's `README.md:219` says that a fatal failure stops the run.
* A stream in `failed` goes on loading and its result may be `complete`; `Finish` only
  moves a `bootstrapping` stream. `CompleteIsLoaded` allows it.
* A range command above the lower bound moves the newest bar over a hole; a later
  `--full` loads after it and reports `complete`. Only the audit finds the hole, which is
  why `CompleteIsLoaded` speaks of the two ends of a history and not of all between.
* Transient return codes are raised by `_extract_rows`, after the retry loop that names
  them (`rest_client.py:150`), so they are never retried; a `Retry-After` date is
  returned as an absolute time (`http_transport.py:67`) and clipped to the maximal delay.
* With `max_attempts = 1` a single disconnect of a long session exhausts the budget,
  although `connector.py:35` says that such disconnects never do; `ReconnectBudget`
  assumes two or more. After exhaustion the process exits with code 0 and a healthy
  status, and a cancelled connector emits no `Stopped`.
* The notification worker checks `stop_event` and then, for a stream with open interest,
  awaits `prepare` before the send, although the comment at
  `runtime/committed_bar_notification.py:62` says that no await lies between.
  So one bar may be sent after shutdown; `ShutdownEnds` says that it is the one that
  was in preparation, and that a plain stream sends none.
* `/health` may answer a healthy body with code 503, because the code is read after the
  body (`request_router.py:41`); `FatalIsTold` excludes only the dangerous mixture, a
  fatal body with 200.
* A read of a ready stream between the commit that opens a gap and the demotion that
  follows answers `continuity_invariant_broken`, a server error.
* Progress markers do not name their track, and the open-interest interval is derived
  again by every pass, so a bar that closed meanwhile can look like progress, or hide
  it. `Better` in `RetryMeansProgress` says what is left of the promise.

## Proofs

A theorem here holds for every value of the constants that satisfies the named
assumptions of its module, where a run holds for one. For each module there is
one inductive invariant (two for `RealtimeRecovery`), a conjunction of named parts;
the proof shows action by action that each part is kept, and the properties follow
from it.

`RealtimeRecoveryProofs!TypeCorrect` proves `Spec => []TypeOK` for all constants.
Types alone are not inductive (a window end is one past a bar, a frontier is
extended by one), so it is proved together with `Bounded`: nothing mentions a bar
the clock has not reached.

`FrontierProofs` proves `FrontierProven` and `ReadyIsContinuous` under
`SafeBudget` (one window per attempt, or no recoverable REST failure; finding 1
shows that it is needed). The argument: as long as the stream is not lost,
somebody marks the oldest possible hole - the frontier, the intent's hint, its
frozen window, or, for an intent with neither, `latest` itself. `latest` may jump
a hole in two situations only: a live commit whose outcome is still being handled
(`GapInFlight`), and an attempt that has imported and is bound to hand back its
window (`Dirty`). `RecoveryInv` states who knows the hole in each phase of the
attempt, with the exceptions those two situations need. It is checked by TLC in
`RecoveryCore` and proved inductive action by action; the two theorems follow.
`ReadyIsEnteredProven` is the action property `ReadyEnteredProven`: only the last
step of the sweep writes `ready`, and what it read is tied to the facts by
`EpisodeOwned` and to the stored bars by `FrontierProven`.

`RealtimeRecoveryProofs` also proves `CheckedIsProven`, `LifecycleOwned` and
`Announced`, without `SafeBudget`, from `EpisodeInv`. Each of the three speaks of the
moment between recoveries, so the invariant has to say what a recovery in progress
will leave behind. `CheckedHolds`: a stale check that comes after the attempt's last
look at the clock revises the intent, and one that came before asks for a bar inside
the window, so a restore that is accepted covers every bar asked for. `StateHolds`:
only a repair writes `repairing`, and it leaves it before it hands over its result.
`StoredBelow` and `AnnounceHolds`: `latest` is the newest stored bar, a repair brings
in closed bars only, and a stored bar that was not announced is either in flight to
its handler or remembered by the episode, whose window will reach it. TLC checked
`EpisodeInv` on the constants of `RecoveryCore` and with three bars and two windows
before it was proved.

`IngestionProofs` proves that the interleaved transactions implement
`CanonicalStore` (`IngestionKeepsPromise`, a refinement with the committed
database as mapping) and that the committed count is exact. The inductive
invariant `IngestInv` says that there is at most one open transaction, that it
started from what is committed now, that committing it at this point would keep
the promise, and that its count is the number of bars its view has beyond the
committed ones. "At most one, started from now" is what `BEGIN IMMEDIATE` buys:
the mutant with a deferred transaction loses an update. On top of it `ReadInv`
proves `IssuedHashHolds` of `ConsumerRead`: a row changes only by a correction, which
is kept as a revision, and the report, the state and the hash of an audit are each
tied to rows that were stored when they were read (`ReportHolds`, `HashExplained`).

`GapPlanningProofs` proves `GapsAreExact`, `WindowsTile`, `PlanIsFull` and
`PlanIsNextWindow` for every window, every set of stored bars, every request size and
every budget. `PlanInv` adds what each loop knows in its middle: below the cursor,
missing means in a found gap or in the open one (`ScanHolds`), and the next window
starts inside the gap being cut (`CutHolds`). `WindowsFull` (a window ends where the
request is full or where its gap ends) is what `PlanIsNextWindow` needs besides: the
bars of the first planned window are then those `NextWindow` defines, which is what
the larger models import.

`HistoricalProofs` proves of `HistoricalReconciliation`, for any number of streams,
budgets and crashes: `QueueInv`, `SearchSkipsNothing`, `PassIsLegal`, and the action
properties about admission and fixed intervals. `HistInv` has a part for the places a
stream can be in (`OwnedHolds`, as sets and not as the counts of `QueueInv`), for the
durable search (`SearchHolds`), for what can be stored at all (`StoredHolds`: only the
point of an open bar may be ahead of the clock, and only one from before the process
while the stream is out of realtime), for the intervals in the queue (`QueueHolds`:
from the first bar to a clock this process saw, and no candle beyond) and for the pass
at each of its transactions (`PassHolds`). Without the last two an audit could report
an interval as whole that has a hole beyond its end; with them an admission is proven
in every track of the stream (`PassProves`).

`PublicationProofs` proves of `BarPublication`: the type invariant, `FrontiersProven`,
`SentIsWhole`, `PendingIsOwned` and `SendIsObserved`. `PubInv`
adds that a window a recovery may be asked for starts where all before it is stored
(`Sound`), that no hint lies beyond the bar after the proven ones (`HintsHold`) - with
both, a restored window extends the frontier without a jump - and what the worker and
the attempt know at each step (`WorkerHolds`, `AttemptHolds`). For `SendIsObserved`
`WorkerHolds` says besides that a remembered cancellation belongs to a wait for a POST:
a worker that leaves that wait and was cancelled therefore ends.

`BackfillProofs` proves `PreparedIsWhole` of `DatabaseSchema`, and of
`OperatorBackfill` the type invariant with the windows budget, `CompleteIsLoaded` and
`KeepsHistory`, the refinement of `LoadedHistory`. `BackInv` says of every row that
neither cursor nor bound lies beyond the first bar REST has (`RowsHold`), of the
command how its budget is split between search and load (`BudgetHolds`) and what the
stream in turn looks like (`TurnHolds`), and that every stream whose turn is over has
both ends of its history as long as the report still says "complete" (`ReportHolds`).

`ServiceProofs` proves of `ServiceProcess` the type invariant, `ReadyIsSubscribed` and
`FatalIsTold`. The status store lags behind the facts by the streams its sweep has not
visited, so `ShownHolds` says that what is shown as ready is subscribed except for
those, and but for the close of a session; `SweepHolds` ties a sweep to the task that waits for it, `ConnHolds` the
supervisor's facts to the session, and `PhaseHolds`, `GroupHolds` and `ToldHolds`
carry an error from the task that raised it to the exit code and the health document.

Assumptions on constants, besides finite ranges: there is at least one stream
(`OrderAssumption`, `adapters/bybit/websocket/topics.py:32`), at least one coverage and
none without a stream (`CoverageAssumption`,
`application/multi_stream_backfill.py:69` and `domain/instruments.py:50`),
the clock has shown one closed bar (`TimeAssumption`, `SchemaBoundAssumption`), and a
range for backfill is not empty (`RangeAssumption`). TLC evaluates each of them on the
constants of the runs.

Only model-checked: `RetryMeansProgress` of `HistoricalReconciliation`, which compares
progress markers across passes and needs an invariant that ties each marker to the
bars that were missing when it was taken; and all liveness, which is out of TLAPS's
reach: `RecoveryEnds`, `AllAdmitted`, `CatchesUp`, `ShutdownEnds`, `AllLoaded`,
`ReconnectBudget`, `ProcessEnds`.

## Plan

1. (done) `RealtimeRecovery`, its invariant, runs and first theorems.
2. (done) `CanonicalStore` and `CanonicalIngestion`, with the refinement proved, and
   `ConsumerRead` on top of them.
3. (done) `GapPlanning`, proved.
4. (done) `HistoricalReconciliation` with crashes and both tracks.
5. (done) `BarPublication`: queue, publication, prefetch and two-track recovery.
6. (done) `DatabaseSchema`, `RestSource`, `OperatorBackfill` and `LoadedHistory`.
7. (done) `ServiceProcess`.
8. (done) The proofs of the safety properties of all modules, except
   `RetryMeansProgress`.
9. `RetryMeansProgress`: a marker covers the bars that were missing when it was taken,
   so a pass that reports less, or no missing bar the same, has made progress or met
   the same state. `HistInv` has to be extended by a part that says so of every marker
   in the queue and of the pass in progress.
10. An abstract readiness specification that `RealtimeRecovery` implements, and the
    composition of `ServiceProcess` with it.

## Not modelled

SQLite's own atomicity and locking (one immediate transaction at a time), the parsing of
Bybit's payloads and the signing and heartbeats of its connections, the routes and
serialisation of the HTTP server, the stream-bounds document (one read of one snapshot),
the construction of objects and settings, diagnostics, and smoke checks.

Within `RealtimeRecovery`: shutdown (in `ServiceProcess`), the open-interest track inside
an attempt (in `BarPublication`), a storage exception in `mark_unavailable` (outside the
coordinator's `try`), clocks that differ by two bars or more, and interference between
streams (streams share only the operation gate, which the model lets be slow).

Within `HistoricalReconciliation`: `schedule()` and `yield_to_gate`, which the runtime
does not use; quarantined points; and the instrument metadata behind the launch time,
whose failure is a probe's failure. Realtime enters only as the competitor for the
operation gate and as the writer of points ahead of the audit.

Within `OperatorBackfill`: delays between attempts, the text of the report, a second
command or the service writing the same stream meanwhile (`Ingestion` has concurrent
writers of one stream), and more than one crash.

Within `ServiceProcess`: what recovery and the historical worker do (they have their own
modules), the HTTP server's data routes, and the durable lifecycle, which follows the
facts in the same sweep.

Within `ConsumerRead`: paging limits and the error documents; open interest, which is not
part of the hash.

Within `BarPublication`: other streams (they share the queue and its worker, which
makes a stream's wait longer), the delays of prefetch and backoff, and the POST's
result, which changes nothing but a log line.
