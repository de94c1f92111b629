-------------------------- MODULE OperatorBackfill --------------------------
(***************************************************************************)
(* The operator's backfill command: bounded loading of history, for all    *)
(* streams or for one, run again and again.  Each run verifies instruments *)
(* over REST, prepares the database, looks for the lower bound behind a    *)
(* durable cursor, and loads windows after the newest committed bar until  *)
(* its window budget is spent.  The process may end anywhere.              *)
(*                                                                         *)
(* Times are bars: bars 0..now-1 have closed, and first[s] is the first    *)
(* bar of which REST has a valid row; those below are missing or fail      *)
(* validation, whenever they are asked for.                                *)
(***************************************************************************)
EXTENDS DatabaseSchema, RestSource

CONSTANTS
    Coverages,  \* enabled instruments, each the sequence of its streams
    MaxCandles, \* bars per REST window
    MaxWindows, \* --max-windows
    Faults,     \* how REST requests may fail
    MaxCrashes, \* bound: ends of a running command
    Ranges,     \* the --start and --end an operator may give
    Firsts      \* the first bars with a valid row

ASSUME CoverageAssumption ==
    /\ Coverages \in Seq(Seq(Streams))
    /\ Coverages # <<>>
    /\ \A i \in DOMAIN Coverages : Coverages[i] # <<>>
    /\ Streams = UNION {{Coverages[i][j] : j \in DOMAIN Coverages[i]} : i \in DOMAIN Coverages}
ASSUME WindowAssumption == MaxCandles \in Nat \ {0} /\ MaxWindows \in Nat \ {0}
ASSUME FaultAssumption == Faults \subseteq {"http", "transient", "fatal"}
ASSUME CommandAssumption == "command" \in Processes /\ MaxCrashes \in Nat
ASSUME RangeAssumption == \A r \in Ranges : r[1] \in Nat /\ r[2] \in 0..MaxNow /\ r[1] < r[2]
ASSUME FirstAssumption == Firsts \subseteq [Streams -> 0..(MaxNow - 1)]

VARIABLES
    now,     \* the clock: bars that have closed
    first,   \* the first bar with a valid row of each stream
    cmd,     \* the command in progress
    crashes  \* bound on Crash

vars == <<schema, rows, boot, rest, now, first, cmd, crashes>>
durable == <<schema, rows>>
outside == <<now, first, crashes>>

\* pc: the next transaction or request; cov, pos: the stream in turn; probes:
\* discovery_windows_used; left: windows the load may still ask for; asked: all
\* windows asked for this stream; start, at, end: of the search or the load;
\* class: of the failure to record; status, error: of the whole command; since:
\* the clock when it started.
Commands == [kind : {"all", "one", "range"},
             pc : {"idle", "verify", "prepare", "register", "ensure", "resolve",
                   "probe", "plan", "begin", "load", "finish", "failure", "report"},
             cov : DOMAIN Coverages, pos : Nat, probes : 0..MaxWindows,
             left : 0..MaxWindows, asked : 0..MaxWindows, start : 0..MaxNow,
             at : 0..MaxNow, end : 0..MaxNow,
             class : {"none", "recoverable", "fatal", "unavailable"},
             status : {"complete", "incomplete", "failed"}, error : BOOLEAN,
             since : 0..MaxNow]
Idle == [kind |-> "all", pc |-> "idle", cov |-> 1, pos |-> 1, probes |-> 0,
         left |-> 0, asked |-> 0, start |-> 0, at |-> 0, end |-> 0,
         class |-> "none", status |-> "complete", error |-> FALSE, since |-> 0]

S == Coverages[cmd.cov][cmd.pos]
Row == rows[S]
Latest(row) == CHOOSE b \in row.candles \cup {NoBar} : \A c \in row.candles : c <= b
Available(s) == first[s]..(now - 1)
Goes(pc) == cmd' = [cmd EXCEPT !.pc = pc]
CmdAt(pc) == cmd.pc = pc

Init ==
    /\ SchemaInit
    /\ rest = Fresh
    /\ now \in 1..MaxNow
    /\ first \in Firsts
    /\ \A s \in Streams : rows[s] # NoRow => first[s] = 0
    /\ cmd = Idle
    /\ crashes = 0

-----------------------------------------------------------------------------
(* The operator and the clock.                                             *)

Tick ==
    /\ now < MaxNow
    /\ now' = now + 1
    /\ UNCHANGED <<durable, boot, rest, first, cmd, crashes>>

Start(command) ==
    /\ CmdAt("idle")
    /\ cmd' = [command EXCEPT !.pc = "verify"]
    /\ UNCHANGED <<durable, boot, rest, outside>>

\* backfill --all --full.
StartAll == Start([Idle EXCEPT !.since = now])

\* backfill --ticker --full, and backfill --ticker --start --end.
StartOne ==
    \E i \in DOMAIN Coverages : \E j \in DOMAIN Coverages[i] :
        \/ Start([Idle EXCEPT !.kind = "one", !.cov = i, !.pos = j])
        \/ \E r \in Ranges :
              Start([Idle EXCEPT !.kind = "range", !.cov = i, !.pos = j,
                                 !.start = r[1], !.end = r[2], !.left = MaxWindows])

\* The command is killed.
Crash ==
    /\ ~CmdAt("idle") /\ crashes < MaxCrashes
    /\ crashes' = crashes + 1
    /\ cmd' = Idle
    /\ rest' = Fresh
    /\ boot' = [boot EXCEPT !["command"] = Off]
    /\ UNCHANGED <<durable, now, first>>

-----------------------------------------------------------------------------
(* BackfillAllConfiguredStreams.execute, and _run_one.                     *)

\* The next stream of the coverage, or the next coverage, or the end.
NextStream(status, error) ==
    LET turn == [Idle EXCEPT !.since = cmd.since, !.cov = cmd.cov, !.pos = cmd.pos,
                   !.kind = cmd.kind, !.error = cmd.error \/ error,
                   !.status = IF status = "complete" THEN cmd.status ELSE status]
    IN  cmd' =
          IF cmd.kind # "all" \/ status = "failed"
          THEN [turn EXCEPT !.pc = "report"]
          ELSE IF cmd.pos < Len(Coverages[cmd.cov])
          THEN [turn EXCEPT !.pos = @ + 1, !.pc = "prepare"]
          ELSE IF cmd.cov < Len(Coverages)
          THEN [turn EXCEPT !.cov = @ + 1, !.pos = 1, !.pc = "verify"]
          ELSE [turn EXCEPT !.pc = "report"]

\* A failed verification leaves every stream of the coverage out.
SkipCoverage(class) ==
    LET turn == [cmd EXCEPT !.error = TRUE,
                   !.status = IF class = "fatal" THEN "failed" ELSE "incomplete"]
    IN  cmd' = IF class = "fatal" \/ cmd.kind # "all" \/ cmd.cov = Len(Coverages)
               THEN [turn EXCEPT !.pc = "report"]
               ELSE [turn EXCEPT !.cov = @ + 1, !.pos = 1]

\* VerifyConfiguredInstrumentMetadata; the answer also fills the cache that
\* get_launch_time_ms is served from.
VerifyMetadata ==
    /\ CmdAt("verify")
    /\ RestEnds("rows")
    /\ Goes("prepare")
    /\ UNCHANGED <<durable, boot, outside>>

\* The request fails, or the instrument is not the configured one ("fatal").
VerifyFails(how) ==
    /\ CmdAt("verify")
    /\ RestEnds(how)
    /\ SkipCoverage(FailureClass(how))
    /\ UNCHANGED <<durable, boot, outside>>

\* _prepare_stream: initialize_database, once for every stream.
PrepareStarts ==
    /\ CmdAt("prepare")
    /\ StartBoot("command")
    /\ Goes("register")
    /\ UNCHANGED <<rest, outside>>

Preparing ==
    /\ CmdAt("register")
    /\ BootStep("command")
    /\ UNCHANGED <<rest, outside, cmd>>

\* The exception leaves the command.
PrepareFails ==
    /\ CmdAt("register")
    /\ At("command", "failed")
    /\ cmd' = [cmd EXCEPT !.pc = "report", !.status = "failed", !.error = TRUE]
    /\ UNCHANGED <<durable, boot, rest, outside>>

Register ==
    /\ CmdAt("register")
    /\ RegisterStream("command", S)
    /\ Goes(IF cmd.kind = "range" THEN "begin" ELSE "ensure")
    /\ UNCHANGED <<rest, outside>>

\* The result is printed and the process exits.
Report ==
    /\ CmdAt("report")
    /\ cmd' = Idle
    /\ boot' = [boot EXCEPT !["command"] = Off]
    /\ UNCHANGED <<durable, rest, outside>>

-----------------------------------------------------------------------------
(* BootstrapFullStreamHistory.execute, one transaction or request at a     *)
(* time.                                                                   *)

InCommand == UNCHANGED <<schema, boot, rest, outside>>

\* _ensure_bootstrapping.
Ensured(row) == IF row.state \in {"uninitialized", "degraded"}
                THEN [row EXCEPT !.state = "bootstrapping"] ELSE row

EnsureBootstrapping ==
    /\ CmdAt("ensure")
    /\ rows' = [rows EXCEPT ![S] = Ensured(@)]
    /\ Goes("resolve")
    /\ InCommand

\* ResolveHistoricalLowerBound.execute up to its first probe.
ResolveLowerBound ==
    /\ CmdAt("resolve")
    /\ LET from == IF Row.cursor = NoBar THEN 0 ELSE Row.cursor
       IN  \/ Row.earliest # NoBar /\ Goes("plan")
           \/ Row.earliest = NoBar /\ from >= now /\ NextStream("incomplete", FALSE)
           \/ /\ Row.earliest = NoBar /\ from < now
              /\ cmd' = [cmd EXCEPT !.pc = "probe", !.at = from, !.end = now]
    /\ UNCHANGED rows
    /\ InCommand

WindowEnd == Smaller(cmd.at + MaxCandles, cmd.end)
Window == cmd.at..(WindowEnd - 1)
Probing == CmdAt("probe") /\ cmd.probes < MaxWindows /\ cmd.at < cmd.end

\* Mutant of AdvancedCursor: the cursor moves to the end of the search.
AdvancedCursorToEnd == cmd.end

AdvancedCursor == WindowEnd

\* One probe of the search, answered with every valid row of its window; rows
\* that fail validation beside valid ones are passed over.
Probe ==
    /\ Probing
    /\ RestEnds("rows")
    /\ LET found == Available(S) \cap Window
           turn == [cmd EXCEPT !.probes = @ + 1, !.asked = @ + 1]
       IN  \/ /\ found = {}
              /\ rows' = [rows EXCEPT ![S].cursor = AdvancedCursor]
              /\ cmd' = [turn EXCEPT !.at = WindowEnd]
           \/ \E bar \in found :
                 /\ \A b \in found : bar <= b
                 /\ rows' = [rows EXCEPT ![S].earliest = bar, ![S].cursor = NoBar]
                 /\ cmd' = [turn EXCEPT !.pc = "plan"]
    /\ UNCHANGED <<schema, boot, outside>>

\* Rows, none of them valid: HistoricalLowerBoundUnavailable.
ProbeUnavailable ==
    /\ Probing
    /\ "fatal" \in Faults /\ Available(S) \cap Window # {}
    /\ RestEnds("rows")
    /\ cmd' = [cmd EXCEPT !.pc = "failure", !.class = "unavailable", !.asked = @ + 1]
    /\ UNCHANGED <<durable, boot, outside>>

ProbeFails(how) ==
    /\ Probing
    /\ RestEnds(how)
    /\ cmd' = [cmd EXCEPT !.pc = "failure", !.class = FailureClass(how), !.asked = @ + 1]
    /\ UNCHANGED <<durable, boot, outside>>

\* Without a bound the result is incomplete, the stream stays bootstrapping.
ProbeEnds ==
    /\ CmdAt("probe")
    /\ cmd.probes >= MaxWindows \/ cmd.at >= cmd.end
    /\ NextStream("incomplete", FALSE)
    /\ UNCHANGED rows
    /\ InCommand

\* Mutant of RemainingBudget: the load has the whole budget.
RemainingBudgetWhole == MaxWindows

RemainingBudget == MaxWindows - cmd.probes

\* The target is the clock's, the budget what the search left.
Plan ==
    /\ CmdAt("plan")
    /\ IF RemainingBudget <= 0
       THEN NextStream("incomplete", FALSE)
       ELSE cmd' = [cmd EXCEPT !.pc = "begin", !.start = Row.earliest, !.end = now,
                               !.left = RemainingBudget]
    /\ UNCHANGED rows
    /\ InCommand

-----------------------------------------------------------------------------
(* BackfillStreamHistory.execute.                                          *)

\* Mutant of ResumeStart: every run loads from the start again.
ResumeStartOver == cmd.start

\* _resume_start.
ResumeStart == Larger(cmd.start, Latest(Row) + 1)

\* _ensure_bootstrapping, then _resume_start.
Begin ==
    /\ CmdAt("begin")
    /\ rows' = [rows EXCEPT ![S] = Ensured(@)]
    /\ cmd' = IF ResumeStart >= cmd.end THEN [cmd EXCEPT !.pc = "finish"]
              ELSE [cmd EXCEPT !.pc = "load", !.at = ResumeStart]
    /\ InCommand

Loading == CmdAt("load") /\ cmd.left > 0 /\ cmd.at < cmd.end

\* One window: the adapter's rows, filtered to the window and to closed bars,
\* ingested in one transaction; REST may serve only some of them.
LoadWindow(bars) ==
    /\ Loading
    /\ RestEnds("rows")
    /\ bars \subseteq (Available(S) \cap Window)
    /\ rows' = [rows EXCEPT ![S].candles = @ \cup bars]
    /\ cmd' = [cmd EXCEPT !.at = WindowEnd, !.left = @ - 1, !.asked = @ + 1]
    /\ UNCHANGED <<schema, boot, outside>>

LoadFails(how) ==
    /\ Loading
    /\ RestEnds(how)
    /\ cmd' = [cmd EXCEPT !.pc = "failure", !.class = FailureClass(how), !.asked = @ + 1]
    /\ UNCHANGED <<durable, boot, outside>>

\* The transport is asked again, for any of the three requests.
RequestRetried ==
    /\ CmdAt("verify") \/ Probing \/ Loading
    /\ "http" \in Faults
    /\ RestRetries
    /\ UNCHANGED <<durable, boot, outside, cmd>>

LoadEnds ==
    /\ CmdAt("load") /\ ~Loading
    /\ Goes("finish")
    /\ UNCHANGED rows
    /\ InCommand

\* Mutant of ReachedEnd: the windows ran out, so the end was reached.
ReachedEndOfWindows == cmd.at >= cmd.end \/ ResumeStart >= cmd.end

ReachedEnd == ResumeStart >= cmd.end

\* Progress is read again; only a bootstrapping stream moves to auditing.
Finish ==
    /\ CmdAt("finish")
    /\ rows' = IF ReachedEnd /\ Row.state = "bootstrapping"
               THEN [rows EXCEPT ![S].state = "auditing"] ELSE rows
    /\ NextStream(IF ReachedEnd THEN "complete" ELSE "incomplete", FALSE)
    /\ InCommand

\* A failure of the search other than HistoricalLowerBoundUnavailable has no
\* failure_disposition, and so does not stop the command.
InSearch == cmd.left = 0
Stops == cmd.class = "unavailable" \/ (cmd.class = "fatal" /\ ~InSearch)

\* record_stream_failure; a move the table forbids leaves the state.
RecordFailure ==
    /\ CmdAt("failure")
    /\ LET target == IF cmd.class = "recoverable" THEN "degraded" ELSE "failed"
       IN  rows' = IF CanTransition(Row.state, target)
                   THEN [rows EXCEPT ![S].state = target] ELSE rows
    /\ NextStream(IF Stops THEN "failed" ELSE "incomplete", TRUE)
    /\ InCommand

-----------------------------------------------------------------------------
Command ==
    \/ VerifyMetadata \/ PrepareStarts \/ Preparing \/ PrepareFails \/ Register
    \/ EnsureBootstrapping \/ ResolveLowerBound \/ ProbeEnds \/ Plan \/ Begin
    \/ LoadEnds \/ Finish \/ RecordFailure \/ Report
    \/ Probe \/ \E bars \in SUBSET Bars : LoadWindow(bars)
    \/ ProbeUnavailable \/ RequestRetried
    \/ \E how \in Faults : VerifyFails(how) \/ ProbeFails(how) \/ LoadFails(how)

Next == StartAll \/ StartOne \/ Command \/ Crash \/ Tick

Spec == Init /\ [][Next]_vars

\* The command goes on while it runs, the operator runs --all again and again,
\* and no request of these runs fails for ever.
Fairness ==
    /\ WF_vars(Command)
    /\ SF_vars(StartAll)
    /\ \A i \in DOMAIN Coverages : SF_vars(cmd.kind = "all" /\ cmd.cov = i /\ VerifyMetadata)
    /\ SF_vars(cmd.kind = "all" /\ Probe)
    /\ SF_vars(cmd.kind = "all" /\ LoadWindow(Available(S) \cap Window))

FairSpec == Spec /\ Fairness

-----------------------------------------------------------------------------
(* Properties.                                                             *)

\* Every variable stays in its domain: a request never has more attempts than
\* retry_attempts, no time leaves the clock, and the search and the load of a
\* stream together never ask for more windows than --max-windows.
BackfillTypeOK ==
    /\ SchemaTypeOK
    /\ rest \in 1..Attempts
    /\ now \in 1..MaxNow
    /\ first \in Firsts
    /\ cmd \in Commands
    /\ crashes \in 0..MaxCrashes

\* A command for all streams that reports "complete" has both ends of every
\* history: the lower bound is the first bar there is, the newest stored bar
\* reaches the clock the command started at, and no stream is left in
\* bootstrapping.  A hole in between is left to the audit.
CompleteIsLoaded ==
    CmdAt("report") /\ cmd.kind = "all" /\ cmd.status = "complete" =>
        \A s \in Streams : /\ rows[s].earliest = first[s]
                           /\ Latest(rows[s]) >= cmd.since - 1
                           /\ rows[s].state \in {"auditing", "failed"}

\* The command implements the promise of loading: append-only, window by
\* window, and the lower bound, once known, the first bar there is and for good,
\* whatever crash, failure, range command or migration came before.
Promise == INSTANCE LoadedHistory WITH
    loaded <- [s \in Streams |-> rows[s].candles],
    bound <- [s \in Streams |-> rows[s].earliest]
KeepsHistory == Promise!Spec

\* A file no start can use any more: its creation was cut off, or a migration
\* ran twice.
Unusable ==
    /\ "schema_meta" \in schema.tables
    /\ \/ ~(BaseTables \ {"ix_quarantine"} \subseteq schema.tables)
       \/ schema.version = "none"
       \/ schema.version # "3" /\ Tracks \cap schema.tables # {}

\* However often it is interrupted, running the command again loads every
\* stream that has bars up to the clock, unless a start spoiled the file.
AllLoaded ==
    <>[](\/ Unusable
         \/ \A s \in Streams : first[s] < now => Latest(rows[s]) = now - 1)
=============================================================================
