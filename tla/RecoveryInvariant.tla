------------------------- MODULE RecoveryInvariant -------------------------
(***************************************************************************)
(* The inductive invariant behind FrontierProven and ReadyIsContinuous of  *)
(* RealtimeRecovery.  Its parts say who, at every moment, still knows where *)
(* the oldest hole of the stream may be: the frontier, the intent's hint,  *)
(* its frozen window, or the latest pointer that the next plan starts at.  *)
(***************************************************************************)
EXTENDS RealtimeRecovery

\* The environment under which the frontier is sound: one REST window per
\* attempt, or no REST request that raises a recoverable failure.  With
\* neither, the retry plans beyond a hole (run FrozenInterval).
SafeBudget == MaxWindows = 1 \/ "recoverable" \notin Faults

Proven(b) == 0..(b - 1) \subseteq candles

\* Nothing knows of a bar that our clock has not reached.
Bounded ==
    /\ latest <= bar
    /\ facts.frontier <= bar
    /\ loop.open <= bar
    /\ intent.window.end <= bar + 1
    /\ thread.known <= bar
    /\ thread.window.end <= bar + 1
    /\ thread.todo \subseteq 0..bar

\* A live commit beyond the frontier whose outcome is not yet handled: the
\* one moment at which `latest` jumps a hole that no signal has reported.
GapInFlight ==
    /\ loop.pc = "outcome"
    /\ loop.class \in {"committed", "known"}
    /\ loop.open > facts.frontier + 1

\* The attempt may have moved `latest` over a hole of its own window, and is
\* bound to hand that window back.
Dirty ==
    \/ thread.used > 0
    \/ thread.pc \in {"postaudit", "target", "restore"}
    \/ thread.pc = "done" /\ thread.result # "recoverable"

\* Before the admission nobody but the historical worker writes the stream.
BeforeAdmission ==
    ~admitted =>
        /\ ~intent.exists
        /\ loop.pc \in {"idle", "sync", "down"}
        /\ loop.then = "idle"
        /\ durable \in {"bootstrapping", "connecting"}
        /\ Proven(latest + 1)
        /\ history = "proven" => latest # NoBar

AfterAdmission ==
    admitted => /\ history = "proven"
                /\ latest # NoBar
                /\ facts.frontier # NoBar

\* The attempt always works for the intent, and remembers what it was told.
AttemptOwned ==
    /\ thread.pc # "idle" => intent.exists
    /\ thread.used > 0 => thread.pc = "import"
    /\ thread.pc = "plan" => thread.known # NoBar
    /\ thread.pc = "done" => thread.result # "none"
    /\ thread.pc \in {"idle", "gate"}
          => thread.hint = NoBar /\ thread.window = NoWindow
    /\ thread.pc \in {"unavailable", "read", "plan"} /\ ~intent.revised
          => thread.hint = intent.hint /\ thread.window = intent.window
    /\ thread.pc \in {"read", "plan"} => thread.window = NoWindow
    /\ \/ thread.pc \in {"ensure", "repair", "audit", "repairing", "import",
                         "postaudit", "target", "restore"}
       \/ thread.pc = "done" /\ thread.result \in {"incomplete", "restored"}
       => thread.window # NoWindow

\* A bar that only the commit in flight explains is stored.
OutcomeStored ==
    loop.pc = "outcome" =>
        /\ loop.class # "none"
        /\ loop.class \in {"committed", "known"} => loop.open \in candles

\* An intent without a hint is the startup one: urgent, and never revised.
HintlessIntent ==
    intent.exists /\ intent.hint = NoBar => intent.urgent /\ ~intent.revised

\* Every bar below the frontier, below an intent's hint, and below its frozen
\* window is stored.
FrontierKnown == Proven(facts.frontier + 1)
HintKnown == intent.exists /\ intent.hint # NoBar => Proven(intent.hint)
FrozenKnown == intent.window # NoWindow => Proven(intent.window.start)

\* An intent with neither hint nor window will plan from `latest`.
LatestKnown ==
    intent.exists /\ intent.hint = NoBar /\ intent.window = NoWindow
        /\ ~Dirty /\ ~GapInFlight => Proven(latest + 1)

\* So will the one that the first subscription is about to raise.
StartKnown ==
    admitted /\ ~intent.exists /\ ~facts.restored /\ ~disconnected
        /\ ~GapInFlight => Proven(latest + 1)

\* What the attempt took with it stays proven, unless the intent was revised
\* since or is about to be.
ToldKnown == thread.hint # NoBar => Proven(thread.hint)
PlanKnown ==
    thread.pc = "plan" /\ thread.hint = NoBar /\ ~intent.revised
        /\ ~GapInFlight => Proven(thread.known + 1)
WindowKnown ==
    thread.window # NoWindow /\ ~intent.revised
        /\ ~(GapInFlight /\ intent.hint = NoBar)
        => Proven(thread.window.start)

\* Somebody knows the oldest hole, unless the stream is lost.
HoleKnown ==
    ~facts.fatal => /\ FrontierKnown /\ HintKnown /\ FrozenKnown
                    /\ LatestKnown /\ StartKnown
                    /\ ToldKnown /\ PlanKnown /\ WindowKnown

\* An attempt that found nothing missing was right, and stays right.
AuditHolds ==
    \/ thread.pc \in {"target", "restore"}
    \/ thread.pc = "done" /\ thread.result = "restored"
    => thread.window.start..(thread.window.end - 1) \subseteq candles

\* The whole invariant.
RecoveryInv ==
    /\ TypeOK
    /\ Bounded
    /\ BeforeAdmission
    /\ AfterAdmission
    /\ AttemptOwned
    /\ OutcomeStored
    /\ HintlessIntent
    /\ HoleKnown
    /\ AuditHolds
    /\ ReadyIsContinuous

-----------------------------------------------------------------------------
(* A second inductive invariant, which needs no safe budget: what an       *)
(* episode, from the signal that opens an intent to the result that ends   *)
(* it, owes to the rest of the runtime.                                    *)

\* Who owns a recovery: an intent means a stream that is not restored, an
\* attempt means an intent, and neither exists before the admission.  What the
\* sweep is about to write comes from its own facts.
EpisodeOwned ==
    /\ ~admitted => /\ ~intent.exists /\ ~facts.restored
                    /\ loop.pc \in {"idle", "sync", "down"} /\ loop.then = "idle"
    /\ intent.exists => ~facts.restored
    /\ thread.pc # "idle" => intent.exists
    /\ loop.target \in {"failed", "connecting", "ready", "degraded"}
    /\ loop.pc \in {"mark", "commit"} /\ loop.target \in {"connecting", "ready"}
          => DataReady(facts, loop.exp)

\* An attempt that is about to restore.
Restoring == thread.pc = "restore" \/ (thread.pc = "done" /\ thread.result = "restored")

\* A stale check that comes after the attempt's last look at the clock revises
\* the intent; one that came before asks for a bar inside the window.
CheckedHolds ==
    /\ facts.awaited < bar
    /\ facts.checked <= facts.frontier
    /\ intent.exists /\ intent.hint # NoBar => facts.pending
    /\ Restoring /\ ~intent.revised => facts.awaited < thread.window.end

\* Only a repair leaves `repairing`, and it does not end in it.
StateHolds ==
    /\ ~intent.exists /\ ~facts.fatal => durable \notin {"auditing", "repairing"}
    /\ thread.pc \in {"audit", "repairing", "postaudit", "target", "restore"}
          => durable # "repairing"
    /\ thread.pc = "done" /\ thread.result = "restored"
          => durable \notin {"auditing", "repairing"}

\* A bar of the window that our clock still shows open is already stored.
ClosedOrStored(w) == \A b \in w.start..(w.end - 1) : b < bar \/ b \in candles

\* A live commit whose outcome, and so its notification, is still to come.
CommitInFlight ==
    loop.pc = "outcome" /\ loop.class = "committed" /\ loop.open = latest

\* `latest` is the newest stored bar, and a repair brings in closed bars only.
StoredBelow ==
    /\ \A b \in candles : b <= latest
    /\ latest # NoBar => latest \in candles
    /\ thread.known # NoBar => thread.known \in candles
    /\ ClosedOrStored(intent.window)
    /\ ClosedOrStored(thread.window)
    /\ \A b \in thread.todo : b < bar

\* A committed bar that was not announced is in flight, or a repair brought it
\* in: then its episode remembers, and its window will reach it.
AnnounceHolds ==
    /\ thread.committed
          => thread.pc \in {"import", "postaudit", "target", "restore", "done"}
    /\ latest <= notified \/ latest < bar \/ CommitInFlight
    /\ \/ latest <= notified
       \/ CommitInFlight
       \/ facts.fatal
       \/ intent.exists /\ (intent.retry \/ thread.committed)
    /\ Restoring =>
          latest <= notified \/ latest < thread.window.end \/ CommitInFlight

EpisodeInv ==
    /\ EpisodeOwned
    /\ CheckedHolds
    /\ StateHolds
    /\ StoredBelow
    /\ AnnounceHolds
=============================================================================
