-------------------------- MODULE StreamLifecycle --------------------------
(***************************************************************************)
(* The persisted lifecycle of one candle stream (domain/stream_state.py):  *)
(* the state names, the transition table, and the guard every use case     *)
(* passes through before it writes a new state.  Constant-level operators  *)
(* shared by every module that writes a stream's durable state.            *)
(***************************************************************************)

LifecycleStates == {"uninitialized", "bootstrapping", "auditing", "repairing",
                    "connecting", "ready", "degraded", "failed"}

\* _ALLOWED_TRANSITIONS, one row per state.
Allowed ==
    [ uninitialized |-> {"bootstrapping", "failed"},
      bootstrapping |-> {"auditing", "degraded", "failed"},
      auditing      |-> {"repairing", "connecting", "degraded", "failed"},
      repairing     |-> {"auditing", "degraded", "failed"},
      connecting    |-> {"ready", "degraded", "failed"},
      ready         |-> {"degraded", "failed"},
      degraded      |-> {"bootstrapping", "auditing", "connecting", "failed"},
      failed        |-> {"uninitialized", "auditing"} ]

\* transition_stream_state raises InvalidStreamTransition unless this holds.
\* No row contains its own state, so "already in state" is covered.
CanTransition(current, target) == target \in Allowed[current]
=============================================================================
