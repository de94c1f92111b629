----------------------------- MODULE RestSource -----------------------------
(***************************************************************************)
(* One request of the Bybit REST adapter: the transport is asked again     *)
(* after an HTTP failure, until its attempts are spent; an answer ends the *)
(* request, whatever its retCode.  How long it sleeps between two attempts *)
(* is left out.                                                            *)
(***************************************************************************)
EXTENDS Integers

CONSTANT RetryAttempts \* retry_attempts

ASSUME RetryAssumption == RetryAttempts \in Nat

VARIABLE rest          \* the attempt in progress

Smaller(a, b) == IF a < b THEN a ELSE b
Larger(a, b) == IF a > b THEN a ELSE b

Attempts == Larger(1, RetryAttempts)
Fresh == 1

\* The loop of _get_json_with_retry has another attempt.
AttemptLeft == rest < Attempts

\* The transport raises BybitHttpError and the loop of _get_json_with_retry goes
\* on.
RestRetries ==
    /\ AttemptLeft
    /\ rest' = rest + 1

\* The request ends with rows ("rows") or with an exception: "http", when no
\* attempt is left; "transient", a retCode that _extract_rows raises for after
\* the loop, so that it is never retried here; "fatal", any other retCode or a
\* payload that cannot be read.
RestEnds(how) ==
    /\ how = "http" => rest = Attempts
    /\ rest' = Fresh

\* isinstance(exc, RecoverableMarketDataFailure).
FailureClass(how) == IF how \in {"http", "transient"} THEN "recoverable" ELSE "fatal"
=============================================================================
