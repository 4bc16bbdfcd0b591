---------------------------- MODULE InferencePolicy ----------------------------
(***************************************************************************)
(* InferencePolicy: evaluate_inference_policy, which every score and every *)
(* observation of the gate goes through.                                   *)
(***************************************************************************)
EXTENDS Integers

\* A signal with no timestamp, or with one that is still to come, is not late.
Late(policy, signal, now) ==
  policy.maxAge > 0 /\ signal > 0 /\ now >= signal /\ now - signal > policy.maxAge

Evaluate(policy, latency, signal, now) ==
  LET timedOut == policy.timeout > 0 /\ latency > policy.timeout
      late     == Late(policy, signal, now)
  IN  [timedOut |-> timedOut, late |-> late, modelDisabled |-> FALSE,
       accepted |-> ~ (timedOut /\ policy.dropTimedOut) /\ ~ (late /\ policy.dropLate),
       decision |-> CASE timedOut /\ late   -> "TimeoutAndLateSignal"
                      [] timedOut /\ ~ late -> "Timeout"
                      [] late /\ ~ timedOut -> "LateSignal"
                      [] OTHER              -> "Accept"]
===============================================================================
