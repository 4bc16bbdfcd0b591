----------------------------- MODULE InferenceGate -----------------------------
(***************************************************************************)
(* InferenceGate: InferencePolicyGate, which turns a model off once too    *)
(* many of its signals in a row were late.                                 *)
(***************************************************************************)
EXTENDS InferencePolicy, Sequences

CONSTANTS
  Policies,      \* inference policies
  CounterMax,    \* UINT32_MAX
  Latencies,     \* observed latencies
  Times,         \* timestamps
  MaxObserved    \* bound on the observations between two resets

ASSUME CounterMaxAssumption == CounterMax \in Nat \ {0}
ASSUME PoliciesAssumption ==
  \A p \in Policies : p.maxLate \in 0 .. CounterMax /\ p.disables \in BOOLEAN

VARIABLES
  policy,        \* policy_
  consecutive,   \* consecutive_late_signals_
  disabled,      \* disabled_
  lates,         \* history: whether each signal since reset was late
  answer         \* what observe last returned, as a set of at most one

vars == <<policy, consecutive, disabled, lates, answer>>

Init ==
  /\ policy \in Policies
  /\ consecutive = 0 /\ disabled = FALSE
  /\ lates = <<>> /\ answer = {}

\* The counter after a signal.
CountsAll(late) ==   \* mutation: a signal in time does not start it again
  IF late /\ consecutive < CounterMax THEN consecutive + 1 ELSE consecutive
Counted(late) ==
  IF ~ late THEN 0
  ELSE IF consecutive < CounterMax THEN consecutive + 1 ELSE consecutive

Disables(count) == policy.disables /\ policy.maxLate > 0 /\ count >= policy.maxLate

Observe(latency, signal, now) ==
  LET result == Evaluate(policy, latency, signal, now)
  IN  /\ Len(lates) < MaxObserved
      /\ consecutive' = Counted(result.late)
      /\ disabled' = (disabled \/ Disables(consecutive'))
      /\ lates' = Append(lates, result.late)
      /\ answer' = {IF disabled'
                    THEN [result EXCEPT !.modelDisabled = TRUE, !.accepted = FALSE]
                    ELSE result}
      /\ UNCHANGED policy

Reset ==
  /\ consecutive' = 0 /\ disabled' = FALSE
  /\ lates' = <<>> /\ answer' = {}
  /\ UNCHANGED policy

Next ==
  \/ \E latency \in Latencies, signal \in Times, now \in Times :
       Observe(latency, signal, now)
  \/ Reset

Spec == Init /\ [][Next]_vars

-------------------------------------------------------------------------------
\* The n signals up to the k-th were all late.
AllLate(k, n) == k >= n /\ \A j \in 1 .. k : j > k - n => lates[j]

\* "Disables the model after this many consecutive late signals", and "once
\* disabled it abstains until reset": the model is disabled if and only if
\* somewhere since the last reset that many signals in a row were late, and then
\* nothing is accepted, whether or not the last signal was in time.
DisabledByRunOfLates ==
  /\ disabled <=> /\ policy.disables /\ policy.maxLate > 0
                  /\ \E k \in 1 .. Len(lates) : AllLate(k, policy.maxLate)
  /\ \A a \in answer : a.modelDisabled = disabled /\ (disabled => ~ a.accepted)
===============================================================================
