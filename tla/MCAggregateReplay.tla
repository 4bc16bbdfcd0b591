--------------------------- MODULE MCAggregateReplay --------------------------
(***************************************************************************)
(* The instance of AggregateReplay that is model-checked: two symbols and  *)
(* prices on either side of the middle, one per side.                      *)
(***************************************************************************)
EXTENDS AggregateReplay

\* Everything checked, or no more than the events themselves.
Strict == [sequences |-> TRUE, timestamps |-> TRUE, bookState |-> TRUE]
Lenient == [sequences |-> FALSE, timestamps |-> FALSE, bookState |-> FALSE]

\* A snapshot of one order takes an event to add it, one to begin and one to
\* end; the life cycle of two orders takes 16.
MCScenarios ==
  {[flow |-> "Venue", config |-> Strict, events |-> 4],
   [flow |-> "Venue", config |-> Lenient, events |-> 3],
   [flow |-> "MultiSymbol", config |-> Lenient, events |-> 3],
   [flow |-> "MultiSymbol", config |-> Strict, events |-> 3],
   [flow |-> "BurstyFlow", config |-> Strict, events |-> 3],
   [flow |-> "AdversarialLifecycle", config |-> Strict, events |-> 16]}
===============================================================================
