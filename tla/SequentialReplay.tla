--------------------------- MODULE SequentialReplay ---------------------------
(***************************************************************************)
(* ReplayEngine::replay_events, the single-thread reference: apply the     *)
(* events in order until one is refused, then finalize.  Events are the    *)
(* positions 1 .. NumEvents of the stream.                                 *)
(*                                                                         *)
(* A lossy replay is given the stream with events missing: at a hole it    *)
(* halts, or reaches the end when everything after the hole is missing.    *)
(***************************************************************************)
EXTENDS Naturals, Sequences

CONSTANT NumEvents   \* length of the preloaded stream

VARIABLES
  fatal,       \* events replay_step refuses: validation or the book fails
  lossy,       \* events may be missing from the stream
  applied,     \* events applied to the book so far
  phase        \* "streaming", "halted", "ended", or "finalized"

inputs == <<fatal, lossy>>
vars == <<inputs, applied, phase>>

NextEvent == Len(applied) + 1

Init == /\ fatal \subseteq 1 .. NumEvents
        /\ lossy \in BOOLEAN
        /\ applied = <<>>
        /\ phase = "streaming"

Apply == /\ phase = "streaming"
         /\ NextEvent \in (1 .. NumEvents) \ fatal
         /\ applied' = Append(applied, NextEvent)
         /\ UNCHANGED <<inputs, phase>>

Halt == /\ phase = "streaming"
        /\ NextEvent \in fatal \/ lossy
        /\ phase' = "halted"
        /\ UNCHANGED <<inputs, applied>>

End == /\ phase = "streaming"
       /\ NextEvent = NumEvents + 1 \/ lossy
       /\ phase' = "ended"
       /\ UNCHANGED <<inputs, applied>>

Finalize == /\ phase \in {"halted", "ended"}
            /\ phase' = "finalized"
            /\ UNCHANGED <<inputs, applied>>

Next == Apply \/ Halt \/ End \/ Finalize

\* What may be applied, and when it may stop; it does go on.
Safety == Init /\ [][Next]_vars
Spec == Safety /\ WF_vars(Next)
===============================================================================
