----------------------------- MODULE BoundedFifo -----------------------------
(***************************************************************************)
(* What a single-producer / single-consumer queue promises its clients: a  *)
(* bounded, lossless first-in first-out channel.  The whole history is     *)
(* kept: sent holds every item whose push succeeded, received every item   *)
(* a pop has returned.  The queue's content is sent without received.      *)
(***************************************************************************)
EXTENDS Naturals, Sequences

CONSTANTS
  Capacity,   \* most items the channel holds at once
  Items       \* what can be sent

VARIABLES sent, received

vars == <<sent, received>>

Init == /\ sent = <<>>
        /\ received = <<>>

\* An item enters only when there is room for it.
Send(item) == /\ Len(sent) - Len(received) < Capacity
              /\ sent' = Append(sent, item)
              /\ UNCHANGED received

\* The item that leaves is the oldest one still inside.
Receive == /\ Len(received) < Len(sent)
           /\ received' = Append(received, sent[Len(received) + 1])
           /\ UNCHANGED sent

Next == \/ \E item \in Items : Send(item)
        \/ Receive

Spec == Init /\ [][Next]_vars
=============================================================================
