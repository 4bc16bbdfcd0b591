----------------------------- MODULE BrokerSession -----------------------------
(***************************************************************************)
(* SimulatedBrokerSession: connection state, the lifecycle of the orders   *)
(* the venue accepted, and the event log.  A transition that does not fit  *)
(* the order's state returns false and changes nothing, which is no step.  *)
(*                                                                         *)
(* Left out: the order data and times that events copy, and the log's      *)
(* checksum.                                                               *)
(***************************************************************************)
EXTENDS Integers, SequencesExt

CONSTANTS
  OrderIds,             \* exchange order ids
  cancelOnDisconnect,   \* cancel_on_disconnect_
  MaxEvents             \* bound: events logged

VARIABLES
  up,       \* state_ is Connected
  orders,   \* orders_: exchange order id to BrokerOrderState
  counts,   \* canceled_order_count_, filled_order_count_, cancel_reject_count_
  events    \* events_: type and order id, 0 for session events

vars == <<up, orders, counts, events>>

Init ==
  /\ up = FALSE
  /\ orders = <<>>
  /\ counts = [canceled |-> 0, filled |-> 0, rejected |-> 0]
  /\ events = <<>>

Event(type, id) == [type |-> type, id |-> id]

\* record_event of several events
Record(new) ==
  /\ Len(events) < MaxEvents
  /\ events' = events \o new

-------------------------------------------------------------------------------
(* Connection.                                                             *)

Connect ==
  /\ ~ up
  /\ up' = TRUE
  /\ Record(<<Event("Connect", 0)>>)
  /\ UNCHANGED <<orders, counts>>

Reconnect ==
  /\ ~ up
  /\ up' = TRUE
  /\ Record(<<Event("Reconnect", 0)>>)
  /\ UNCHANGED <<orders, counts>>

In(states) == {id \in DOMAIN orders : orders[id] \in states}

\* The orders a disconnect requests to cancel: those not yet asked to.
AllLive   == In({"Accepted", "PendingCancel"})   \* mutation: asks twice
ToCancel  == IF cancelOnDisconnect THEN In({"Accepted"}) ELSE {}
Requested == [id \in DOMAIN orders |->
                IF id \in ToCancel THEN "PendingCancel" ELSE orders[id]]

\* live_ids, sorted
Ascending(ids) ==
  CHOOSE s \in [1 .. Cardinality(ids) -> ids] :
    \A j, k \in DOMAIN s : j < k => s[j] < s[k]

Disconnect ==
  /\ up
  /\ up' = FALSE
  /\ orders' = Requested
  /\ Record(<<Event("Disconnect", 0)>> \o
            [k \in 1 .. Cardinality(ToCancel) |->
               Event("CancelRequested", Ascending(ToCancel)[k])])
  /\ UNCHANGED counts

-------------------------------------------------------------------------------
(* Orders.                                                                 *)

OnOrderAccepted(id) ==
  /\ up /\ id # 0 /\ id \notin DOMAIN orders
  /\ orders' = [other \in DOMAIN orders \cup {id} |->
                  IF other = id THEN "Accepted" ELSE orders[other]]
  /\ Record(<<Event("OrderAccepted", id)>>)
  /\ UNCHANGED <<up, counts>>

\* A transition of an order from one of some states, with its event.
Move(id, from, to, event) ==
  /\ id \in In(from)
  /\ orders' = [orders EXCEPT ![id] = to]
  /\ Record(<<Event(event, id)>>)
  /\ UNCHANGED up

RequestCancel(id) ==
  /\ Move(id, {"Accepted"}, "PendingCancel", "CancelRequested")
  /\ UNCHANGED counts

AcknowledgesAny(id) ==   \* mutation: also of what has been filled
  /\ Move(id, {"PendingCancel", "Filled"}, "Canceled", "CancelAcknowledged")
  /\ counts' = [counts EXCEPT !.canceled = @ + 1]
AcknowledgeCancel(id) ==
  /\ Move(id, {"PendingCancel"}, "Canceled", "CancelAcknowledged")
  /\ counts' = [counts EXCEPT !.canceled = @ + 1]

RejectCancel(id) ==
  /\ Move(id, {"PendingCancel"}, "Accepted", "CancelRejected")
  /\ counts' = [counts EXCEPT !.rejected = @ + 1]

\* A fill may come while a cancel is pending.
OnOrderFilled(id) ==
  /\ Move(id, {"Accepted", "PendingCancel"}, "Filled", "OrderFilled")
  /\ counts' = [counts EXCEPT !.filled = @ + 1]

Next ==
  \/ Connect \/ Reconnect \/ Disconnect
  \/ \E id \in OrderIds :
        \/ OnOrderAccepted(id) \/ RequestCancel(id) \/ AcknowledgeCancel(id)
        \/ RejectCancel(id) \/ OnOrderFilled(id)

Spec == Init /\ [][Next]_vars

-------------------------------------------------------------------------------
(* Properties.                                                             *)

\* What an event says of its subject, the session or an order, from then on, and
\* what it presupposes.
StateAfter ==
  [Connect |-> "Up", Reconnect |-> "Up", Disconnect |-> "Down",
   OrderAccepted |-> "Accepted", CancelRequested |-> "PendingCancel",
   CancelAcknowledged |-> "Canceled", CancelRejected |-> "Accepted",
   OrderFilled |-> "Filled"]
Presupposes ==
  [Connect |-> {"None", "Down"}, Reconnect |-> {"None", "Down"}, Disconnect |-> {"Up"},
   OrderAccepted |-> {"None"}, CancelRequested |-> {"Accepted"},
   CancelAcknowledged |-> {"PendingCancel"}, CancelRejected |-> {"PendingCancel"},
   OrderFilled |-> {"Accepted", "PendingCancel"}]

\* What the first n events of a log say of a subject, and how many are of a type.
About(log, id, n) == {k \in 1 .. n : log[k].id = id}
SaidOf(log, id, n) ==
  IF About(log, id, n) = {} THEN "None"
  ELSE StateAfter[log[Max(About(log, id, n))].type]
Count(log, type) == Cardinality({k \in DOMAIN log : log[k].type = type})

\* "A lifecycle is a reproducible artifact": connection, orders and counters can
\* be read off the event log, in which each event fits what was said before: no
\* cancel is requested twice, rejected or acknowledged only what was requested.
LogTellsAll ==
  /\ up = (SaidOf(events, 0, Len(events)) = "Up")
  /\ DOMAIN orders = {events[k].id : k \in DOMAIN events} \ {0}
  /\ \A id \in DOMAIN orders : orders[id] = SaidOf(events, id, Len(events))
  /\ \A k \in DOMAIN events :
        SaidOf(events, events[k].id, k - 1) \in Presupposes[events[k].type]
  /\ counts = [canceled |-> Count(events, "CancelAcknowledged"),
               filled   |-> Count(events, "OrderFilled"),
               rejected |-> Count(events, "CancelRejected")]

\* A canceled or filled order stays so, whatever comes late.
FinalIsFinal ==
  [][\A id \in In({"Canceled", "Filled"}) : orders'[id] = orders[id]]_vars
===============================================================================
