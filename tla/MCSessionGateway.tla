--------------------------- MODULE MCSessionGateway ---------------------------
(***************************************************************************)
(* SessionGateway for TLC: two orders of one client; the gateway refuses   *)
(* or lets through orders while it is disconnected.                        *)
(***************************************************************************)
EXTENDS SessionGateway

Limits(whenDown) ==
  [maxOrder |-> 1, maxNotional |-> 2, maxPosition |-> 2, maxGross |-> 2,
   band |-> 1, staleAfter |-> 0, maxOpen |-> 2, maxMessages |-> 0, window |-> 0,
   mode |-> "FixedWindow", stp |-> TRUE, cancelOnDisconnect |-> TRUE,
   whenDown |-> whenDown]

Refusing == {Limits("RejectNewOrders")}
Allowing == {Limits("AllowNewOrders")}

MCRequests ==
  {[client |-> 1, symbol |-> 1, side |-> "Buy", type |-> "Limit", price |-> 1,
    quantity |-> 1, tif |-> "Gtc", postOnly |-> FALSE]}

FreshInOrder == accepted = 1 .. Cardinality(accepted)
===============================================================================
