---------------------------- MODULE MCGatedMatching ----------------------------
(***************************************************************************)
(* GatedMatching for TLC: one symbol, two prices, two quantities, two      *)
(* clients; limits with and without self-trade prevention at the gateway.  *)
(***************************************************************************)
EXTENDS GatedMatching

Limits(stp) ==
  [maxOrder |-> 2, maxNotional |-> 10, maxPosition |-> 10, maxGross |-> 10,
   band |-> 1, staleAfter |-> 0, maxOpen |-> 3, maxMessages |-> 0, window |-> 0,
   mode |-> "FixedWindow", stp |-> stp, cancelOnDisconnect |-> TRUE,
   whenDown |-> "RejectNewOrders"]

Preventing == {Limits(TRUE)}
Permitting == {Limits(FALSE)}

Request(side, price, quantity, client, tif, postOnly) ==
  [symbol |-> Symbol, client |-> client, side |-> side, type |-> "Limit",
   price |-> price, quantity |-> quantity, tif |-> tif, postOnly |-> postOnly]

MCRequests ==
  {Request(side, price, 1, 1, "Gtc", FALSE) :
     side \in {"Buy", "Sell"}, price \in {1, 2}}
    \cup {Request(side, price, 2, 2, "Gtc", FALSE) :
            side \in {"Buy", "Sell"}, price \in {1, 2}}
    \cup {Request("Buy", 2, 2, 2, "Ioc", FALSE), Request("Sell", 1, 1, 1, "Gtc", TRUE)}

\* Client order ids are only compared, so fresh ones are used in order.
FreshInOrder == used = 1 .. Cardinality(used)
===============================================================================
