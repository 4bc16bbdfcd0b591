----------------------------- MODULE MCRiskGateway -----------------------------
(***************************************************************************)
(* RiskGateway for TLC: two clients, one symbol, prices 1 and 2, limits    *)
(* that change from a maximum of open quantity to a message rate.  The     *)
(* venue knows the order of client order id c as exchange order id 10 + c  *)
(* and reports it by the former, the latter or both; CancelId is the id of *)
(* a cancel request, which a venue may name in its reports and the gateway *)
(* has never seen.                                                         *)
(***************************************************************************)
EXTENDS RiskGateway

Limits(maxOpen, messages, stp) ==
  [maxOrder |-> 2, maxNotional |-> 3, maxPosition |-> 3, maxGross |-> 5,
   band |-> 1, staleAfter |-> 1, maxOpen |-> maxOpen, maxMessages |-> messages,
   window |-> 1, mode |-> "FixedWindow", stp |-> stp,
   cancelOnDisconnect |-> TRUE, whenDown |-> "RejectNewOrders"]

MCLimits == {Limits(3, 0, TRUE), Limits(0, 1, TRUE)}

Request(side, type, price, quantity, client, tif) ==
  [client |-> client, symbol |-> 1, side |-> side, type |-> type, price |-> price,
   quantity |-> quantity, tif |-> tif, postOnly |-> FALSE]

MCRequests ==
  {Request("Buy", "Limit", 1, 2, 1, "Gtc"), Request("Sell", "Limit", 1, 1, 1, "Gtc"),
   Request("Sell", "Limit", 2, 1, 1, "Gtc"), Request("Buy", "Limit", 2, 1, 2, "Gtc"),
   Request("Buy", "Limit", 2, 1, 1, "Ioc"), Request("Sell", "Market", 0, 1, 2, "Gtc"),
   Request("Buy", "Limit", 2, 2, 2, "Gtc"), Request("Buy", "Limit", 3, 1, 1, "Gtc"),
   Request("Buy", "Limit", 1, 0, 1, "Gtc"), Request("Buy", "Limit", 0, 1, 1, "Gtc")}

CancelId == 9
Report(clOrdId, exchange, exec, status, remaining) ==
  [clOrdId |-> clOrdId, exchange |-> exchange, exec |-> exec, status |-> status,
   remaining |-> remaining, restingPrice |-> IF remaining > 0 THEN 1 ELSE 0]

ReportsUnder(clOrdId, exchange) ==
  {Report(clOrdId, exchange, "Trade", "PartiallyFilled", 1),
   Report(clOrdId, exchange, "Trade", "Filled", 0),
   Report(clOrdId, exchange, "Rejected", "Rejected", 0)}

MCReports ==
  UNION {ReportsUnder(c, 10 + c) : c \in ClientOrderIds}
    \cup UNION {ReportsUnder(CancelId, 10 + c) : c \in ClientOrderIds}
    \cup {Report(1, 0, "Rejected", "Rejected", 0), Report(0, 11, "Trade", "Filled", 0)}

MCExchangeIds == {10 + c : c \in ClientOrderIds}

\* Client order ids are only compared, so fresh ones are used in order.
\* Refused messages count without end; three tell enough.
FreshInOrder ==
  /\ \A client \in Clients : rates[client].count <= 2
  /\ accepted = 1 .. Cardinality(accepted)
===============================================================================
