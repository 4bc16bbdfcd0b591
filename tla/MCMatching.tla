------------------------------ MODULE MCMatching ------------------------------
(***************************************************************************)
(* MatchingEngine for TLC: two prices and two quantities; three orders and *)
(* four calls that use up a client order id, so that two orders can queue  *)
(* at one price, a third trade with both and one of them be replaced.      *)
(* Client 1 sends small orders and client 2 orders twice as large, so that *)
(* fills are partial for either party; each instruction is met on the side *)
(* or sides where it makes a difference to the states reached.             *)
(***************************************************************************)
EXTENDS MatchingEngine

MCPrices == {1, 2}
MCQuantities == {1, 2}

Request(sides, types, prices, quantities, clients, tifs, postOnlys) ==
  [symbol : {Symbol}, side : sides, type : types, price : prices,
   quantity : quantities, client : clients, tif : tifs, postOnly : postOnlys]

Good == [symbol |-> Symbol, side |-> "Buy", type |-> "Limit", price |-> 1,
         quantity |-> 1, client |-> 0, tif |-> "Gtc", postOnly |-> FALSE]

MalformedRequests ==
  {[Good EXCEPT !.symbol = 2], [Good EXCEPT !.side = "None"],
   [Good EXCEPT !.type = "Other"], [Good EXCEPT !.quantity = 0],
   [Good EXCEPT !.price = 0], [Good EXCEPT !.tif = "Other"],
   [Good EXCEPT !.tif = "Ioc", !.postOnly = TRUE],
   [Good EXCEPT !.type = "Market", !.postOnly = TRUE]}

Limits(sides, quantity, client, tifs, postOnly) ==
  Request(sides, {"Limit"}, MCPrices, {quantity}, {client}, tifs, {postOnly})

WellFormedRequests ==
  Limits(Sides, 1, 1, {"Gtc"}, FALSE)
    \cup Limits({"Sell"}, 1, 1, {"Gtc"}, TRUE)
    \cup Limits(Sides, 2, 2, {"Gtc", "Fok"}, FALSE)
    \cup Limits({"Buy"}, 2, 2, {"Ioc"}, FALSE)
    \cup Request(Sides, {"Market"}, {0}, {2}, {1}, {"Gtc"}, {FALSE})
    \cup Request({"Buy"}, {"Market"}, {0}, {2}, {2}, {"Fok"}, {FALSE})
    \cup Request({"Sell"}, {"Limit"}, {1}, {1}, {0}, {"Gtc"}, {FALSE})

MCRequests == WellFormedRequests \cup MalformedRequests

\* Client order ids are only compared, so fresh ones are used in order.
FreshInOrder == seen = 1 .. Cardinality(seen)
===============================================================================
