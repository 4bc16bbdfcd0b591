---------------------------- MODULE PriceTimeBook -----------------------------
(***************************************************************************)
(* What an order book promises, whatever its data structures: per side and *)
(* price, a queue of orders in the order of their arrival.  Every call     *)
(* answers whether it was carried out; one that was refused changes        *)
(* nothing.  An order that is replaced arrives anew; one that is reduced   *)
(* keeps its place.                                                        *)
(***************************************************************************)
EXTENDS Integers, SequencesExt

CONSTANTS
  Ids,         \* valid order ids
  Prices,      \* valid prices
  Quantities   \* quantities of the calls

VARIABLES
  queue,   \* queue[side][price]: the orders [id, quantity], oldest first
  ok       \* the answer of the last call

vars == <<queue, ok>>

BookSides == {"Buy", "Sell"}

\* Order id rests at this side and price, in place k.
At(id, side, price, k) ==
  k \in DOMAIN queue[side][price] /\ queue[side][price][k].id = id

Rests(id) ==
  \E side \in BookSides, price \in Prices :
     \E k \in DOMAIN queue[side][price] : At(id, side, price, k)

Init ==
  /\ queue = [side \in BookSides |-> [price \in Prices |-> <<>>]]
  /\ ok \in BOOLEAN

Refuse == ok' = FALSE /\ UNCHANGED queue

Add(id, side, price, quantity) ==
  /\ ok' = TRUE
  /\ ~ Rests(id)
  /\ queue' = [queue EXCEPT ![side][price] =
                 Append(@, [id |-> id, quantity |-> quantity])]

Cancel(side, price, k) ==
  /\ ok' = TRUE
  /\ queue' = [queue EXCEPT ![side][price] = RemoveAt(@, k)]

\* Orders of whose k-th a quantity is taken.
Taken(orders, k, quantity) ==
  IF quantity < orders[k].quantity
  THEN [orders EXCEPT ![k].quantity = @ - quantity]
  ELSE RemoveAt(orders, k)

Reduce(side, price, k, quantity) ==
  /\ ok' = TRUE
  /\ queue' = [queue EXCEPT ![side][price] = Taken(@, k, quantity)]

Replace(side, price, k, newPrice, newQuantity) ==
  /\ ok' = TRUE
  /\ queue' =
       LET without == [queue EXCEPT ![side][price] = RemoveAt(@, k)]
       IN  [without EXCEPT ![side][newPrice] =
              Append(@, [id       |-> queue[side][price][k].id,
                         quantity |-> newQuantity])]

Clear ==
  /\ ok' = TRUE
  /\ queue' = [side \in BookSides |-> [price \in Prices |-> <<>>]]

Next ==
  \/ Refuse
  \/ Clear
  \/ \E id \in Ids, side \in BookSides, price \in Prices, q \in Quantities :
        Add(id, side, price, q)
  \/ \E side \in BookSides, price \in Prices :
        \E k \in DOMAIN queue[side][price] :
           \/ Cancel(side, price, k)
           \/ \E q \in Quantities : Reduce(side, price, k, q)
           \/ \E p \in Prices, q \in Quantities : Replace(side, price, k, p, q)

Spec == Init /\ [][Next]_vars
===============================================================================
