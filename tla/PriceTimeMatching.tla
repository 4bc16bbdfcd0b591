-------------------------- MODULE PriceTimeMatching ---------------------------
(***************************************************************************)
(* Price-time matching, as a client of the engine understands it.  Orders  *)
(* rest in queues per side and price.  At most one order is incoming; it   *)
(* trades, one resting order at a time, with the oldest order at the best  *)
(* price of the other side while that price is within its limit.  Its      *)
(* policy says what may become of it:                                      *)
(*   "rest"  what is left joins the queue at its price                     *)
(*   "drop"  what is left disappears                                       *)
(*   "all"   nothing may be left                                           *)
(*   "make"  it may not trade: all of it rests                             *)
(***************************************************************************)
EXTENDS Integers, SequencesExt

CONSTANTS Ids, Prices, Quantities

VARIABLES
  queue,      \* queue[side][price]: the orders [id, quantity], oldest first
  incoming,   \* set of at most one [id, side, limit, left, policy]
  tape        \* the trades of the call under way or last made

vars == <<queue, incoming, tape>>

BookSides == {"Buy", "Sell"}
Other(side) == IF side = "Buy" THEN "Sell" ELSE "Buy"

\* A market order's limit is the empty one.
NoLimit == {}

Improves(side, p, q) == IF side = "Buy" THEN p > q ELSE p < q

Within(order, price) ==
  order.limit = NoLimit \/ \E l \in order.limit : ~ Improves(order.side, price, l)

\* The prices of the other side that the order may trade at; nothing there is
\* better than the one it takes.
Executable(order) ==
  {p \in Prices : queue[Other(order.side)][p] # <<>> /\ Within(order, p)}

Rests(id) ==
  \E side \in BookSides, price \in Prices :
     \E k \in DOMAIN queue[side][price] : queue[side][price][k].id = id

Init ==
  /\ queue = [side \in BookSides |-> [price \in Prices |-> <<>>]]
  /\ incoming = {}
  /\ tape = <<>>

Refuse ==
  /\ incoming = {}
  /\ tape' = <<>>
  /\ UNCHANGED <<queue, incoming>>

Enter(id, side, limit, quantity, policy) ==
  /\ incoming = {} /\ ~ Rests(id)
  /\ incoming' = {[id |-> id, side |-> side, limit |-> limit,
                   left |-> quantity, policy |-> policy]}
  /\ tape' = <<>>
  /\ UNCHANGED queue

Withdraw(side, price, k) ==
  /\ incoming = {}
  /\ queue' = [queue EXCEPT ![side][price] = RemoveAt(@, k)]
  /\ tape' = <<>>
  /\ UNCHANGED incoming

\* A replaced order gives up its place and comes in again.
Amend(side, price, k, newPrice, newQuantity) ==
  /\ incoming = {}
  /\ queue' = [queue EXCEPT ![side][price] = RemoveAt(@, k)]
  /\ incoming' = {[id |-> queue[side][price][k].id, side |-> side,
                   limit |-> {newPrice}, left |-> newQuantity,
                   policy |-> "rest"]}
  /\ tape' = <<>>

\* Orders of whose first a quantity is taken.
TakenFirst(orders, quantity) ==
  IF quantity < orders[1].quantity
  THEN [orders EXCEPT ![1].quantity = @ - quantity]
  ELSE Tail(orders)

Trade(order) ==
  /\ order.left > 0 /\ order.policy # "make"
  /\ \E price \in Executable(order) :
       LET side     == Other(order.side)
           maker    == Head(queue[side][price])
           quantity == Min({order.left, maker.quantity})
       IN  /\ \A p \in Executable(order) : ~ Improves(side, p, price)
           /\ queue' = [queue EXCEPT ![side][price] = TakenFirst(@, quantity)]
           /\ incoming' = {[order EXCEPT !.left = @ - quantity]}
           /\ tape' = Append(tape, [maker |-> maker.id, taker |-> order.id,
                                    price |-> price, quantity |-> quantity])

Finish(order) ==
  /\ order.left = 0 \/ Executable(order) = {}
  /\ order.policy = "all" => order.left = 0
  /\ IF order.left > 0 /\ order.policy \in {"rest", "make"}
     THEN \E price \in order.limit :
            queue' = [queue EXCEPT ![order.side][price] =
                        Append(@, [id |-> order.id, quantity |-> order.left])]
     ELSE UNCHANGED queue
  /\ incoming' = {}
  /\ UNCHANGED tape

Next ==
  \/ Refuse
  \/ \E id \in Ids, side \in BookSides, quantity \in Quantities :
        \/ \E policy \in {"drop", "all"} : Enter(id, side, NoLimit, quantity, policy)
        \/ \E price \in Prices, policy \in {"rest", "drop", "all", "make"} :
              Enter(id, side, {price}, quantity, policy)
  \/ \E side \in BookSides, price \in Prices :
        \E k \in DOMAIN queue[side][price] :
           \/ Withdraw(side, price, k)
           \/ \E p \in Prices, q \in Quantities : Amend(side, price, k, p, q)
  \/ \E order \in incoming : Trade(order) \/ Finish(order)

Spec == Init /\ [][Next]_vars
===============================================================================
