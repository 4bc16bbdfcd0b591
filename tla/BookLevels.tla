------------------------------ MODULE BookLevels ------------------------------
(***************************************************************************)
(* The data structure of OrderBook and its operations, as operators on     *)
(* book values, for the specifications that keep a book in their state.    *)
(*                                                                         *)
(*   book.levels[side]  bids_ or asks_: live prices to [total, queue]      *)
(*   book.nodes         order_index_: order id to the list node that its   *)
(*                      locator's iterator designates                      *)
(*                                                                         *)
(* A level's queue lists the ids of its nodes, oldest first.  Operators    *)
(* that change a book are applied only where the member function returns   *)
(* true; their guards are the conditions named Accepts... and Resting.     *)
(***************************************************************************)
EXTENDS Integers, SequencesExt

Sides == {"Buy", "Sell"}
Opposite(side) == IF side = "Buy" THEN "Sell" ELSE "Buy"

EmptyBook == [levels |-> [side \in Sides |-> <<>>], nodes |-> <<>>]

\* The level a map lookup finds or, with try_emplace, creates.
LevelAt(book, side, price) ==
  IF price \in DOMAIN book.levels[side]
  THEN book.levels[side][price]
  ELSE [total |-> 0, queue |-> <<>>]

Resting(book, id) == id \in DOMAIN book.nodes

\* A map with an entry added or overwritten.
Put(map, key, value) ==
  [k \in DOMAIN map \cup {key} |-> IF k = key THEN value ELSE map[k]]

\* A queue without the node that a locator's iterator designates.
Erase(queue, id) == RemoveAt(queue, CHOOSE k \in DOMAIN queue : queue[k] = id)

-------------------------------------------------------------------------------
(* Operations.                                                             *)

\* add_order of an id that does not rest: last at its price.
NewestFirst(book, id, order) ==   \* mutation: push_front
  LET level == LevelAt(book, order.side, order.price)
  IN  [levels |-> [book.levels EXCEPT ![order.side] =
                     Put(@, order.price, [total |-> level.total + order.quantity,
                                          queue |-> <<id>> \o level.queue])],
       nodes  |-> Put(book.nodes, id, order)]
AddOrder(book, id, order) ==
  LET level == LevelAt(book, order.side, order.price)
  IN  [levels |-> [book.levels EXCEPT ![order.side] =
                     Put(@, order.price, [total |-> level.total + order.quantity,
                                          queue |-> Append(level.queue, id)])],
       nodes  |-> Put(book.nodes, id, order)]

\* cancel_order of an id that rests, erase_level_if_empty included.
CancelOrder(book, id) ==
  LET order == book.nodes[id]
      level == book.levels[order.side][order.price]
      queue == Erase(level.queue, id)
  IN  [levels |-> [book.levels EXCEPT ![order.side] =
                     IF queue = <<>>
                     THEN Restrict(@, DOMAIN @ \ {order.price})
                     ELSE [@ EXCEPT ![order.price] =
                             [total |-> level.total - order.quantity,
                              queue |-> queue]]],
       nodes  |-> Restrict(book.nodes, DOMAIN book.nodes \ {id})]

\* reduce_order by a positive quantity of an id that rests.
LeavesZero(book, id, quantity) ==   \* mutation: > for >=
  LET order == book.nodes[id]
  IN  IF quantity > order.quantity
      THEN CancelOrder(book, id)
      ELSE [levels |-> [book.levels EXCEPT
                          ![order.side][order.price].total = @ - quantity],
            nodes  |-> [book.nodes EXCEPT ![id].quantity = @ - quantity]]
ReduceOrder(book, id, quantity) ==
  LET order == book.nodes[id]
  IN  IF quantity >= order.quantity
      THEN CancelOrder(book, id)
      ELSE [levels |-> [book.levels EXCEPT
                          ![order.side][order.price].total = @ - quantity],
            nodes  |-> [book.nodes EXCEPT ![id].quantity = @ - quantity]]

\* replace_order of an id that rests: the order leaves and joins the back of
\* the queue at its new price, even when the price is the old one.
KeepsPlace(book, id, price, quantity) ==   \* mutation: unless the price changes
  LET order == book.nodes[id]
  IN  IF price = order.price
      THEN [levels |-> [book.levels EXCEPT ![order.side][price].total =
                          @ - order.quantity + quantity],
            nodes  |-> [book.nodes EXCEPT ![id].quantity = quantity]]
      ELSE AddOrder(CancelOrder(book, id), id,
                    [order EXCEPT !.price = price, !.quantity = quantity])
ReplaceOrder(book, id, price, quantity) ==
  AddOrder(CancelOrder(book, id), id,
           [book.nodes[id] EXCEPT !.price = price, !.quantity = quantity])

-------------------------------------------------------------------------------
(* Reads.                                                                  *)

\* The order of a side's map: bids descend, asks ascend.
Better(side, p, q) == IF side = "Buy" THEN p > q ELSE p < q

\* best_bid and best_ask of a side that has levels.
BestPrice(book, side) ==
  IF side = "Buy" THEN Max(DOMAIN book.levels[side])
                  ELSE Min(DOMAIN book.levels[side])

\* best_order and mutable_best_order of such a side.
BestOrder(book, side) ==
  Head(book.levels[side][BestPrice(book, side)].queue)

\* The prices of a side's map in its order.
BestFirst(prices, side) ==
  CHOOSE s \in [1 .. Cardinality(prices) -> prices] :
    \A j, k \in DOMAIN s : j < k => Better(side, s[j], s[k])

\* One side of fill_l2_view(depth).
L2View(book, side, depth) ==
  LET best == BestFirst(DOMAIN book.levels[side], side)
      shown == SubSeq(best, 1, Min({depth, Len(best)}))
  IN  [k \in DOMAIN shown |-> [price    |-> shown[k],
                               quantity |-> book.levels[side][shown[k]].total]]

\* What a level shows of its queue: order ids and quantities, oldest first.
Queued(book, side, price) ==
  LET ids == LevelAt(book, side, price).queue
  IN  [k \in DOMAIN ids |->
         [id |-> ids[k], quantity |-> book.nodes[ids[k]].quantity]]
Queues(book, prices) ==
  [side \in Sides |-> [price \in prices |-> Queued(book, side, price)]]

-------------------------------------------------------------------------------
(* Consistency of a book value.                                            *)

\* The quantity of the orders a set of ids designates: one unit for each that
\* each of them offers.
Units(book, ids) == UNION {{id} \X (1 .. book.nodes[id].quantity) : id \in ids}
QuantityOf(book, ids) == Cardinality(Units(book, ids))

\* Each order of the index is queued once, at its own side and price, and the
\* queues hold nothing else.
QueuesMatchIndex(book) ==
  /\ \A side \in Sides : \A price \in DOMAIN book.levels[side] :
        LET queue == book.levels[side][price].queue
        IN  /\ queue # <<>>
            /\ IsInjective(queue)
            /\ \A k \in DOMAIN queue :
                  /\ Resting(book, queue[k])
                  /\ book.nodes[queue[k]].side = side
                  /\ book.nodes[queue[k]].price = price
  /\ \A id \in DOMAIN book.nodes :
        LET order == book.nodes[id]
        IN  /\ order.price \in DOMAIN book.levels[order.side]
            /\ Contains(book.levels[order.side][order.price].queue, id)

\* A level's total is the sum of its orders.
TotalsMatchOrders(book) ==
  \A side \in Sides : \A price \in DOMAIN book.levels[side] :
     LET level == book.levels[side][price]
     IN  level.total = QuantityOf(book, ToSet(level.queue))
===============================================================================
