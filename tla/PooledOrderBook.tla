---------------------------- MODULE PooledOrderBook ---------------------------
(***************************************************************************)
(* PooledOrderBook: the allocation-free book.  Price levels are vectors    *)
(* sorted best first; orders are nodes of one vector, linked into the      *)
(* queues of their levels and, when released, into a free list.  The       *)
(* lookup index is the map that FlatOrderIndex implements.  One caller at  *)
(* a time; nodes are numbered from 1 and kNoIndex is 0.                    *)
(***************************************************************************)
EXTENDS Integers, SequencesExt

CONSTANTS
  Ids,         \* order ids other than kInvalidOrderId
  Prices,      \* positive prices of the calls
  Quantities,  \* positive quantities of the calls
  Symbol,      \* symbol_id_
  Orders       \* arguments of add_order, [id, symbol, side, price, quantity]

VARIABLES
  pool,   \* [levels, nodes, free, index]: bids_ and asks_, order_nodes_,
          \* free_head_ and order_index_
  ok      \* what the last call returned

vars == <<pool, ok>>

Sides == {"Buy", "Sell"}
None  == 0

EmptyPool == [levels |-> [side \in Sides |-> <<>>], nodes |-> <<>>,
              free |-> None, index |-> <<>>]

-------------------------------------------------------------------------------
(* Levels.                                                                 *)

Better(side, p, q) == IF side = "Buy" THEN p > q ELSE p < q

\* The place of a price in a side's vector: find_if of mutable_bid_level and
\* mutable_ask_level.
Place(levels, side, price) ==
  Min({k \in 1 .. Len(levels) + 1 :
         k \in DOMAIN levels => ~ Better(side, levels[k].price, price)})

\* mutable_level: the vector with a level at the price.
WithLevel(levels, side, price) ==
  LET place == Place(levels, side, price)
  IN  IF place <= Len(levels) /\ levels[place].price = price
      THEN levels
      ELSE InsertAt(levels, place, [price |-> price, total |-> 0, head |-> None,
                                    tail |-> None, count |-> 0])

\* erase_level_if_empty
WithoutEmpty(levels, price) ==
  LET at == Min({k \in DOMAIN levels : levels[k].price = price})
  IN  IF levels[at].count = 0 THEN RemoveAt(levels, at) ELSE levels

-------------------------------------------------------------------------------
(* Nodes.                                                                  *)

Node(id, side, price, quantity) ==
  [id |-> id, side |-> side, price |-> price, quantity |-> quantity,
   previous |-> None, next |-> None, active |-> TRUE]

\* acquire_node: a released node if there is one, or else a new one.
AlwaysGrows(p, node) ==   \* mutation: the free list is not used
  [at |-> Len(p.nodes) + 1, nodes |-> Append(p.nodes, node), free |-> p.free]
Acquire(p, node) ==
  IF p.free # None
  THEN [at |-> p.free, nodes |-> [p.nodes EXCEPT ![p.free] = node],
        free |-> p.nodes[p.free].next]
  ELSE [at |-> Len(p.nodes) + 1, nodes |-> Append(p.nodes, node), free |-> None]

\* append_order: the links of the node at the end of a level's queue, and the
\* level.
LinkLast(nodes, level, at) ==
  LET linked == [nodes EXCEPT ![at].previous = level.tail, ![at].next = None]
  IN  IF level.tail # None THEN [linked EXCEPT ![level.tail].next = at] ELSE linked

Joined(level, quantity, at) ==
  [level EXCEPT !.head = IF level.tail # None THEN @ ELSE at,
                !.tail = at,
                !.total = @ + quantity,
                !.count = @ + 1]

\* unlink_order: the links of the node's neighbours, and the level.
LinkAround(nodes, at) ==
  [k \in DOMAIN nodes |->
     [nodes[k] EXCEPT !.next     = IF k = nodes[at].previous THEN nodes[at].next ELSE @,
                      !.previous = IF k = nodes[at].next THEN nodes[at].previous ELSE @]]

TailKept(level, node) ==   \* mutation: the tail is not moved back
  [level EXCEPT !.head  = IF node.previous # None THEN @ ELSE node.next,
                !.total = @ - node.quantity,
                !.count = @ - 1]
Left(level, node) ==
  [level EXCEPT !.head  = IF node.previous # None THEN @ ELSE node.next,
                !.tail  = IF node.next # None THEN @ ELSE node.previous,
                !.total = @ - node.quantity,
                !.count = @ - 1]

\* release_node: a node at the head of the free list.  It keeps its old order,
\* which nothing reads before acquire_node overwrites it; here it is blank.
Released(free) ==
  [Node(None, "Buy", None, None) EXCEPT !.active = FALSE, !.next = free]

-------------------------------------------------------------------------------
(* Operations that succeed.                                                *)

\* order_index_ with an entry for an id that has none.
Put(index, id, at) == [i \in DOMAIN index \cup {id} |-> IF i = id THEN at ELSE index[i]]

AddOrder(p, id, side, price, quantity) ==
  LET new    == Acquire(p, Node(id, side, price, quantity))
      levels == WithLevel(p.levels[side], side, price)
      place  == Place(levels, side, price)
  IN  [levels |-> [p.levels EXCEPT ![side] =
                     [levels EXCEPT ![place] = Joined(levels[place], quantity, new.at)]],
       nodes  |-> LinkLast(new.nodes, levels[place], new.at),
       free   |-> new.free,
       index  |-> Put(p.index, id, new.at)]

CancelOrder(p, id) ==
  LET at     == p.index[id]
      node   == p.nodes[at]
      levels == p.levels[node.side]
      place  == Place(levels, node.side, node.price)
      left   == [levels EXCEPT ![place] = Left(levels[place], node)]
  IN  [levels |-> [p.levels EXCEPT ![node.side] = WithoutEmpty(left, node.price)],
       nodes  |-> [LinkAround(p.nodes, at) EXCEPT ![at] = Released(p.free)],
       free   |-> at,
       index  |-> Restrict(p.index, DOMAIN p.index \ {id})]

ReduceOrder(p, id, quantity) ==
  LET at    == p.index[id]
      node  == p.nodes[at]
      place == Place(p.levels[node.side], node.side, node.price)
  IN  IF quantity >= node.quantity
      THEN CancelOrder(p, id)
      ELSE [levels |-> [p.levels EXCEPT ![node.side][place].total = @ - quantity],
            nodes  |-> [p.nodes EXCEPT ![at].quantity = @ - quantity],
            free   |-> p.free,
            index  |-> p.index]

ReplaceOrder(p, id, price, quantity) ==
  AddOrder(CancelOrder(p, id), id, p.nodes[p.index[id]].side, price, quantity)

-------------------------------------------------------------------------------
(* Calls.                                                                  *)

Resting(id) == id \in DOMAIN pool.index

Refused == ok' = FALSE /\ UNCHANGED pool
Done(p) == ok' = TRUE /\ pool' = p

Init == pool = EmptyPool /\ ok = TRUE

\* is_valid_resting_order, then the book's own two conditions.
Acceptable(o) ==
  /\ o.id # 0 /\ o.side \in Sides /\ o.price > 0 /\ o.quantity > 0
  /\ o.symbol = Symbol
  /\ ~ Resting(o.id)

Add(o) ==
  \/ ~ Acceptable(o) /\ Refused
  \/ Acceptable(o) /\ Done(AddOrder(pool, o.id, o.side, o.price, o.quantity))

Cancel(id) ==
  \/ ~ Resting(id) /\ Refused
  \/ Resting(id) /\ Done(CancelOrder(pool, id))

Reduce(id, quantity) ==
  \/ (quantity <= 0 \/ ~ Resting(id)) /\ Refused
  \/ quantity > 0 /\ Resting(id) /\ Done(ReduceOrder(pool, id, quantity))

Replace(id, price, quantity) ==
  \/ (price <= 0 \/ quantity <= 0 \/ ~ Resting(id)) /\ Refused
  \/ /\ price > 0 /\ quantity > 0 /\ Resting(id)
     /\ Done(ReplaceOrder(pool, id, price, quantity))

Clear == Done(EmptyPool)

Next ==
  \/ \E o \in Orders : Add(o)
  \/ \E id \in Ids \cup {0} :
        \/ Cancel(id)
        \/ \E quantity \in Quantities \cup {0} : Reduce(id, quantity)
        \/ \E price \in Prices \cup {0}, quantity \in Quantities \cup {0} :
              Replace(id, price, quantity)
  \/ Clear

Spec == Init /\ [][Next]_vars

-------------------------------------------------------------------------------
(* Properties.                                                             *)

\* The nodes met from one by following next, at most as many as there are.
Chain(first) ==
  LET place[k \in DOMAIN pool.nodes] ==
        IF k = 1 THEN first
        ELSE IF place[k - 1] = None THEN None ELSE pool.nodes[place[k - 1]].next
  IN  [k \in 1 .. Cardinality({j \in DOMAIN pool.nodes : place[j] # None}) |-> place[k]]

TypeOK ==
  LET Link == 0 .. Len(pool.nodes)
  IN  /\ \A at \in DOMAIN pool.nodes :
            \/ pool.nodes[at] \in [id : Ids, side : Sides, price : Prices,
                                   quantity : Nat \ {0}, previous : Link,
                                   next : Link, active : {TRUE}]
            \/ \E next \in Link : pool.nodes[at] = Released(next)
      /\ \A side \in Sides : \A k \in DOMAIN pool.levels[side] :
            pool.levels[side][k] \in [price : Prices, total : Nat \ {0},
                                      head : Link \ {0}, tail : Link \ {0},
                                      count : Nat \ {0}]
      /\ pool.free \in Link
      /\ DOMAIN pool.index \subseteq Ids

\* The quantity of a set of nodes: one unit for each that each of them holds.
Units(nodes)      == UNION {{at} \X (1 .. pool.nodes[at].quantity) : at \in nodes}
QuantityOf(nodes) == Cardinality(Units(nodes))

\* check_invariants() never reports a violation: levels are sorted best first;
\* a level's queue is linked both ways from head to tail and holds count
\* orders of its side and price that add up to total; the index holds the
\* queued orders and nothing else.
CheckInvariantsHolds ==
  /\ \A side \in Sides : \A k \in DOMAIN pool.levels[side] :
        LET level == pool.levels[side][k]
            chain == Chain(level.head)
        IN  /\ k > 1 => Better(side, pool.levels[side][k - 1].price, level.price)
            /\ chain # <<>> /\ Last(chain) = level.tail /\ Len(chain) = level.count
            /\ level.total = QuantityOf(ToSet(chain))
            /\ \A j \in DOMAIN chain :
                  LET node == pool.nodes[chain[j]]
                  IN  /\ node.active
                      /\ node.side = side /\ node.price = level.price
                      /\ node.previous = IF j = 1 THEN None ELSE chain[j - 1]
                      /\ Resting(node.id) /\ pool.index[node.id] = chain[j]
  /\ \A id \in DOMAIN pool.index :
        LET node == pool.nodes[pool.index[id]]
        IN  /\ node.active /\ node.id = id
            /\ \E k \in DOMAIN pool.levels[node.side] :
                  Contains(Chain(pool.levels[node.side][k].head), pool.index[id])

\* No node is lost or given out twice: those that hold no order are on the
\* free list, each once, and the vector is never longer than the number of
\* orders that ever rested together requires.
PoolIsComplete ==
  LET free == Chain(pool.free)
  IN  /\ IsInjective(free)
      /\ ToSet(free) = {at \in DOMAIN pool.nodes : ~ pool.nodes[at].active}
      /\ Len(pool.nodes) <= Cardinality(Ids)

\* What a level shows of its queue: order ids and quantities, oldest first.
QueueAt(side, price) ==
  LET here == {k \in DOMAIN pool.levels[side] : pool.levels[side][k].price = price}
  IN  IF here = {} THEN <<>>
      ELSE LET chain == Chain(pool.levels[side][Min(here)].head)
           IN  [k \in DOMAIN chain |-> [id       |-> pool.nodes[chain[k]].id,
                                        quantity |-> pool.nodes[chain[k]].quantity]]
===============================================================================
