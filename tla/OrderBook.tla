------------------------------ MODULE OrderBook -------------------------------
(***************************************************************************)
(* OrderBook: one symbol's book of resting orders under any sequence of    *)
(* its public calls, valid or not.  One caller at a time.                  *)
(***************************************************************************)
EXTENDS BookLevels

CONSTANTS
  Ids,         \* order ids other than kInvalidOrderId
  Prices,      \* positive prices of the calls
  Quantities,  \* positive quantities of the calls
  Symbol,      \* symbol_id_
  Orders       \* arguments of add_order, [id, symbol, side, price, quantity]

ASSUME IdsAssumption == 0 \notin Ids
ASSUME PricesAssumption == Prices \subseteq Nat \ {0}
ASSUME QuantitiesAssumption == Quantities \subseteq Nat \ {0}
ASSUME OrdersAssumption ==
  \A o \in Orders : /\ o.id \in Ids \cup {0}
                     /\ o.price \in Prices \cup {0}
                     /\ o.quantity \in Quantities \cup {0}

VARIABLES
  book,   \* bids_, asks_ and order_index_
  ok      \* what the last call returned

vars == <<book, ok>>

Order == [side : Sides, price : Prices, quantity : Nat \ {0}]
Level == [total : Nat, queue : Seq(Ids)]

TypeOK ==
  /\ DOMAIN book.levels = Sides
  /\ \A side \in Sides :
        /\ DOMAIN book.levels[side] \subseteq Prices
        /\ \A price \in DOMAIN book.levels[side] :
              book.levels[side][price] \in Level
  /\ DOMAIN book.nodes \subseteq Ids
  /\ \A id \in DOMAIN book.nodes : book.nodes[id] \in Order
  /\ ok \in BOOLEAN

Init == book = EmptyBook /\ ok = TRUE

Refused == ok' = FALSE /\ UNCHANGED book

-------------------------------------------------------------------------------
\* is_valid_resting_order, then the book's own two conditions.
Acceptable(o) ==
  /\ o.id # 0 /\ o.side \in Sides /\ o.price > 0 /\ o.quantity > 0
  /\ o.symbol = Symbol
  /\ ~ Resting(book, o.id)

Add(o) ==
  \/ ~ Acceptable(o) /\ Refused
  \/ /\ Acceptable(o)
     /\ book' = AddOrder(book, o.id, [side     |-> o.side,
                                      price    |-> o.price,
                                      quantity |-> o.quantity])
     /\ ok' = TRUE

Cancel(id) ==
  \/ ~ Resting(book, id) /\ Refused
  \/ Resting(book, id) /\ book' = CancelOrder(book, id) /\ ok' = TRUE

Reduce(id, quantity) ==
  \/ (quantity <= 0 \/ ~ Resting(book, id)) /\ Refused
  \/ /\ quantity > 0 /\ Resting(book, id)
     /\ book' = ReduceOrder(book, id, quantity)
     /\ ok' = TRUE

Replace(id, price, quantity) ==
  \/ (price <= 0 \/ quantity <= 0 \/ ~ Resting(book, id)) /\ Refused
  \/ /\ price > 0 /\ quantity > 0 /\ Resting(book, id)
     /\ book' = ReplaceOrder(book, id, price, quantity)
     /\ ok' = TRUE

Clear == book' = EmptyBook /\ ok' = TRUE

Next ==
  \/ \E o \in Orders : Add(o)
  \/ \E id \in Ids \cup {0} :
        \/ Cancel(id)
        \/ \E quantity \in Quantities \cup {0} : Reduce(id, quantity)
        \/ \E price \in Prices \cup {0}, quantity \in Quantities \cup {0} :
              Replace(id, price, quantity)
  \/ Clear

Spec == Init /\ [][Next]_vars

-------------------------------------------------------------------------------
(* Properties.                                                             *)

\* check_invariants() never reports a violation: queues and lookup index hold
\* the same orders, no empty level is kept and every total is its orders' sum.
CheckInvariantsHolds == QueuesMatchIndex(book) /\ TotalsMatchOrders(book)

\* At every depth, including one beyond the number of levels, l2_view lists
\* the best prices first, skips none and shows what the orders there add up
\* to; best_order is an order nothing on its side is better than.
ViewsAreBestFirst ==
  \A side \in Sides :
     LET Offered(p) == {id \in DOMAIN book.nodes :
                          book.nodes[id].side = side /\ book.nodes[id].price = p}
         live  == {p \in Prices : Offered(p) # {}}
     IN  /\ \A depth \in 0 .. Cardinality(live) + 1 :
               LET view == L2View(book, side, depth)
               IN  /\ Len(view) = Min({depth, Cardinality(live)})
                   /\ \A k \in DOMAIN view :
                         /\ view[k].price \in live
                         /\ view[k].quantity =
                              QuantityOf(book, Offered(view[k].price))
                         /\ Cardinality({p \in live :
                              Better(side, p, view[k].price)}) = k - 1
         /\ live # {} =>
               LET best == BestOrder(book, side)
               IN  /\ best \in Offered(BestPrice(book, side))
                   /\ \A p \in live : ~ Better(side, p, BestPrice(book, side))

\* What every caller relies on, whatever the calls were.
BookSound == TypeOK /\ CheckInvariantsHolds /\ ViewsAreBestFirst

\* Arrival order at each price: the book is a set of price-time queues.
PriceTime == INSTANCE PriceTimeBook WITH queue <- Queues(book, Prices)
PriceTimeSpec == PriceTime!Spec
===============================================================================
