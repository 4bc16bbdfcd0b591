--------------------------- MODULE OrderBook_proofs ---------------------------
(***************************************************************************)
(* OrderBook keeps its promises under any sequence of calls, and the       *)
(* pooled book given the same calls mirrors it: proofs for every set of    *)
(* ids, prices, quantities and orders.                                     *)
(***************************************************************************)
EXTENDS TwoBooks, BookLevels_proofs, WellFoundedInduction

\* The inductive invariant: the levels, the index and the totals agree.  The
\* views follow from it.
Sound == SoundBook(book, Ids, Prices) /\ ok \in BOOLEAN

LEMMA InitSound == Init => Sound
  BY EmptyBookSound DEF Init, Sound

\* What add_order accepts.
LEMMA AcceptableIs ==
  ASSUME NEW o \in Orders, Acceptable(o)
  PROVE  /\ o.id \in Ids /\ o.side \in Sides /\ o.price \in Prices
         /\ o.quantity \in Quantities /\ o.quantity \in Nat \ {0}
         /\ ~ Resting(book, o.id)
<1>1. /\ o.id \in Ids \cup {0} /\ o.price \in Prices \cup {0}
      /\ o.quantity \in Quantities \cup {0}
  BY OrdersAssumption
<1>2. /\ o.id # 0 /\ o.side \in Sides /\ o.price > 0 /\ o.quantity > 0
      /\ ~ Resting(book, o.id)
  BY DEF Acceptable
<1>3. o.price # 0 /\ o.quantity # 0
  <2>1. ~ 0 > 0
    OBVIOUS
  <2> QED  BY <1>2, <2>1, Zenon
<1> QED  BY <1>1, <1>2, <1>3, QuantitiesAssumption

LEMMA NextSound == Sound /\ [Next]_vars => Sound'
<1> SUFFICES ASSUME Sound, [Next]_vars PROVE Sound'
  OBVIOUS
<1>1. SoundBook(book, Ids, Prices) /\ ok \in BOOLEAN
  BY DEF Sound
<1>2. CASE Refused \/ UNCHANGED vars
  BY <1>1, <1>2 DEF Refused, vars, Sound
<1>3. ASSUME NEW o \in Orders, Add(o) PROVE Sound'
  <2> DEFINE order == [side |-> o.side, price |-> o.price, quantity |-> o.quantity]
  <2>1. CASE /\ Acceptable(o) /\ book' = AddOrder(book, o.id, order) /\ ok' = TRUE
    <3>1. /\ o.id \in Ids /\ o.side \in Sides /\ o.price \in Prices
          /\ o.quantity \in Nat \ {0} /\ ~ Resting(book, o.id)
      BY <2>1, AcceptableIs
    <3>2. order \in Offer(Prices)
      BY <3>1 DEF Offer
    <3> HIDE DEF order
    <3> QED  BY <1>1, <2>1, <3>1, <3>2, AddOrderSound DEF Sound
  <2> QED  BY <1>2, <1>3, <2>1 DEF Add
<1>4. ASSUME NEW id \in Ids \cup {0}, Cancel(id) PROVE Sound'
  <2>1. CASE Resting(book, id) /\ book' = CancelOrder(book, id) /\ ok' = TRUE
    BY <1>1, <2>1, CancelOrderSound DEF Sound, Resting
  <2> QED  BY <1>2, <1>4, <2>1 DEF Cancel
<1>5. ASSUME NEW id \in Ids \cup {0}, NEW quantity \in Quantities \cup {0},
             Reduce(id, quantity)
      PROVE  Sound'
  <2>1. CASE /\ quantity > 0 /\ Resting(book, id)
             /\ book' = ReduceOrder(book, id, quantity) /\ ok' = TRUE
    <3>1. quantity \in Nat \ {0} /\ id \in DOMAIN book.nodes
      BY <2>1, QuantitiesAssumption DEF Resting
    <3> QED  BY <1>1, <2>1, <3>1, ReduceOrderSound DEF Sound
  <2> QED  BY <1>2, <1>5, <2>1 DEF Reduce
<1>6. ASSUME NEW id \in Ids \cup {0}, NEW price \in Prices \cup {0},
             NEW quantity \in Quantities \cup {0}, Replace(id, price, quantity)
      PROVE  Sound'
  <2>1. CASE /\ price > 0 /\ quantity > 0 /\ Resting(book, id)
             /\ book' = ReplaceOrder(book, id, price, quantity) /\ ok' = TRUE
    <3>1. quantity \in Nat \ {0} /\ price \in Prices /\ id \in DOMAIN book.nodes
      BY <2>1, QuantitiesAssumption DEF Resting
    <3> QED  BY <1>1, <2>1, <3>1, ReplaceOrderSound DEF Sound
  <2> QED  BY <1>2, <1>6, <2>1 DEF Replace
<1>7. CASE Clear
  BY <1>7, EmptyBookSound DEF Clear, Sound
<1> QED  BY <1>2, <1>3, <1>4, <1>5, <1>6, <1>7 DEF Next

\* What a sound book shows of itself is true.
LEMMA SoundViews == Sound => ViewsAreBestFirst
<1> SUFFICES ASSUME Sound, NEW side \in Sides
             PROVE  LET Here(p) == {id \in DOMAIN book.nodes :
                                      book.nodes[id].side = side /\ book.nodes[id].price = p}
                        live  == {p \in Prices : Here(p) # {}}
                    IN  /\ \A depth \in 0 .. Cardinality(live) + 1 :
                              LET view == L2View(book, side, depth)
                              IN  /\ Len(view) = Min({depth, Cardinality(live)})
                                  /\ \A k \in DOMAIN view :
                                        /\ view[k].price \in live
                                        /\ view[k].quantity =
                                             QuantityOf(book, Here(view[k].price))
                                        /\ Cardinality({p \in live :
                                             Better(side, p, view[k].price)}) = k - 1
                        /\ live # {} =>
                              LET best == BestOrder(book, side)
                              IN  /\ best \in Here(BestPrice(book, side))
                                  /\ \A p \in live : ~ Better(side, p, BestPrice(book, side))
  BY DEF ViewsAreBestFirst
<1> DEFINE Here(p) == {id \in DOMAIN book.nodes :
                         book.nodes[id].side = side /\ book.nodes[id].price = p}
           live == {p \in Prices : Here(p) # {}}
<1>1. SoundBook(book, Ids, Prices) /\ Prices \in SUBSET Nat
  BY PricesAssumption DEF Sound
<1>2. \A p : Here(p) = Offered(book, side, p)
  BY DEF Offered
<1> HIDE DEF Here
<1>3. live = DOMAIN book.levels[side]
  <2>1. DOMAIN book.levels[side] \subseteq Prices
    BY <1>1 DEF SoundBook, IsBook
  <2>2. \A p \in DOMAIN book.levels[side] : Offered(book, side, p) # {}
    BY <1>1, LevelHoldsOffered
  <2>3. \A p : Offered(book, side, p) # {} => p \in DOMAIN book.levels[side]
    BY <1>1, LevelHoldsOffered
  <2> QED  BY <1>2, <2>1, <2>2, <2>3
<1> HIDE DEF live
<1>4. ASSUME NEW depth \in 0 .. Cardinality(live) + 1
      PROVE  LET view == L2View(book, side, depth)
             IN  /\ Len(view) = Min({depth, Cardinality(live)})
                 /\ \A k \in DOMAIN view :
                       /\ view[k].price \in live
                       /\ view[k].quantity = QuantityOf(book, Here(view[k].price))
                       /\ Cardinality({p \in live : Better(side, p, view[k].price)}) = k - 1
  <2> DEFINE view == L2View(book, side, depth)
  <2>1. Cardinality(live) \in Nat
    BY <1>1, <1>3, LevelsFinite, FS_CardinalityType
  <2>2. depth \in Nat
    BY <2>1
  <2>3. Shows(view, book, side, depth)
    BY <1>1, <2>2, L2ViewShows
  <2> HIDE DEF view
  <2>4. /\ Len(view) = Min({depth, Cardinality(live)})
        /\ \A k \in DOMAIN view :
              /\ view[k].price \in live
              /\ view[k].quantity = book.levels[side][view[k].price].total
              /\ Cardinality({p \in live : Better(side, p, view[k].price)}) = k - 1
    BY <1>3, <2>3 DEF Shows
  <2>5. \A p \in live : book.levels[side][p].total = QuantityOf(book, Here(p))
    BY <1>1, <1>2, <1>3, LevelHoldsOffered
  <2> QED  BY <2>4, <2>5 DEF view
<1>5. ASSUME live # {}
      PROVE  /\ BestOrder(book, side) \in Here(BestPrice(book, side))
             /\ \A p \in live : ~ Better(side, p, BestPrice(book, side))
  BY <1>1, <1>3, <1>5, BestOrderIsBest DEF Here
<1> QED  BY <1>4, <1>5 DEF live, Here

LEMMA SoundImplies == Sound => BookSound
<1> SUFFICES ASSUME Sound PROVE BookSound
  OBVIOUS
<1>1. TypeOK
  BY DEF Sound, SoundBook, IsBook, TypeOK, Order, Level, Offer
<1>2. CheckInvariantsHolds
  BY DEF Sound, SoundBook, CheckInvariantsHolds
<1> QED  BY <1>1, <1>2, SoundViews DEF BookSound

\* However add_order, cancel_order, reduce_order, replace_order and clear are
\* called, check_invariants() holds and the views of the book show the best
\* prices first, without gaps, with what the orders there add up to.
THEOREM BookStaysSound == Spec => []BookSound
<1>1. Spec => []Sound
  BY InitSound, NextSound, PTL DEF Spec
<1> QED  BY <1>1, SoundImplies, PTL

-------------------------------------------------------------------------------
(* The book is a set of price-time queues.                                 *)

LEMMA InitQueues == Init => PriceTime!Init
  BY EmptyQueues DEF Init, PriceTime!Init, PriceTime!BookSides, Sides

\* An order that does not rest is in no queue.
LEMMA NotAnywhere ==
  ASSUME Sound, NEW id, ~ Resting(book, id)
  PROVE  ~ PriceTime!Rests(id)
<1> SUFFICES ASSUME NEW side \in Sides, NEW price \in Prices,
                    NEW k \in DOMAIN Queued(book, side, price)
             PROVE  Queued(book, side, price)[k].id # id
  BY DEF PriceTime!Rests, PriceTime!At, PriceTime!BookSides, Sides, Queues
<1> QED  BY NotQueued DEF Sound

\* Every call is a step of the price-time queues, or changes none of them.
LEMMA NextQueues == Sound /\ [Next]_vars => [PriceTime!Next]_(PriceTime!vars)
<1> SUFFICES ASSUME Sound, [Next]_vars PROVE [PriceTime!Next]_(PriceTime!vars)
  OBVIOUS
<1> DEFINE Q == Queues(book, Prices)
<1>1. SoundBook(book, Ids, Prices)
  BY DEF Sound
<1>2. CASE UNCHANGED vars
  BY <1>2 DEF vars, PriceTime!vars
<1>3. CASE Refused
  BY <1>3 DEF Refused, PriceTime!Next, PriceTime!Refuse
<1>4. CASE Clear
  BY <1>4, EmptyQueues DEF Clear, PriceTime!Next, PriceTime!Clear, PriceTime!BookSides, Sides
<1>5. ASSUME NEW o \in Orders, Add(o) PROVE PriceTime!Next \/ Refused
  <2> DEFINE order == [side |-> o.side, price |-> o.price, quantity |-> o.quantity]
  <2>1. CASE /\ Acceptable(o) /\ book' = AddOrder(book, o.id, order) /\ ok' = TRUE
    <3>1. /\ o.id \in Ids /\ o.side \in Sides /\ o.price \in Prices
          /\ o.quantity \in Quantities /\ o.quantity \in Nat \ {0}
          /\ ~ Resting(book, o.id)
      BY <2>1, AcceptableIs
    <3>2. /\ order \in Offer(Prices) /\ order.side = o.side /\ order.price = o.price
          /\ order.quantity = o.quantity
      BY <3>1 DEF Offer
    <3>3. book' = AddOrder(book, o.id, order) /\ ok' = TRUE
      BY <2>1
    <3> HIDE DEF order
    <3>4. Appends(AddOrder(book, o.id, order), book, Prices, o.id, order)
      BY <1>1, <3>1, <3>2, AddOrderQueues
    <3>5. Queues(book, Prices)' = [Q EXCEPT ![o.side][o.price] =
                                     Append(@, [id |-> o.id, quantity |-> o.quantity])]
      BY <3>2, <3>3, <3>4 DEF Appends
    <3>6. ~ PriceTime!Rests(o.id)
      BY <3>1, NotAnywhere
    <3>7. PriceTime!Add(o.id, o.side, o.price, o.quantity)
      BY <3>3, <3>5, <3>6 DEF PriceTime!Add
    <3> QED  BY <3>1, <3>7 DEF PriceTime!Next, PriceTime!BookSides, Sides
  <2> QED  BY <1>5, <2>1 DEF Add
<1>6. ASSUME NEW id \in DOMAIN book.nodes,
             NEW k \in DOMAIN Queued(book, book.nodes[id].side, book.nodes[id].price),
             k \in 1 .. Len(LevelAt(book, book.nodes[id].side, book.nodes[id].price).queue),
             LevelAt(book, book.nodes[id].side, book.nodes[id].price).queue[k] = id,
             ok' = TRUE
      PROVE  /\ book' = CancelOrder(book, id) =>
                   PriceTime!Cancel(book.nodes[id].side, book.nodes[id].price, k)
             /\ \A quantity \in Nat \ {0} :
                   book' = ReduceOrder(book, id, quantity) =>
                     PriceTime!Reduce(book.nodes[id].side, book.nodes[id].price, k, quantity)
             /\ \A price \in Prices, quantity \in Nat \ {0} :
                   book' = ReplaceOrder(book, id, price, quantity) =>
                     PriceTime!Replace(book.nodes[id].side, book.nodes[id].price, k, price, quantity)
  <2>1. ASSUME book' = CancelOrder(book, id)
        PROVE  PriceTime!Cancel(book.nodes[id].side, book.nodes[id].price, k)
    <3>1. Removes(book', book, Prices, id, k)
      BY <1>1, <1>6, <2>1, CancelOrderQueues
    <3> QED  BY <1>6, <3>1 DEF PriceTime!Cancel, PriceTime!RemoveAt, RemoveAt, Removes
  <2>2. ASSUME NEW quantity \in Nat \ {0}, book' = ReduceOrder(book, id, quantity)
        PROVE  PriceTime!Reduce(book.nodes[id].side, book.nodes[id].price, k, quantity)
    <3>1. Takes(book', book, Prices, id, k, quantity)
      BY <1>1, <1>6, <2>2, ReduceOrderQueues
    <3> QED  BY <1>6, <3>1 
          DEF PriceTime!Reduce, PriceTime!Taken, PriceTime!RemoveAt, RemoveAt, Takes, LessAt
  <2>3. ASSUME NEW price \in Prices, NEW quantity \in Nat \ {0},
               book' = ReplaceOrder(book, id, price, quantity)
        PROVE  PriceTime!Replace(book.nodes[id].side, book.nodes[id].price, k, price, quantity)
    <3>1. Moves(book', book, Prices, id, k, price, quantity)
      BY <1>1, <1>6, <2>3, ReplaceOrderQueues
    <3>2. Q[book.nodes[id].side][book.nodes[id].price][k].id = id
      <4> DEFINE side == book.nodes[id].side
                 p    == book.nodes[id].price
                 q    == LevelAt(book, side, p).queue
                 s    == Queued(book, side, p)
      <4>1. side \in Sides /\ p \in Prices
        BY <1>1, PlaceOf
      <4>2. Pairs(s, q, book, Ids)
        BY <1>1, <4>1, QueuedPairs
      <4>3. k \in 1 .. Len(q) /\ q[k] = id
        BY <1>6
      <4>4. Q[side][p] = s
        BY <4>1 DEF Queues
      <4> HIDE DEF q, s
      <4>5. s[k].id = id
        BY <4>2, <4>3 DEF Pairs
      <4> QED  BY <4>4, <4>5
    <3> QED  BY <1>6, <3>1, <3>2 DEF PriceTime!Replace, PriceTime!RemoveAt, RemoveAt, Moves
  <2> QED  BY <2>1, <2>2, <2>3
<1>7. ASSUME NEW id \in DOMAIN book.nodes, ok' = TRUE,
             \/ book' = CancelOrder(book, id)
             \/ \E quantity \in Quantities : book' = ReduceOrder(book, id, quantity)
             \/ \E price \in Prices, quantity \in Quantities :
                   book' = ReplaceOrder(book, id, price, quantity)
      PROVE  PriceTime!Next
  <2> DEFINE side  == book.nodes[id].side
             price == book.nodes[id].price
  <2>1. /\ side \in Sides /\ price \in Prices
        /\ \E k \in DOMAIN Queued(book, side, price) :
              /\ k \in 1 .. Len(LevelAt(book, side, price).queue)
              /\ LevelAt(book, side, price).queue[k] = id
    BY <1>1, PlaceOf
  <2>2. PICK k \in DOMAIN Queued(book, side, price) :
              /\ k \in 1 .. Len(LevelAt(book, side, price).queue)
              /\ LevelAt(book, side, price).queue[k] = id
    BY <2>1
  <2>3. k \in DOMAIN Q[side][price]
    BY <2>1, <2>2 DEF Queues
  <2>4. \/ PriceTime!Cancel(side, price, k)
        \/ \E q \in Quantities : PriceTime!Reduce(side, price, k, q)
        \/ \E p \in Prices, q \in Quantities : PriceTime!Replace(side, price, k, p, q)
    BY <1>6, <1>7, <2>2, QuantitiesAssumption
  <2> HIDE DEF side, price, Q
  <2> QED  BY <2>1, <2>3, <2>4 DEF PriceTime!Next, PriceTime!BookSides, Sides, Q
<1>8. ASSUME NEW id \in Ids \cup {0}, Cancel(id) PROVE PriceTime!Next \/ Refused
  BY <1>7, <1>8 DEF Cancel, Resting
<1>9. ASSUME NEW id \in Ids \cup {0}, NEW quantity \in Quantities \cup {0},
             Reduce(id, quantity)
      PROVE  PriceTime!Next \/ Refused
  <2>1. quantity > 0 => quantity \in Quantities
    OBVIOUS
  <2> QED  BY <1>7, <1>9, <2>1 DEF Reduce, Resting
<1>10. ASSUME NEW id \in Ids \cup {0}, NEW price \in Prices \cup {0},
              NEW quantity \in Quantities \cup {0}, Replace(id, price, quantity)
       PROVE  PriceTime!Next \/ Refused
  <2>1. (quantity > 0 => quantity \in Quantities) /\ (price > 0 => price \in Prices)
    OBVIOUS
  <2> QED  BY <1>7, <1>10, <2>1 DEF Replace, Resting
<1> QED  BY <1>2, <1>3, <1>4, <1>5, <1>8, <1>9, <1>10 DEF Next

\* OrderBook implements the price-time queues: orders at a price are kept in the
\* order of their arrival, a reduced order keeps its place and a replaced one
\* joins the back, through every map, list and index update of the code.
THEOREM BookIsPriceTime == Spec => PriceTimeSpec
<1>1. Spec => []Sound
  BY InitSound, NextSound, PTL DEF Spec
<1> QED  BY <1>1, InitQueues, NextQueues, PTL DEF Spec, PriceTimeSpec, PriceTime!Spec

-------------------------------------------------------------------------------
(* The pooled book: numbers, operators and maps.                           *)

\* A set of numbers that is not empty has a least one.
LEMMA Least ==
  ASSUME NEW S \in SUBSET Nat, S # {}
  PROVE  \E n \in S : \A m \in S : n <= m
<1> DEFINE R == OpToRel(<, Nat)
<1>1. IsWellFoundedOn(R, Nat)
  BY NatLessThanWellFounded
<1>2. \A x, y \in Nat : x < y => <<x, y>> \in R
  BY DEF OpToRel
<1> HIDE DEF R
<1>3. PICK n \in S : \A m \in S : ~ <<m, n>> \in R
  BY <1>1, WFMin
<1>4. ASSUME NEW m \in S PROVE n <= m
  <2>1. m \in Nat /\ n \in Nat
    BY <1>3
  <2>2. ~ m < n
    BY <1>2, <1>3, <2>1
  <2> QED  BY <2>1, <2>2
<1> QED  BY <1>3, <1>4

\* The operators both modules take from the libraries are the same.
LEMMA SameOperators ==
  /\ \A side, p, q : Pooled!Better(side, p, q) = Better(side, p, q)
  /\ \A S : Pooled!Min(S) = Min(S)
  /\ \A f, S : Pooled!Restrict(f, S) = Restrict(f, S)
  /\ \A s, k : Pooled!RemoveAt(s, k) = RemoveAt(s, k)
  /\ \A s, k, e : Pooled!InsertAt(s, k, e) = InsertAt(s, k, e)
  /\ \A S : Pooled!Cardinality(S) = Cardinality(S)
  /\ \A f, k, v : Pooled!Put(f, k, v) = Put(f, k, v)
<1>1. \A side, p, q : Pooled!Better(side, p, q) = Better(side, p, q)
  BY DEF Pooled!Better, Better
<1>2. \A S : Pooled!Min(S) = Min(S)
  BY DEF Pooled!Min, Min
<1>3. \A f, S : Pooled!Restrict(f, S) = Restrict(f, S)
  BY DEF Pooled!Restrict, Restrict
<1>4. \A s, k : Pooled!RemoveAt(s, k) = RemoveAt(s, k)
  BY DEF Pooled!RemoveAt, RemoveAt
<1>5. \A s, k, e : Pooled!InsertAt(s, k, e) = InsertAt(s, k, e)
  BY DEF Pooled!InsertAt, InsertAt
<1>6. \A S : Pooled!Cardinality(S) = Cardinality(S)
  BY DEF Pooled!Cardinality, Cardinality
<1>7. \A f, k, v : Pooled!Put(f, k, v) = Put(f, k, v)
  BY DEF Pooled!Put, Put
<1> QED  BY <1>1, <1>2, <1>3, <1>4, <1>5, <1>6, <1>7

-------------------------------------------------------------------------------
(* Level vectors.                                                          *)

\* A vector lists the levels of a map from prices, best first.
Lists(levels, side, map, T) ==
  /\ DOMAIN map \subseteq Nat
  /\ \A p \in DOMAIN map : map[p] \in T /\ map[p].price = p
  /\ levels \in Seq(T)
  /\ \A k \in 1 .. Len(levels) :
        levels[k].price \in DOMAIN map /\ levels[k] = map[levels[k].price]
  /\ \A j, k \in 1 .. Len(levels) :
        j < k => Better(side, levels[j].price, levels[k].price)
  /\ \A p \in DOMAIN map : \E k \in 1 .. Len(levels) : levels[k].price = p

\* Where the search for a price ends.
LEMMA PlaceDivides ==
  ASSUME NEW levels, NEW side, NEW map, NEW T, Lists(levels, side, map, T),
         NEW price \in Nat
  PROVE  LET at == Pooled!Place(levels, side, price)
         IN  /\ at \in 1 .. Len(levels) + 1
             /\ \A j \in 1 .. Len(levels) :
                   /\ j < at => Better(side, levels[j].price, price)
                   /\ j >= at => ~ Better(side, levels[j].price, price)
             /\ price \notin DOMAIN map =>
                   /\ \A j \in 1 .. Len(levels) :
                         levels[j].price # price
                         /\ (j >= at => Better(side, price, levels[j].price))
<1> DEFINE at == Pooled!Place(levels, side, price)
           n  == Len(levels)
           S  == {k \in 1 .. n + 1 :
                    k \in DOMAIN levels => ~ Better(side, levels[k].price, price)}
<1>1. n \in Nat /\ DOMAIN levels = 1 .. n
  BY DEF Lists
<1>2. at = Min(S)
  BY SameOperators, Zenon DEF Pooled!Place
<1>3. n + 1 \in S /\ S \in SUBSET Nat /\ S \subseteq 1 .. n + 1
  BY <1>1
<1>4. PICK m \in S : \A k \in S : m <= k
  BY <1>3, Least
<1>5. Min(S) \in S /\ \A k \in S : Min(S) <= k
  BY <1>4 DEF Min
<1> HIDE DEF at
<1>6. at \in 1 .. n + 1
  BY <1>2, <1>3, <1>5
<1>7. \A j \in 1 .. n : j < at => Better(side, levels[j].price, price)
  <2> SUFFICES ASSUME NEW j \in 1 .. n, j < at PROVE Better(side, levels[j].price, price)
    OBVIOUS
  <2>1. j \notin S /\ j \in 1 .. n + 1
    BY <1>1, <1>2, <1>5, <1>6
  <2> QED  BY <1>1, <2>1
<1>8. at <= n => ~ Better(side, levels[at].price, price)
  BY <1>1, <1>2, <1>5, <1>6
<1>9. \A j \in 1 .. n : levels[j].price \in Nat
  BY DEF Lists
<1>10. \A j \in 1 .. n : j >= at => ~ Better(side, levels[j].price, price)
  <2> SUFFICES ASSUME NEW j \in 1 .. n, j >= at PROVE ~ Better(side, levels[j].price, price)
    OBVIOUS
  <2>1. at \in 1 .. n
    BY <1>1, <1>6
  <2>2. j = at \/ Better(side, levels[at].price, levels[j].price)
    BY <1>6, <2>1 DEF Lists
  <2>3. levels[j].price \in Nat /\ levels[at].price \in Nat
    BY <1>9, <2>1
  <2> QED  BY <1>8, <2>1, <2>2, <2>3 DEF Better
<1>11. ASSUME price \notin DOMAIN map, NEW j \in 1 .. n
       PROVE  levels[j].price # price /\ (j >= at => Better(side, price, levels[j].price))
  <2>1. levels[j].price # price
    BY <1>11 DEF Lists
  <2>2. levels[j].price \in Nat
    BY <1>9
  <2> QED  BY <1>10, <2>1, <2>2 DEF Better
<1> QED  BY <1>6, <1>7, <1>10, <1>11 DEF at

\* A price that a vector holds is found.
LEMMA PlaceFinds ==
  ASSUME NEW levels, NEW side, NEW map, NEW T, Lists(levels, side, map, T),
         NEW price \in DOMAIN map
  PROVE  /\ Pooled!Place(levels, side, price) \in 1 .. Len(levels)
         /\ levels[Pooled!Place(levels, side, price)] = map[price]
         /\ levels[Pooled!Place(levels, side, price)].price = price
<1> DEFINE at == Pooled!Place(levels, side, price)
           n  == Len(levels)
<1>1. price \in Nat /\ n \in Nat
  BY DEF Lists
<1>2. /\ at \in 1 .. n + 1
      /\ \A j \in 1 .. n :
            /\ j < at => Better(side, levels[j].price, price)
            /\ j >= at => ~ Better(side, levels[j].price, price)
  BY <1>1, PlaceDivides
<1> HIDE DEF at
<1>3. PICK k \in 1 .. n : levels[k].price = price
  BY DEF Lists
<1>4. ~ Better(side, levels[k].price, price)
  BY <1>1, <1>3 DEF Better
<1>5. at <= k /\ at \in 1 .. n
  BY <1>1, <1>2, <1>4
<1>6. at = k
  <2>1. CASE at < k
    <3>1. Better(side, levels[at].price, levels[k].price)
      BY <1>5, <2>1 DEF Lists
    <3> QED  BY <1>2, <1>3, <1>5, <3>1
  <2> QED  BY <1>1, <1>5, <2>1
<1>7. levels[k] = map[price]
  BY <1>3 DEF Lists
<1> QED  BY <1>3, <1>5, <1>6, <1>7 DEF at

\* With an element inserted at k a sequence keeps the others in their order.
LEMMA InsertAtProperties ==
  ASSUME NEW S, NEW q \in Seq(S), NEW k \in 1 .. Len(q) + 1, NEW e \in S
  PROVE  /\ InsertAt(q, k, e) \in Seq(S)
         /\ Len(InsertAt(q, k, e)) = Len(q) + 1
         /\ InsertAt(q, k, e)[k] = e
         /\ \A j \in 1 .. Len(q) + 1 :
               /\ j < k => InsertAt(q, k, e)[j] = q[j]
               /\ j > k => InsertAt(q, k, e)[j] = q[j - 1]
<1> DEFINE left == SubSeq(q, 1, k - 1)
           right == SubSeq(q, k, Len(q))
           first == left \o <<e>>
<1>1. /\ left \in Seq(S) /\ Len(left) = k - 1
      /\ \A j \in 1 .. k - 1 : left[j] = q[j]
  <2>1. \A j \in 1 .. k - 1 : q[j] \in S
    OBVIOUS
  <2> QED  BY <2>1, SubSeqProperties, Z3
<1>2. /\ right \in Seq(S) /\ Len(right) = Len(q) + 1 - k
      /\ \A j \in 1 .. Len(q) + 1 - k : right[j] = q[k + j - 1]
  <2>1. \A j \in k .. Len(q) : q[j] \in S
    OBVIOUS
  <2> QED  BY <2>1, SubSeqProperties, Z3
<1>3. InsertAt(q, k, e) = first \o right
  BY DEF InsertAt
<1> HIDE DEF left, right
<1>4. /\ <<e>> \in Seq(S) /\ Len(<<e>>) = 1 /\ <<e>>[1] = e
  OBVIOUS
<1>5. /\ first \in Seq(S)
      /\ Len(first) = Len(left) + Len(<<e>>)
      /\ \A j \in 1 .. Len(left) + Len(<<e>>) :
            first[j] = IF j <= Len(left) THEN left[j] ELSE <<e>>[j - Len(left)]
  BY <1>1, <1>4, ConcatProperties, Zenon
<1>6. /\ first \in Seq(S) /\ Len(first) = k
      /\ \A j \in 1 .. k - 1 : first[j] = q[j]
      /\ first[k] = e
  BY <1>1, <1>4, <1>5
<1> HIDE DEF first
<1>7. /\ first \o right \in Seq(S)
      /\ Len(first \o right) = Len(first) + Len(right)
      /\ \A j \in 1 .. Len(first) + Len(right) :
            (first \o right)[j] = IF j <= Len(first) THEN first[j]
                                                    ELSE right[j - Len(first)]
  BY <1>2, <1>6, ConcatProperties, Zenon
<1>8. Len(first) + Len(right) = Len(q) + 1
  BY <1>2, <1>6
<1>9. ASSUME NEW j \in 1 .. Len(q) + 1
      PROVE  (first \o right)[j] = IF j < k THEN q[j] ELSE IF j = k THEN e ELSE q[j - 1]
  <2>1. CASE j <= k
    BY <1>6, <1>7, <1>8, <2>1
  <2>2. CASE ~ j <= k
    <3>1. j - k \in 1 .. Len(q) + 1 - k /\ k + (j - k) - 1 = j - 1
      BY <2>2
    <3> QED  BY <1>2, <1>6, <1>7, <1>8, <2>2, <3>1
  <2> QED  BY <2>1, <2>2
<1> QED  BY <1>3, <1>7, <1>8, <1>9

\* A level inserted where the search for its price ends.
LEMMA InsertLists ==
  ASSUME NEW levels, NEW side, NEW map, NEW T, Lists(levels, side, map, T),
         NEW price \in Nat, price \notin DOMAIN map, NEW level \in T, level.price = price
  PROVE  Lists(Pooled!InsertAt(levels, Pooled!Place(levels, side, price), level), side,
               Put(map, price, level), T)
<1> DEFINE at    == Pooled!Place(levels, side, price)
           n     == Len(levels)
           after == InsertAt(levels, at, level)
           new   == Put(map, price, level)
<1>1. n \in Nat /\ levels \in Seq(T)
  BY DEF Lists
<1>2. /\ at \in 1 .. n + 1
      /\ \A j \in 1 .. n :
            /\ j < at => Better(side, levels[j].price, price)
            /\ j >= at => Better(side, price, levels[j].price)
            /\ levels[j].price # price
  BY PlaceDivides
<1> HIDE DEF at
<1>3. /\ after \in Seq(T) /\ Len(after) = n + 1 /\ after[at] = level
      /\ \A j \in 1 .. n + 1 :
            /\ j < at => after[j] = levels[j]
            /\ j > at => after[j] = levels[j - 1]
  <2>1. levels \in Seq(T) /\ at \in 1 .. Len(levels) + 1 /\ level \in T
    BY <1>1, <1>2
  <2>2. InsertAt(levels, at, level) \in Seq(T)
    BY <2>1, InsertAtProperties
  <2>3. Len(InsertAt(levels, at, level)) = Len(levels) + 1
    BY <2>1, InsertAtProperties
  <2>4. InsertAt(levels, at, level)[at] = level
    BY <2>1, InsertAtProperties
  <2>5. \A j \in 1 .. Len(levels) + 1 :
           /\ j < at => InsertAt(levels, at, level)[j] = levels[j]
           /\ j > at => InsertAt(levels, at, level)[j] = levels[j - 1]
    BY <2>1, InsertAtProperties
  <2> QED  BY <2>2, <2>3, <2>4, <2>5
<1>4. /\ DOMAIN new = DOMAIN map \cup {price} /\ new[price] = level
      /\ \A p \in DOMAIN map : new[p] = map[p]
  BY DEF Put
<1> HIDE DEF after, new
<1>5. DOMAIN new \subseteq Nat /\ \A p \in DOMAIN new : new[p] \in T /\ new[p].price = p
  BY <1>4 DEF Lists
<1>6. ASSUME NEW k \in 1 .. Len(after)
      PROVE  after[k].price \in DOMAIN new /\ after[k] = new[after[k].price]
  <2>1. CASE k = at
    BY <1>2, <1>3, <1>4, <1>6, <2>1
  <2>2. CASE k # at
    <3>1. PICK j \in 1 .. n : after[k] = levels[j]
      <4>1. CASE k < at
        BY <1>1, <1>2, <1>3, <1>6, <4>1
      <4>2. CASE k > at
        <5>1. k - 1 \in 1 .. n
          BY <1>1, <1>2, <1>3, <1>6, <4>2
        <5> QED  BY <1>1, <1>2, <1>3, <1>6, <4>2, <5>1
      <4> QED  BY <1>1, <1>2, <1>3, <1>6, <2>2, <4>1, <4>2
    <3>2. levels[j].price \in DOMAIN map /\ levels[j] = map[levels[j].price]
      BY DEF Lists
    <3> QED  BY <1>4, <3>1, <3>2
  <2> QED  BY <2>1, <2>2
<1>7. ASSUME NEW j \in 1 .. Len(after), NEW k \in 1 .. Len(after), j < k
      PROVE  Better(side, after[j].price, after[k].price)
  <2>1. j \in 1 .. n + 1 /\ k \in 1 .. n + 1
    BY <1>3
  <2>2. \A x, y \in 1 .. n : x < y => Better(side, levels[x].price, levels[y].price)
    BY DEF Lists
  <2>3. CASE k < at
    <3>1. j \in 1 .. n /\ k \in 1 .. n /\ j < at
      BY <1>1, <1>2, <1>7, <2>1, <2>3
    <3> QED  BY <1>3, <1>7, <2>1, <2>2, <2>3, <3>1
  <2>4. CASE k = at
    <3>1. j \in 1 .. n /\ j < at
      BY <1>1, <1>2, <1>7, <2>1, <2>4
    <3> QED  BY <1>2, <1>3, <1>7, <2>1, <2>4, <3>1
  <2>5. CASE k > at /\ j < at
    <3>1. j \in 1 .. n /\ k - 1 \in 1 .. n /\ j < k - 1
      BY <1>1, <1>2, <1>7, <2>1, <2>5
    <3>2. after[k] = levels[k - 1]
      BY <1>2, <1>3, <2>1, <2>5
    <3> QED  BY <1>3, <2>1, <2>2, <2>5, <3>1, <3>2
  <2>6. CASE k > at /\ j = at
    <3>1. k - 1 \in 1 .. n /\ k - 1 >= at
      BY <1>1, <1>2, <1>7, <2>1, <2>6
    <3>2. after[k] = levels[k - 1] /\ after[j] = level
      BY <1>2, <1>3, <2>1, <2>6
    <3> QED  BY <1>2, <3>1, <3>2
  <2>7. CASE k > at /\ j > at
    <3>1. j - 1 \in 1 .. n /\ k - 1 \in 1 .. n /\ j - 1 < k - 1
      BY <1>1, <1>2, <1>7, <2>1, <2>7
    <3>2. after[k] = levels[k - 1] /\ after[j] = levels[j - 1]
      BY <1>2, <1>3, <2>1, <2>7
    <3> QED  BY <2>2, <3>1, <3>2
  <2> QED  BY <1>2, <2>1, <2>3, <2>4, <2>5, <2>6, <2>7
<1>8. ASSUME NEW p \in DOMAIN new PROVE \E k \in 1 .. Len(after) : after[k].price = p
  <2>1. CASE p = price
    <3>1. at \in 1 .. Len(after) /\ after[at] = level
      BY <1>2, <1>3
    <3> QED  BY <2>1, <3>1
  <2>2. CASE p \in DOMAIN map
    <3>1. PICK j \in 1 .. n : levels[j].price = p
      BY <2>2 DEF Lists
    <3>2. CASE j < at
      BY <1>1, <1>2, <1>3, <3>1, <3>2
    <3>3. CASE j >= at
      <4>1. j + 1 \in 1 .. Len(after) /\ after[j + 1] = levels[j]
        BY <1>1, <1>2, <1>3, <3>3
      <4> QED  BY <3>1, <4>1
    <3> QED  BY <1>2, <3>2, <3>3
  <2> QED  BY <1>4, <2>1, <2>2
<1>9. Lists(after, side, new, T)
  BY <1>3, <1>5, <1>6, <1>7, <1>8 DEF Lists
<1> QED  BY <1>9, SameOperators DEF after, at, new

\* A level overwritten where the search for its price ends.
LEMMA UpdateLists ==
  ASSUME NEW levels, NEW side, NEW map, NEW T, Lists(levels, side, map, T),
         NEW price \in DOMAIN map, NEW level \in T, level.price = price
  PROVE  Lists([levels EXCEPT ![Pooled!Place(levels, side, price)] = level], side,
               Put(map, price, level), T)
<1> DEFINE at    == Pooled!Place(levels, side, price)
           n     == Len(levels)
           after == [levels EXCEPT ![at] = level]
           new   == Put(map, price, level)
<1>1. n \in Nat /\ levels \in Seq(T) /\ DOMAIN levels = 1 .. n /\ price \in Nat
  BY DEF Lists
<1>2. at \in 1 .. n /\ levels[at].price = price
  BY PlaceFinds
<1> HIDE DEF at
<1>3. /\ after \in Seq(T) /\ Len(after) = n /\ after[at] = level
      /\ \A j \in 1 .. n : j # at => after[j] = levels[j]
  BY <1>1, <1>2
<1>4. /\ DOMAIN new = DOMAIN map /\ new[price] = level
      /\ \A p \in DOMAIN map : p # price => new[p] = map[p]
  BY DEF Put
<1> HIDE DEF after, new
<1>5. \A k \in 1 .. n : after[k].price = levels[k].price
  BY <1>2, <1>3
<1>6. \A k \in 1 .. n : k # at => levels[k].price # price
  <2> SUFFICES ASSUME NEW k \in 1 .. n, k # at PROVE levels[k].price # price
    OBVIOUS
  <2>1. k < at \/ at < k
    BY <1>2
  <2>2. Better(side, levels[k].price, price) \/ Better(side, price, levels[k].price)
    BY <1>2, <2>1 DEF Lists
  <2>3. ~ Better(side, price, price)
    BY <1>1 DEF Better
  <2> QED  BY <2>2, <2>3
<1>7. DOMAIN new \subseteq Nat /\ \A p \in DOMAIN new : new[p] \in T /\ new[p].price = p
  <2>1. \A p \in DOMAIN map : p \in Nat /\ map[p] \in T /\ map[p].price = p
    BY DEF Lists
  <2> QED  BY <1>4, <2>1
<1>8. \A k \in 1 .. n : after[k].price \in DOMAIN new /\ after[k] = new[after[k].price]
  <2> SUFFICES ASSUME NEW k \in 1 .. n
               PROVE  after[k].price \in DOMAIN new /\ after[k] = new[after[k].price]
    OBVIOUS
  <2>1. CASE k = at
    BY <1>2, <1>3, <1>4, <2>1
  <2>2. CASE k # at
    <3>1. levels[k].price \in DOMAIN map /\ levels[k] = map[levels[k].price]
      BY DEF Lists
    <3> QED  BY <1>3, <1>4, <1>6, <2>2, <3>1
  <2> QED  BY <2>1, <2>2
<1>9. \A j, k \in 1 .. n : j < k => Better(side, after[j].price, after[k].price)
  BY <1>5 DEF Lists
<1>10. \A p \in DOMAIN new : \E k \in 1 .. n : after[k].price = p
  BY <1>4, <1>5 DEF Lists
<1>11. Lists(after, side, new, T)
  BY <1>3, <1>7, <1>8, <1>9, <1>10 DEF Lists
<1> QED  BY <1>11 DEF after, at, new

\* A level removed.
LEMMA RemoveLists ==
  ASSUME NEW levels, NEW side, NEW map, NEW T, Lists(levels, side, map, T),
         NEW at \in 1 .. Len(levels)
  PROVE  Lists(Pooled!RemoveAt(levels, at), side,
               Restrict(map, DOMAIN map \ {levels[at].price}), T)
<1> DEFINE n     == Len(levels)
           price == levels[at].price
           after == RemoveAt(levels, at)
           new   == Restrict(map, DOMAIN map \ {price})
<1>1. n \in Nat /\ levels \in Seq(T) /\ DOMAIN levels = 1 .. n /\ price \in Nat
      /\ price \in DOMAIN map
  BY DEF Lists
<1> HIDE DEF price
<1>2. levels[at].price = price
  BY DEF price
<1>3. /\ after \in Seq(T) /\ Len(after) = n - 1
      /\ \A j \in 1 .. n - 1 : after[j] = IF j < at THEN levels[j] ELSE levels[j + 1]
  BY <1>1, RemoveAtProperties
<1>4. DOMAIN new = DOMAIN map \ {price} /\ \A p \in DOMAIN new : new[p] = map[p]
  BY DEF Restrict
<1> HIDE DEF after, new
<1>5. DOMAIN new \subseteq Nat /\ \A p \in DOMAIN new : new[p] \in T /\ new[p].price = p
  BY <1>4 DEF Lists
<1>6. \A x, y \in 1 .. n : x < y => Better(side, levels[x].price, levels[y].price)
  BY DEF Lists
<1>7. \A k \in 1 .. n : k # at => levels[k].price # price
  <2> SUFFICES ASSUME NEW k \in 1 .. n, k # at PROVE levels[k].price # price
    OBVIOUS
  <2>1. k < at \/ at < k
    OBVIOUS
  <2>2. Better(side, levels[k].price, price) \/ Better(side, price, levels[k].price)
    BY <1>2, <1>6, <2>1
  <2>3. ~ Better(side, price, price)
    BY <1>1 DEF Better
  <2> QED  BY <2>2, <2>3
<1> DEFINE old(j) == IF j < at THEN j ELSE j + 1
<1>8. \A j \in 1 .. n - 1 : old(j) \in 1 .. n /\ old(j) # at /\ after[j] = levels[old(j)]
  BY <1>1, <1>3
<1>9. \A j, k \in 1 .. n - 1 : j < k => old(j) < old(k)
  BY <1>1
<1>10. \A k \in 1 .. n : k # at => \E j \in 1 .. n - 1 : old(j) = k
  <2> SUFFICES ASSUME NEW k \in 1 .. n, k # at PROVE \E j \in 1 .. n - 1 : old(j) = k
    OBVIOUS
  <2>1. CASE k < at
    <3>1. k \in 1 .. n - 1
      BY <1>1, <2>1
    <3> QED  BY <2>1, <3>1
  <2>2. CASE k > at
    <3>1. k - 1 \in 1 .. n - 1 /\ ~ k - 1 < at /\ (k - 1) + 1 = k
      BY <1>1, <2>2
    <3> QED  BY <3>1
  <2> QED  BY <2>1, <2>2
<1> HIDE DEF old
<1>11. ASSUME NEW j \in 1 .. n - 1
       PROVE  after[j].price \in DOMAIN new /\ after[j] = new[after[j].price]
  <2>1. levels[old(j)].price \in DOMAIN map /\ levels[old(j)] = map[levels[old(j)].price]
        /\ levels[old(j)].price # price
    BY <1>7, <1>8 DEF Lists
  <2> QED  BY <1>4, <1>8, <2>1
<1>12. \A j, k \in 1 .. n - 1 : j < k => Better(side, after[j].price, after[k].price)
  BY <1>6, <1>8, <1>9
<1>13. ASSUME NEW p \in DOMAIN new PROVE \E j \in 1 .. n - 1 : after[j].price = p
  <2>1. PICK k \in 1 .. n : levels[k].price = p
    BY <1>4 DEF Lists
  <2>2. k # at
    BY <1>2, <1>4, <2>1
  <2> QED  BY <1>8, <1>10, <2>1, <2>2
<1>14. Lists(after, side, new, T)
  BY <1>3, <1>5, <1>11, <1>12, <1>13 DEF Lists
<1> QED  BY <1>14, SameOperators DEF after, new, price

\* A map in which an entry is overwritten twice.
LEMMA PutOver ==
  \A map, key, x, y : Put(Put(map, key, x), key, y) = Put(map, key, y)
<1> SUFFICES ASSUME NEW map, NEW key, NEW x, NEW y
             PROVE  Put(Put(map, key, x), key, y) = Put(map, key, y)
  OBVIOUS
<1> DEFINE one == Put(map, key, x)
<1>1. Put(one, key, y) = [k \in DOMAIN one \cup {key} |-> IF k = key THEN y ELSE one[k]]
  BY DEF Put
<1>2. Put(map, key, y) = [k \in DOMAIN map \cup {key} |-> IF k = key THEN y ELSE map[k]]
  BY DEF Put
<1>3. DOMAIN one \cup {key} = DOMAIN map \cup {key}
      /\ \A k \in DOMAIN map \cup {key} : k # key => one[k] = map[k]
  BY DEF Put
<1> HIDE DEF one
<1>4. Put(one, key, y) = Put(map, key, y)
  BY <1>1, <1>2, <1>3
<1> QED  BY <1>4 DEF one

\* A map from which an overwritten entry is taken.
LEMMA TakeOver ==
  \A map, key, x : Restrict(Put(map, key, x), DOMAIN Put(map, key, x) \ {key}) =
                     Restrict(map, DOMAIN map \ {key})
<1> SUFFICES ASSUME NEW map, NEW key, NEW x
             PROVE  Restrict(Put(map, key, x), DOMAIN Put(map, key, x) \ {key}) =
                      Restrict(map, DOMAIN map \ {key})
  OBVIOUS
<1> DEFINE one == Put(map, key, x)
           S   == DOMAIN map \ {key}
<1>1. DOMAIN one \ {key} = S /\ \A k \in S : one[k] = map[k]
  BY DEF Put
<1> HIDE DEF one, S
<1>2. Restrict(one, S) = Restrict(map, S)
  BY <1>1 DEF Restrict
<1> QED  BY <1>1, <1>2 DEF one, S

\* The level that mutable_level makes.
Blank(price) == [price |-> price, total |-> 0, head |-> 0, tail |-> 0, count |-> 0]

\* mutable_level finds the level of a price or inserts a blank one.
LEMMA WithLevelLists ==
  ASSUME NEW levels, NEW side, NEW map, NEW T, Lists(levels, side, map, T),
         NEW price \in Nat, Blank(price) \in T
  PROVE  LET level == IF price \in DOMAIN map THEN map[price] ELSE Blank(price)
             with  == Pooled!WithLevel(levels, side, price)
         IN  /\ Lists(with, side, Put(map, price, level), T)
             /\ with[Pooled!Place(with, side, price)] = level
<1> DEFINE level == IF price \in DOMAIN map THEN map[price] ELSE Blank(price)
           with  == Pooled!WithLevel(levels, side, price)
           at    == Pooled!Place(levels, side, price)
           n     == Len(levels)
<1>1. n \in Nat
  BY DEF Lists
<1>2. Lists(with, side, Put(map, price, level), T)
  <2>1. CASE price \in DOMAIN map
    <3>1. at \in 1 .. n /\ levels[at].price = price
      <4>1. at \in 1 .. n
        BY <2>1, PlaceFinds
      <4>2. levels[at].price = price
        BY <2>1, PlaceFinds
      <4> QED  BY <4>1, <4>2
    <3>2. with = levels
      <4> HIDE DEF at
      <4>1. at <= Len(levels) /\ levels[at].price = price
        BY <1>1, <3>1
      <4> QED  BY <4>1 DEF Pooled!WithLevel, at
    <3>3. DOMAIN Put(map, price, level) = DOMAIN map
          /\ \A p \in DOMAIN map : Put(map, price, level)[p] = map[p]
      BY <2>1 DEF Put
    <3> HIDE DEF level, with
    <3>4. Lists(levels, side, Put(map, price, level), T)
      BY <3>3 DEF Lists
    <3> QED  BY <3>2, <3>4
  <2>2. CASE price \notin DOMAIN map
    <3>1. at \in 1 .. n + 1 /\ \A j \in 1 .. n : levels[j].price # price
      BY <2>2, PlaceDivides
    <3>2. with = Pooled!InsertAt(levels, at, Blank(price))
      <4>1. ~ (at <= Len(levels) /\ levels[at].price = price)
        <5> HIDE DEF at
        <5> QED  BY <1>1, <3>1
      <4> QED  BY <4>1 DEF Pooled!WithLevel, Blank, Pooled!None
    <3>3. Blank(price).price = price /\ level = Blank(price)
      BY <2>2 DEF Blank
    <3> QED  BY <2>2, <3>2, <3>3, InsertLists
  <2> QED  BY <2>1, <2>2
<1> HIDE DEF with, level
<1>3. price \in DOMAIN Put(map, price, level) /\ Put(map, price, level)[price] = level
  BY DEF Put
<1>4. with[Pooled!Place(with, side, price)] = level
  BY <1>2, <1>3, PlaceFinds
<1> QED  BY <1>2, <1>4 DEF with, level

\* append_order, as far as the level vector goes.
JoinedAt(levels, side, map, T, price, level, quantity, at) ==
  LET with  == Pooled!WithLevel(levels, side, price)
      place == Pooled!Place(with, side, price)
  IN  /\ with[place] = level
      /\ Lists([with EXCEPT ![place] = Pooled!Joined(with[place], quantity, at)], side,
               Put(map, price, Pooled!Joined(level, quantity, at)), T)

\* append_order changes the one level of the price, found or made.
LEMMA JoinLists ==
  ASSUME NEW levels, NEW side, NEW map, NEW T, Lists(levels, side, map, T),
         NEW price \in Nat, Blank(price) \in T, NEW quantity, NEW at,
         NEW level, level = IF price \in DOMAIN map THEN map[price] ELSE Blank(price),
         Pooled!Joined(level, quantity, at) \in T,
         Pooled!Joined(level, quantity, at).price = price
  PROVE  JoinedAt(levels, side, map, T, price, level, quantity, at)
<1> DEFINE with  == Pooled!WithLevel(levels, side, price)
           place == Pooled!Place(with, side, price)
           new   == Pooled!Joined(level, quantity, at)
<1>1. Lists(with, side, Put(map, price, level), T) /\ with[place] = level
  BY WithLevelLists
<1>2. new \in T /\ new.price = price
  OBVIOUS
<1> HIDE DEF with
<1>3. price \in DOMAIN Put(map, price, level)
  BY DEF Put
<1>4. [with EXCEPT ![place] = Pooled!Joined(with[place], quantity, at)] = [with EXCEPT ![place] = new]
  BY <1>1
<1> HIDE DEF new
<1>5. Lists([with EXCEPT ![place] = new], side, Put(Put(map, price, level), price, new), T)
  BY <1>1, <1>2, <1>3, UpdateLists
<1>6. Lists([with EXCEPT ![place] = new], side, Put(map, price, new), T)
  <2>1. Put(Put(map, price, level), price, new) = Put(map, price, new)
    BY PutOver
  <2> QED  BY <1>5, <2>1
<1> QED  BY <1>1, <1>4, <1>6 DEF with, new, JoinedAt

\* A price has one place.
LEMMA OnlyPlace ==
  ASSUME NEW levels, NEW side, NEW map, NEW T, Lists(levels, side, map, T),
         NEW price \in DOMAIN map
  PROVE  LET here == {k \in DOMAIN levels : levels[k].price = price}
         IN  /\ here # {} /\ Min(here) \in 1 .. Len(levels)
             /\ levels[Min(here)] = map[price] /\ levels[Min(here)].price = price
<1> DEFINE here == {k \in DOMAIN levels : levels[k].price = price}
<1>1. DOMAIN levels = 1 .. Len(levels) /\ Len(levels) \in Nat
  BY DEF Lists
<1>2. here # {} /\ here \in SUBSET Nat
  <2>1. here \in SUBSET Nat
    BY <1>1
  <2>2. PICK k \in 1 .. Len(levels) : levels[k].price = price
    BY DEF Lists
  <2> QED  BY <1>1, <2>1, <2>2
<1>3. PICK m \in here : \A k \in here : m <= k
  BY <1>2, Least
<1>4. Min(here) \in here
  BY <1>3 DEF Min
<1> QED  BY <1>1, <1>2, <1>4 DEF Lists

\* unlink_order and erase_level_if_empty, as far as the level vector goes.
LEMMA LeaveLists ==
  ASSUME NEW levels, NEW side, NEW map, NEW T, Lists(levels, side, map, T),
         NEW price \in DOMAIN map, NEW node,
         Pooled!Left(map[price], node) \in T, Pooled!Left(map[price], node).price = price
  PROVE  LET place == Pooled!Place(levels, side, price)
             left  == Pooled!Left(map[price], node)
         IN  Lists(Pooled!WithoutEmpty([levels EXCEPT ![place] = Pooled!Left(levels[place], node)], price),
                   side,
                   IF left.count = 0 THEN Restrict(map, DOMAIN map \ {price})
                                     ELSE Put(map, price, left), T)
<1> DEFINE place == Pooled!Place(levels, side, price)
           left  == Pooled!Left(map[price], node)
           after == [levels EXCEPT ![place] = left]
           new   == Put(map, price, left)
           here  == {k \in DOMAIN after : after[k].price = price}
<1>1. price \in Nat
  BY DEF Lists
<1>2. levels[place] = map[price]
  BY PlaceFinds
<1>3. [levels EXCEPT ![place] = Pooled!Left(levels[place], node)] = after
  BY <1>2
<1>4. left \in T /\ left.price = price
  OBVIOUS
<1> HIDE DEF left
<1>5. Lists(after, side, new, T)
  BY <1>4, UpdateLists
<1>6. price \in DOMAIN new /\ new[price] = left
  BY DEF Put
<1> HIDE DEF after, new
<1>7. /\ Min(here) \in 1 .. Len(after)
      /\ after[Min(here)] = left /\ after[Min(here)].price = price
  BY <1>5, <1>6, OnlyPlace
<1>8. Pooled!WithoutEmpty(after, price) =
        IF after[Min(here)].count = 0 THEN Pooled!RemoveAt(after, Min(here)) ELSE after
  BY SameOperators DEF Pooled!WithoutEmpty
<1> HIDE DEF here
<1>9. CASE left.count = 0
  <2>1. Lists(Pooled!RemoveAt(after, Min(here)), side, Restrict(new, DOMAIN new \ {price}), T)
    BY <1>5, <1>7, RemoveLists
  <2>2. Restrict(new, DOMAIN new \ {price}) = Restrict(map, DOMAIN map \ {price})
    BY TakeOver DEF new
  <2> QED  BY <1>3, <1>7, <1>8, <1>9, <2>1, <2>2 DEF left
<1>10. CASE left.count # 0
  BY <1>3, <1>5, <1>7, <1>8, <1>10 DEF left, new
<1> QED  BY <1>9, <1>10

-------------------------------------------------------------------------------
(* The pool of nodes.                                                      *)

\* The nodes of a pool of orders with ids in I.
NodeRec(I) == [id : I \cup {0}, side : Sides, price : Nat, quantity : Nat,
               previous : Nat, next : Nat, active : BOOLEAN]

\* The free list: the nodes that are not used, each once, blank and linked.
Frees(list, nodes, free, used) ==
  /\ list \in Seq(Nat)
  /\ \A k \in 1 .. Len(list) : list[k] \in 1 .. Len(nodes) /\ list[k] \notin used
  /\ \A j, k \in 1 .. Len(list) : list[j] = list[k] => j = k
  /\ \A at \in 1 .. Len(nodes) :
        at \notin used => \E k \in 1 .. Len(list) : list[k] = at
  /\ free = IF Len(list) = 0 THEN 0 ELSE list[1]
  /\ \A k \in 1 .. Len(list) :
        nodes[list[k]] = Pooled!Released(IF k = Len(list) THEN 0 ELSE list[k + 1])

\* What acquire_node gives: a node that no order uses.
LEMMA AcquireGives ==
  ASSUME NEW p, NEW I, p.nodes \in Seq(NodeRec(I)), NEW used, NEW list,
         Frees(list, p.nodes, p.free, used), used \subseteq 1 .. Len(p.nodes),
         NEW node \in NodeRec(I)
  PROVE  LET new == Pooled!Acquire(p, node)
         IN  /\ new.nodes \in Seq(NodeRec(I))
             /\ \/ Len(new.nodes) = Len(p.nodes)
                \/ Len(new.nodes) = Len(p.nodes) + 1 /\ used = 1 .. Len(p.nodes)
             /\ new.at \in 1 .. Len(new.nodes) /\ new.at \notin used
             /\ new.nodes[new.at] = node
             /\ \A k \in used : new.nodes[k] = p.nodes[k]
             /\ \E rest : Frees(rest, new.nodes, new.free, used \cup {new.at})
<1> DEFINE new == Pooled!Acquire(p, node)
           n   == Len(p.nodes)
           m   == Len(list)
<1>1. n \in Nat /\ m \in Nat /\ DOMAIN p.nodes = 1 .. n
      /\ \A k \in 1 .. m : list[k] \in 1 .. n
  BY DEF Frees
<1>2. CASE m = 0
  <2>1. p.free = 0 /\ used = 1 .. n
    <3>1. p.free = 0
      BY <1>2 DEF Frees
    <3>2. \A x \in 1 .. n : x \in used
      BY <1>2 DEF Frees
    <3> QED  BY <3>1, <3>2
  <2>2. /\ new.at = n + 1 /\ new.nodes = Append(p.nodes, node) /\ new.free = 0
    BY <2>1 DEF Pooled!Acquire, Pooled!None
  <2> HIDE DEF new
  <2>3. /\ new.nodes \in Seq(NodeRec(I)) /\ Len(new.nodes) = n + 1
        /\ new.nodes[n + 1] = node
        /\ \A k \in 1 .. n : new.nodes[k] = p.nodes[k]
    BY <1>1, <2>2
  <2>4. Frees(<<>>, new.nodes, 0, used \cup {new.at})
    BY <1>1, <2>1, <2>2, <2>3 DEF Frees
  <2>5. /\ new.at \in 1 .. Len(new.nodes) /\ new.at \notin used
    BY <1>1, <2>1, <2>2, <2>3
  <2>6. \E rest : Frees(rest, new.nodes, new.free, used \cup {new.at})
    BY <2>2, <2>4
  <2> QED  BY <2>1, <2>2, <2>3, <2>5, <2>6 DEF new
<1>3. CASE m # 0
  <2> DEFINE at   == list[1]
             rest == [k \in 1 .. m - 1 |-> list[k + 1]]
             next == IF m = 1 THEN 0 ELSE list[2]
  <2>1. /\ p.free = at /\ at \in 1 .. n /\ at # 0 /\ at \notin used
        /\ p.nodes[at] = Pooled!Released(next)
    <3>1. 1 \in 1 .. m
      BY <1>1, <1>3
    <3>2. p.free = at
      BY <1>3 DEF Frees
    <3>3. at \in 1 .. n /\ at \notin used
      BY <3>1 DEF Frees
    <3>4. at # 0
      BY <1>1, <3>3
    <3>5. p.nodes[at] = Pooled!Released(IF 1 = m THEN 0 ELSE list[1 + 1])
      BY <3>1 DEF Frees
    <3>6. next = IF 1 = m THEN 0 ELSE list[1 + 1]
      OBVIOUS
    <3> QED  BY <3>2, <3>3, <3>4, <3>5, <3>6
  <2>2. p.nodes[at].next = next
    BY <2>1 DEF Pooled!Released, Pooled!Node
  <2> HIDE DEF at, next
  <2>3. new.at = at /\ new.nodes = [p.nodes EXCEPT ![at] = node] /\ new.free = next
    BY <2>1, <2>2 DEF Pooled!Acquire, Pooled!None
  <2> HIDE DEF new
  <2>4. /\ new.nodes \in Seq(NodeRec(I)) /\ Len(new.nodes) = n
        /\ new.nodes[at] = node
        /\ \A k \in 1 .. n : k # at => new.nodes[k] = p.nodes[k]
    BY <1>1, <2>1, <2>3
  <2>5. /\ rest \in Seq(Nat) /\ Len(rest) = m - 1
        /\ \A k \in 1 .. m - 1 : rest[k] = list[k + 1] /\ k + 1 \in 1 .. m /\ k + 1 # 1
    <3>1. m - 1 \in Nat /\ rest \in [1 .. m - 1 -> Nat]
      BY <1>1, <1>3
    <3>2. rest \in Seq(Nat) /\ Len(rest) = m - 1
      BY <3>1, IsSequence
    <3>3. \A k \in 1 .. m - 1 : rest[k] = list[k + 1]
      OBVIOUS
    <3>4. \A k \in 1 .. m - 1 : k + 1 \in 1 .. m /\ k + 1 # 1
      BY <1>1
    <3> QED  BY <3>2, <3>3, <3>4
  <2> HIDE DEF rest
  <2>6. Frees(rest, new.nodes, next, used \cup {at})
    <3>1. \A j, k \in 1 .. m : list[j] = list[k] => j = k
      BY DEF Frees
    <3>2. \A k \in 1 .. m - 1 : /\ rest[k] \in 1 .. n /\ rest[k] \notin used
                                /\ rest[k] # at
      <4> SUFFICES ASSUME NEW k \in 1 .. m - 1
                   PROVE  rest[k] \in 1 .. n /\ rest[k] \notin used /\ rest[k] # at
        OBVIOUS
      <4>1. rest[k] = list[k + 1] /\ k + 1 \in 1 .. m /\ k + 1 # 1 /\ 1 \in 1 .. m
        BY <1>1, <2>5
      <4>2. list[k + 1] # list[1]
        BY <3>1, <4>1
      <4> QED  BY <4>1, <4>2 DEF Frees, at
    <3>3. \A j, k \in 1 .. m - 1 : rest[j] = rest[k] => j = k
      <4> SUFFICES ASSUME NEW j \in 1 .. m - 1, NEW k \in 1 .. m - 1, rest[j] = rest[k]
                   PROVE  j = k
        OBVIOUS
      <4>1. j + 1 = k + 1
        BY <2>5, <3>1
      <4> QED  BY <1>1, <4>1
    <3>4. ASSUME NEW x \in 1 .. n, x \notin used \cup {at}
          PROVE  \E k \in 1 .. m - 1 : rest[k] = x
      <4>1. PICK k \in 1 .. m : list[k] = x
        BY <3>4 DEF Frees
      <4>2. k # 1
        BY <3>4, <4>1 DEF at
      <4>3. k - 1 \in 1 .. m - 1 /\ (k - 1) + 1 = k
        BY <1>1, <4>2
      <4> QED  BY <2>5, <4>1, <4>3
    <3>5. next = IF m - 1 = 0 THEN 0 ELSE rest[1]
      <4>1. CASE m = 1
        BY <4>1 DEF next
      <4>2. CASE m # 1
        <5>1. 1 \in 1 .. m - 1 /\ 1 + 1 = 2 /\ m - 1 # 0
          <6>1. m \in Nat /\ m # 0 /\ m # 1
            BY <1>1, <1>3, <4>2
          <6> HIDE DEF m
          <6> QED  BY <6>1
        <5> QED  BY <2>5, <4>2, <5>1 DEF next
      <4> QED  BY <4>1, <4>2
    <3>6. ASSUME NEW k \in 1 .. m - 1
          PROVE  new.nodes[rest[k]] =
                   Pooled!Released(IF k = m - 1 THEN 0 ELSE rest[k + 1])
      <4>1. rest[k] = list[k + 1] /\ k + 1 \in 1 .. m
        BY <2>5
      <4>2. p.nodes[list[k + 1]] =
              Pooled!Released(IF k + 1 = m THEN 0 ELSE list[(k + 1) + 1])
        BY <4>1 DEF Frees
      <4>3. new.nodes[rest[k]] = p.nodes[list[k + 1]]
        BY <2>4, <3>2, <4>1
      <4>4. CASE k = m - 1
        <5>1. k + 1 = m
          BY <1>1, <4>4
        <5> QED  BY <4>2, <4>3, <4>4, <5>1
      <4>5. CASE k # m - 1
        <5>1. k + 1 # m /\ k + 1 \in 1 .. m - 1
          BY <1>1, <4>5
        <5>2. rest[k + 1] = list[(k + 1) + 1]
          BY <2>5, <5>1
        <5> QED  BY <4>2, <4>3, <4>5, <5>1, <5>2
      <4> QED  BY <4>4, <4>5
    <3> QED  BY <2>4, <2>5, <3>2, <3>3, <3>4, <3>5, <3>6 DEF Frees
  <2>7. \E s : Frees(s, new.nodes, new.free, used \cup {new.at})
    BY <2>3, <2>6
  <2>8. \A k \in used : new.nodes[k] = p.nodes[k]
    BY <2>1, <2>4
  <2> QED  BY <2>1, <2>3, <2>4, <2>7, <2>8 DEF new
<1> QED  BY <1>2, <1>3

\* The free list does not depend on the nodes that are used.
LEMMA FreesKept ==
  ASSUME NEW nodes, NEW after, Len(after) = Len(nodes), NEW used, NEW list, NEW free,
         \A at \in 1 .. Len(nodes) : at \notin used => after[at] = nodes[at],
         Frees(list, nodes, free, used)
  PROVE  Frees(list, after, free, used)
  BY DEF Frees

\* release_node puts a node that was used in front.
LEMMA ReleaseFrees ==
  ASSUME NEW nodes, NEW used, NEW list, NEW free, Len(nodes) \in Nat,
         Frees(list, nodes, free, used),
         NEW at \in used, at \in 1 .. Len(nodes), NEW after, Len(after) = Len(nodes),
         \A k \in 1 .. Len(nodes) : k \notin used => after[k] = nodes[k],
         after[at] = Pooled!Released(free)
  PROVE  Frees(<<at>> \o list, after, at, used \ {at})
<1> DEFINE n   == Len(nodes)
           m   == Len(list)
           head == <<at>>
           new == head \o list
<1>1. n \in Nat /\ m \in Nat /\ list \in Seq(Nat) /\ at \in Nat
  BY DEF Frees
<1>2. /\ new \in Seq(Nat) /\ Len(new) = m + 1 /\ new[1] = at
      /\ \A k \in 1 .. m : new[k + 1] = list[k]
  <2>1. head \in Seq(Nat) /\ Len(head) = 1 /\ head[1] = at
    BY <1>1
  <2> HIDE DEF head
  <2>2. /\ new \in Seq(Nat)
        /\ Len(new) = Len(head) + Len(list)
        /\ \A j \in 1 .. Len(head) + Len(list) :
              new[j] = IF j <= Len(head) THEN head[j] ELSE list[j - Len(head)]
    <3>1. head \in Seq(Nat) /\ list \in Seq(Nat)
      BY <1>1, <2>1
    <3>2. new \in Seq(Nat)
      BY <3>1, ConcatProperties
    <3>3. Len(new) = Len(head) + Len(list)
      BY <3>1, ConcatProperties
    <3>4. \A j \in 1 .. Len(head) + Len(list) :
             new[j] = IF j <= Len(head) THEN head[j] ELSE list[j - Len(head)]
      BY <3>1, ConcatProperties
    <3> QED  BY <3>2, <3>3, <3>4
  <2> HIDE DEF new
  <2> QED  BY <1>1, <2>1, <2>2
<1> HIDE DEF new
<1>3. \A k \in 1 .. m + 1 : k = 1 \/ (k - 1 \in 1 .. m /\ new[k] = list[k - 1])
  <2> SUFFICES ASSUME NEW k \in 1 .. m + 1, k # 1
               PROVE  k - 1 \in 1 .. m /\ new[k] = list[k - 1]
    OBVIOUS
  <2>1. k - 1 \in 1 .. m /\ (k - 1) + 1 = k
    BY <1>1
  <2> QED  BY <1>2, <2>1
<1>4. \A k \in 1 .. m : list[k] \in 1 .. n /\ list[k] \notin used /\ list[k] # at
  BY DEF Frees
<1>5. \A j, k \in 1 .. m : list[j] = list[k] => j = k
  BY DEF Frees
<1>6. \A k \in 1 .. m + 1 : new[k] \in 1 .. n /\ new[k] \notin used \ {at}
  BY <1>2, <1>3, <1>4
<1>7. ASSUME NEW j \in 1 .. m + 1, NEW k \in 1 .. m + 1, new[j] = new[k]
      PROVE  j = k
  <2>1. CASE j = 1 \/ k = 1
    <3>1. \A i \in 1 .. m + 1 : new[i] = at => i = 1
      BY <1>3, <1>4
    <3> QED  BY <1>2, <1>7, <2>1, <3>1
  <2>2. CASE j # 1 /\ k # 1
    <3>1. j - 1 = k - 1
      BY <1>3, <1>5, <1>7, <2>2
    <3> QED  BY <3>1
  <2> QED  BY <2>1, <2>2
<1>8. ASSUME NEW x \in 1 .. n, x \notin used \ {at}
      PROVE  \E k \in 1 .. m + 1 : new[k] = x
  <2>1. CASE x = at
    BY <1>1, <1>2, <2>1
  <2>2. CASE x \notin used
    <3>1. PICK k \in 1 .. m : list[k] = x
      BY <2>2 DEF Frees
    <3>2. k + 1 \in 1 .. m + 1
      BY <1>1
    <3> QED  BY <1>2, <3>1, <3>2
  <2> QED  BY <1>8, <2>1, <2>2
<1>9. ASSUME NEW k \in 1 .. m + 1
      PROVE  after[new[k]] = Pooled!Released(IF k = m + 1 THEN 0 ELSE new[k + 1])
  <2>1. CASE k = 1
    <3>1. free = IF k = m + 1 THEN 0 ELSE new[k + 1]
      <4>1. CASE m = 0
        BY <2>1, <4>1 DEF Frees
      <4>2. CASE m # 0
        <5>1. 1 \in 1 .. m /\ k # m + 1
          BY <1>1, <2>1, <4>2
        <5> QED  BY <1>2, <2>1, <4>2, <5>1 DEF Frees
      <4> QED  BY <4>1, <4>2
    <3> QED  BY <1>2, <2>1, <3>1
  <2>2. CASE k # 1
    <3>1. k - 1 \in 1 .. m /\ new[k] = list[k - 1]
      BY <1>3, <2>2
    <3>2. after[list[k - 1]] = Pooled!Released(IF k - 1 = m THEN 0 ELSE list[(k - 1) + 1])
      BY <1>4, <3>1 DEF Frees
    <3>3. CASE k = m + 1
      <4>1. k - 1 = m
        BY <1>1, <3>3
      <4> QED  BY <3>1, <3>2, <3>3, <4>1
    <3>4. CASE k # m + 1
      <4>1. k - 1 # m /\ (k - 1) + 1 = k /\ k \in 1 .. m
        BY <1>1, <3>4
      <4>2. new[k + 1] = list[k]
        BY <1>2, <4>1
      <4> QED  BY <3>1, <3>2, <3>4, <4>1, <4>2
    <3> QED  BY <3>3, <3>4
  <2> QED  BY <2>1, <2>2
<1>10. Frees(new, after, at, used \ {at})
  <2>1. at = IF m + 1 = 0 THEN 0 ELSE new[1]
    BY <1>1, <1>2
  <2> QED  BY <1>1, <1>2, <1>6, <1>7, <1>8, <1>9, <2>1 DEF Frees
<1> QED  BY <1>10 DEF new

\* append_order relinks two nodes: the new one and the one that was last.
LinkedLast(after, nodes, tail, at, I) ==
  /\ after \in Seq(NodeRec(I)) /\ Len(after) = Len(nodes)
  /\ after[at] = [nodes[at] EXCEPT !.previous = tail, !.next = 0]
  /\ tail # 0 => after[tail] = [nodes[tail] EXCEPT !.next = at]
  /\ \A k \in 1 .. Len(nodes) : k # at /\ k # tail => after[k] = nodes[k]

\* append_order links the node behind the tail and touches no other.
LEMMA LinkLastIs ==
  ASSUME NEW I, NEW nodes \in Seq(NodeRec(I)), NEW level, NEW at \in 1 .. Len(nodes),
         level.tail \in 0 .. Len(nodes), level.tail # at
  PROVE  LinkedLast(Pooled!LinkLast(nodes, level, at), nodes, level.tail, at, I)
<1> DEFINE after == Pooled!LinkLast(nodes, level, at)
           one   == [nodes[at] EXCEPT !.previous = level.tail, !.next = 0]
           mid   == [nodes EXCEPT ![at] = one]
           tail  == level.tail
<1>1. one \in NodeRec(I) /\ \A k \in 1 .. Len(nodes) : nodes[k] \in NodeRec(I)
  <2>1. \A k \in 1 .. Len(nodes) : nodes[k] \in NodeRec(I)
    OBVIOUS
  <2>2. nodes[at] \in NodeRec(I) /\ tail \in Nat
    BY <2>1
  <2> HIDE DEF tail
  <2> QED  BY <2>1, <2>2 DEF NodeRec, tail
<1>2. after = IF tail # 0 THEN [mid EXCEPT ![tail].next = at] ELSE mid
  BY DEF Pooled!LinkLast, Pooled!None
<1> HIDE DEF after, one
<1>3. /\ mid \in Seq(NodeRec(I)) /\ Len(mid) = Len(nodes) /\ mid[at] = one
      /\ \A k \in 1 .. Len(nodes) : k # at => mid[k] = nodes[k]
  BY <1>1
<1> HIDE DEF mid, tail
<1>4. CASE tail = 0
  BY <1>2, <1>3, <1>4 DEF after, one, tail, LinkedLast
<1>5. CASE tail # 0
  <2> DEFINE two == [nodes[tail] EXCEPT !.next = at]
  <2>1. tail \in 1 .. Len(nodes) /\ tail # at
    BY <1>5 DEF tail
  <2>2. mid[tail] = nodes[tail]
    BY <1>3, <2>1
  <2>3. two \in NodeRec(I)
    <3>1. nodes[tail] \in NodeRec(I) /\ at \in Nat
      BY <1>1, <2>1
    <3> QED  BY <3>1 DEF NodeRec
  <2>4. after = [mid EXCEPT ![tail] = two]
    BY <1>2, <1>5, <2>2
  <2> HIDE DEF two
  <2>5. /\ after \in Seq(NodeRec(I)) /\ Len(after) = Len(nodes)
        /\ after[tail] = two /\ after[at] = one
        /\ \A k \in 1 .. Len(nodes) : k # at /\ k # tail => after[k] = nodes[k]
    BY <1>3, <2>1, <2>3, <2>4
  <2> QED  BY <2>5 DEF after, one, tail, two, LinkedLast
<1> QED  BY <1>4, <1>5

\* unlink_order and release_node change the node and its two neighbours.
LinkedAround(after, nodes, at, free, I) ==
  LET prev == nodes[at].previous
      next == nodes[at].next
  IN  /\ after \in Seq(NodeRec(I)) /\ Len(after) = Len(nodes)
      /\ after[at] = Pooled!Released(free)
      /\ \A k \in 1 .. Len(nodes) :
            k # at => after[k] = [nodes[k] EXCEPT
                                    !.next     = IF k = prev THEN next ELSE @,
                                    !.previous = IF k = next THEN prev ELSE @]
      /\ \A k \in 1 .. Len(nodes) :
            k # at /\ k # prev /\ k # next => after[k] = nodes[k]

\* unlink_order and release_node join the node's neighbours, blank it and touch
\* no other.
LEMMA LinkAroundIs ==
  ASSUME NEW I, NEW nodes \in Seq(NodeRec(I)), NEW at \in 1 .. Len(nodes), NEW free \in Nat
  PROVE  LinkedAround([Pooled!LinkAround(nodes, at) EXCEPT ![at] = Pooled!Released(free)],
                      nodes, at, free, I)
<1> DEFINE n      == Len(nodes)
           prev   == nodes[at].previous
           next   == nodes[at].next
           New(k) == [nodes[k] EXCEPT !.next     = IF k = prev THEN next ELSE @,
                                      !.previous = IF k = next THEN prev ELSE @]
           around == Pooled!LinkAround(nodes, at)
           blank  == Pooled!Released(free)
           after  == [around EXCEPT ![at] = blank]
<1>1. n \in Nat /\ DOMAIN nodes = 1 .. n /\ \A k \in 1 .. n : nodes[k] \in NodeRec(I)
  OBVIOUS
<1>2. prev \in Nat /\ next \in Nat
  BY <1>1 DEF NodeRec
<1>3. around = [k \in 1 .. n |-> New(k)]
  BY <1>1 DEF Pooled!LinkAround
<1>4. \A k \in 1 .. n : New(k) \in NodeRec(I)
                        /\ (k # prev /\ k # next => New(k) = nodes[k])
  <2> SUFFICES ASSUME NEW k \in 1 .. n
               PROVE  New(k) \in NodeRec(I) /\ (k # prev /\ k # next => New(k) = nodes[k])
    OBVIOUS
  <2>1. nodes[k] \in NodeRec(I)
    BY <1>1
  <2> HIDE DEF prev, next
  <2> QED  BY <1>2, <2>1 DEF NodeRec
<1>5. blank \in NodeRec(I)
  BY DEF NodeRec, Pooled!Released, Pooled!Node, Pooled!None, Sides
<1> HIDE DEF New, blank
<1>6. around \in [1 .. n -> NodeRec(I)]
  BY <1>3, <1>4
<1> HIDE DEF around
<1>7. after \in [1 .. n -> NodeRec(I)] /\ after[at] = blank
      /\ \A k \in 1 .. n : k # at => after[k] = around[k]
  BY <1>5, <1>6
<1> HIDE DEF after
<1>8. after \in Seq(NodeRec(I)) /\ Len(after) = n
  BY <1>1, <1>7, IsSequence
<1>9. \A k \in 1 .. n : k # at => after[k] = New(k)
  BY <1>3, <1>7
<1>10. \A k \in 1 .. n : k # at /\ k # prev /\ k # next => after[k] = nodes[k]
  BY <1>4, <1>9
<1> QED  BY <1>7, <1>8, <1>9, <1>10 DEF after, around, blank, New, LinkedAround

-------------------------------------------------------------------------------
(* The pooled book mirrors the book.                                       *)

\* The node of the k-th order of a queue, and none before the first or after the
\* last.
Link(index, queue, k) == IF k \in 1 .. Len(queue) THEN index[queue[k]] ELSE 0

\* The levels of a vector, and the one that belongs to a queue.
LevelRec == [price : Nat, total : Nat, head : Nat, tail : Nat, count : Nat]

LevelFor(index, level, price) ==
  [price |-> price, total |-> level.total,
   head  |-> Link(index, level.queue, 1),
   tail  |-> Link(index, level.queue, Len(level.queue)),
   count |-> Len(level.queue)]

\* The levels that belong to one side of the book.
LevelMap(index, b, side) ==
  [price \in DOMAIN b.levels[side] |-> LevelFor(index, b.levels[side][price], price)]

\* The node of the k-th order of a queue.
NodeFor(index, b, queue, k) ==
  [id       |-> queue[k],
   side     |-> b.nodes[queue[k]].side,
   price    |-> b.nodes[queue[k]].price,
   quantity |-> b.nodes[queue[k]].quantity,
   previous |-> Link(index, queue, k - 1),
   next     |-> Link(index, queue, k + 1),
   active   |-> TRUE]

\* The nodes that the index knows.
Used(index) == {index[id] : id \in DOMAIN index}

\* Each order has a node of its own.
Indexed(p, b) ==
  /\ DOMAIN p.index = DOMAIN b.nodes
  /\ \A id \in DOMAIN b.nodes : p.index[id] \in 1 .. Len(p.nodes)
  /\ \A i, j \in DOMAIN b.nodes : p.index[i] = p.index[j] => i = j

\* The nodes of every queue, linked both ways in its order.
Chained(p, b) ==
  \A side \in Sides : \A price \in DOMAIN b.levels[side] :
     LET queue == b.levels[side][price].queue
     IN  \A k \in 1 .. Len(queue) :
            p.nodes[p.index[queue[k]]] = NodeFor(p.index, b, queue, k)

\* The pooled book p holds the orders of the book b in the same places.
Mirrors(p, b, I) ==
  /\ p.nodes \in Seq(NodeRec(I))
  /\ Indexed(p, b)
  /\ DOMAIN p.levels = Sides
  /\ \A side \in Sides :
        Lists(p.levels[side], side, LevelMap(p.index, b, side), LevelRec)
  /\ Chained(p, b)
  /\ \E list : Frees(list, p.nodes, p.free, Used(p.index))
  /\ Len(p.nodes) <= Cardinality(I)

\* A node with other links.
Relinked(node, previous, next) ==
  [id |-> node.id, side |-> node.side, price |-> node.price, quantity |-> node.quantity,
   previous |-> previous, next |-> next, active |-> node.active]

LEMMA NodeForIs ==
  ASSUME NEW index, NEW b, NEW queue, NEW k \in Int, NEW index2, NEW b2, NEW queue2,
         NEW k2 \in Int,
         queue2[k2] = queue[k], b2.nodes[queue[k]] = b.nodes[queue[k]]
  PROVE  NodeFor(index2, b2, queue2, k2)
           = Relinked(NodeFor(index, b, queue, k), Link(index2, queue2, k2 - 1),
                      Link(index2, queue2, k2 + 1))
<1> DEFINE previous == Link(index2, queue2, k2 - 1)
           next     == Link(index2, queue2, k2 + 1)
           node     == NodeFor(index, b, queue, k)
           x        == queue[k]
<1>1. /\ node.id = x /\ node.side = b.nodes[x].side /\ node.price = b.nodes[x].price
      /\ node.quantity = b.nodes[x].quantity /\ node.active = TRUE
  BY DEF NodeFor
<1>2. NodeFor(index2, b2, queue2, k2) =
        [id |-> x, side |-> b.nodes[x].side, price |-> b.nodes[x].price,
         quantity |-> b.nodes[x].quantity, previous |-> previous, next |-> next,
         active |-> TRUE]
  BY DEF NodeFor
<1> HIDE DEF previous, next, node, x
<1> QED  BY <1>1, <1>2 DEF Relinked, previous, next, node, x

\* Both ways to change the links of an order's node.
LEMMA NextIs ==
  \A index, b, queue, next : \A k \in Int :
     [NodeFor(index, b, queue, k) EXCEPT !.next = next]
       = Relinked(NodeFor(index, b, queue, k), Link(index, queue, k - 1), next)
<1> SUFFICES ASSUME NEW index, NEW b, NEW queue, NEW k \in Int, NEW next
             PROVE  [NodeFor(index, b, queue, k) EXCEPT !.next = next]
                      = Relinked(NodeFor(index, b, queue, k), Link(index, queue, k - 1), next)
  OBVIOUS
<1> DEFINE node == NodeFor(index, b, queue, k)
<1>1. node.previous = Link(index, queue, k - 1)
      /\ node = Relinked(node, node.previous, node.next)
  BY DEF NodeFor, Relinked
<1> HIDE DEF node
<1>2. [node EXCEPT !.next = next] = Relinked(node, node.previous, next)
  BY <1>1 DEF Relinked
<1> QED  BY <1>1, <1>2 DEF node

Unlinked(node, previous, next) == [node EXCEPT !.next = next, !.previous = previous]

LEMMA LinksAre ==
  \A index, b, queue, next, previous : \A k \in Int :
     Unlinked(NodeFor(index, b, queue, k), previous, next)
       = Relinked(NodeFor(index, b, queue, k), previous, next)
<1> SUFFICES ASSUME NEW index, NEW b, NEW queue, NEW k \in Int, NEW next, NEW previous
             PROVE  Unlinked(NodeFor(index, b, queue, k), previous, next)
                      = Relinked(NodeFor(index, b, queue, k), previous, next)
  OBVIOUS
<1> DEFINE node == NodeFor(index, b, queue, k)
           one  == [node EXCEPT !.next = next]
<1>1. one = Relinked(node, Link(index, queue, k - 1), next)
  BY NextIs
<1>2. Unlinked(node, previous, next) = [one EXCEPT !.previous = previous]
  <2> HIDE DEF node
  <2> QED  BY DEF Unlinked
<1> HIDE DEF node, one
<1>3. [one EXCEPT !.previous = previous] = Relinked(node, previous, next)
  BY <1>1 DEF Relinked
<1> QED  BY <1>2, <1>3 DEF node

\* What a queue of a sound book holds.
LEMMA QueueHolds ==
  ASSUME NEW b, NEW I, NEW P, SoundBook(b, I, P), NEW side \in Sides,
         NEW price \in DOMAIN b.levels[side]
  PROVE  LET queue == b.levels[side][price].queue
         IN  /\ queue \in Seq(I) /\ Len(queue) \in Nat /\ Len(queue) # 0
             /\ \A k \in 1 .. Len(queue) :
                   /\ queue[k] \in DOMAIN b.nodes
                   /\ b.nodes[queue[k]].side = side
                   /\ b.nodes[queue[k]].price = price
             /\ \A j, k \in 1 .. Len(queue) : queue[j] = queue[k] => j = k
             /\ b.levels[side][price].total \in Nat
<1> DEFINE level == b.levels[side][price]
           queue == level.queue
<1>1. SoundLevel(level, b, I, side, price) /\ queue # <<>>
  BY LevelHolds
<1> HIDE DEF level
<1>2. /\ queue \in Seq(I) /\ level.total \in Nat /\ DOMAIN queue = 1 .. Len(queue)
      /\ IsInjective(queue)
      /\ \A k \in 1 .. Len(queue) :
            /\ queue[k] \in DOMAIN b.nodes
            /\ b.nodes[queue[k]].side = side
            /\ b.nodes[queue[k]].price = price
  BY <1>1 DEF SoundLevel
<1>3. Len(queue) \in Nat /\ Len(queue) # 0
  BY <1>1, <1>2
<1>4. \A j, k \in 1 .. Len(queue) : queue[j] = queue[k] => j = k
  BY <1>2 DEF IsInjective
<1> QED  BY <1>2, <1>3, <1>4 DEF level

\* The nodes of a queue are its own.
LEMMA LinksHold ==
  ASSUME NEW p, NEW b, NEW I, NEW P, SoundBook(b, I, P), Indexed(p, b),
         Len(p.nodes) \in Nat, NEW side \in Sides, NEW price \in DOMAIN b.levels[side]
  PROVE  LET queue == b.levels[side][price].queue
         IN  /\ \A k : Link(p.index, queue, k) \in 0 .. Len(p.nodes)
             /\ \A k \in 1 .. Len(queue) :
                   /\ Link(p.index, queue, k) = p.index[queue[k]]
                   /\ Link(p.index, queue, k) \in 1 .. Len(p.nodes)
                   /\ Link(p.index, queue, k) # 0
             /\ \A k : k \notin 1 .. Len(queue) => Link(p.index, queue, k) = 0
<1> DEFINE queue == b.levels[side][price].queue
<1>1. \A k \in 1 .. Len(queue) : queue[k] \in DOMAIN b.nodes
  BY QueueHolds
<1>2. \A id \in DOMAIN b.nodes : p.index[id] \in 1 .. Len(p.nodes)
  BY DEF Indexed
<1> HIDE DEF queue
<1>3. \A k \in 1 .. Len(queue) : p.index[queue[k]] \in 1 .. Len(p.nodes)
  BY <1>1, <1>2
<1>4. \A k \in 1 .. Len(queue) : Link(p.index, queue, k) = p.index[queue[k]]
  BY DEF Link
<1>5. \A k : k \notin 1 .. Len(queue) => Link(p.index, queue, k) = 0
  BY DEF Link
<1>6. \A k \in 1 .. Len(queue) : /\ Link(p.index, queue, k) \in 1 .. Len(p.nodes)
                                 /\ Link(p.index, queue, k) # 0
  BY <1>3, <1>4
<1>7. \A k : Link(p.index, queue, k) \in 0 .. Len(p.nodes)
  BY <1>5, <1>6
<1> QED  BY <1>4, <1>5, <1>6, <1>7 DEF queue

\* The level that the vector has, or is given, for a price.
LEMMA LevelForPrice ==
  ASSUME NEW p, NEW b, NEW side, NEW price
  PROVE  (IF price \in DOMAIN LevelMap(p.index, b, side)
            THEN LevelMap(p.index, b, side)[price] ELSE Blank(price))
           = LevelFor(p.index, LevelAt(b, side, price), price)
<1>1. CASE price \in DOMAIN b.levels[side]
  BY <1>1 DEF LevelMap, LevelAt
<1>2. CASE price \notin DOMAIN b.levels[side]
  <2>1. /\ LevelAt(b, side, price).total = 0 /\ LevelAt(b, side, price).queue = <<>>
    BY <1>2 DEF LevelAt
  <2>2. Len(<<>>) = 0 /\ \A k : Link(p.index, <<>>, k) = 0
    BY DEF Link
  <2>3. LevelFor(p.index, LevelAt(b, side, price), price) = Blank(price)
    BY <2>1, <2>2 DEF LevelFor, Blank
  <2> QED  BY <1>2, <2>3 DEF LevelMap
<1> QED  BY <1>1, <1>2

\* What add_order leaves of the pool.
Grown(after, p, b, I, id, order, at) ==
  LET level == LevelFor(p.index, LevelAt(b, order.side, order.price), order.price)
  IN  /\ after.index = Put(p.index, id, at)
      /\ after.nodes \in Seq(NodeRec(I)) /\ Len(after.nodes) <= Cardinality(I)
      /\ Len(p.nodes) <= Len(after.nodes)
      /\ at \in 1 .. Len(after.nodes) /\ at \notin Used(p.index)
      /\ after.nodes[at] = [id |-> id, side |-> order.side, price |-> order.price,
                            quantity |-> order.quantity, previous |-> level.tail,
                            next |-> 0, active |-> TRUE]
      /\ level.tail # 0 =>
            after.nodes[level.tail] = [p.nodes[level.tail] EXCEPT !.next = at]
      /\ \A k \in Used(p.index) : k # level.tail => after.nodes[k] = p.nodes[k]
      /\ \E list : Frees(list, after.nodes, after.free, Used(p.index) \cup {at})
      /\ DOMAIN after.levels = Sides
      /\ \A side \in Sides : side # order.side => after.levels[side] = p.levels[side]
      /\ Lists(after.levels[order.side], order.side,
               Put(LevelMap(p.index, b, order.side), order.price,
                   Pooled!Joined(level, order.quantity, at)), LevelRec)

\* The nodes in use are as many as the orders.
LEMMA UsedCount ==
  ASSUME NEW p, NEW b, NEW I, IsFiniteSet(I), DOMAIN b.nodes \subseteq I, Indexed(p, b),
         Len(p.nodes) \in Nat, Used(p.index) = 1 .. Len(p.nodes),
         NEW id \in I, id \notin DOMAIN b.nodes
  PROVE  Len(p.nodes) + 1 <= Cardinality(I)
<1> DEFINE S == DOMAIN b.nodes
           n == Len(p.nodes)
           f == [i \in S |-> p.index[i]]
<1>1. f \in Surjection(S, 1 .. n)
  <2>1. f \in [S -> 1 .. n]
    BY DEF Indexed
  <2>2. \A k \in 1 .. n : \E i \in S : f[i] = k
    BY DEF Indexed, Used
  <2> HIDE DEF f
  <2> QED  BY <2>1, <2>2 DEF Surjection
<1>2. IsFiniteSet(S) /\ S \in SUBSET I
  BY FS_Subset
<1> HIDE DEF f, S
<1>3. Cardinality(1 .. n) <= Cardinality(S)
  BY <1>1, <1>2, FS_Surjection
<1>4. Cardinality(1 .. n) = n
  BY FS_Interval
<1>5. Cardinality(S) <= Cardinality(I) /\ (Cardinality(I) = Cardinality(S) => I = S)
  BY <1>2, FS_Subset
<1>6. Cardinality(S) \in Nat /\ Cardinality(I) \in Nat
  BY <1>2, FS_CardinalityType
<1>7. I # S
  BY DEF S
<1> QED  BY <1>3, <1>4, <1>5, <1>6, <1>7

\* The level with one more order.
LEMMA JoinedIs ==
  ASSUME NEW price, NEW total, NEW head, NEW tail, NEW count, NEW quantity, NEW at
  PROVE  Pooled!Joined([price |-> price, total |-> total, head |-> head, tail |-> tail,
                        count |-> count], quantity, at)
           = [price |-> price, total |-> total + quantity,
              head |-> IF tail # 0 THEN head ELSE at, tail |-> at, count |-> count + 1]
<1> DEFINE r0 == [price |-> price, total |-> total, head |-> head, tail |-> tail,
                  count |-> count]
           h  == IF tail # 0 THEN head ELSE at
           t  == total + quantity
           c  == count + 1
           r1 == [r0 EXCEPT !.head = h]
           r2 == [r1 EXCEPT !.tail = at]
           r3 == [r2 EXCEPT !.total = t]
           r4 == [r3 EXCEPT !.count = c]
<1>1. /\ r0.head = head /\ r0.tail = tail /\ r0.total = total /\ r0.count = count
  OBVIOUS
<1> HIDE DEF r0
<1>2. Pooled!Joined(r0, quantity, at) =
        [r0 EXCEPT !.head = h, !.tail = at, !.total = t, !.count = c]
  BY <1>1 DEF Pooled!Joined, Pooled!None
<1> HIDE DEF h, t, c
<1>3. r1 = [price |-> price, total |-> total, head |-> h, tail |-> tail, count |-> count]
  BY DEF r0
<1> HIDE DEF r1
<1>4. r2 = [price |-> price, total |-> total, head |-> h, tail |-> at, count |-> count]
  BY <1>3
<1> HIDE DEF r2
<1>5. r3 = [price |-> price, total |-> t, head |-> h, tail |-> at, count |-> count]
  BY <1>4
<1> HIDE DEF r3
<1>6. r4 = [price |-> price, total |-> t, head |-> h, tail |-> at, count |-> c]
  BY <1>5
<1>7. Pooled!Joined(r0, quantity, at) =
        [price |-> price, total |-> t, head |-> h, tail |-> at, count |-> c]
  BY <1>2, <1>6 DEF r4, r3, r2, r1
<1> QED  BY <1>7 DEF r0, h, t, c

\* Every change that add_order makes.
LEMMA AddOrderGrows ==
  ASSUME NEW p, NEW b, NEW I, NEW P \in SUBSET Nat, IsFiniteSet(I), SoundBook(b, I, P),
         Mirrors(p, b, I), NEW id \in I, ~ Resting(b, id), NEW order \in Offer(P)
  PROVE  \E at : Grown(Pooled!AddOrder(p, id, order.side, order.price, order.quantity),
                       p, b, I, id, order, at)
<1> DEFINE side  == order.side
           price == order.price
           qty   == order.quantity
           node  == Pooled!Node(id, side, price, qty)
           new   == Pooled!Acquire(p, node)
           at    == new.at
           map   == LevelMap(p.index, b, side)
           found == LevelAt(b, side, price)
           level == LevelFor(p.index, found, price)
           with  == Pooled!WithLevel(p.levels[side], side, price)
           place == Pooled!Place(with, side, price)
           join  == Pooled!Joined(level, qty, at)
           after == Pooled!AddOrder(p, id, side, price, qty)
           n     == Len(p.nodes)
           used  == Used(p.index)
<1>1. /\ side \in Sides /\ price \in P /\ price \in Nat /\ qty \in Nat /\ qty # 0
  BY DEF Offer
<1>2. /\ p.nodes \in Seq(NodeRec(I)) /\ n \in Nat /\ n <= Cardinality(I)
      /\ Indexed(p, b) /\ DOMAIN p.levels = Sides
      /\ \A s \in Sides : Lists(p.levels[s], s, LevelMap(p.index, b, s), LevelRec)
      /\ DOMAIN b.levels = Sides /\ DOMAIN b.nodes \subseteq I
  BY DEF Mirrors, SoundBook, IsBook
<1>3. PICK list : Frees(list, p.nodes, p.free, used)
  BY DEF Mirrors
<1>4. used \subseteq 1 .. n
  BY <1>2 DEF Used, Indexed
<1>5. node \in NodeRec(I)
  BY <1>1 DEF NodeRec, Pooled!Node, Pooled!None
<1>6. /\ after.levels = [p.levels EXCEPT ![side] =
                            [with EXCEPT ![place] = Pooled!Joined(with[place], qty, at)]]
      /\ after.nodes = Pooled!LinkLast(new.nodes, with[place], at)
      /\ after.free = new.free
      /\ after.index = Put(p.index, id, at)
  BY <1>1, <1>2, SameOperators DEF Pooled!AddOrder
<1>7. /\ new.nodes \in Seq(NodeRec(I))
      /\ \/ Len(new.nodes) = n
         \/ Len(new.nodes) = n + 1 /\ used = 1 .. n
      /\ at \in 1 .. Len(new.nodes) /\ at \notin used
      /\ new.nodes[at] = node
      /\ \A k \in used : new.nodes[k] = p.nodes[k]
      /\ \E rest : Frees(rest, new.nodes, new.free, used \cup {at})
  <2> HIDE DEF node, used
  <2> QED  BY <1>2, <1>3, <1>4, <1>5, AcquireGives
<1> HIDE DEF after, new, at, used
<1>8. Len(new.nodes) \in Nat /\ n <= Len(new.nodes) /\ Len(new.nodes) <= Cardinality(I)
  <2>1. CASE Len(new.nodes) = n
    BY <1>2, <2>1
  <2>2. CASE Len(new.nodes) = n + 1 /\ used = 1 .. n
    <3>1. id \notin DOMAIN b.nodes
      BY DEF Resting
    <3>2. n + 1 <= Cardinality(I)
      BY <1>2, <2>2, <3>1, UsedCount DEF used
    <3> QED  BY <1>2, <2>2, <3>2
  <2> QED  BY <1>7, <2>1, <2>2
<1>9. /\ level = [price |-> price, total |-> level.total, head |-> level.head,
                  tail |-> level.tail, count |-> level.count]
      /\ level.total \in Nat /\ level.count \in Nat /\ level.count = Len(found.queue)
      /\ level.tail \in 0 .. n /\ level.head \in 0 .. n
      /\ level.tail # 0 => level.tail \in used
  <2>1. CASE price \in DOMAIN b.levels[side]
    <3> DEFINE queue == found.queue
               m     == Len(queue)
    <3>1. found = b.levels[side][price]
      BY <2>1 DEF LevelAt
    <3>2. found.total \in Nat /\ m \in Nat /\ m # 0
          /\ \A k \in 1 .. m : queue[k] \in DOMAIN b.nodes
      <4>1. b.levels[side][price].total \in Nat
        BY <1>1, <2>1, QueueHolds
      <4>2. /\ Len(b.levels[side][price].queue) \in Nat
            /\ Len(b.levels[side][price].queue) # 0
        BY <1>1, <2>1, QueueHolds
      <4>3. \A k \in 1 .. Len(b.levels[side][price].queue) :
               b.levels[side][price].queue[k] \in DOMAIN b.nodes
        BY <1>1, <2>1, QueueHolds
      <4> HIDE DEF found
      <4> QED  BY <3>1, <4>1, <4>2, <4>3
    <3>3. \A k : Link(p.index, queue, k) \in 0 .. n
      <4>1. \A k : Link(p.index, b.levels[side][price].queue, k) \in 0 .. n
        BY <1>1, <1>2, <2>1, LinksHold
      <4> HIDE DEF found
      <4> QED  BY <3>1, <4>1
    <3>4. Link(p.index, queue, m) = p.index[queue[m]] /\ queue[m] \in DOMAIN b.nodes
      BY <3>2 DEF Link
    <3>5. Link(p.index, queue, m) \in used
      BY <1>2, <3>4 DEF used, Used, Indexed
    <3> HIDE DEF queue, found
    <3>6. /\ level.price = price /\ level.total = found.total
          /\ level.head = Link(p.index, queue, 1) /\ level.tail = Link(p.index, queue, m)
          /\ level.count = m
      BY DEF LevelFor, queue
    <3> QED  BY <3>2, <3>3, <3>5, <3>6 DEF LevelFor, queue
  <2>2. CASE price \notin DOMAIN b.levels[side]
    <3>1. level = Blank(price) /\ found.queue = <<>>
      <4>1. price \notin DOMAIN map
        BY <2>2 DEF LevelMap
      <4> QED  BY <2>2, <4>1, LevelForPrice DEF LevelAt
    <3>2. Len(found.queue) = 0
      BY <3>1
    <3> HIDE DEF level, found
    <3> QED  BY <1>2, <3>1, <3>2 DEF Blank
  <2> QED  BY <2>1, <2>2
<1>10. /\ join \in LevelRec /\ join.price = price
  <2>1. at \in Nat
    BY <1>7, <1>8
  <2>2. level \in [price : {price}, total : Nat, head : Nat, tail : Nat, count : Nat]
    <3> HIDE DEF level
    <3> QED  BY <1>2, <1>9
  <2> HIDE DEF level
  <2>3. join = [price |-> price, total |-> level.total + qty,
                head |-> IF level.tail # 0 THEN level.head ELSE at,
                tail |-> at, count |-> level.count + 1]
    BY <1>9, JoinedIs
  <2> HIDE DEF join
  <2> QED  BY <1>1, <2>1, <2>2, <2>3 DEF LevelRec
<1>11. Blank(price) \in LevelRec
  BY <1>1 DEF Blank, LevelRec
<1>12. (IF price \in DOMAIN map THEN map[price] ELSE Blank(price)) = level
  BY LevelForPrice
<1>13. /\ with[place] = level
       /\ Lists([with EXCEPT ![place] = Pooled!Joined(with[place], qty, at)], side,
                Put(map, price, join), LevelRec)
  <2>1. Lists(p.levels[side], side, map, LevelRec)
    BY <1>1, <1>2
  <2> HIDE DEF level, map, join
  <2>2. /\ Pooled!Joined(level, qty, at) \in LevelRec
        /\ Pooled!Joined(level, qty, at).price = price
    BY <1>10 DEF join
  <2>3. JoinedAt(p.levels[side], side, map, LevelRec, price, level, qty, at)
    BY <1>1, <1>11, <1>12, <2>1, <2>2, JoinLists
  <2> QED  BY <2>3 DEF JoinedAt, join
<1> HIDE DEF with, place, map, level
<1>14. /\ after.nodes \in Seq(NodeRec(I)) /\ Len(after.nodes) = Len(new.nodes)
       /\ after.nodes[at] = [node EXCEPT !.previous = level.tail, !.next = 0]
       /\ level.tail # 0 =>
             after.nodes[level.tail] = [new.nodes[level.tail] EXCEPT !.next = at]
       /\ \A k \in 1 .. Len(new.nodes) :
             k # at /\ k # level.tail => after.nodes[k] = new.nodes[k]
  <2>1. level.tail \in 0 .. Len(new.nodes) /\ level.tail # at
    BY <1>2, <1>7, <1>8, <1>9
  <2> HIDE DEF node
  <2> DEFINE last == Pooled!LinkLast(new.nodes, level, at)
  <2>2. after.nodes = last
    BY <1>6, <1>13
  <2>3. new.nodes \in Seq(NodeRec(I)) /\ at \in 1 .. Len(new.nodes)
    BY <1>7
  <2>4. LinkedLast(last, new.nodes, level.tail, at, I)
    BY <2>1, <2>3, LinkLastIs
  <2> HIDE DEF last
  <2> QED  BY <1>7, <2>2, <2>4 DEF LinkedLast
<1>15. after.nodes[at] = [id |-> id, side |-> side, price |-> price, quantity |-> qty,
                          previous |-> level.tail, next |-> 0, active |-> TRUE]
  BY <1>14 DEF Pooled!Node
<1> HIDE DEF node
<1>16. level.tail # 0 => after.nodes[level.tail] = [p.nodes[level.tail] EXCEPT !.next = at]
  BY <1>7, <1>9, <1>14
<1>17. \A k \in used : k # level.tail => after.nodes[k] = p.nodes[k]
  <2> SUFFICES ASSUME NEW k \in used, k # level.tail PROVE after.nodes[k] = p.nodes[k]
    OBVIOUS
  <2>1. k \in 1 .. Len(new.nodes) /\ k # at
    BY <1>2, <1>4, <1>7, <1>8
  <2> QED  BY <1>7, <1>14, <2>1
<1>18. \E rest : Frees(rest, after.nodes, after.free, used \cup {at})
  <2>1. PICK rest : Frees(rest, new.nodes, new.free, used \cup {at})
    BY <1>7
  <2>2. \A k \in 1 .. Len(new.nodes) :
           k \notin used \cup {at} => after.nodes[k] = new.nodes[k]
    BY <1>9, <1>14
  <2>3. Len(after.nodes) = Len(new.nodes)
    BY <1>14
  <2>4. Frees(rest, after.nodes, new.free, used \cup {at})
    BY <2>1, <2>2, <2>3, FreesKept
  <2>5. Frees(rest, after.nodes, after.free, used \cup {at})
    BY <1>6, <2>4
  <2> QED  BY <2>5
<1>19. /\ DOMAIN after.levels = Sides
       /\ \A s \in Sides : s # side => after.levels[s] = p.levels[s]
       /\ after.levels[side] = [with EXCEPT ![place] = Pooled!Joined(with[place], qty, at)]
  BY <1>1, <1>2, <1>6
<1>20. Grown(after, p, b, I, id, order, at)
  BY <1>6, <1>7, <1>8, <1>13, <1>14, <1>15, <1>16, <1>17, <1>18, <1>19
     DEF Grown, level, used, map
<1> QED  BY <1>20 DEF after

\* Both books mirror each other after add_order.
LEMMA AddMirrors ==
  ASSUME NEW p, NEW b, NEW I, NEW P \in SUBSET Nat, IsFiniteSet(I), SoundBook(b, I, P),
         Mirrors(p, b, I), NEW id \in I, ~ Resting(b, id), NEW order \in Offer(P)
  PROVE  Mirrors(Pooled!AddOrder(p, id, order.side, order.price, order.quantity),
                 AddOrder(b, id, order), I)
<1> DEFINE side  == order.side
           price == order.price
           after == Pooled!AddOrder(p, id, side, price, order.quantity)
           b2    == AddOrder(b, id, order)
           found == LevelAt(b, side, price)
           queue == found.queue
           m     == Len(queue)
           newq  == Append(queue, id)
           level == LevelFor(p.index, found, price)
           used  == Used(p.index)
           n     == Len(p.nodes)
<1>1. PICK at : Grown(after, p, b, I, id, order, at)
  BY AddOrderGrows
<1>2. Added(b2, b, id, order)
  BY AddOrderAdds DEF SoundBook
<1>3. SoundBook(b2, I, P)
  BY AddOrderSound
<1> HIDE DEF after, b2
<1>4. /\ p.nodes \in Seq(NodeRec(I)) /\ n \in Nat /\ Indexed(p, b)
      /\ Chained(p, b) /\ id \notin DOMAIN b.nodes
      /\ DOMAIN b.levels = Sides /\ side \in Sides /\ price \in Nat
  <2>1. p.nodes \in Seq(NodeRec(I)) /\ Indexed(p, b) /\ Chained(p, b)
    BY DEF Mirrors
  <2>2. n \in Nat
    BY <2>1
  <2>3. id \notin DOMAIN b.nodes
    BY DEF Resting
  <2>4. DOMAIN b.levels = Sides
    BY DEF SoundBook, IsBook
  <2>5. side \in Sides /\ price \in Nat
    BY DEF Offer
  <2> QED  BY <2>1, <2>2, <2>3, <2>4, <2>5
<1>5. /\ after.nodes \in Seq(NodeRec(I)) /\ Len(after.nodes) <= Cardinality(I)
      /\ Len(after.nodes) \in Nat /\ n <= Len(after.nodes)
      /\ at \in 1 .. Len(after.nodes) /\ at \notin used /\ at # 0
  BY <1>1 DEF Grown
<1>6. /\ DOMAIN p.index = DOMAIN b.nodes
      /\ \A i \in DOMAIN b.nodes : p.index[i] \in 1 .. n /\ p.index[i] \in used
      /\ \A i, j \in DOMAIN b.nodes : p.index[i] = p.index[j] => i = j
  BY <1>4 DEF Indexed, Used
<1>7. /\ DOMAIN after.index = DOMAIN b.nodes \cup {id}
      /\ after.index[id] = at
      /\ \A i \in DOMAIN b.nodes : after.index[i] = p.index[i]
  BY <1>1, <1>4, <1>6 DEF Grown, Put
<1>8. /\ DOMAIN b2.nodes = DOMAIN b.nodes \cup {id} /\ b2.nodes[id] = order
      /\ \A i \in DOMAIN b.nodes : b2.nodes[i] = b.nodes[i]
      /\ DOMAIN b2.levels = Sides
      /\ \A s \in Sides : DOMAIN b2.levels[s] =
            DOMAIN b.levels[s] \cup (IF s = side THEN {price} ELSE {})
      /\ \A s \in Sides : \A pr \in DOMAIN b.levels[s] :
            ~ (s = side /\ pr = price) => b2.levels[s][pr] = b.levels[s][pr]
  BY <1>2, <1>4 DEF Added
<1>9. b2.levels[side][price] = [total |-> found.total + order.quantity, queue |-> newq]
  <2>1. price \in DOMAIN b2.levels[side]
    BY <1>4, <1>8
  <2> QED  BY <1>2, <1>4, <2>1 DEF Added
<1>10. Indexed(after, b2)
  <2>1. \A i \in DOMAIN b2.nodes : after.index[i] \in 1 .. Len(after.nodes)
    BY <1>4, <1>5, <1>6, <1>7, <1>8
  <2>2. \A i, j \in DOMAIN b2.nodes : after.index[i] = after.index[j] => i = j
    BY <1>5, <1>6, <1>7, <1>8
  <2> QED  BY <1>7, <1>8, <2>1, <2>2 DEF Indexed
<1>11. Used(after.index) = used \cup {at}
  BY <1>6, <1>7 DEF Used
\* The queue that the order joins.
<1>12. /\ queue \in Seq(I) /\ m \in Nat
       /\ \A k \in 1 .. m : /\ queue[k] \in DOMAIN b.nodes
                            /\ b.nodes[queue[k]].side = side
                            /\ b.nodes[queue[k]].price = price
       /\ \A j, k \in 1 .. m : queue[j] = queue[k] => j = k
       /\ m # 0 => price \in DOMAIN b.levels[side] /\ found = b.levels[side][price]
       /\ found.total \in Nat
  <2>1. SoundLevel(found, b, I, side, price)
    BY <1>4, LevelAtHolds
  <2>2. m # 0 => price \in DOMAIN b.levels[side] /\ found = b.levels[side][price]
    BY DEF LevelAt
  <2> HIDE DEF found
  <2>3. /\ queue \in Seq(I)
        /\ \A k \in 1 .. m : /\ queue[k] \in DOMAIN b.nodes
                             /\ b.nodes[queue[k]].side = side
                             /\ b.nodes[queue[k]].price = price
        /\ DOMAIN queue = 1 .. m /\ IsInjective(queue) /\ found.total \in Nat
    BY <2>1 DEF SoundLevel
  <2>4. m \in Nat /\ \A j, k \in 1 .. m : queue[j] = queue[k] => j = k
    BY <2>3 DEF IsInjective
  <2> QED  BY <2>2, <2>3, <2>4
<1> HIDE DEF found
<1>13. /\ newq \in Seq(I) /\ Len(newq) = m + 1 /\ newq[m + 1] = id
       /\ \A k \in 1 .. m : newq[k] = queue[k]
  <2> HIDE DEF queue
  <2> QED  BY <1>12
<1> HIDE DEF newq, queue
<1>14. /\ \A k \in 0 .. m : Link(after.index, newq, k) = Link(p.index, queue, k)
       /\ Link(after.index, newq, m + 1) = at
       /\ \A k \in Nat : k > m + 1 => Link(after.index, newq, k) = 0
       /\ \A k \in Nat : k > m => Link(p.index, queue, k) = 0
       /\ \A k \in 1 .. m : Link(p.index, queue, k) = p.index[queue[k]]
       /\ Link(p.index, queue, 0) = 0
  <2>1. \A k \in 0 .. m : Link(after.index, newq, k) = Link(p.index, queue, k)
    <3> SUFFICES ASSUME NEW k \in 0 .. m
                 PROVE  Link(after.index, newq, k) = Link(p.index, queue, k)
      OBVIOUS
    <3>1. CASE k = 0
      BY <3>1 DEF Link
    <3>2. CASE k # 0
      <4>1. k \in 1 .. m /\ k \in 1 .. m + 1
        BY <1>12, <3>2
      <4> QED  BY <1>7, <1>12, <1>13, <4>1 DEF Link
    <3> QED  BY <3>1, <3>2
  <2>2. Link(after.index, newq, m + 1) = at
    <3>1. m + 1 \in 1 .. m + 1
      BY <1>12
    <3> QED  BY <1>7, <1>13, <3>1 DEF Link
  <2>3. /\ \A k \in Nat : k > m + 1 => Link(after.index, newq, k) = 0
        /\ \A k \in Nat : k > m => Link(p.index, queue, k) = 0
        /\ Link(p.index, queue, 0) = 0
    BY <1>12, <1>13 DEF Link
  <2>4. \A k \in 1 .. m : Link(p.index, queue, k) = p.index[queue[k]]
    BY DEF Link
  <2> QED  BY <2>1, <2>2, <2>3, <2>4
<1>15. level.tail = Link(p.index, queue, m) /\ (level.tail # 0 <=> m # 0)
  <2>1. level.tail = Link(p.index, queue, m)
    BY DEF LevelFor, queue
  <2>2. CASE m = 0
    BY <1>14, <2>1, <2>2
  <2>3. CASE m # 0
    <3>1. m \in 1 .. m /\ queue[m] \in DOMAIN b.nodes
      BY <1>12, <2>3
    <3>2. p.index[queue[m]] # 0
      BY <1>4, <1>6, <3>1
    <3> QED  BY <1>14, <2>1, <2>3, <3>1, <3>2
  <2> QED  BY <2>1, <2>2, <2>3
\* The other queues.
<1>16. ASSUME NEW s \in Sides, NEW pr \in DOMAIN b.levels[s], ~ (s = side /\ pr = price)
       PROVE  LET other == b.levels[s][pr].queue
              IN  /\ \A k : Link(after.index, other, k) = Link(p.index, other, k)
                  /\ \A k \in 1 .. Len(other) :
                        /\ other[k] \in DOMAIN b.nodes
                        /\ p.index[other[k]] # level.tail
  <2> DEFINE other == b.levels[s][pr].queue
  <2>1. \A k \in 1 .. Len(other) : /\ other[k] \in DOMAIN b.nodes
                                   /\ b.nodes[other[k]].side = s
                                   /\ b.nodes[other[k]].price = pr
    <3>1. \A k \in 1 .. Len(b.levels[s][pr].queue) :
              /\ b.levels[s][pr].queue[k] \in DOMAIN b.nodes
              /\ b.nodes[b.levels[s][pr].queue[k]].side = s
              /\ b.nodes[b.levels[s][pr].queue[k]].price = pr
      BY QueueHolds
    <3> QED  BY <3>1
  <2> HIDE DEF other
  <2>2. \A k \in 1 .. Len(other) : after.index[other[k]] = p.index[other[k]]
    BY <1>7, <2>1
  <2>3. \A k : Link(after.index, other, k) = Link(p.index, other, k)
    BY <2>2 DEF Link
  <2>4. ASSUME NEW k \in 1 .. Len(other) PROVE p.index[other[k]] # level.tail
    <3>1. CASE m = 0
      <4>1. p.index[other[k]] # 0
        BY <1>4, <1>6, <2>1
      <4> QED  BY <1>15, <3>1, <4>1
    <3>2. CASE m # 0
      <4>1. m \in 1 .. m
        BY <1>12, <3>2
      <4>2. other[k] # queue[m]
        BY <1>12, <1>16, <2>1, <4>1
      <4>3. p.index[other[k]] # p.index[queue[m]]
        BY <1>6, <1>12, <2>1, <4>1, <4>2
      <4> QED  BY <1>14, <1>15, <4>1, <4>3
    <3> QED  BY <3>1, <3>2
  <2> QED  BY <2>1, <2>3, <2>4 DEF other
\* The level vectors.
<1>17. ASSUME NEW s \in Sides
       PROVE  Lists(after.levels[s], s, LevelMap(after.index, b2, s), LevelRec)
  <2>1. ASSUME NEW pr \in DOMAIN b.levels[s], ~ (s = side /\ pr = price)
        PROVE  LevelFor(after.index, b2.levels[s][pr], pr) =
                 LevelFor(p.index, b.levels[s][pr], pr)
    <3>1. b2.levels[s][pr] = b.levels[s][pr]
      BY <1>8, <2>1
    <3>2. \A k : Link(after.index, b.levels[s][pr].queue, k) =
                   Link(p.index, b.levels[s][pr].queue, k)
      BY <1>16, <2>1
    <3> QED  BY <3>1, <3>2 DEF LevelFor
  <2>2. CASE s # side
    <3>1. DOMAIN b2.levels[s] = DOMAIN b.levels[s]
      BY <1>8, <2>2
    <3>2. LevelMap(after.index, b2, s) = LevelMap(p.index, b, s)
      BY <2>1, <2>2, <3>1 DEF LevelMap
    <3>3. after.levels[s] = p.levels[s]
      BY <1>1, <2>2 DEF Grown
    <3> QED  BY <3>2, <3>3 DEF Mirrors
  <2>3. CASE s = side
    <3> DEFINE join == Pooled!Joined(level, order.quantity, at)
               old  == LevelMap(p.index, b, s)
               new  == LevelMap(after.index, b2, s)
    <3>1. LevelFor(after.index, b2.levels[side][price], price) = join
      <4>1. join = [price |-> price, total |-> found.total + order.quantity,
                    head |-> IF level.tail # 0 THEN Link(p.index, queue, 1) ELSE at,
                    tail |-> at, count |-> m + 1]
        <5>1. level = [price |-> price, total |-> found.total,
                       head |-> Link(p.index, queue, 1), tail |-> Link(p.index, queue, m),
                       count |-> m]
          BY DEF LevelFor, queue
        <5> HIDE DEF level
        <5> QED  BY <1>15, <5>1, JoinedIs
      <4>2. Link(after.index, newq, 1) =
              IF level.tail # 0 THEN Link(p.index, queue, 1) ELSE at
        <5>1. CASE m = 0
          <6>1. m + 1 = 1
            BY <5>1
          <6> QED  BY <1>14, <1>15, <5>1, <6>1
        <5>2. CASE m # 0
          <6>1. 1 \in 0 .. m
            BY <1>12, <5>2
          <6> QED  BY <1>14, <1>15, <5>2, <6>1
        <5> QED  BY <5>1, <5>2
      <4>3. /\ b2.levels[side][price].total = found.total + order.quantity
            /\ b2.levels[side][price].queue = newq
        BY <1>9
      <4> HIDE DEF level
      <4> QED  BY <1>13, <1>14, <4>1, <4>2, <4>3 DEF LevelFor
    <3> HIDE DEF join
    <3>2. DOMAIN b2.levels[s] = DOMAIN b.levels[s] \cup {price}
      BY <1>8, <2>3
    <3>3. DOMAIN old = DOMAIN b.levels[s]
          /\ \A pr \in DOMAIN b.levels[s] : old[pr] = LevelFor(p.index, b.levels[s][pr], pr)
      BY DEF LevelMap
    <3>4. new = [pr \in DOMAIN b.levels[s] \cup {price} |->
                   IF pr = price THEN join ELSE old[pr]]
      <4>1. \A pr \in DOMAIN b.levels[s] \cup {price} :
               LevelFor(after.index, b2.levels[s][pr], pr) =
                 IF pr = price THEN join ELSE old[pr]
        BY <2>1, <2>3, <3>1, <3>3
      <4> HIDE DEF old
      <4> QED  BY <3>2, <4>1 DEF LevelMap
    <3>5. new = Put(old, price, join)
      BY <3>3, <3>4 DEF Put
    <3>6. Lists(after.levels[side], side, Put(LevelMap(p.index, b, side), price, join), LevelRec)
      BY <1>1 DEF Grown, join, level, found
    <3> QED  BY <2>3, <3>5, <3>6
  <2> QED  BY <2>2, <2>3
\* The nodes.
<1>18. Chained(after, b2)
  <2> SUFFICES ASSUME NEW s \in Sides, NEW pr \in DOMAIN b2.levels[s],
                      NEW k \in 1 .. Len(b2.levels[s][pr].queue)
               PROVE  after.nodes[after.index[b2.levels[s][pr].queue[k]]] =
                        NodeFor(after.index, b2, b2.levels[s][pr].queue, k)
    BY DEF Chained
  <2>1. CASE ~ (s = side /\ pr = price)
    <3> DEFINE other == b.levels[s][pr].queue
    <3>1. pr \in DOMAIN b.levels[s] /\ b2.levels[s][pr].queue = other
      BY <1>8, <2>1
    <3>2. /\ \A j : Link(after.index, other, j) = Link(p.index, other, j)
          /\ other[k] \in DOMAIN b.nodes
          /\ p.index[other[k]] # level.tail
      BY <1>16, <2>1, <3>1
    <3>3. p.nodes[p.index[other[k]]] = NodeFor(p.index, b, other, k)
      BY <1>4, <3>1 DEF Chained
    <3> HIDE DEF other, level
    <3>4. after.index[other[k]] = p.index[other[k]] /\ p.index[other[k]] \in used
      BY <1>6, <1>7, <3>2
    <3>5. after.nodes[p.index[other[k]]] = p.nodes[p.index[other[k]]]
      BY <1>1, <3>2, <3>4 DEF Grown, level, found, used
    <3>6. NodeFor(after.index, b2, other, k) = NodeFor(p.index, b, other, k)
      BY <1>8, <3>2 DEF NodeFor
    <3> QED  BY <3>1, <3>3, <3>4, <3>5, <3>6
  <2>2. CASE s = side /\ pr = price
    <3>1. b2.levels[s][pr].queue = newq /\ k \in 1 .. m + 1
      BY <1>9, <1>13, <2>2
    <3>2. CASE k = m + 1
      <4>1. NodeFor(after.index, b2, newq, k) =
              [id |-> id, side |-> side, price |-> price, quantity |-> order.quantity,
               previous |-> level.tail, next |-> 0, active |-> TRUE]
        <5>1. k - 1 = m /\ m \in 0 .. m /\ k + 1 > m + 1 /\ k + 1 \in Nat
          BY <1>12, <3>2
        <5>2. Link(after.index, newq, k - 1) = level.tail /\ Link(after.index, newq, k + 1) = 0
          BY <1>14, <1>15, <5>1
        <5> HIDE DEF level
        <5> QED  BY <1>8, <1>13, <3>2, <5>2 DEF NodeFor
      <4>2. after.nodes[at] =
              [id |-> id, side |-> side, price |-> price, quantity |-> order.quantity,
               previous |-> level.tail, next |-> 0, active |-> TRUE]
        BY <1>1 DEF Grown, level, found
      <4>3. after.index[newq[k]] = at
        BY <1>7, <1>13, <3>2
      <4> QED  BY <3>1, <4>1, <4>2, <4>3
    <3>3. CASE k \in 1 .. m
      <4> DEFINE x == queue[k]
      <4>1. /\ newq[k] = x /\ x \in DOMAIN b.nodes /\ m # 0
        BY <1>12, <1>13, <3>3
      <4>2. /\ after.index[x] = p.index[x] /\ p.index[x] \in used
            /\ b2.nodes[x] = b.nodes[x]
        BY <1>6, <1>7, <1>8, <4>1
      <4>3. p.nodes[p.index[x]] = NodeFor(p.index, b, queue, k)
        <5>1. price \in DOMAIN b.levels[side] /\ queue = b.levels[side][price].queue
          BY <1>12, <4>1 DEF queue
        <5> QED  BY <1>4, <3>3, <5>1 DEF Chained
      <4>4. /\ Link(after.index, newq, k - 1) = Link(p.index, queue, k - 1)
            /\ k + 1 <= m => Link(after.index, newq, k + 1) = Link(p.index, queue, k + 1)
        <5>1. k - 1 \in 0 .. m
          BY <1>12, <3>3
        <5>2. k + 1 <= m => k + 1 \in 0 .. m
          BY <1>12, <3>3
        <5> QED  BY <1>14, <5>1, <5>2
      <4>5. CASE k = m
        <5>1. level.tail = p.index[x] /\ level.tail # 0
          BY <1>14, <1>15, <3>3, <4>1, <4>5
        <5>2. after.nodes[p.index[x]] = [p.nodes[p.index[x]] EXCEPT !.next = at]
          BY <1>1, <5>1 DEF Grown, level, found
        <5>3. Link(after.index, newq, k + 1) = at
          BY <1>14, <4>5
        <5>4. [NodeFor(p.index, b, queue, k) EXCEPT !.next = at] =
                NodeFor(after.index, b2, newq, k)
          <6> DEFINE node == NodeFor(p.index, b, queue, k)
          <6>1. [node EXCEPT !.next = at] = Relinked(node, Link(p.index, queue, k - 1), at)
            BY <3>3, <1>12, NextIs
          <6>2. newq[k] = queue[k] /\ b2.nodes[queue[k]] = b.nodes[queue[k]]
            BY <4>1, <4>2
          <6>3. NodeFor(after.index, b2, newq, k) =
                  Relinked(node, Link(after.index, newq, k - 1), Link(after.index, newq, k + 1))
            BY <6>2, NodeForIs
          <6> HIDE DEF node
          <6> QED  BY <4>4, <5>3, <6>1, <6>3 DEF node
        <5> QED  BY <3>1, <4>1, <4>2, <4>3, <5>2, <5>4
      <4>6. CASE k # m
        <5>1. k + 1 <= m /\ m \in 1 .. m
          BY <1>12, <3>3, <4>6
        <5>2. x # queue[m]
          BY <1>12, <3>3, <4>6, <5>1
        <5>3. p.index[x] # p.index[queue[m]]
          BY <1>6, <1>12, <4>1, <5>1, <5>2
        <5>4. p.index[x] # level.tail
          BY <1>14, <1>15, <5>1, <5>3
        <5>5. after.nodes[p.index[x]] = p.nodes[p.index[x]]
          BY <1>1, <4>2, <5>4 DEF Grown, level, found, used
        <5> HIDE DEF x
        <5>6. NodeFor(p.index, b, queue, k) = NodeFor(after.index, b2, newq, k)
          BY <4>1, <4>2, <4>4, <5>1 DEF NodeFor, x
        <5> QED  BY <3>1, <4>1, <4>2, <4>3, <5>5, <5>6
      <4> QED  BY <4>5, <4>6
    <3>4. k = m + 1 \/ k \in 1 .. m
      BY <1>12, <3>1
    <3> QED  BY <3>2, <3>3, <3>4
  <2> QED  BY <2>1, <2>2
<1>19. \E list : Frees(list, after.nodes, after.free, Used(after.index))
  BY <1>1, <1>11 DEF Grown, used
<1>20. DOMAIN after.levels = Sides
  BY <1>1 DEF Grown
<1>21. Mirrors(after, b2, I)
  BY <1>5, <1>10, <1>17, <1>18, <1>19, <1>20 DEF Mirrors
<1> QED  BY <1>21 DEF after, b2

-------------------------------------------------------------------------------
(* cancel_order.                                                           *)

\* The level with one order less.
LEMMA LeftIs ==
  ASSUME NEW price, NEW total, NEW head, NEW tail, NEW count, NEW node
  PROVE  Pooled!Left([price |-> price, total |-> total, head |-> head, tail |-> tail,
                      count |-> count], node)
           = [price |-> price, total |-> total - node.quantity,
              head |-> IF node.previous # 0 THEN head ELSE node.next,
              tail |-> IF node.next # 0 THEN tail ELSE node.previous,
              count |-> count - 1]
<1> DEFINE r0 == [price |-> price, total |-> total, head |-> head, tail |-> tail,
                  count |-> count]
           h  == IF node.previous # 0 THEN head ELSE node.next
           l  == IF node.next # 0 THEN tail ELSE node.previous
           t  == total - node.quantity
           c  == count - 1
           r1 == [r0 EXCEPT !.head = h]
           r2 == [r1 EXCEPT !.tail = l]
           r3 == [r2 EXCEPT !.total = t]
           r4 == [r3 EXCEPT !.count = c]
<1>1. /\ r0.head = head /\ r0.tail = tail /\ r0.total = total /\ r0.count = count
  OBVIOUS
<1> HIDE DEF r0
<1>2. Pooled!Left(r0, node) =
        [r0 EXCEPT !.head = h, !.tail = l, !.total = t, !.count = c]
  BY <1>1 DEF Pooled!Left, Pooled!None
<1> HIDE DEF h, l, t, c
<1>3. r1 = [price |-> price, total |-> total, head |-> h, tail |-> tail, count |-> count]
  BY DEF r0
<1> HIDE DEF r1
<1>4. r2 = [price |-> price, total |-> total, head |-> h, tail |-> l, count |-> count]
  BY <1>3
<1> HIDE DEF r2
<1>5. r3 = [price |-> price, total |-> t, head |-> h, tail |-> l, count |-> count]
  BY <1>4
<1> HIDE DEF r3
<1>6. r4 = [price |-> price, total |-> t, head |-> h, tail |-> l, count |-> c]
  BY <1>5
<1>7. Pooled!Left(r0, node) =
        [price |-> price, total |-> t, head |-> h, tail |-> l, count |-> c]
  BY <1>2, <1>6 DEF r4, r3, r2, r1
<1> QED  BY <1>7 DEF r0, h, l, t, c

\* Where an order of a sound book waits, and what its level offers.
WaitsAt(b, I, id, k) ==
  LET order == b.nodes[id]
      level == b.levels[order.side][order.price]
  IN  /\ order.side \in Sides /\ order.price \in Nat
      /\ order.price \in DOMAIN b.levels[order.side]
      /\ order.quantity \in Nat /\ level.total \in Nat /\ order.quantity <= level.total
      /\ level.queue \in Seq(I) /\ Len(level.queue) \in Nat
      /\ k \in 1 .. Len(level.queue) /\ level.queue[k] = id

\* An order waits in the queue of its level and counts in its total.
LEMMA OrderWaits ==
  ASSUME NEW b, NEW I, NEW P \in SUBSET Nat, SoundBook(b, I, P), NEW id \in DOMAIN b.nodes
  PROVE  \E k : WaitsAt(b, I, id, k)
<1> DEFINE order == b.nodes[id]
           level == b.levels[order.side][order.price]
           queue == level.queue
           rest  == ToSet(queue) \ {id}
<1>1. /\ order \in Offer(P) /\ order.side \in Sides
      /\ order.price \in DOMAIN b.levels[order.side]
  BY PlaceInQueue
<1>2. PICK k \in 1 .. Len(queue) : queue[k] = id
  BY PlaceInQueue
<1>3. SoundLevel(level, b, I, order.side, order.price)
  BY <1>1, LevelHolds
<1>4. \A i \in DOMAIN b.nodes : b.nodes[i].quantity \in Nat
  BY DEF SoundBook, IsBook, Offer
<1> HIDE DEF level
<1>5. /\ level.total \in Nat /\ queue \in Seq(I) /\ DOMAIN queue = 1 .. Len(queue)
      /\ ToSet(queue) \subseteq DOMAIN b.nodes /\ IsFiniteSet(ToSet(queue))
      /\ level.total = QuantityOf(b, ToSet(queue))
  BY <1>3 DEF SoundLevel
<1>6. /\ IsFiniteSet(rest) /\ id \notin rest
      /\ \A i \in rest \cup {id} : b.nodes[i].quantity \in Nat
  BY <1>4, <1>5, FS_Subset
<1>7. rest \cup {id} = ToSet(queue)
  BY <1>2, <1>5 DEF ToSet
<1> HIDE DEF rest
<1>8. QuantityOf(b, rest) \in Nat
  BY <1>6, QuantityAdds
<1>9. QuantityOf(b, rest \cup {id}) = QuantityOf(b, rest) + order.quantity
  BY <1>6, QuantityAdds
<1>10. order.quantity \in Nat /\ order.price \in Nat
  BY <1>1 DEF Offer
<1>11. order.quantity <= level.total
  <2> DEFINE x == QuantityOf(b, rest)
             y == order.quantity
  <2>1. level.total = x + y /\ x \in Nat /\ y \in Nat
    BY <1>5, <1>7, <1>8, <1>9, <1>10
  <2> HIDE DEF x, y
  <2> QED  BY <2>1 DEF y
<1>12. Len(queue) \in Nat
  BY <1>5
<1>13. WaitsAt(b, I, id, k)
  BY <1>1, <1>2, <1>5, <1>10, <1>11, <1>12 DEF WaitsAt, level
<1> QED  BY <1>13

\* What cancel_order leaves of the pool.
Shrunk(after, p, b, I, id) ==
  LET at    == p.index[id]
      order == b.nodes[id]
      map   == LevelMap(p.index, b, order.side)
      left  == Pooled!Left(map[order.price], p.nodes[at])
  IN  /\ after.index = Restrict(p.index, DOMAIN p.index \ {id})
      /\ LinkedAround(after.nodes, p.nodes, at, p.free, I)
      /\ after.free = at
      /\ DOMAIN after.levels = Sides
      /\ \A side \in Sides : side # order.side => after.levels[side] = p.levels[side]
      /\ Lists(after.levels[order.side], order.side,
               IF left.count = 0 THEN Restrict(map, DOMAIN map \ {order.price})
                                 ELSE Put(map, order.price, left), LevelRec)

\* The node of a waiting order.
LEMMA NodeOf ==
  ASSUME NEW p, NEW b, NEW I, Mirrors(p, b, I), NEW id \in DOMAIN b.nodes, NEW k,
         WaitsAt(b, I, id, k)
  PROVE  p.nodes[p.index[id]] =
           NodeFor(p.index, b, b.levels[b.nodes[id].side][b.nodes[id].price].queue, k)
<1>1. Chained(p, b)
  BY DEF Mirrors
<1>2. /\ b.nodes[id].side \in Sides
      /\ b.nodes[id].price \in DOMAIN b.levels[b.nodes[id].side]
      /\ k \in 1 .. Len(b.levels[b.nodes[id].side][b.nodes[id].price].queue)
      /\ b.levels[b.nodes[id].side][b.nodes[id].price].queue[k] = id
  BY DEF WaitsAt
<1> QED  BY <1>1, <1>2 DEF Chained

\* Every change that cancel_order makes.
LEMMA CancelOrderShrinks ==
  ASSUME NEW p, NEW b, NEW I, NEW P \in SUBSET Nat, SoundBook(b, I, P),
         Mirrors(p, b, I), NEW id \in DOMAIN b.nodes
  PROVE  Shrunk(Pooled!CancelOrder(p, id), p, b, I, id)
<1> DEFINE at    == p.index[id]
           order == b.nodes[id]
           side  == order.side
           price == order.price
           level == b.levels[side][price]
           queue == level.queue
           m     == Len(queue)
           map   == LevelMap(p.index, b, side)
           node  == p.nodes[at]
           left  == Pooled!Left(map[price], node)
           old   == p.levels[side]
           place == Pooled!Place(old, side, price)
           after == Pooled!CancelOrder(p, id)
           n     == Len(p.nodes)
<1>1. PICK k : WaitsAt(b, I, id, k)
  BY OrderWaits
<1>2. node = NodeFor(p.index, b, queue, k)
  BY <1>1, NodeOf
<1>3. /\ node.side = side /\ node.price = price /\ node.quantity = order.quantity
      /\ node.previous = Link(p.index, queue, k - 1)
      /\ node.next = Link(p.index, queue, k + 1)
  <2>1. queue[k] = id
    BY <1>1 DEF WaitsAt
  <2> HIDE DEF queue, node
  <2> QED  BY <1>2, <2>1 DEF NodeFor
<1>4. /\ side \in Sides /\ price \in Nat /\ price \in DOMAIN b.levels[side]
      /\ order.quantity \in Nat /\ level.total \in Nat /\ order.quantity <= level.total
      /\ m \in Nat /\ k \in 1 .. m
  BY <1>1 DEF WaitsAt
<1>5. /\ p.nodes \in Seq(NodeRec(I)) /\ Indexed(p, b) /\ DOMAIN p.levels = Sides
      /\ \A s \in Sides : Lists(p.levels[s], s, LevelMap(p.index, b, s), LevelRec)
  BY DEF Mirrors
<1>6. n \in Nat /\ at \in 1 .. n
  BY <1>5 DEF Indexed
<1>7. p.free \in Nat
  <2>1. PICK list : Frees(list, p.nodes, p.free, Used(p.index))
    BY DEF Mirrors
  <2>2. list \in Seq(Nat) /\ p.free = IF Len(list) = 0 THEN 0 ELSE list[1]
    BY <2>1 DEF Frees
  <2> QED  BY <2>2
<1>8. \A j : Link(p.index, queue, j) \in 0 .. n
  BY <1>4, <1>5, <1>6, LinksHold
<1> HIDE DEF node
<1>9. /\ after.levels = [p.levels EXCEPT ![side] =
                            Pooled!WithoutEmpty([old EXCEPT ![place] = Pooled!Left(old[place], node)], price)]
      /\ after.nodes = [Pooled!LinkAround(p.nodes, at) EXCEPT ![at] = Pooled!Released(p.free)]
      /\ after.free = at
      /\ after.index = Restrict(p.index, DOMAIN p.index \ {id})
  <2>1. after.levels =
          LET levels == p.levels[node.side]
              here   == Pooled!Place(levels, node.side, node.price)
          IN  [p.levels EXCEPT ![node.side] =
                 Pooled!WithoutEmpty([levels EXCEPT ![here] = Pooled!Left(levels[here], node)],
                                     node.price)]
    BY DEF Pooled!CancelOrder, node
  <2>2. /\ after.nodes = [Pooled!LinkAround(p.nodes, at) EXCEPT ![at] = Pooled!Released(p.free)]
        /\ after.free = at
    BY DEF Pooled!CancelOrder
  <2>3. after.index = Pooled!Restrict(p.index, DOMAIN p.index \ {id})
    BY DEF Pooled!CancelOrder
  <2>4. after.index = Restrict(p.index, DOMAIN p.index \ {id})
    BY <2>3, SameOperators
  <2> HIDE DEF after, order
  <2>5. after.levels =
          [p.levels EXCEPT ![side] =
             Pooled!WithoutEmpty([old EXCEPT ![place] = Pooled!Left(old[place], node)], price)]
    BY <1>3, <2>1
  <2> QED  BY <2>2, <2>4, <2>5
<1> HIDE DEF after
<1>10. LinkedAround(after.nodes, p.nodes, at, p.free, I)
  <2> HIDE DEF at, n
  <2>1. p.nodes \in Seq(NodeRec(I)) /\ at \in 1 .. Len(p.nodes) /\ p.free \in Nat
    BY <1>5, <1>6, <1>7 DEF n
  <2>2. LinkedAround([Pooled!LinkAround(p.nodes, at) EXCEPT ![at] = Pooled!Released(p.free)],
                     p.nodes, at, p.free, I)
    BY <2>1, LinkAroundIs
  <2> QED  BY <1>9, <2>2
<1>11. price \in DOMAIN map /\ map[price] = LevelFor(p.index, level, price)
  BY <1>4 DEF LevelMap
<1>12. left \in LevelRec /\ left.price = price
  <2> DEFINE first == Link(p.index, queue, 1)
             last  == Link(p.index, queue, m)
             h     == IF node.previous # 0 THEN first ELSE node.next
             l     == IF node.next # 0 THEN last ELSE node.previous
  <2>1. map[price] = [price |-> price, total |-> level.total, head |-> first,
                      tail |-> last, count |-> m]
    BY <1>11 DEF LevelFor
  <2>2. h \in Nat /\ l \in Nat
    <3>1. first \in Nat /\ last \in Nat
      BY <1>6, <1>8
    <3>2. node.previous \in Nat /\ node.next \in Nat
      <4>1. \A j : Link(p.index, queue, j) \in Nat
        BY <1>6, <1>8
      <4>2. Link(p.index, queue, k - 1) \in Nat /\ Link(p.index, queue, k + 1) \in Nat
        BY <4>1
      <4> HIDE DEF queue
      <4> QED  BY <1>3, <4>2
    <3> HIDE DEF first, last
    <3> QED  BY <3>1, <3>2
  <2>3. level.total - order.quantity \in Nat /\ m - 1 \in Nat
    BY <1>4
  <2> HIDE DEF map, first, last, m
  <2>5. Pooled!Left([price |-> price, total |-> level.total, head |-> first,
                     tail |-> last, count |-> m], node)
          = [price |-> price, total |-> level.total - node.quantity,
             head |-> h, tail |-> l, count |-> m - 1]
    <3> HIDE DEF level, price
    <3> QED  BY LeftIs
  <2>4. left = [price |-> price, total |-> level.total - order.quantity,
                head |-> h, tail |-> l, count |-> m - 1]
    BY <1>3, <2>1, <2>5
  <2> HIDE DEF h, l, left
  <2> QED  BY <1>4, <2>2, <2>3, <2>4 DEF LevelRec
<1>13. Lists(p.levels[side], side, map, LevelRec)
  BY <1>4, <1>5
<1>14. Lists(Pooled!WithoutEmpty([old EXCEPT ![place] = Pooled!Left(old[place], node)], price),
             side, IF left.count = 0 THEN Restrict(map, DOMAIN map \ {price})
                                     ELSE Put(map, price, left), LevelRec)
  <2> HIDE DEF map, node
  <2> QED  BY <1>11, <1>12, <1>13, LeaveLists
<1> HIDE DEF place
<1>15. /\ DOMAIN after.levels = Sides
       /\ \A s \in Sides : s # side => after.levels[s] = p.levels[s]
       /\ after.levels[side] =
            Pooled!WithoutEmpty([old EXCEPT ![place] = Pooled!Left(old[place], node)], price)
  <2> DEFINE new == Pooled!WithoutEmpty([old EXCEPT ![place] = Pooled!Left(old[place], node)], price)
  <2>1. after.levels = [p.levels EXCEPT ![side] = new]
    BY <1>9
  <2> HIDE DEF new, order
  <2>2. after.levels[side] = new
    BY <1>4, <1>5, <2>1
  <2> QED  BY <1>4, <1>5, <2>1, <2>2 DEF new
<1>16. Shrunk(after, p, b, I, id)
  BY <1>9, <1>10, <1>14, <1>15 DEF Shrunk, node
<1> QED  BY <1>16 DEF after

\* Both books mirror each other after cancel_order.
LEMMA CancelMirrors ==
  ASSUME NEW p, NEW b, NEW I, NEW P \in SUBSET Nat, SoundBook(b, I, P),
         Mirrors(p, b, I), NEW id \in DOMAIN b.nodes
  PROVE  Mirrors(Pooled!CancelOrder(p, id), CancelOrder(b, id), I)
<1> DEFINE at    == p.index[id]
           order == b.nodes[id]
           side  == order.side
           price == order.price
           level == b.levels[side][price]
           queue == level.queue
           m     == Len(queue)
           newq  == Erase(queue, id)
           map   == LevelMap(p.index, b, side)
           node  == p.nodes[at]
           left  == Pooled!Left(map[price], node)
           after == Pooled!CancelOrder(p, id)
           b2    == CancelOrder(b, id)
           n     == Len(p.nodes)
           used  == Used(p.index)
<1>1. PICK k : WaitsAt(b, I, id, k)
  BY OrderWaits
<1>2. node = NodeFor(p.index, b, queue, k)
  BY <1>1, NodeOf
<1>3. Shrunk(after, p, b, I, id)
  BY CancelOrderShrinks
<1>4. Canceled(b2, b, id)
  BY CancelOrderCancels
<1>5. SoundBook(b2, I, P)
  BY CancelOrderSound
<1> HIDE DEF after, b2
<1>6. /\ side \in Sides /\ price \in Nat /\ price \in DOMAIN b.levels[side]
      /\ queue \in Seq(I) /\ m \in Nat /\ k \in 1 .. m /\ queue[k] = id
      /\ order.quantity \in Nat /\ level.total \in Nat
  BY <1>1 DEF WaitsAt
<1>7. /\ p.nodes \in Seq(NodeRec(I)) /\ Indexed(p, b) /\ Chained(p, b) /\ n <= Cardinality(I)
      /\ \A s \in Sides : Lists(p.levels[s], s, LevelMap(p.index, b, s), LevelRec)
  BY DEF Mirrors
<1>8. n \in Nat /\ at \in 1 .. n /\ at \in used
  BY <1>7 DEF Indexed, Used
<1>9. /\ DOMAIN p.index = DOMAIN b.nodes
      /\ \A i \in DOMAIN b.nodes : p.index[i] \in 1 .. n /\ p.index[i] # 0 /\ p.index[i] \in used
      /\ \A i, j \in DOMAIN b.nodes : p.index[i] = p.index[j] => i = j
  BY <1>7, <1>8 DEF Indexed, Used
<1>10. /\ after.index = Restrict(p.index, DOMAIN p.index \ {id})
       /\ LinkedAround(after.nodes, p.nodes, at, p.free, I)
       /\ after.free = at
       /\ DOMAIN after.levels = Sides
       /\ \A s \in Sides : s # side => after.levels[s] = p.levels[s]
       /\ Lists(after.levels[side], side,
               IF left.count = 0 THEN Restrict(map, DOMAIN map \ {price})
                                 ELSE Put(map, price, left), LevelRec)
  BY <1>3 DEF Shrunk
<1>11. /\ DOMAIN after.index = DOMAIN b.nodes \ {id}
       /\ \A i \in DOMAIN b.nodes \ {id} : after.index[i] = p.index[i]
  BY <1>9, <1>10 DEF Restrict
<1>12. /\ DOMAIN b2.nodes = DOMAIN b.nodes \ {id}
       /\ \A i \in DOMAIN b.nodes \ {id} : b2.nodes[i] = b.nodes[i]
       /\ DOMAIN b2.levels = Sides
       /\ \A s \in Sides : DOMAIN b2.levels[s] =
             DOMAIN b.levels[s] \ (IF s = side /\ newq = <<>> THEN {price} ELSE {})
       /\ \A s \in Sides : \A pr \in DOMAIN b2.levels[s] :
             b2.levels[s][pr] = IF s = side /\ pr = price
                                THEN [total |-> level.total - order.quantity, queue |-> newq]
                                ELSE b.levels[s][pr]
  BY <1>4 DEF Canceled
<1> HIDE DEF node
\* The queue that the order leaves.
<1>13. /\ \A j \in 1 .. m : queue[j] \in DOMAIN b.nodes
       /\ \A i, j \in 1 .. m : queue[i] = queue[j] => i = j
  <2>1. \A s \in Sides : \A pr \in DOMAIN b.levels[s] :
           \A j \in 1 .. Len(b.levels[s][pr].queue) : b.levels[s][pr].queue[j] \in DOMAIN b.nodes
    BY QueueHolds
  <2>2. \A s \in Sides : \A pr \in DOMAIN b.levels[s] :
           \A i, j \in 1 .. Len(b.levels[s][pr].queue) :
              b.levels[s][pr].queue[i] = b.levels[s][pr].queue[j] => i = j
    BY QueueHolds
  <2>3. side \in Sides /\ price \in DOMAIN b.levels[side]
    BY <1>6
  <2> HIDE DEF side, price
  <2> QED  BY <2>1, <2>2, <2>3
<1>14. /\ newq \in Seq(I) /\ Len(newq) = m - 1
       /\ \A j \in 1 .. m - 1 : newq[j] = IF j < k THEN queue[j] ELSE queue[j + 1]
  <2>1. IsInjective(queue)
    <3>1. DOMAIN queue = 1 .. m
      <4> HIDE DEF queue
      <4> QED  BY <1>6
    <3> QED  BY <1>13, <3>1 DEF IsInjective
  <2> HIDE DEF queue
  <2>2. Erased(newq, queue, I, k)
    BY <1>6, <2>1, EraseProperties
  <2> HIDE DEF newq
  <2> QED  BY <2>2 DEF Erased
<1> HIDE DEF newq, queue
<1> DEFINE Old(j) == Link(p.index, queue, j)
           New(j) == Link(after.index, newq, j)
           prev   == Old(k - 1)
           next   == Old(k + 1)
<1>15. /\ \A j \in 1 .. m : Old(j) = p.index[queue[j]] /\ Old(j) \in 1 .. n /\ Old(j) # 0
       /\ \A j : j \notin 1 .. m => Old(j) = 0
       /\ Old(k) = at
  <2>1. \A j \in 1 .. m : Old(j) = p.index[queue[j]]
    BY DEF Link
  <2>2. \A j \in 1 .. m : Old(j) \in 1 .. n /\ Old(j) # 0
    BY <1>9, <1>13, <2>1
  <2>3. \A j : j \notin 1 .. m => Old(j) = 0
    BY DEF Link
  <2>4. Old(k) = at
    BY <1>6, <2>1
  <2> QED  BY <2>1, <2>2, <2>3, <2>4
<1>16. \A i, j \in 1 .. m : Old(i) = Old(j) => i = j
  BY <1>9, <1>13, <1>15
<1>17. \A j \in Nat : New(j) = IF j < k THEN Old(j) ELSE Old(j + 1)
  <2> SUFFICES ASSUME NEW j \in Nat PROVE New(j) = IF j < k THEN Old(j) ELSE Old(j + 1)
    OBVIOUS
  <2>1. CASE j \notin 1 .. m - 1
    <3>1. New(j) = 0
      BY <1>14, <2>1 DEF Link
    <3>2. (j < k => j \notin 1 .. m) /\ (~ j < k => j + 1 \notin 1 .. m)
      BY <1>6, <2>1
    <3> HIDE DEF Old, New
    <3> QED  BY <1>15, <3>1, <3>2
  <2>2. CASE j \in 1 .. m - 1
    <3> DEFINE i == IF j < k THEN j ELSE j + 1
    <3>1. newq[j] = queue[i] /\ i \in 1 .. m /\ i # k
      BY <1>6, <1>14, <2>2
    <3>2. New(j) = after.index[newq[j]]
      BY <1>14, <2>2 DEF Link
    <3>3. queue[i] \in DOMAIN b.nodes \ {id}
      BY <1>6, <1>13, <3>1
    <3>4. Old(i) = p.index[queue[i]]
      BY <1>15, <3>1
    <3> HIDE DEF New, Old, i
    <3>5. New(j) = Old(i)
      BY <1>11, <3>1, <3>2, <3>3, <3>4
    <3> QED  BY <3>5 DEF i
  <2> QED  BY <2>1, <2>2
<1>18. node.previous = prev /\ node.next = next /\ node.quantity = order.quantity
  <2> HIDE DEF prev, next
  <2>1. node = NodeFor(p.index, b, queue, k)
    BY <1>2 DEF queue
  <2> QED  BY <1>6, <2>1 DEF NodeFor, prev, next
<1> HIDE DEF Old, New
<1>19. /\ prev = 0 <=> k = 1
       /\ next = 0 <=> k = m
       /\ \A j \in 1 .. m : (Old(j) = prev <=> j = k - 1) /\ (Old(j) = next <=> j = k + 1)
  <2>1. prev = 0 <=> k = 1
    <3>1. CASE k = 1
      <4>1. k - 1 \notin 1 .. m
        BY <3>1
      <4> QED  BY <1>15, <3>1, <4>1
    <3>2. CASE k # 1
      <4>1. k - 1 \in 1 .. m
        BY <1>6, <3>2
      <4> QED  BY <1>15, <3>2, <4>1
    <3> QED  BY <3>1, <3>2
  <2>2. next = 0 <=> k = m
    <3>1. CASE k = m
      <4>1. k + 1 \notin 1 .. m
        BY <1>6, <3>1
      <4> QED  BY <1>15, <3>1, <4>1
    <3>2. CASE k # m
      <4>1. k + 1 \in 1 .. m
        BY <1>6, <3>2
      <4> QED  BY <1>15, <3>2, <4>1
    <3> QED  BY <3>1, <3>2
  <2>3. ASSUME NEW j \in 1 .. m, NEW i \in Int PROVE Old(j) = Old(i) <=> j = i
    <3>1. CASE i \in 1 .. m
      BY <1>16, <3>1
    <3>2. CASE i \notin 1 .. m
      BY <1>15, <3>2
    <3> QED  BY <3>1, <3>2
  <2>4. k - 1 \in Int /\ k + 1 \in Int
    BY <1>6
  <2> QED  BY <2>1, <2>2, <2>3, <2>4
<1>20. /\ after.nodes \in Seq(NodeRec(I)) /\ Len(after.nodes) = n
       /\ after.nodes[at] = Pooled!Released(p.free)
       /\ \A x \in 1 .. n :
             x # at => after.nodes[x] = [p.nodes[x] EXCEPT
                                           !.next     = IF x = prev THEN next ELSE @,
                                           !.previous = IF x = next THEN prev ELSE @]
       /\ \A x \in 1 .. n :
             x # at /\ x # prev /\ x # next => after.nodes[x] = p.nodes[x]
  <2>1. p.nodes[at].previous = prev /\ p.nodes[at].next = next
    BY <1>18 DEF node
  <2> HIDE DEF prev, next, at
  <2> QED  BY <1>10, <2>1 DEF LinkedAround
<1> HIDE DEF prev, next
<1>21. Indexed(after, b2)
  <2>1. \A i \in DOMAIN b2.nodes : after.index[i] \in 1 .. Len(after.nodes)
    BY <1>9, <1>11, <1>12, <1>20
  <2>2. \A i, j \in DOMAIN b2.nodes : after.index[i] = after.index[j] => i = j
    BY <1>9, <1>11, <1>12
  <2> QED  BY <1>11, <1>12, <2>1, <2>2 DEF Indexed
<1>22. Used(after.index) = used \ {at}
  <2>1. \A i \in DOMAIN b.nodes \ {id} : p.index[i] # at
    BY <1>9
  <2>2. used = {p.index[i] : i \in DOMAIN b.nodes}
    BY <1>9 DEF Used
  <2>3. Used(after.index) = {p.index[i] : i \in DOMAIN b.nodes \ {id}}
    BY <1>11 DEF Used
  <2> HIDE DEF used
  <2> QED  BY <2>1, <2>2, <2>3
\* The nodes of orders other than the neighbours.
<1>23. ASSUME NEW x \in 1 .. n, \A j \in 1 .. m : x # Old(j)
       PROVE  after.nodes[x] = p.nodes[x]
  <2>1. x # at
    BY <1>6, <1>15, <1>23
  <2>2. x # prev
    <3>1. CASE k = 1
      BY <1>19, <3>1
    <3>2. CASE k # 1
      <4>1. k - 1 \in 1 .. m
        BY <1>6, <3>2
      <4> QED  BY <1>23, <4>1 DEF prev
    <3> QED  BY <3>1, <3>2
  <2>3. x # next
    <3>1. CASE k = m
      BY <1>19, <3>1
    <3>2. CASE k # m
      <4>1. k + 1 \in 1 .. m
        BY <1>6, <3>2
      <4> QED  BY <1>23, <4>1 DEF next
    <3> QED  BY <3>1, <3>2
  <2> HIDE DEF at
  <2> QED  BY <1>20, <2>1, <2>2, <2>3
<1>24. \E list : Frees(list, after.nodes, after.free, Used(after.index))
  <2>1. PICK list : Frees(list, p.nodes, p.free, used)
    BY DEF Mirrors
  <2>2. \A j \in 1 .. m : Old(j) \in used
    BY <1>9, <1>13, <1>15
  <2>3. \A x \in 1 .. n : x \notin used => after.nodes[x] = p.nodes[x]
    BY <1>23, <2>2
  <2> HIDE DEF at, used
  <2>4. Frees(<<at>> \o list, after.nodes, at, used \ {at})
    <3> DEFINE nodes == p.nodes
               new   == after.nodes
               free  == p.free
    <3>1. /\ Len(nodes) \in Nat /\ at \in used /\ at \in 1 .. Len(nodes)
          /\ Len(new) = Len(nodes) /\ new[at] = Pooled!Released(free)
          /\ Frees(list, nodes, free, used)
          /\ \A x \in 1 .. Len(nodes) : x \notin used => new[x] = nodes[x]
      BY <1>8, <1>20, <2>1, <2>3
    <3> HIDE DEF nodes, new, free
    <3>2. Frees(<<at>> \o list, new, at, used \ {at})
      BY <3>1, ReleaseFrees
    <3> QED  BY <3>2 DEF new
  <2> QED  BY <1>10, <1>22, <2>4
<1>25. ASSUME NEW s \in Sides, NEW pr \in DOMAIN b.levels[s], ~ (s = side /\ pr = price)
       PROVE  LET other == b.levels[s][pr].queue
              IN  /\ \A j : Link(after.index, other, j) = Link(p.index, other, j)
                  /\ \A j \in 1 .. Len(other) :
                        /\ other[j] \in DOMAIN b.nodes \ {id}
                        /\ after.nodes[p.index[other[j]]] = p.nodes[p.index[other[j]]]
  <2> DEFINE other == b.levels[s][pr].queue
  <2>1. \A j \in 1 .. Len(other) : /\ other[j] \in DOMAIN b.nodes
                                   /\ b.nodes[other[j]].side = s
                                   /\ b.nodes[other[j]].price = pr
    <3>1. \A j \in 1 .. Len(b.levels[s][pr].queue) :
              /\ b.levels[s][pr].queue[j] \in DOMAIN b.nodes
              /\ b.nodes[b.levels[s][pr].queue[j]].side = s
              /\ b.nodes[b.levels[s][pr].queue[j]].price = pr
      BY QueueHolds
    <3> QED  BY <3>1
  <2>2. \A j \in 1 .. m : b.nodes[queue[j]].side = side /\ b.nodes[queue[j]].price = price
    <3>1. \A j \in 1 .. Len(b.levels[side][price].queue) :
              /\ b.nodes[b.levels[side][price].queue[j]].side = side
              /\ b.nodes[b.levels[side][price].queue[j]].price = price
      <4>1. side \in Sides /\ price \in DOMAIN b.levels[side]
        BY <1>6
      <4> HIDE DEF side, price
      <4> QED  BY <4>1, QueueHolds
    <3> QED  BY <3>1 DEF queue
  <2> HIDE DEF other
  <2>3. ASSUME NEW j \in 1 .. Len(other)
        PROVE  /\ other[j] \in DOMAIN b.nodes \ {id}
               /\ after.nodes[p.index[other[j]]] = p.nodes[p.index[other[j]]]
    <3>1. \A i \in 1 .. m : other[j] # queue[i]
      BY <1>25, <2>1, <2>2
    <3>2. other[j] # id
      BY <1>6, <3>1
    <3>3. \A i \in 1 .. m : p.index[other[j]] # Old(i)
      BY <1>9, <1>13, <1>15, <2>1, <3>1
    <3> QED  BY <1>9, <1>23, <2>1, <3>2, <3>3
  <2>4. \A j \in 1 .. Len(other) : after.index[other[j]] = p.index[other[j]]
    BY <1>11, <2>3
  <2>5. \A j : Link(after.index, other, j) = Link(p.index, other, j)
    BY <2>4 DEF Link
  <2> QED  BY <2>3, <2>5 DEF other
\* The level vectors.
<1>26. ASSUME NEW s \in Sides
       PROVE  Lists(after.levels[s], s, LevelMap(after.index, b2, s), LevelRec)
  <2>1. ASSUME NEW pr \in DOMAIN b2.levels[s], ~ (s = side /\ pr = price)
        PROVE  /\ pr \in DOMAIN b.levels[s]
               /\ LevelFor(after.index, b2.levels[s][pr], pr) =
                    LevelFor(p.index, b.levels[s][pr], pr)
    <3>1. pr \in DOMAIN b.levels[s] /\ b2.levels[s][pr] = b.levels[s][pr]
      BY <1>12, <2>1
    <3>2. \A j : Link(after.index, b.levels[s][pr].queue, j) =
                   Link(p.index, b.levels[s][pr].queue, j)
      BY <1>25, <2>1, <3>1
    <3> QED  BY <3>1, <3>2 DEF LevelFor
  <2>2. CASE s # side
    <3>1. DOMAIN b2.levels[s] = DOMAIN b.levels[s]
      BY <1>12, <2>2
    <3>2. LevelMap(after.index, b2, s) = LevelMap(p.index, b, s)
      BY <2>1, <2>2, <3>1 DEF LevelMap
    <3>3. after.levels[s] = p.levels[s]
      BY <1>10, <2>2
    <3> QED  BY <1>7, <3>2, <3>3
  <2>3. CASE s = side
    <3> DEFINE new == LevelMap(after.index, b2, s)
    <3>1. map[price] = [price |-> price, total |-> level.total, head |-> Old(1),
                        tail |-> Old(m), count |-> m]
      BY <1>6 DEF LevelMap, LevelFor, Old, queue
    <3>2. left = [price |-> price, total |-> level.total - order.quantity,
                  head |-> IF prev # 0 THEN Old(1) ELSE next,
                  tail |-> IF next # 0 THEN Old(m) ELSE prev, count |-> m - 1]
      <4> DEFINE total == level.total
                 first == Old(1)
                 last  == Old(m)
      <4> HIDE DEF map, total, first, last, price, m
      <4>1. Pooled!Left([price |-> price, total |-> total, head |-> first,
                         tail |-> last, count |-> m], node)
              = [price |-> price, total |-> total - node.quantity,
                 head |-> IF node.previous # 0 THEN first ELSE node.next,
                 tail |-> IF node.next # 0 THEN last ELSE node.previous, count |-> m - 1]
        BY LeftIs
      <4> QED  BY <1>18, <3>1, <4>1 DEF total, first, last
    <3> HIDE DEF left
    <3>3. left.count = m - 1
      BY <3>2
    <3>4. newq = <<>> <=> m - 1 = 0
      BY <1>14
    <3>5. DOMAIN map = DOMAIN b.levels[s]
          /\ \A pr \in DOMAIN b.levels[s] : map[pr] = LevelFor(p.index, b.levels[s][pr], pr)
      BY <2>3 DEF LevelMap
    <3>6. DOMAIN new = DOMAIN b2.levels[s]
          /\ \A pr \in DOMAIN b2.levels[s] :
                new[pr] = LevelFor(after.index, b2.levels[s][pr], pr)
      BY DEF LevelMap
    <3>7. \A pr \in DOMAIN b2.levels[s] : pr # price => pr \in DOMAIN map /\ new[pr] = map[pr]
      BY <2>1, <3>5, <3>6
    <3>8. CASE m - 1 = 0
      <4>1. DOMAIN b2.levels[s] = DOMAIN map \ {price}
        BY <1>12, <2>3, <3>4, <3>5, <3>8
      <4> HIDE DEF map
      <4>2. new = [pr \in DOMAIN map \ {price} |-> map[pr]]
        <5>1. \A pr \in DOMAIN map \ {price} : new[pr] = map[pr]
          BY <3>7, <4>1
        <5>2. DOMAIN new = DOMAIN map \ {price}
          BY <3>6, <4>1
        <5>3. new = [pr \in DOMAIN new |-> new[pr]]
          BY DEF LevelMap
        <5> HIDE DEF new
        <5> QED  BY <5>1, <5>2, <5>3
      <4> HIDE DEF new
      <4>3. new = Restrict(map, DOMAIN map \ {price})
        BY <4>2 DEF Restrict
      <4> QED  BY <1>10, <2>3, <3>3, <3>8, <4>3 DEF new
    <3>9. CASE m - 1 # 0
      <4>1. DOMAIN b2.levels[s] = DOMAIN map
        BY <1>12, <2>3, <3>4, <3>5, <3>9
      <4>2. new[price] = left
        <5>1. price \in DOMAIN b2.levels[s]
          BY <1>6, <2>3, <3>5, <4>1
        <5>2. /\ b2.levels[s][price].total = level.total - order.quantity
              /\ b2.levels[s][price].queue = newq
          BY <1>12, <2>3, <5>1
        <5>3. new[price] = [price |-> price, total |-> level.total - order.quantity,
                            head |-> New(1), tail |-> New(m - 1), count |-> m - 1]
          BY <1>14, <3>6, <5>1, <5>2 DEF LevelFor, New
        <5>4. New(1) = IF prev # 0 THEN Old(1) ELSE next
          <6>1. CASE k = 1
            <7>1. New(1) = Old(1 + 1)
              BY <1>17, <6>1
            <7> QED  BY <1>19, <6>1, <7>1 DEF next
          <6>2. CASE k # 1
            <7>1. 1 < k
              BY <1>6, <6>2
            <7> QED  BY <1>17, <1>19, <6>2, <7>1
          <6> QED  BY <6>1, <6>2
        <5>5. New(m - 1) = IF next # 0 THEN Old(m) ELSE prev
          <6>1. m - 1 \in Nat /\ (m - 1) + 1 = m
            BY <1>6
          <6>2. CASE k = m
            <7>1. m - 1 < k
              BY <1>6, <6>2
            <7>2. New(m - 1) = Old(m - 1)
              BY <1>17, <6>1, <7>1
            <7> QED  BY <1>19, <6>2, <7>2 DEF prev
          <6>3. CASE k # m
            <7>1. ~ (m - 1 < k)
              BY <1>6, <6>3
            <7>2. New(m - 1) = Old(m)
              BY <1>17, <6>1, <7>1
            <7> QED  BY <1>19, <6>3, <7>2
          <6> QED  BY <6>2, <6>3
        <5> HIDE DEF new
        <5> QED  BY <3>2, <5>3, <5>4, <5>5
      <4> HIDE DEF map
      <4>3. new = [pr \in DOMAIN map \cup {price} |-> IF pr = price THEN left ELSE map[pr]]
        <5>1. DOMAIN new = DOMAIN map /\ price \in DOMAIN map
          BY <1>6, <2>3, <3>5, <3>6, <4>1
        <5>2. \A pr \in DOMAIN map : pr # price => new[pr] = map[pr]
          BY <3>7, <4>1
        <5>3. new = [pr \in DOMAIN new |-> new[pr]]
          BY DEF LevelMap
        <5> HIDE DEF new
        <5> QED  BY <4>2, <5>1, <5>2, <5>3
      <4> HIDE DEF new
      <4>4. new = Put(map, price, left)
        BY <4>3 DEF Put
      <4> QED  BY <1>10, <2>3, <3>3, <3>9, <4>4 DEF new
    <3> QED  BY <3>8, <3>9
  <2> QED  BY <2>2, <2>3
\* The nodes.
<1>27. Chained(after, b2)
  <2> SUFFICES ASSUME NEW s \in Sides, NEW pr \in DOMAIN b2.levels[s],
                      NEW j \in 1 .. Len(b2.levels[s][pr].queue)
               PROVE  after.nodes[after.index[b2.levels[s][pr].queue[j]]] =
                        NodeFor(after.index, b2, b2.levels[s][pr].queue, j)
    BY DEF Chained
  <2>1. CASE ~ (s = side /\ pr = price)
    <3> DEFINE other == b.levels[s][pr].queue
    <3>1. pr \in DOMAIN b.levels[s] /\ b2.levels[s][pr].queue = other
      BY <1>12, <2>1
    <3>2. /\ \A i : Link(after.index, other, i) = Link(p.index, other, i)
          /\ other[j] \in DOMAIN b.nodes \ {id}
          /\ after.nodes[p.index[other[j]]] = p.nodes[p.index[other[j]]]
      <4>1. j \in 1 .. Len(b.levels[s][pr].queue)
        BY <3>1
      <4>2. \A i : Link(after.index, b.levels[s][pr].queue, i) =
                     Link(p.index, b.levels[s][pr].queue, i)
        BY <1>25, <2>1, <3>1
      <4>3. \A i \in 1 .. Len(b.levels[s][pr].queue) :
               /\ b.levels[s][pr].queue[i] \in DOMAIN b.nodes \ {id}
               /\ after.nodes[p.index[b.levels[s][pr].queue[i]]] =
                    p.nodes[p.index[b.levels[s][pr].queue[i]]]
        BY <1>25, <2>1, <3>1
      <4> QED  BY <4>1, <4>2, <4>3
    <3>3. p.nodes[p.index[other[j]]] = NodeFor(p.index, b, other, j)
      BY <1>7, <3>1 DEF Chained
    <3> HIDE DEF other
    <3>4. after.index[other[j]] = p.index[other[j]] /\ b2.nodes[other[j]] = b.nodes[other[j]]
      BY <1>11, <1>12, <3>2
    <3>5. NodeFor(after.index, b2, other, j) = NodeFor(p.index, b, other, j)
      BY <3>2, <3>4 DEF NodeFor
    <3> QED  BY <3>1, <3>2, <3>3, <3>4, <3>5
  <2>2. CASE s = side /\ pr = price
    <3> DEFINE i == IF j < k THEN j ELSE j + 1
               x == queue[i]
               N == NodeFor(p.index, b, queue, i)
    <3>1. b2.levels[s][pr].queue = newq /\ j \in 1 .. m - 1
      BY <1>12, <1>14, <2>2
    <3>2. i \in 1 .. m /\ i # k /\ newq[j] = x
      BY <1>6, <1>14, <3>1
    <3>3. x \in DOMAIN b.nodes \ {id}
      BY <1>6, <1>13, <3>2
    <3>4. p.nodes[p.index[x]] = N
      <4>1. \A l \in 1 .. Len(b.levels[side][price].queue) :
               p.nodes[p.index[b.levels[side][price].queue[l]]] =
                 NodeFor(p.index, b, b.levels[side][price].queue, l)
        <5>1. side \in Sides /\ price \in DOMAIN b.levels[side]
          BY <1>6
        <5> HIDE DEF side, price
        <5> QED  BY <1>7, <5>1 DEF Chained
      <4> HIDE DEF i
      <4> QED  BY <3>2, <4>1 DEF queue
    <3>5. p.index[x] = Old(i) /\ Old(i) \in 1 .. n /\ Old(i) # at
      BY <1>6, <1>15, <1>16, <3>2
    <3>6. /\ Old(i) = prev <=> i = k - 1
          /\ Old(i) = next <=> i = k + 1
      BY <1>19, <3>2
    <3> DEFINE nxt == IF Old(i) = prev THEN next ELSE Old(i + 1)
               prv == IF Old(i) = next THEN prev ELSE Old(i - 1)
    <3>7. after.nodes[Old(i)] = [p.nodes[Old(i)] EXCEPT
                                   !.next     = IF Old(i) = prev THEN next ELSE @,
                                   !.previous = IF Old(i) = next THEN prev ELSE @]
      BY <1>20, <3>5
    <3>8. N.next = Old(i + 1) /\ N.previous = Old(i - 1)
      BY DEF NodeFor, Old
    <3>9. Unlinked(N, prv, nxt) = Relinked(N, prv, nxt)
      <4>1. i \in Int
        BY <3>2
      <4> HIDE DEF nxt, prv, i
      <4> QED  BY <4>1, LinksAre
    <3> HIDE DEF N
    <3>10. after.nodes[Old(i)] = Relinked(N, prv, nxt)
      <4>1. p.nodes[Old(i)] = N
        BY <3>4, <3>5
      <4> HIDE DEF i
      <4>2. after.nodes[Old(i)] = [N EXCEPT !.next     = IF Old(i) = prev THEN next ELSE @,
                                            !.previous = IF Old(i) = next THEN prev ELSE @]
        BY <3>7, <4>1
      <4>3. after.nodes[Old(i)] = [N EXCEPT !.next = nxt, !.previous = prv]
        BY <3>8, <4>2
      <4> QED  BY <3>9, <4>3 DEF Unlinked
    <3>11. prv = New(j - 1)
      <4>1. j - 1 \in Nat /\ k \in Nat
        BY <1>6, <3>1
      <4>2. New(j - 1) = IF j - 1 < k THEN Old(j - 1) ELSE Old((j - 1) + 1)
        BY <1>17, <4>1
      <4>3. CASE j < k
        <5>1. i = j /\ i # k + 1 /\ j - 1 < k
          BY <1>6, <3>1, <4>3
        <5> QED  BY <3>6, <4>2, <5>1
      <4>4. CASE j = k
        <5>1. i = k + 1 /\ j - 1 < k /\ j - 1 = k - 1
          BY <1>6, <3>1, <4>4
        <5> QED  BY <3>6, <4>2, <5>1 DEF prev
      <4>5. CASE j > k
        <5>1. i # k + 1 /\ ~ j - 1 < k /\ (j - 1) + 1 = i - 1
          BY <1>6, <3>1, <4>5
        <5> QED  BY <3>6, <4>2, <5>1
      <4> QED  BY <1>6, <3>1, <4>3, <4>4, <4>5
    <3>12. nxt = New(j + 1)
      <4>1. j + 1 \in Nat /\ k \in Nat
        BY <1>6, <3>1
      <4>2. New(j + 1) = IF j + 1 < k THEN Old(j + 1) ELSE Old((j + 1) + 1)
        BY <1>17, <4>1
      <4>3. CASE j + 1 < k
        <5>1. i = j /\ i # k - 1
          BY <1>6, <3>1, <4>3
        <5> QED  BY <3>6, <4>2, <4>3, <5>1
      <4>4. CASE j + 1 = k
        <5>1. i = k - 1 /\ ~ j + 1 < k /\ (j + 1) + 1 = k + 1
          BY <1>6, <3>1, <4>4
        <5> QED  BY <3>6, <4>2, <5>1 DEF next
      <4>5. CASE j + 1 > k
        <5>1. i # k - 1 /\ ~ j + 1 < k /\ (j + 1) + 1 = i + 1
          BY <1>6, <3>1, <4>5
        <5> QED  BY <3>6, <4>2, <5>1
      <4> QED  BY <1>6, <3>1, <4>3, <4>4, <4>5
    <3>13. NodeFor(after.index, b2, newq, j) = Relinked(N, New(j - 1), New(j + 1))
      <4>1. newq[j] = queue[i] /\ b2.nodes[queue[i]] = b.nodes[queue[i]]
        BY <1>12, <3>2, <3>3
      <4>3. i \in Int /\ j \in Int
        BY <3>1, <3>2
      <4> HIDE DEF i
      <4>2. NodeFor(after.index, b2, newq, j)
              = Relinked(NodeFor(p.index, b, queue, i), Link(after.index, newq, j - 1),
                         Link(after.index, newq, j + 1))
        BY <4>1, <4>3, NodeForIs
      <4> QED  BY <4>2 DEF N, New
    <3>14. after.index[newq[j]] = Old(i)
      BY <1>11, <3>2, <3>3, <3>5
    <3> HIDE DEF i, prv, nxt
    <3> QED  BY <3>1, <3>10, <3>11, <3>12, <3>13, <3>14
  <2> QED  BY <2>1, <2>2
<1>28. Mirrors(after, b2, I)
  BY <1>7, <1>10, <1>20, <1>21, <1>24, <1>26, <1>27 DEF Mirrors
<1> QED  BY <1>28 DEF after, b2

-------------------------------------------------------------------------------
(* reduce_order and replace_order.                                         *)

\* A node of an order that offers less.
Lower(node, quantity) == [node EXCEPT !.quantity = quantity]

\* An order with less quantity has the same links.
LEMMA LowerIs ==
  ASSUME NEW index, NEW b, NEW queue, NEW k \in Int, NEW b2, NEW quantity,
         b2.nodes[queue[k]].side = b.nodes[queue[k]].side,
         b2.nodes[queue[k]].price = b.nodes[queue[k]].price,
         b2.nodes[queue[k]].quantity = quantity
  PROVE  NodeFor(index, b2, queue, k) = Lower(NodeFor(index, b, queue, k), quantity)
<1> DEFINE node    == NodeFor(index, b, queue, k)
           with(q) == [id |-> node.id, side |-> node.side, price |-> node.price,
                       quantity |-> q, previous |-> node.previous, next |-> node.next,
                       active |-> node.active]
<1>1. NodeFor(index, b2, queue, k) = with(quantity) /\ node = with(node.quantity)
  BY DEF NodeFor
<1> HIDE DEF node
<1>2. [node EXCEPT !.quantity = quantity] = with(quantity)
  BY <1>1
<1> QED  BY <1>1, <1>2 DEF Lower, node

\* Both books mirror each other after reduce_order.
LEMMA ReduceMirrors ==
  ASSUME NEW p, NEW b, NEW I, NEW P \in SUBSET Nat, SoundBook(b, I, P),
         Mirrors(p, b, I), NEW id \in DOMAIN b.nodes, NEW quantity \in Nat \ {0}
  PROVE  Mirrors(Pooled!ReduceOrder(p, id, quantity), ReduceOrder(b, id, quantity), I)
<1> DEFINE at    == p.index[id]
           order == b.nodes[id]
           side  == order.side
           price == order.price
           level == b.levels[side][price]
           queue == level.queue
           map   == LevelMap(p.index, b, side)
           node  == p.nodes[at]
           old   == p.levels[side]
           place == Pooled!Place(old, side, price)
           after == Pooled!ReduceOrder(p, id, quantity)
           b2    == ReduceOrder(b, id, quantity)
           n     == Len(p.nodes)
<1>1. PICK k : WaitsAt(b, I, id, k)
  BY OrderWaits
<1>2. node = NodeFor(p.index, b, queue, k)
  BY <1>1, NodeOf
<1>3. /\ side \in Sides /\ price \in Nat /\ price \in DOMAIN b.levels[side]
      /\ queue \in Seq(I) /\ Len(queue) \in Nat /\ k \in 1 .. Len(queue) /\ queue[k] = id
      /\ order.quantity \in Nat /\ level.total \in Nat /\ order.quantity <= level.total
  BY <1>1 DEF WaitsAt
<1>4. /\ p.nodes \in Seq(NodeRec(I)) /\ Indexed(p, b) /\ Chained(p, b) /\ n <= Cardinality(I)
      /\ DOMAIN p.levels = Sides
      /\ \A s \in Sides : Lists(p.levels[s], s, LevelMap(p.index, b, s), LevelRec)
  BY DEF Mirrors
<1>5. /\ node.side = side /\ node.price = price /\ node.quantity = order.quantity
  <2> HIDE DEF node, queue
  <2> QED  BY <1>2, <1>3 DEF NodeFor
<1>6. CASE quantity >= order.quantity
  <2>1. b2 = CancelOrder(b, id)
    BY <1>6 DEF ReduceOrder
  <2>2. after = Pooled!CancelOrder(p, id)
    BY <1>5, <1>6 DEF Pooled!ReduceOrder
  <2>3. Mirrors(Pooled!CancelOrder(p, id), CancelOrder(b, id), I)
    BY CancelMirrors
  <2> HIDE DEF after, b2
  <2> QED  BY <2>1, <2>2, <2>3 DEF after, b2
<1>7. CASE quantity < order.quantity
  <2>1. Reduced(b2, b, id, quantity)
    BY <1>7, ReduceOrderReduces
  <2>2. n \in Nat /\ at \in 1 .. n /\ node \in NodeRec(I)
    <3>1. n \in Nat /\ at \in 1 .. n
      BY <1>4 DEF Indexed
    <3> HIDE DEF at
    <3> QED  BY <1>4, <3>1
  <2> HIDE DEF node
  <2> DEFINE lower == [node EXCEPT !.quantity = node.quantity - quantity]
             less  == [old[place] EXCEPT !.total = old[place].total - quantity]
             new   == [old EXCEPT ![place] = less]
  <2>3. ~ quantity >= node.quantity
    BY <1>3, <1>5, <1>7
  <2>4. /\ after.levels = [p.levels EXCEPT ![node.side][Pooled!Place(p.levels[node.side],
                                              node.side, node.price)].total = @ - quantity]
        /\ after.nodes = [p.nodes EXCEPT ![at].quantity = @ - quantity]
        /\ after.free = p.free
        /\ after.index = p.index
    BY <2>3 DEF Pooled!ReduceOrder, node
  <2> HIDE DEF after, b2
  <2>5. after.nodes = [p.nodes EXCEPT ![at] = lower]
    BY <2>4 DEF node
  <2>6. after.levels = [p.levels EXCEPT ![side][place].total = @ - quantity]
    <3> HIDE DEF order
    <3> QED  BY <1>5, <2>4
  <2>7. after.levels = [p.levels EXCEPT ![side] = new]
    <3> HIDE DEF order, place
    <3> QED  BY <2>6
  <2>8. lower \in NodeRec(I)
    <3> DEFINE q == node.quantity - quantity
    <3>1. q \in Nat
      <4> DEFINE x == order.quantity
      <4>1. x \in Nat /\ quantity < x /\ node.quantity = x
        BY <1>3, <1>5, <1>7
      <4> HIDE DEF x
      <4> QED  BY <4>1
    <3> HIDE DEF q
    <3>2. node \in NodeRec(I) /\ lower = [node EXCEPT !.quantity = q]
      BY <2>2 DEF q
    <3> HIDE DEF lower
    <3> QED  BY <3>1, <3>2 DEF NodeRec
  <2> HIDE DEF lower
  <2>9. /\ after.nodes \in Seq(NodeRec(I)) /\ Len(after.nodes) = n
        /\ after.nodes[at] = lower
        /\ \A x \in 1 .. n : x # at => after.nodes[x] = p.nodes[x]
    <3> HIDE DEF at
    <3> QED  BY <1>4, <2>2, <2>5, <2>8
  <2>10. /\ DOMAIN b2.nodes = DOMAIN b.nodes /\ DOMAIN b2.levels = Sides
         /\ b2.nodes[id].side = side /\ b2.nodes[id].price = price
         /\ b2.nodes[id].quantity = order.quantity - quantity
         /\ \A i \in DOMAIN b.nodes \ {id} : b2.nodes[i] = b.nodes[i]
         /\ \A s \in Sides : DOMAIN b2.levels[s] = DOMAIN b.levels[s]
         /\ \A s \in Sides : \A pr \in DOMAIN b.levels[s] :
               /\ b2.levels[s][pr].queue = b.levels[s][pr].queue
               /\ b2.levels[s][pr].total = IF s = side /\ pr = price
                                           THEN b.levels[s][pr].total - quantity
                                           ELSE b.levels[s][pr].total
    <3>1. order \in [side : Sides, price : P, quantity : Nat \ {0}]
      BY DEF SoundBook, IsBook, Offer
    <3>2. b2.nodes[id] = [order EXCEPT !.quantity = @ - quantity]
      BY <2>1 DEF Reduced
    <3> HIDE DEF order
    <3>3. /\ b2.nodes[id].side = side /\ b2.nodes[id].price = price
          /\ b2.nodes[id].quantity = order.quantity - quantity
      BY <3>1, <3>2
    <3> QED  BY <2>1, <3>3 DEF Reduced, order
  <2>11. /\ DOMAIN p.index = DOMAIN b.nodes
         /\ \A i, j \in DOMAIN b.nodes : p.index[i] = p.index[j] => i = j
         /\ \A i \in DOMAIN b.nodes : p.index[i] \in 1 .. n
    BY <1>4 DEF Indexed
  <2>12. Indexed(after, b2)
    BY <2>4, <2>9, <2>10, <2>11 DEF Indexed
  <2>13. \E list : Frees(list, after.nodes, after.free, Used(after.index))
    <3> DEFINE used == Used(p.index)
               nodes == p.nodes
               nodes2 == after.nodes
               free == p.free
    <3>1. PICK list : Frees(list, nodes, free, used)
      BY DEF Mirrors
    <3>2. at \in used
      BY <2>11 DEF Used
    <3> HIDE DEF used, at
    <3>3. Len(nodes2) = Len(nodes)
          /\ \A x \in 1 .. Len(nodes) : x \notin used => nodes2[x] = nodes[x]
      BY <2>9, <3>2
    <3> HIDE DEF nodes, nodes2, free
    <3>4. Frees(list, nodes2, free, used)
      BY <3>1, <3>3, FreesKept
    <3> QED  BY <2>4, <3>4 DEF nodes2, free, used
  <2>14. ASSUME NEW s \in Sides
         PROVE  Lists(after.levels[s], s, LevelMap(after.index, b2, s), LevelRec)
    <3> DEFINE new2 == LevelMap(after.index, b2, s)
    <3>1. ASSUME NEW pr \in DOMAIN b.levels[s], ~ (s = side /\ pr = price)
          PROVE  LevelFor(after.index, b2.levels[s][pr], pr) =
                   LevelFor(p.index, b.levels[s][pr], pr)
      BY <2>4, <2>10, <3>1 DEF LevelFor
    <3>2. CASE s # side
      <4>1. new2 = LevelMap(p.index, b, s)
        BY <2>10, <3>1, <3>2 DEF LevelMap
      <4>2. after.levels[s] = p.levels[s]
        <5> HIDE DEF new, order
        <5> QED  BY <1>4, <2>7, <3>2
      <4> QED  BY <1>4, <4>1, <4>2
    <3>3. CASE s = side
      <4>1. map[price] = LevelFor(p.index, level, price) /\ price \in DOMAIN map
        BY <1>3 DEF LevelMap
      <4>2. Lists(old, side, map, LevelRec)
        BY <1>3, <1>4
      <4>3. old[place] = map[price]
        <5> HIDE DEF map, old
        <5> QED  BY <4>1, <4>2, PlaceFinds
      <4>4. LevelFor(after.index, b2.levels[s][price], price) = less
        <5> DEFINE first == Link(p.index, queue, 1)
                   last  == Link(p.index, queue, Len(queue))
                   m     == Len(queue)
                   t     == level.total
        <5>1. old[place] = [price |-> price, total |-> t, head |-> first, tail |-> last,
                            count |-> m]
          BY <4>1, <4>3 DEF LevelFor
        <5>2. LevelFor(after.index, b2.levels[s][price], price) =
                [price |-> price, total |-> t - quantity, head |-> first, tail |-> last,
                 count |-> m]
          BY <1>3, <2>4, <2>10, <3>3 DEF LevelFor
        <5> HIDE DEF first, last, m, t, old, place, price
        <5> QED  BY <5>1, <5>2
      <4>5. less \in LevelRec /\ less.price = price
        <5>1. old[place] \in LevelRec /\ old[place].price = price
              /\ old[place].total = level.total
          <6>1. map[price] \in LevelRec
            BY <4>1, <4>2 DEF Lists
          <6>2. map[price].price = price /\ map[price].total = level.total
            BY <4>1 DEF LevelFor
          <6> HIDE DEF map, old, place
          <6> QED  BY <4>3, <6>1, <6>2
        <5>2. old[place].total - quantity \in Nat
          <6> DEFINE x == order.quantity
                     t == level.total
          <6>1. x \in Nat /\ quantity < x /\ t \in Nat /\ x <= t /\ old[place].total = t
            BY <1>3, <1>7, <5>1
          <6> HIDE DEF x, t, old, place
          <6> QED  BY <6>1
        <5> HIDE DEF old, place, price
        <5> QED  BY <5>1, <5>2 DEF LevelRec
      <4> HIDE DEF less
      <4>6. Lists(new, side, Put(map, price, less), LevelRec)
        <5> HIDE DEF map, old, side, price
        <5> QED  BY <4>1, <4>2, <4>5, UpdateLists
      <4>7. after.levels[s] = new
        <5> HIDE DEF new, order
        <5> QED  BY <1>3, <1>4, <2>7, <3>3
      <4>8. new2 = Put(map, price, less)
        <5>1. DOMAIN new2 = DOMAIN b.levels[s] /\ DOMAIN map = DOMAIN b.levels[s]
              /\ new2 = [pr \in DOMAIN new2 |-> new2[pr]]
          BY <2>10, <3>3 DEF LevelMap
        <5>2. new2[price] = less
          BY <1>3, <2>10, <3>3, <4>4 DEF LevelMap
        <5>3. \A pr \in DOMAIN b.levels[s] : pr # price => new2[pr] = map[pr]
          BY <2>10, <3>1, <3>3 DEF LevelMap
        <5>4. price \in DOMAIN map
          BY <4>1
        <5> HIDE DEF new2, map, price
        <5>5. new2 = [pr \in DOMAIN map \cup {price} |-> IF pr = price THEN less ELSE map[pr]]
          BY <5>1, <5>2, <5>3, <5>4
        <5> QED  BY <5>5 DEF Put
      <4> HIDE DEF new, map, new2
      <4> QED  BY <3>3, <4>6, <4>7, <4>8 DEF new2
    <3> QED  BY <3>2, <3>3
  <2>15. Chained(after, b2)
    <3> SUFFICES ASSUME NEW s \in Sides, NEW pr \in DOMAIN b2.levels[s],
                        NEW j \in 1 .. Len(b2.levels[s][pr].queue)
                 PROVE  after.nodes[after.index[b2.levels[s][pr].queue[j]]] =
                          NodeFor(after.index, b2, b2.levels[s][pr].queue, j)
      BY DEF Chained
    <3> DEFINE here == b.levels[s][pr].queue
               x    == here[j]
    <3>1. pr \in DOMAIN b.levels[s] /\ b2.levels[s][pr].queue = here /\ j \in 1 .. Len(here)
      BY <2>10
    <3>2. x \in DOMAIN b.nodes
      <4>1. \A i \in 1 .. Len(b.levels[s][pr].queue) : b.levels[s][pr].queue[i] \in DOMAIN b.nodes
        BY <3>1, QueueHolds
      <4> QED  BY <3>1, <4>1
    <3>3. p.nodes[p.index[x]] = NodeFor(p.index, b, here, j)
      BY <1>4, <3>1 DEF Chained
    <3> HIDE DEF here
    <3>4. CASE x = id
      <4>1. NodeFor(p.index, b2, here, j) = Lower(NodeFor(p.index, b, here, j),
                                                  order.quantity - quantity)
        <5>1. /\ b2.nodes[here[j]].side = b.nodes[here[j]].side
              /\ b2.nodes[here[j]].price = b.nodes[here[j]].price
              /\ b2.nodes[here[j]].quantity = order.quantity - quantity /\ j \in Int
          BY <2>10, <3>4
        <5> DEFINE q == order.quantity - quantity
        <5> HIDE DEF q
        <5>2. b2.nodes[here[j]].quantity = q
          BY <5>1 DEF q
        <5>3. NodeFor(p.index, b2, here, j) = Lower(NodeFor(p.index, b, here, j), q)
          BY <5>1, <5>2, LowerIs
        <5> QED  BY <5>3 DEF q
      <4>2. p.index[x] = at /\ p.nodes[at] = node
        BY <3>4 DEF node
      <4>3. lower = Lower(NodeFor(p.index, b, here, j), order.quantity - quantity)
        BY <1>5, <3>3, <4>2 DEF lower, Lower
      <4> HIDE DEF x, at
      <4> QED  BY <2>4, <2>9, <3>1, <4>1, <4>2, <4>3 DEF x
    <3>5. CASE x # id
      <4>1. p.index[x] # at /\ p.index[x] \in 1 .. n
        BY <2>11, <3>2, <3>5
      <4>2. NodeFor(p.index, b2, here, j) = NodeFor(p.index, b, here, j)
        BY <2>10, <3>2, <3>5 DEF NodeFor
      <4> HIDE DEF at
      <4> QED  BY <2>4, <2>9, <3>1, <3>3, <4>1, <4>2
    <3> QED  BY <3>4, <3>5
  <2>16. DOMAIN after.levels = Sides
    <3> HIDE DEF new
    <3> QED  BY <1>4, <2>7
  <2>17. Mirrors(after, b2, I)
    BY <1>4, <2>9, <2>12, <2>13, <2>14, <2>15, <2>16 DEF Mirrors
  <2> QED  BY <2>17 DEF after, b2
<1> QED  BY <1>3, <1>6, <1>7

\* Both books mirror each other after replace_order.
LEMMA ReplaceMirrors ==
  ASSUME NEW p, NEW b, NEW I, NEW P \in SUBSET Nat, IsFiniteSet(I), SoundBook(b, I, P),
         Mirrors(p, b, I), NEW id \in DOMAIN b.nodes,
         NEW price \in P, NEW quantity \in Nat \ {0}
  PROVE  Mirrors(Pooled!ReplaceOrder(p, id, price, quantity),
                 ReplaceOrder(b, id, price, quantity), I)
<1> DEFINE left  == CancelOrder(b, id)
           pleft == Pooled!CancelOrder(p, id)
           order == b.nodes[id]
           new   == [order EXCEPT !.price = price, !.quantity = quantity]
           side  == p.nodes[p.index[id]].side
<1>1. SoundBook(left, I, P)
  BY CancelOrderSound
<1>2. Mirrors(pleft, left, I)
  BY CancelMirrors
<1>3. ~ Resting(left, id)
  <2>1. Canceled(left, b, id)
    BY CancelOrderCancels
  <2> HIDE DEF left
  <2> QED  BY <2>1 DEF Canceled, Resting
<1>4. id \in I
  BY DEF SoundBook, IsBook
<1>5. order \in Offer(P)
  BY DEF SoundBook, IsBook
<1>6. new \in Offer(P) /\ new.side = order.side /\ new.price = price /\ new.quantity = quantity
  <2> HIDE DEF order
  <2> QED  BY <1>5 DEF Offer
<1>7. side = order.side
  <2>1. PICK k : WaitsAt(b, I, id, k)
    BY OrderWaits
  <2>2. p.nodes[p.index[id]] = NodeFor(p.index, b, b.levels[order.side][order.price].queue, k)
    BY <2>1, NodeOf
  <2>3. b.levels[order.side][order.price].queue[k] = id
    BY <2>1 DEF WaitsAt
  <2> QED  BY <2>2, <2>3 DEF NodeFor
<1>8. ReplaceOrder(b, id, price, quantity) = AddOrder(left, id, new)
  BY DEF ReplaceOrder
<1>9. Pooled!ReplaceOrder(p, id, price, quantity) =
        Pooled!AddOrder(pleft, id, side, price, quantity)
  BY DEF Pooled!ReplaceOrder
<1> HIDE DEF left, pleft, new, order, side
<1>10. Mirrors(Pooled!AddOrder(pleft, id, new.side, new.price, new.quantity),
               AddOrder(left, id, new), I)
  BY <1>1, <1>2, <1>3, <1>4, <1>6, AddMirrors
<1>11. Pooled!AddOrder(pleft, id, new.side, new.price, new.quantity) =
         Pooled!AddOrder(pleft, id, side, price, quantity)
  BY <1>6, <1>7
<1> QED  BY <1>8, <1>9, <1>10, <1>11

\* Both books mirror each other while they are empty.
LEMMA EmptyMirrors ==
  ASSUME NEW I, IsFiniteSet(I)
  PROVE  Mirrors(Pooled!EmptyPool, EmptyBook, I)
<1> DEFINE p == Pooled!EmptyPool
           b == EmptyBook
<1>1. /\ p.nodes = <<>> /\ p.free = 0 /\ p.index = <<>>
      /\ DOMAIN p.levels = Sides /\ \A side \in Sides : p.levels[side] = <<>>
  BY DEF Pooled!EmptyPool, Pooled!None, Pooled!Sides, Sides
<1>2. /\ b.nodes = <<>> /\ DOMAIN b.levels = Sides
      /\ \A side \in Sides : b.levels[side] = <<>>
  BY DEF EmptyBook
<1>3. DOMAIN <<>> = {} /\ Len(<<>>) = 0 /\ 1 .. 0 = {}
  OBVIOUS
<1> HIDE DEF p, b
<1>4. p.nodes \in Seq(NodeRec(I)) /\ Len(p.nodes) <= Cardinality(I)
  <2>1. Cardinality(I) \in Nat
    BY FS_CardinalityType
  <2> QED  BY <1>1, <2>1
<1>5. Indexed(p, b)
  BY <1>1, <1>2, <1>3 DEF Indexed
<1>6. Chained(p, b)
  BY <1>2, <1>3 DEF Chained
<1>7. ASSUME NEW side \in Sides
      PROVE  Lists(p.levels[side], side, LevelMap(p.index, b, side), LevelRec)
  <2> DEFINE map    == LevelMap(p.index, b, side)
             levels == p.levels[side]
  <2>1. DOMAIN map = {}
    BY <1>2, <1>3 DEF LevelMap
  <2>2. levels = <<>>
    BY <1>1
  <2> HIDE DEF map, levels
  <2>3. levels \in Seq(LevelRec) /\ 1 .. Len(levels) = {}
    BY <2>2
  <2>4. Lists(levels, side, map, LevelRec)
    BY <2>1, <2>3 DEF Lists
  <2> QED  BY <2>4 DEF map, levels
<1>8. \E list : Frees(list, p.nodes, p.free, Used(p.index))
  <2>1. Frees(<<>>, p.nodes, p.free, Used(p.index))
    BY <1>1, <1>3 DEF Frees
  <2> QED  BY <2>1
<1>9. Mirrors(p, b, I)
  BY <1>1, <1>4, <1>5, <1>6, <1>7, <1>8 DEF Mirrors
<1> QED  BY <1>9 DEF p, b

-------------------------------------------------------------------------------
(* The same calls for both books.                                          *)

\* The inductive invariant: the book is sound, the pooled book mirrors it and
\* both returned the same.
Paired == Sound /\ Mirrors(pool, book, Ids) /\ ok = pooledOk

\* Both books begin empty.
LEMMA InitPaired == BothInit => Paired
<1> SUFFICES ASSUME BothInit PROVE Paired
  OBVIOUS
<1>1. Sound
  BY InitSound DEF BothInit
<1>2. book = EmptyBook /\ ok = TRUE /\ pool = Pooled!EmptyPool /\ pooledOk = TRUE
  BY DEF BothInit, Init, Pooled!Init
<1>3. Mirrors(Pooled!EmptyPool, EmptyBook, Ids)
  BY IdsFinite, EmptyMirrors
<1> QED  BY <1>1, <1>2, <1>3 DEF Paired

\* Every call that both books are given keeps them alike.
LEMMA NextPaired == Paired /\ [BothNext]_bothVars => Paired'
<1> SUFFICES ASSUME Paired, [BothNext]_bothVars PROVE Paired'
  OBVIOUS
<1>1. SoundBook(book, Ids, Prices) /\ Mirrors(pool, book, Ids) /\ ok = pooledOk /\ Sound
      /\ Prices \in SUBSET Nat
  BY PricesAssumption DEF Paired, Sound
<1>2. Sound'
  <2>1. BothNext => Next
    BY DEF BothNext, Next
  <2>2. UNCHANGED bothVars => UNCHANGED vars
    BY DEF bothVars
  <2> QED  BY <1>1, <2>1, <2>2, NextSound
<1>3. \A i : Pooled!Resting(i) <=> Resting(book, i)
  BY <1>1 DEF Pooled!Resting, Resting, Mirrors, Indexed
<1>4. CASE UNCHANGED bothVars
  BY <1>1, <1>2, <1>4 DEF bothVars, vars, Paired
<1>5. CASE Refused /\ Pooled!Refused
  BY <1>1, <1>2, <1>5 DEF Refused, Pooled!Refused, Paired
<1>6. ASSUME NEW o \in Orders, Add(o), Pooled!Add(o) PROVE Paired'
  <2> DEFINE order == [side |-> o.side, price |-> o.price, quantity |-> o.quantity]
  <2>1. Pooled!Acceptable(o) <=> Acceptable(o)
    BY <1>3 DEF Pooled!Acceptable, Acceptable, Pooled!Sides, Sides
  <2>2. CASE ~ Acceptable(o)
    BY <1>5, <1>6, <2>1, <2>2 DEF Add, Pooled!Add
  <2>3. CASE Acceptable(o)
    <3>1. /\ o.id \in Ids /\ o.side \in Sides /\ o.price \in Prices
          /\ o.quantity \in Nat \ {0} /\ ~ Resting(book, o.id)
      BY <2>3, AcceptableIs
    <3>2. order \in Offer(Prices) /\ order.side = o.side /\ order.price = o.price
          /\ order.quantity = o.quantity
      BY <3>1 DEF Offer
    <3>3. book' = AddOrder(book, o.id, order) /\ ok' = TRUE
      BY <1>6, <2>3 DEF Add
    <3>4. pool' = Pooled!AddOrder(pool, o.id, o.side, o.price, o.quantity) /\ pooledOk' = TRUE
      BY <1>6, <2>1, <2>3 DEF Pooled!Add, Pooled!Done
    <3> HIDE DEF order
    <3>5. Mirrors(Pooled!AddOrder(pool, o.id, order.side, order.price, order.quantity),
                  AddOrder(book, o.id, order), Ids)
      BY <1>1, <3>1, <3>2, IdsFinite, AddMirrors
    <3> QED  BY <1>2, <3>2, <3>3, <3>4, <3>5 DEF Paired
  <2> QED  BY <2>2, <2>3
<1>7. ASSUME NEW id \in Ids \cup {0}, Cancel(id), Pooled!Cancel(id) PROVE Paired'
  <2>1. CASE ~ Resting(book, id)
    BY <1>3, <1>5, <1>7, <2>1 DEF Cancel, Pooled!Cancel
  <2>2. CASE Resting(book, id)
    <3>1. book' = CancelOrder(book, id) /\ ok' = TRUE
      BY <1>7, <2>2 DEF Cancel
    <3>2. pool' = Pooled!CancelOrder(pool, id) /\ pooledOk' = TRUE
      BY <1>3, <1>7, <2>2 DEF Pooled!Cancel, Pooled!Done
    <3>3. id \in DOMAIN book.nodes
      BY <2>2 DEF Resting
    <3>4. Mirrors(Pooled!CancelOrder(pool, id), CancelOrder(book, id), Ids)
      BY <1>1, <3>3, CancelMirrors
    <3> QED  BY <1>2, <3>1, <3>2, <3>4 DEF Paired
  <2> QED  BY <2>1, <2>2
<1>8. ASSUME NEW id \in Ids \cup {0}, NEW quantity \in Quantities \cup {0},
             Reduce(id, quantity), Pooled!Reduce(id, quantity)
      PROVE  Paired'
  <2>1. CASE quantity <= 0 \/ ~ Resting(book, id)
    <3>1. ~ (quantity > 0 /\ Resting(book, id))
      BY <2>1, QuantitiesAssumption
    <3> QED  BY <1>3, <1>5, <1>8, <3>1 DEF Reduce, Pooled!Reduce
  <2>2. CASE quantity > 0 /\ Resting(book, id)
    <3>1. quantity \in Nat \ {0} /\ id \in DOMAIN book.nodes /\ ~ quantity <= 0
      BY <2>2, QuantitiesAssumption DEF Resting
    <3>2. book' = ReduceOrder(book, id, quantity) /\ ok' = TRUE
      BY <1>8, <2>2, <3>1 DEF Reduce
    <3>3. pool' = Pooled!ReduceOrder(pool, id, quantity) /\ pooledOk' = TRUE
      BY <1>3, <1>8, <2>2, <3>1 DEF Pooled!Reduce, Pooled!Done
    <3>4. Mirrors(Pooled!ReduceOrder(pool, id, quantity), ReduceOrder(book, id, quantity), Ids)
      BY <1>1, <3>1, ReduceMirrors
    <3> QED  BY <1>2, <3>2, <3>3, <3>4 DEF Paired
  <2> QED  BY <2>1, <2>2, QuantitiesAssumption
<1>9. ASSUME NEW id \in Ids \cup {0}, NEW price \in Prices \cup {0},
             NEW quantity \in Quantities \cup {0},
             Replace(id, price, quantity), Pooled!Replace(id, price, quantity)
      PROVE  Paired'
  <2>1. CASE price <= 0 \/ quantity <= 0 \/ ~ Resting(book, id)
    <3>1. ~ (price > 0 /\ quantity > 0 /\ Resting(book, id))
      BY <2>1, QuantitiesAssumption, PricesAssumption
    <3> QED  BY <1>3, <1>5, <1>9, <3>1 DEF Replace, Pooled!Replace
  <2>2. CASE price > 0 /\ quantity > 0 /\ Resting(book, id)
    <3>1. /\ price \in Prices /\ quantity \in Nat \ {0} /\ id \in DOMAIN book.nodes
          /\ ~ quantity <= 0 /\ ~ price <= 0
      <4>1. ~ 0 > 0
        OBVIOUS
      <4>2. price \in Prices /\ quantity \in Quantities
        BY <2>2, <4>1
      <4>3. quantity \in Nat /\ price \in Nat /\ quantity # 0
        BY <4>2, QuantitiesAssumption, PricesAssumption
      <4>4. ~ quantity <= 0 /\ ~ price <= 0
        BY <2>2, <4>3
      <4>5. id \in DOMAIN book.nodes
        BY <2>2 DEF Resting
      <4> QED  BY <4>2, <4>3, <4>4, <4>5
    <3>2. book' = ReplaceOrder(book, id, price, quantity) /\ ok' = TRUE
      BY <1>9, <2>2, <3>1 DEF Replace
    <3>3. pool' = Pooled!ReplaceOrder(pool, id, price, quantity) /\ pooledOk' = TRUE
      BY <1>3, <1>9, <2>2, <3>1 DEF Pooled!Replace, Pooled!Done
    <3>4. Mirrors(Pooled!ReplaceOrder(pool, id, price, quantity),
                  ReplaceOrder(book, id, price, quantity), Ids)
      BY <1>1, <3>1, IdsFinite, ReplaceMirrors
    <3> QED  BY <1>2, <3>2, <3>3, <3>4 DEF Paired
  <2> QED  BY <2>1, <2>2, QuantitiesAssumption, PricesAssumption
<1>10. CASE Clear /\ Pooled!Clear
  <2>1. Mirrors(Pooled!EmptyPool, EmptyBook, Ids)
    BY IdsFinite, EmptyMirrors
  <2> QED  BY <1>2, <1>10, <2>1 DEF Clear, Pooled!Clear, Pooled!Done, Paired
<1> QED  BY <1>4, <1>6, <1>7, <1>8, <1>9, <1>10 DEF BothNext

-------------------------------------------------------------------------------
(* Reading the pool.                                                       *)

\* A list linked by next from its first node is the chain of that node.
LEMMA ChainIs ==
  ASSUME NEW n \in Nat, DOMAIN pool.nodes = 1 .. n,
         NEW m \in Nat, m <= n, NEW list \in [1 .. m -> 1 .. n],
         \A k \in 1 .. m :
            pool.nodes[list[k]].next = IF k = m THEN 0 ELSE list[k + 1]
  PROVE  Pooled!Chain(IF m = 0 THEN 0 ELSE list[1]) = list
<1> DEFINE first == IF m = 0 THEN 0 ELSE list[1]
           after(at) == pool.nodes[at].next
           Step(f) == [k \in DOMAIN pool.nodes |->
                         IF k = 1 THEN first
                         ELSE IF f[k - 1] = 0 THEN 0 ELSE after(f[k - 1])]
           place == CHOOSE f : f = Step(f)
           all == [k \in 1 .. n |-> IF k <= m THEN list[k] ELSE 0]
<1>1. Pooled!Chain(first) =
        [k \in 1 .. Pooled!Cardinality({j \in DOMAIN pool.nodes : place[j] # 0}) |-> place[k]]
  BY DEF Pooled!Chain, Pooled!None
<1>2. \A k \in 1 .. m : after(list[k]) = IF k = m THEN 0 ELSE list[k + 1]
  OBVIOUS
<1> HIDE DEF after
<1>3. all = Step(all)
  <2>1. ASSUME NEW k \in 1 .. n PROVE all[k] = Step(all)[k]
    <3>1. CASE k = 1
      BY <3>1
    <3>2. CASE k # 1 /\ k - 1 > m
      BY <3>2
    <3>3. CASE k # 1 /\ k - 1 <= m
      <4>1. k - 1 \in 1 .. m /\ k - 1 \in 1 .. n
        BY <3>3
      <4>2. all[k - 1] = list[k - 1] /\ list[k - 1] # 0
        BY <4>1
      <4>3. after(list[k - 1]) = IF k - 1 = m THEN 0 ELSE list[k]
        BY <1>2, <4>1
      <4>4. Step(all)[k] = after(list[k - 1])
        BY <3>3, <4>1, <4>2
      <4> QED  BY <3>3, <4>3, <4>4
    <3> QED  BY <3>1, <3>2, <3>3
  <2> QED  BY <2>1
<1>4. place = Step(place)
  BY <1>3
<1> HIDE DEF place
<1>5. \A k \in 1 .. n : place[k] = all[k]
  <2> DEFINE W == {k \in 1 .. n : place[k] # all[k]}
  <2>1. ASSUME W # {} PROVE FALSE
    <3>1. PICK k \in W : \A j \in W : k <= j
      <4>1. W \in SUBSET Nat
        OBVIOUS
      <4> HIDE DEF W
      <4> QED  BY <2>1, <4>1, Least
    <3>2. k # 1
      BY <1>3, <1>4
    <3>3. k - 1 \in 1 .. n /\ k - 1 \notin W
      BY <3>1, <3>2
    <3>4. place[k - 1] = all[k - 1]
      BY <3>3
    <3>5. /\ place[k] = IF place[k - 1] = 0 THEN 0 ELSE after(place[k - 1])
          /\ all[k] = IF all[k - 1] = 0 THEN 0 ELSE after(all[k - 1])
      <4> HIDE DEF all
      <4> QED  BY <1>3, <1>4, <3>2
    <3> QED  BY <3>1, <3>4, <3>5
  <2> QED  BY <2>1
<1>6. {j \in 1 .. n : place[j] # 0} = 1 .. m
  BY <1>5
<1>7. Cardinality(1 .. m) = m
  BY FS_Interval
<1>8. Pooled!Chain(first) = [k \in 1 .. m |-> place[k]]
  <2>1. {j \in DOMAIN pool.nodes : place[j] # 0} = 1 .. m
    BY <1>6
  <2>2. Pooled!Cardinality(1 .. m) = m
    BY <1>7, SameOperators
  <2> HIDE DEF first
  <2> QED  BY <1>1, <2>1, <2>2
<1>9. \A k \in 1 .. m : place[k] = list[k]
  BY <1>5
<1> QED  BY <1>8, <1>9

\* The nodes of a queue's orders, in its order.
NodesOf(queue) == [k \in 1 .. Len(queue) |-> pool.index[queue[k]]]

\* The parts of the inductive invariant.
LEMMA PairedHolds ==
  ASSUME Paired
  PROVE  /\ SoundBook(book, Ids, Prices) /\ Indexed(pool, book) /\ Chained(pool, book)
         /\ pool.nodes \in Seq(NodeRec(Ids)) /\ Len(pool.nodes) \in Nat
         /\ DOMAIN pool.nodes = 1 .. Len(pool.nodes)
         /\ Len(pool.nodes) <= Cardinality(Ids)
         /\ \A side \in Sides :
               Lists(pool.levels[side], side, LevelMap(pool.index, book, side), LevelRec)
<1>1. pool.nodes \in Seq(NodeRec(Ids))
  BY DEF Paired, Mirrors
<1>2. Len(pool.nodes) \in Nat /\ DOMAIN pool.nodes = 1 .. Len(pool.nodes)
  BY <1>1
<1> QED  BY <1>1, <1>2 DEF Paired, Sound, Mirrors

\* Following next from the head of a level reads its queue.
LEMMA QueueRead ==
  ASSUME Paired, NEW side \in Sides, NEW price \in DOMAIN book.levels[side]
  PROVE  Pooled!Chain(Link(pool.index, book.levels[side][price].queue, 1))
           = NodesOf(book.levels[side][price].queue)
<1> DEFINE queue == book.levels[side][price].queue
           m     == Len(queue)
           n     == Len(pool.nodes)
           list  == NodesOf(queue)
<1>1. /\ SoundBook(book, Ids, Prices) /\ Indexed(pool, book) /\ Chained(pool, book)
      /\ n \in Nat /\ DOMAIN pool.nodes = 1 .. n
  BY PairedHolds
<1>2. /\ m \in Nat /\ m # 0
      /\ \A k \in 1 .. m : queue[k] \in DOMAIN book.nodes
      /\ \A j, k \in 1 .. m : queue[j] = queue[k] => j = k
  BY <1>1, QueueHolds
<1>3. \A k \in 1 .. m : pool.nodes[pool.index[queue[k]]] = NodeFor(pool.index, book, queue, k)
  BY <1>1 DEF Chained
<1> HIDE DEF queue
<1>4. /\ \A id \in DOMAIN book.nodes : pool.index[id] \in 1 .. n
      /\ \A i, j \in DOMAIN book.nodes : pool.index[i] = pool.index[j] => i = j
  BY <1>1 DEF Indexed
<1> HIDE DEF m, n
<1>5. list \in [1 .. m -> 1 .. n] /\ \A k \in 1 .. m : list[k] = pool.index[queue[k]]
  BY <1>2, <1>4 DEF NodesOf, m
<1> HIDE DEF list
<1>6. \A k \in 1 .. m : pool.nodes[list[k]].next = IF k = m THEN 0 ELSE list[k + 1]
  <2> SUFFICES ASSUME NEW k \in 1 .. m
               PROVE  pool.nodes[list[k]].next = IF k = m THEN 0 ELSE list[k + 1]
    OBVIOUS
  <2>1. pool.nodes[list[k]].next = Link(pool.index, queue, k + 1)
    <3>1. pool.nodes[list[k]] = NodeFor(pool.index, book, queue, k)
      BY <1>3, <1>5
    <3>2. NodeFor(pool.index, book, queue, k).next = Link(pool.index, queue, k + 1)
      BY DEF NodeFor
    <3> QED  BY <3>1, <3>2
  <2>2. k = m => k + 1 \notin 1 .. m
    BY <1>2
  <2>3. k # m => k + 1 \in 1 .. m
    BY <1>2
  <2>4. k # m => Link(pool.index, queue, k + 1) = list[k + 1]
    BY <1>5, <2>3 DEF Link, m
  <2>5. k = m => Link(pool.index, queue, k + 1) = 0
    BY <2>2 DEF Link, m
  <2> QED  BY <2>1, <2>4, <2>5
<1>7. m <= n
  <2>1. \A j, k \in 1 .. m : list[j] = list[k] => j = k
    BY <1>2, <1>4, <1>5
  <2>2. list \in Injection(1 .. m, 1 .. n)
    BY <1>5, <2>1 DEF Injection, IsInjective
  <2>3. IsFiniteSet(1 .. n) /\ Cardinality(1 .. n) = n /\ Cardinality(1 .. m) = m
    BY <1>1, <1>2, IntervalUpTo
  <2> QED  BY <2>2, <2>3, FS_Injection
<1>8. Pooled!Chain(IF m = 0 THEN 0 ELSE list[1]) = list
  BY <1>1, <1>2, <1>5, <1>6, <1>7, ChainIs
<1>9. Link(pool.index, queue, 1) = list[1] /\ 1 \in 1 .. m
  BY <1>2, <1>5 DEF Link, m
<1>10. Pooled!Chain(Link(pool.index, queue, 1)) = list
  BY <1>2, <1>8, <1>9
<1> QED  BY <1>10 DEF list, queue

\* Following next from the free list's head reads the free list.
LEMMA FreeRead ==
  ASSUME Paired
  PROVE  Frees(Pooled!Chain(pool.free), pool.nodes, pool.free, Used(pool.index))
<1> DEFINE n == Len(pool.nodes)
<1>1. n \in Nat /\ DOMAIN pool.nodes = 1 .. n
  BY PairedHolds
<1>2. PICK list : Frees(list, pool.nodes, pool.free, Used(pool.index))
  BY DEF Paired, Mirrors
<1> DEFINE m == Len(list)
<1>3. /\ list \in Seq(Nat)
      /\ \A k \in 1 .. m : list[k] \in 1 .. n
      /\ \A j, k \in 1 .. m : list[j] = list[k] => j = k
      /\ pool.free = IF m = 0 THEN 0 ELSE list[1]
      /\ \A k \in 1 .. m :
            pool.nodes[list[k]] = Pooled!Released(IF k = m THEN 0 ELSE list[k + 1])
  BY <1>2 DEF Frees
<1>4. m \in Nat /\ DOMAIN list = 1 .. m /\ list \in [1 .. m -> 1 .. n]
  <2>1. list \in [1 .. m -> Nat] /\ m \in Nat
    BY <1>3
  <2> HIDE DEF m, n
  <2> QED  BY <1>3, <2>1
<1>5. \A next : Pooled!Released(next).next = next
  BY DEF Pooled!Released, Pooled!Node
<1>6. \A k \in 1 .. m : pool.nodes[list[k]].next = IF k = m THEN 0 ELSE list[k + 1]
  BY <1>3, <1>5
<1> HIDE DEF m, n
<1>7. m <= n
  <2>1. list \in Injection(1 .. m, 1 .. n)
    BY <1>3, <1>4 DEF Injection, IsInjective
  <2>2. IsFiniteSet(1 .. n) /\ Cardinality(1 .. n) = n /\ Cardinality(1 .. m) = m
    BY <1>1, <1>4, IntervalUpTo
  <2> QED  BY <2>1, <2>2, FS_Injection
<1>8. Pooled!Chain(IF m = 0 THEN 0 ELSE list[1]) = list
  BY <1>1, <1>4, <1>6, <1>7, ChainIs
<1>9. Pooled!Chain(pool.free) = list
  BY <1>3, <1>8
<1> QED  BY <1>2, <1>9

\* A level of the vector is the one of its price's queue, and every queue has
\* its level.
LEMMA LevelRead ==
  ASSUME Paired, NEW side \in Sides
  PROVE  /\ \A k \in DOMAIN pool.levels[side] :
               LET price == pool.levels[side][k].price
               IN  /\ price \in DOMAIN book.levels[side]
                   /\ pool.levels[side][k]
                        = LevelFor(pool.index, book.levels[side][price], price)
         /\ \A price \in DOMAIN book.levels[side] :
               \E k \in DOMAIN pool.levels[side] : pool.levels[side][k].price = price
         /\ DOMAIN pool.levels[side] = 1 .. Len(pool.levels[side])
         /\ Len(pool.levels[side]) \in Nat
         /\ \A j, k \in DOMAIN pool.levels[side] :
               j < k => Better(side, pool.levels[side][j].price, pool.levels[side][k].price)
<1> DEFINE map    == LevelMap(pool.index, book, side)
           levels == pool.levels[side]
<1>1. Lists(levels, side, map, LevelRec)
  BY PairedHolds
<1>2. /\ DOMAIN map = DOMAIN book.levels[side]
      /\ \A price \in DOMAIN book.levels[side] :
            map[price] = LevelFor(pool.index, book.levels[side][price], price)
  BY DEF LevelMap
<1> HIDE DEF map, levels
<1>3. Len(levels) \in Nat /\ DOMAIN levels = 1 .. Len(levels)
  BY <1>1 DEF Lists
<1>4. \A k \in 1 .. Len(levels) :
         levels[k].price \in DOMAIN map /\ levels[k] = map[levels[k].price]
  BY <1>1 DEF Lists
<1>5. \A p \in DOMAIN map : \E k \in 1 .. Len(levels) : levels[k].price = p
  BY <1>1 DEF Lists
<1>6. \A j, k \in 1 .. Len(levels) :
        j < k => Better(side, levels[j].price, levels[k].price)
  BY <1>1 DEF Lists
<1>7. \A k \in 1 .. Len(levels) :
         /\ levels[k].price \in DOMAIN book.levels[side]
         /\ levels[k] = LevelFor(pool.index, book.levels[side][levels[k].price],
                                 levels[k].price)
  BY <1>2, <1>4
<1> QED  BY <1>2, <1>3, <1>5, <1>6, <1>7 DEF levels

\* The node of an order in a queue.
Holds(node, queue, k, side, price) ==
  /\ NodesOf(queue)[k] = pool.index[queue[k]]
  /\ node = NodeFor(pool.index, book, queue, k)
  /\ node.id = queue[k] /\ node.id \in DOMAIN book.nodes
  /\ node.side = side /\ node.price = price
  /\ node.quantity = book.nodes[queue[k]].quantity
  /\ node.active = TRUE
  /\ node.previous = Link(pool.index, queue, k - 1)

LEMMA NodeRead ==
  ASSUME Paired, NEW side \in Sides, NEW price \in DOMAIN book.levels[side],
         NEW queue, queue = book.levels[side][price].queue,
         NEW k \in 1 .. Len(queue)
  PROVE  Holds(pool.nodes[NodesOf(queue)[k]], queue, k, side, price)
<1> DEFINE node == NodeFor(pool.index, book, queue, k)
<1>1. SoundBook(book, Ids, Prices) /\ Chained(pool, book)
  BY PairedHolds
<1>2. /\ queue[k] \in DOMAIN book.nodes
      /\ book.nodes[queue[k]].side = side /\ book.nodes[queue[k]].price = price
  <2> DEFINE q == book.levels[side][price].queue
  <2>1. \A j \in 1 .. Len(q) : /\ q[j] \in DOMAIN book.nodes
                              /\ book.nodes[q[j]].side = side
                              /\ book.nodes[q[j]].price = price
    BY <1>1, QueueHolds
  <2>2. queue = q
    OBVIOUS
  <2> HIDE DEF q
  <2> QED  BY <2>1, <2>2
<1>3. pool.nodes[pool.index[queue[k]]] = node
  BY <1>1 DEF Chained
<1>4. NodesOf(queue)[k] = pool.index[queue[k]]
  BY DEF NodesOf
<1>5. /\ node.id = queue[k] /\ node.side = side /\ node.price = price
      /\ node.quantity = book.nodes[queue[k]].quantity /\ node.active = TRUE
      /\ node.previous = Link(pool.index, queue, k - 1)
  BY <1>2 DEF NodeFor
<1> HIDE DEF node
<1>6. Holds(node, queue, k, side, price)
  BY <1>2, <1>4, <1>5 DEF Holds, node
<1> QED  BY <1>3, <1>4, <1>6

\* What both books show of a queue is the same.
LEMMA PairedAgree == Paired => BooksAgree
<1> SUFFICES ASSUME Paired PROVE BooksAgree
  OBVIOUS
<1>1. ok = pooledOk
  BY DEF Paired
<1>2. ASSUME NEW side \in Sides, NEW price \in Prices
      PROVE  Queued(book, side, price) = Pooled!QueueAt(side, price)
  <2> DEFINE levels == pool.levels[side]
             here   == {k \in DOMAIN levels : levels[k].price = price}
  <2>1. CASE price \notin DOMAIN book.levels[side]
    <3>1. here = {}
      BY <2>1, LevelRead
    <3>2. Pooled!QueueAt(side, price) = <<>>
      BY <3>1 DEF Pooled!QueueAt
    <3>3. LevelAt(book, side, price).queue = <<>>
      BY <2>1 DEF LevelAt
    <3>4. Queued(book, side, price) = <<>>
      BY <3>3 DEF Queued
    <3> QED  BY <3>2, <3>4
  <2>2. CASE price \in DOMAIN book.levels[side]
    <3> DEFINE at    == Min(here)
               queue == book.levels[side][price].queue
               list  == NodesOf(queue)
    <3>1. /\ here # {} /\ here \in SUBSET Nat
      BY <2>2, LevelRead
    <3>2. at \in here
      <4> HIDE DEF here
      <4> QED  BY <3>1, Least DEF Min
    <3> HIDE DEF at
    <3>3. levels[at] = LevelFor(pool.index, book.levels[side][price], price)
      BY <3>2, LevelRead
    <3>4. levels[at].head = Link(pool.index, queue, 1)
      BY <3>3 DEF LevelFor
    <3>5. Pooled!Chain(levels[at].head) = list
      BY <2>2, <3>4, QueueRead
    <3>6. Pooled!QueueAt(side, price) =
            [k \in DOMAIN list |-> [id |-> pool.nodes[list[k]].id,
                                    quantity |-> pool.nodes[list[k]].quantity]]
      <4>1. Pooled!Min(here) = at
        BY SameOperators DEF at
      <4> HIDE DEF list
      <4>2. Pooled!Chain(pool.levels[side][Pooled!Min(here)].head) = list
        BY <3>5, <4>1
      <4> QED  BY <3>1, <4>2 DEF Pooled!QueueAt
    <3>7. DOMAIN list = 1 .. Len(queue) /\ DOMAIN queue = 1 .. Len(queue)
      <4>1. SoundBook(book, Ids, Prices)
        BY PairedHolds
      <4>2. queue \in Seq(Ids)
        BY <2>2, <4>1, QueueHolds
      <4> HIDE DEF queue
      <4> QED  BY <4>2 DEF NodesOf
    <3>8. \A k \in 1 .. Len(queue) :
             /\ pool.nodes[list[k]].id = queue[k]
             /\ pool.nodes[list[k]].quantity = book.nodes[queue[k]].quantity
      <4> TAKE k \in 1 .. Len(queue)
      <4>1. queue = book.levels[side][price].queue
        OBVIOUS
      <4> HIDE DEF queue
      <4>2. Holds(pool.nodes[list[k]], queue, k, side, price)
        BY <2>2, <4>1, NodeRead
      <4> QED  BY <4>2 DEF Holds
    <3>9. Queued(book, side, price) =
            [k \in DOMAIN queue |-> [id |-> queue[k],
                                     quantity |-> book.nodes[queue[k]].quantity]]
      BY <2>2 DEF Queued, LevelAt
    <3> HIDE DEF queue, list
    <3> QED  BY <3>6, <3>7, <3>8, <3>9
  <2> QED  BY <2>1, <2>2
<1> QED  BY <1>1, <1>2 DEF BooksAgree

\* Whatever the calls, both books return the same and hold the same orders in
\* the same places.
THEOREM BooksAlwaysAgree == BothSpec => []BooksAgree
<1>1. BothSpec => []Paired
  BY InitPaired, NextPaired, PTL DEF BothSpec
<1> QED  BY <1>1, PairedAgree, PTL

\* Every node that the index knows is in a queue.
QueuedAt(at, side, price, queue, k) ==
  /\ side \in Sides /\ price \in DOMAIN book.levels[side]
  /\ queue = book.levels[side][price].queue
  /\ k \in 1 .. Len(queue) /\ at = NodesOf(queue)[k]

LEMMA UsedIsQueued ==
  ASSUME Paired, NEW id \in DOMAIN book.nodes
  PROVE  \E k : QueuedAt(pool.index[id], book.nodes[id].side, book.nodes[id].price,
                         book.levels[book.nodes[id].side][book.nodes[id].price].queue, k)
<1> DEFINE side  == book.nodes[id].side
           price == book.nodes[id].price
           queue == book.levels[side][price].queue
<1>1. SoundBook(book, Ids, Prices)
  BY PairedHolds
<1>2. side \in Sides /\ price \in DOMAIN book.levels[side]
      /\ \E k \in 1 .. Len(queue) : queue[k] = id
  BY <1>1, PlaceInQueue
<1> HIDE DEF side, price, queue
<1>3. PICK k \in 1 .. Len(queue) : queue[k] = id
  BY <1>2
<1>4. NodesOf(queue)[k] = pool.index[id]
  BY <1>3 DEF NodesOf
<1>5. QueuedAt(pool.index[id], side, price, queue, k)
  BY <1>2, <1>3, <1>4 DEF QueuedAt, queue
<1> QED  BY <1>5 DEF side, price, queue

\* An order's quantity is positive and so is a level's total.
LEMMA Positive ==
  ASSUME Paired
  PROVE  /\ \A id \in DOMAIN book.nodes :
               /\ id \in Ids /\ book.nodes[id].side \in Sides
               /\ book.nodes[id].price \in Prices
               /\ book.nodes[id].quantity \in Nat \ {0}
         /\ \A side \in Sides : \A price \in DOMAIN book.levels[side] :
               price \in Prices /\ book.levels[side][price].total \in Nat \ {0}
<1>1. SoundBook(book, Ids, Prices) /\ Prices \in SUBSET Nat
  BY PairedHolds, PricesAssumption
<1>2. ASSUME NEW id \in DOMAIN book.nodes
      PROVE  /\ id \in Ids /\ book.nodes[id].side \in Sides
             /\ book.nodes[id].price \in Prices
             /\ book.nodes[id].quantity \in Nat \ {0}
  BY <1>1 DEF SoundBook, IsBook, Offer
<1>3. ASSUME NEW side \in Sides, NEW price \in DOMAIN book.levels[side]
      PROVE  price \in Prices /\ book.levels[side][price].total \in Nat \ {0}
  <2> DEFINE queue == book.levels[side][price].queue
             total == book.levels[side][price].total
  <2>1. price \in Prices
    BY <1>1 DEF SoundBook, IsBook
  <2>2. /\ Len(queue) \in Nat /\ Len(queue) # 0
        /\ \A k \in 1 .. Len(queue) :
              /\ queue[k] \in DOMAIN book.nodes
              /\ book.nodes[queue[k]].side = side
              /\ book.nodes[queue[k]].price = price
    BY <1>1, QueueHolds
  <2>3. PICK k : WaitsAt(book, Ids, queue[1], k)
    <3>1. 1 \in 1 .. Len(queue)
      BY <2>2
    <3>2. queue[1] \in DOMAIN book.nodes
      BY <2>2, <3>1
    <3> HIDE DEF queue
    <3> QED  BY <1>1, <3>2, OrderWaits
  <2>4. /\ book.nodes[queue[1]].quantity \in Nat \ {0} /\ total \in Nat
        /\ book.nodes[queue[1]].quantity <= total
    <3>1. 1 \in 1 .. Len(queue)
      BY <2>2
    <3>2. /\ queue[1] \in DOMAIN book.nodes /\ book.nodes[queue[1]].side = side
          /\ book.nodes[queue[1]].price = price
      BY <2>2, <3>1
    <3> HIDE DEF queue
    <3> QED  BY <1>2, <2>3, <3>2 DEF WaitsAt
  <2> HIDE DEF queue, total
  <2>5. total \in Nat \ {0}
    BY <2>4
  <2> QED  BY <2>1, <2>5 DEF total
<1> QED  BY <1>2, <1>3

\* Every node holds an order of a queue or is blank, and every link leads to a
\* node.
LEMMA PairedTyped == Paired => Pooled!TypeOK
<1> SUFFICES ASSUME Paired PROVE Pooled!TypeOK
  OBVIOUS
<1> DEFINE n     == Len(pool.nodes)
           Links == 0 .. Len(pool.nodes)
<1>1. /\ SoundBook(book, Ids, Prices) /\ Indexed(pool, book)
      /\ n \in Nat /\ DOMAIN pool.nodes = 1 .. n
  BY PairedHolds
<1>2. ASSUME NEW side \in Sides, NEW price \in DOMAIN book.levels[side]
      PROVE  LET queue == book.levels[side][price].queue
             IN  /\ \A k : Link(pool.index, queue, k) \in Links
                 /\ \A k \in 1 .. Len(queue) : Link(pool.index, queue, k) \in Links \ {0}
                 /\ Len(queue) \in Nat /\ Len(queue) # 0
  <2>1. LET queue == book.levels[side][price].queue
        IN  Len(queue) \in Nat /\ Len(queue) # 0
    BY <1>1, QueueHolds
  <2> DEFINE queue == book.levels[side][price].queue
  <2>2. \A k : Link(pool.index, queue, k) \in 0 .. Len(pool.nodes)
    BY <1>1, LinksHold
  <2>3. \A k \in 1 .. Len(queue) : Link(pool.index, queue, k) # 0
    BY <1>1, LinksHold
  <2> HIDE DEF queue
  <2>4. \A k \in 1 .. Len(queue) : Link(pool.index, queue, k) \in Links \ {0}
    BY <2>2, <2>3
  <2> QED  BY <2>1, <2>2, <2>4 DEF queue
<1>3. ASSUME NEW at \in DOMAIN pool.nodes
      PROVE  \/ pool.nodes[at] \in [id : Ids, side : Sides, price : Prices,
                                    quantity : Nat \ {0}, previous : Links,
                                    next : Links, active : {TRUE}]
             \/ \E next \in Links : pool.nodes[at] = Pooled!Released(next)
  <2>1. CASE at \in Used(pool.index)
    <3>1. PICK id \in DOMAIN book.nodes : at = pool.index[id]
      BY <1>1, <2>1 DEF Used, Indexed
    <3> DEFINE side  == book.nodes[id].side
               price == book.nodes[id].price
               queue == book.levels[side][price].queue
    <3>2. PICK k : QueuedAt(at, side, price, queue, k)
      BY <3>1, UsedIsQueued
    <3>3. /\ side \in Sides /\ price \in DOMAIN book.levels[side]
          /\ k \in 1 .. Len(queue) /\ at = NodesOf(queue)[k]
      BY <3>2 DEF QueuedAt
    <3>4. queue = book.levels[side][price].queue
      OBVIOUS
    <3>5. \A j : Link(pool.index, queue, j) \in Links
      BY <1>2, <3>3
    <3> HIDE DEF side, price, queue
    <3>6. Holds(pool.nodes[at], queue, k, side, price)
      BY <3>3, <3>4, NodeRead
    <3>7. /\ queue[k] \in DOMAIN book.nodes /\ pool.nodes[at] = NodeFor(pool.index, book, queue, k)
      BY <3>6 DEF Holds
    <3> HIDE DEF Links
    <3>8. NodeFor(pool.index, book, queue, k)
            \in [id : Ids, side : Sides, price : Prices, quantity : Nat \ {0},
                 previous : Links, next : Links, active : {TRUE}]
      BY <3>5, <3>7, Positive DEF NodeFor
    <3> QED  BY <3>7, <3>8
  <2>2. CASE at \notin Used(pool.index)
    <3> DEFINE list == Pooled!Chain(pool.free)
    <3>1. Frees(list, pool.nodes, pool.free, Used(pool.index))
      BY FreeRead
    <3> HIDE DEF list
    <3>2. PICK k \in 1 .. Len(list) : list[k] = at
      BY <1>1, <2>2, <3>1 DEF Frees
    <3>3. /\ pool.nodes[at] = Pooled!Released(IF k = Len(list) THEN 0 ELSE list[k + 1])
          /\ Len(list) \in Nat /\ \A j \in 1 .. Len(list) : list[j] \in 1 .. n
      BY <3>1, <3>2 DEF Frees
    <3>4. k # Len(list) => k + 1 \in 1 .. Len(list)
      BY <3>3
    <3>5. (IF k = Len(list) THEN 0 ELSE list[k + 1]) \in Links
      BY <1>1, <3>3, <3>4
    <3> QED  BY <3>3, <3>5
  <2> QED  BY <2>1, <2>2
<1>4. ASSUME NEW side \in Sides, NEW k \in DOMAIN pool.levels[side]
      PROVE  pool.levels[side][k] \in [price : Prices, total : Nat \ {0}, head : Links \ {0},
                                       tail : Links \ {0}, count : Nat \ {0}]
  <2> DEFINE price == pool.levels[side][k].price
             level == book.levels[side][price]
             queue == level.queue
  <2>1. /\ price \in DOMAIN book.levels[side]
        /\ pool.levels[side][k] = LevelFor(pool.index, level, price)
    BY LevelRead
  <2>2. price \in Prices /\ level.total \in Nat \ {0}
    BY <2>1, Positive
  <2>3. /\ \A j \in 1 .. Len(queue) : Link(pool.index, queue, j) \in Links \ {0}
        /\ Len(queue) \in Nat /\ Len(queue) # 0
    BY <1>2, <2>1
  <2> HIDE DEF price, level, Links
  <2>4. 1 \in 1 .. Len(queue) /\ Len(queue) \in 1 .. Len(queue)
    BY <2>3
  <2>5. /\ Link(pool.index, queue, 1) \in Links \ {0}
        /\ Link(pool.index, queue, Len(queue)) \in Links \ {0}
        /\ Len(queue) \in Nat \ {0}
    BY <2>3, <2>4
  <2> QED  BY <2>1, <2>2, <2>5 DEF LevelFor
<1>5. pool.free \in Links
  <2> DEFINE list == Pooled!Chain(pool.free)
  <2>1. Frees(list, pool.nodes, pool.free, Used(pool.index))
    BY FreeRead
  <2> HIDE DEF list
  <2>2. /\ pool.free = IF Len(list) = 0 THEN 0 ELSE list[1]
        /\ Len(list) \in Nat /\ \A j \in 1 .. Len(list) : list[j] \in 1 .. n
    BY <2>1 DEF Frees
  <2> QED  BY <1>1, <2>2
<1>6. DOMAIN pool.index \subseteq Ids
  BY <1>1, Positive DEF Indexed
<1> QED  BY <1>3, <1>4, <1>5, <1>6 DEF Pooled!TypeOK, Pooled!Sides, Sides

\* The nodes of a set of orders hold their quantity.
LEMMA PooledQuantity ==
  ASSUME NEW ids, IsFiniteSet(ids),
         \A i, j \in ids : pool.index[i] = pool.index[j] => i = j,
         \A id \in ids : /\ book.nodes[id].quantity \in Nat
                         /\ pool.nodes[pool.index[id]].quantity = book.nodes[id].quantity
  PROVE  Pooled!QuantityOf({pool.index[id] : id \in ids}) = QuantityOf(book, ids)
<1> DEFINE S == Units(book, ids)
           T == Pooled!Units({pool.index[id] : id \in ids})
           f == [x \in S |-> <<pool.index[x[1]], x[2]>>]
<1>1. IsFiniteSet(S)
  BY UnitsFinite
<1>2. \A x : x \in S <=> \E id \in ids : \E u \in 1 .. book.nodes[id].quantity : x = <<id, u>>
  BY DEF Units
<1>3. \A x : x \in T <=> \E id \in ids : \E u \in 1 .. book.nodes[id].quantity :
                            x = <<pool.index[id], u>>
  BY DEF Pooled!Units
<1> HIDE DEF S, T
<1>4. \A x \in S : f[x] = <<pool.index[x[1]], x[2]>>
  OBVIOUS
<1>5. f \in [S -> T]
  <2>1. ASSUME NEW x \in S PROVE <<pool.index[x[1]], x[2]>> \in T
    <3>1. PICK id \in ids : \E u \in 1 .. book.nodes[id].quantity : x = <<id, u>>
      BY <1>2
    <3>2. PICK u \in 1 .. book.nodes[id].quantity : x = <<id, u>>
      BY <3>1
    <3> QED  BY <1>3, <3>2
  <2> QED  BY <2>1
<1> HIDE DEF f
<1>6. \A x, y \in S : f[x] = f[y] => x = y
  <2> SUFFICES ASSUME NEW x \in S, NEW y \in S, f[x] = f[y] PROVE x = y
    OBVIOUS
  <2>1. PICK id \in ids : \E u \in 1 .. book.nodes[id].quantity : x = <<id, u>>
    BY <1>2
  <2>2. PICK other \in ids : \E v \in 1 .. book.nodes[other].quantity : y = <<other, v>>
    BY <1>2
  <2>3. PICK u \in 1 .. book.nodes[id].quantity : x = <<id, u>>
    BY <2>1
  <2>4. PICK v \in 1 .. book.nodes[other].quantity : y = <<other, v>>
    BY <2>2
  <2>5. pool.index[id] = pool.index[other] /\ u = v
    BY <1>4, <2>3, <2>4
  <2> QED  BY <2>3, <2>4, <2>5
<1>7. \A t \in T : \E x \in S : f[x] = t
  <2> SUFFICES ASSUME NEW t \in T PROVE \E x \in S : f[x] = t
    OBVIOUS
  <2>1. PICK id \in ids : \E u \in 1 .. book.nodes[id].quantity : t = <<pool.index[id], u>>
    BY <1>3
  <2>2. PICK u \in 1 .. book.nodes[id].quantity : t = <<pool.index[id], u>>
    BY <2>1
  <2>3. <<id, u>> \in S
    BY <1>2
  <2>4. f[<<id, u>>] = t
    BY <1>4, <2>2, <2>3
  <2> QED  BY <2>3, <2>4
<1>8. f \in Bijection(S, T)
  BY <1>5, <1>6, <1>7 DEF Bijection, Injection, Surjection, IsInjective
<1>9. Cardinality(T) = Cardinality(S)
  BY <1>1, <1>8, FS_Bijection DEF ExistsBijection
<1>10. Pooled!QuantityOf({pool.index[id] : id \in ids}) = Cardinality(T)
  BY SameOperators DEF Pooled!QuantityOf, T
<1> QED  BY <1>9, <1>10 DEF QuantityOf, S

\* The levels, the queues and the index of the pool agree.
LEMMA PairedChecks == Paired => Pooled!CheckInvariantsHolds
<1> SUFFICES ASSUME Paired PROVE Pooled!CheckInvariantsHolds
  OBVIOUS
<1>1. SoundBook(book, Ids, Prices) /\ Indexed(pool, book)
  BY PairedHolds
<1>2. ASSUME NEW side \in Sides, NEW k \in DOMAIN pool.levels[side]
      PROVE  LET level == pool.levels[side][k]
                 chain == Pooled!Chain(level.head)
             IN  /\ k > 1 => Pooled!Better(side, pool.levels[side][k - 1].price, level.price)
                 /\ chain # <<>> /\ Pooled!Last(chain) = level.tail /\ Len(chain) = level.count
                 /\ level.total = Pooled!QuantityOf(Pooled!ToSet(chain))
                 /\ \A j \in DOMAIN chain :
                       LET node == pool.nodes[chain[j]]
                       IN  /\ node.active
                           /\ node.side = side /\ node.price = level.price
                           /\ node.previous = IF j = 1 THEN Pooled!None ELSE chain[j - 1]
                           /\ Pooled!Resting(node.id) /\ pool.index[node.id] = chain[j]
  <2> DEFINE level == pool.levels[side][k]
             price == level.price
             found == book.levels[side][price]
             queue == found.queue
             m     == Len(queue)
             chain == Pooled!Chain(level.head)
  <2>1. price \in DOMAIN book.levels[side] /\ level = LevelFor(pool.index, found, price)
    BY LevelRead
  <2>2. k > 1 => Better(side, pool.levels[side][k - 1].price, price)
    <3> HIDE DEF price
    <3>1. /\ DOMAIN pool.levels[side] = 1 .. Len(pool.levels[side])
          /\ Len(pool.levels[side]) \in Nat
          /\ \A i, j \in DOMAIN pool.levels[side] :
               i < j => Better(side, pool.levels[side][i].price, pool.levels[side][j].price)
      BY LevelRead
    <3>2. k > 1 => k - 1 \in DOMAIN pool.levels[side] /\ k - 1 < k
      BY <3>1
    <3> QED  BY <3>1, <3>2 DEF price
  <2>3. SoundLevel(found, book, Ids, side, price) /\ queue # <<>>
    BY <1>1, <2>1, LevelHolds
  <2>4. chain = NodesOf(queue)
    <3>1. queue = book.levels[side][price].queue
      OBVIOUS
    <3> HIDE DEF level, queue, found, price
    <3>2. level.head = Link(pool.index, found.queue, 1)
      BY <2>1 DEF LevelFor
    <3>3. Pooled!Chain(Link(pool.index, queue, 1)) = NodesOf(queue)
      BY <2>1, <3>1, QueueRead
    <3> QED  BY <3>2, <3>3 DEF queue
  <2>5. queue = found.queue
    OBVIOUS
  <2>6. \A j \in 1 .. m : Holds(pool.nodes[NodesOf(queue)[j]], queue, j, side, price)
    <3> TAKE j \in 1 .. m
    <3>1. queue = book.levels[side][price].queue
      OBVIOUS
    <3> HIDE DEF queue, price
    <3> QED  BY <2>1, <3>1, NodeRead
  <2> HIDE DEF price, found, queue, chain
  <2>7. /\ DOMAIN queue = 1 .. m /\ m \in Nat /\ IsFiniteSet(ToSet(queue))
        /\ ToSet(queue) \subseteq DOMAIN book.nodes
        /\ found.total = QuantityOf(book, ToSet(queue))
        /\ queue \in Seq(Ids) /\ m # 0
    <3>1. queue \in Seq(Ids) /\ DOMAIN queue = 1 .. m /\ IsFiniteSet(ToSet(queue))
          /\ ToSet(queue) \subseteq DOMAIN book.nodes
          /\ found.total = QuantityOf(book, ToSet(queue))
      BY <2>3, <2>5 DEF SoundLevel
    <3> QED  BY <2>3, <3>1
  <2>8. /\ DOMAIN chain = 1 .. m /\ \A j \in 1 .. m : chain[j] = pool.index[queue[j]]
        /\ chain # <<>> /\ Len(chain) = m
    <3>1. chain = [j \in 1 .. m |-> pool.index[queue[j]]]
      BY <2>4 DEF NodesOf
    <3> HIDE DEF m
    <3>2. DOMAIN chain = 1 .. m /\ chain \in [1 .. m -> {pool.index[queue[j]] : j \in 1 .. m}]
          /\ m \in Nat /\ m # 0
      BY <2>7, <3>1
    <3>3. Len(chain) = m /\ DOMAIN chain # {}
      BY <3>2
    <3>4. DOMAIN <<>> = {}
      OBVIOUS
    <3> QED  BY <3>1, <3>3, <3>4
  <2>9. /\ level.head = Link(pool.index, queue, 1) /\ level.tail = Link(pool.index, queue, m)
        /\ level.count = m /\ level.total = found.total
    BY <2>1, <2>5 DEF LevelFor
  <2>10. Pooled!Last(chain) = level.tail
    <3>1. m \in 1 .. m
      BY <2>7
    <3> QED  BY <2>8, <2>9, <3>1 DEF Pooled!Last, Link
  <2>11. level.total = Pooled!QuantityOf(Pooled!ToSet(chain))
    <3> DEFINE ids == ToSet(queue)
    <3>1. \A i : i \in ids <=> \E j \in 1 .. m : queue[j] = i
      BY <2>7 DEF ToSet
    <3>2. Pooled!ToSet(chain) = {pool.index[i] : i \in ids}
      <4>1. \A x : x \in Pooled!ToSet(chain) <=> \E j \in 1 .. m : chain[j] = x
        BY <2>8 DEF Pooled!ToSet
      <4> HIDE DEF ids
      <4> QED  BY <2>8, <3>1, <4>1
    <3>3. ids \subseteq DOMAIN book.nodes /\ IsFiniteSet(ids)
      BY <2>7
    <3>4. \A i \in ids : pool.nodes[pool.index[i]].quantity = book.nodes[i].quantity
      BY <2>6, <3>1 DEF Holds
    <3> HIDE DEF ids
    <3>5. \A i \in ids : book.nodes[i].quantity \in Nat
      BY <3>3, Positive
    <3>6. \A i, j \in ids : pool.index[i] = pool.index[j] => i = j
      BY <1>1, <3>3 DEF Indexed
    <3>7. Pooled!QuantityOf({pool.index[i] : i \in ids}) = QuantityOf(book, ids)
      BY <3>3, <3>4, <3>5, <3>6, PooledQuantity
    <3> QED  BY <2>7, <2>9, <3>2, <3>7 DEF ids
  <2>12. ASSUME NEW j \in DOMAIN chain
         PROVE  /\ pool.nodes[chain[j]].active
                /\ pool.nodes[chain[j]].side = side /\ pool.nodes[chain[j]].price = price
                /\ pool.nodes[chain[j]].previous = IF j = 1 THEN 0 ELSE chain[j - 1]
                /\ Pooled!Resting(pool.nodes[chain[j]].id)
                /\ pool.index[pool.nodes[chain[j]].id] = chain[j]
    <3> DEFINE node == pool.nodes[chain[j]]
    <3>1. j \in 1 .. m
      BY <2>8
    <3>2. Holds(node, queue, j, side, price)
      BY <2>4, <2>6, <3>1
    <3> HIDE DEF node
    <3>3. /\ node.id = queue[j] /\ node.id \in DOMAIN book.nodes
          /\ node.side = side /\ node.price = price /\ node.active = TRUE
          /\ node.previous = Link(pool.index, queue, j - 1)
      BY <3>2 DEF Holds
    <3>4. Pooled!Resting(node.id) /\ pool.index[node.id] = chain[j]
      BY <1>1, <2>8, <3>1, <3>3 DEF Pooled!Resting, Indexed
    <3>5. j - 1 \in 1 .. m <=> j # 1
      BY <2>7, <3>1
    <3>6. node.previous = IF j = 1 THEN 0 ELSE chain[j - 1]
      BY <2>8, <3>3, <3>5 DEF Link
    <3> QED  BY <3>3, <3>4, <3>6 DEF node
  <2>13. \A p : Pooled!Better(side, p, price) = Better(side, p, price)
    BY SameOperators
  <2> QED  BY <2>2, <2>8, <2>9, <2>10, <2>11, <2>12, <2>13 DEF Pooled!None, chain, price
<1>3. ASSUME NEW id \in DOMAIN pool.index
      PROVE  LET node == pool.nodes[pool.index[id]]
             IN  /\ node.active /\ node.id = id
                 /\ \E k \in DOMAIN pool.levels[node.side] :
                       Pooled!Contains(Pooled!Chain(pool.levels[node.side][k].head),
                                       pool.index[id])
  <2> DEFINE at    == pool.index[id]
             node  == pool.nodes[at]
             side  == book.nodes[id].side
             price == book.nodes[id].price
             queue == book.levels[side][price].queue
  <2>1. id \in DOMAIN book.nodes
    BY <1>1 DEF Indexed
  <2>2. PICK j : QueuedAt(at, side, price, queue, j)
    BY <2>1, UsedIsQueued
  <2>3. /\ side \in Sides /\ price \in DOMAIN book.levels[side]
        /\ j \in 1 .. Len(queue) /\ at = NodesOf(queue)[j]
    BY <2>2 DEF QueuedAt
  <2>4. queue = book.levels[side][price].queue
    OBVIOUS
  <2> HIDE DEF side, price, queue
  <2>5. PICK k \in DOMAIN pool.levels[side] : pool.levels[side][k].price = price
    BY <2>3, LevelRead
  <2>6. pool.levels[side][k] = LevelFor(pool.index, book.levels[side][price], price)
    BY <2>3, <2>5, LevelRead
  <2>7. Pooled!Chain(pool.levels[side][k].head) = NodesOf(queue)
    <3>1. pool.levels[side][k].head = Link(pool.index, queue, 1)
      BY <2>4, <2>6 DEF LevelFor
    <3>2. Pooled!Chain(Link(pool.index, queue, 1)) = NodesOf(queue)
      BY <2>3, <2>4, QueueRead
    <3> QED  BY <3>1, <3>2
  <2>8. Holds(node, queue, j, side, price)
    BY <2>3, <2>4, NodeRead
  <2>9. /\ node.active /\ node.side = side /\ node.id = queue[j]
        /\ at = pool.index[queue[j]] /\ queue[j] \in DOMAIN book.nodes
    BY <2>3, <2>8 DEF Holds
  <2>10. node.id = id
    BY <1>1, <2>1, <2>9 DEF Indexed
  <2>11. Pooled!Contains(NodesOf(queue), at)
    <3> DEFINE m == Len(queue)
               list == NodesOf(queue)
    <3>1. list = [i \in 1 .. m |-> pool.index[queue[i]]]
      BY DEF NodesOf
    <3>2. m \in Nat
      <4>1. SoundLevel(book.levels[side][price], book, Ids, side, price)
        BY <1>1, <2>3, LevelHolds
      <4>2. queue \in Seq(Ids)
        BY <2>4, <4>1 DEF SoundLevel
      <4> QED  BY <4>2
    <3> HIDE DEF m, list
    <3>3. list \in [1 .. m -> {pool.index[queue[i]] : i \in 1 .. m}]
      BY <3>1
    <3>4. Len(list) = m
      BY <3>2, <3>3
    <3>5. j \in 1 .. Len(list) /\ list[j] = at
      BY <2>3, <3>4 DEF m, list
    <3>6. Pooled!Contains(list, at)
      BY <3>5 DEF Pooled!Contains
    <3> QED  BY <3>6 DEF list
  <2>12. Pooled!Contains(Pooled!Chain(pool.levels[side][k].head), at)
    BY <2>7, <2>11
  <2> QED  BY <2>5, <2>9, <2>10, <2>12 DEF at, node
<1> QED  BY <1>2, <1>3 DEF Pooled!CheckInvariantsHolds, Pooled!Sides, Sides

\* The free list holds the nodes without an order, each once.
LEMMA PairedComplete == Paired => Pooled!PoolIsComplete
<1> SUFFICES ASSUME Paired PROVE Pooled!PoolIsComplete
  OBVIOUS
<1> DEFINE n     == Len(pool.nodes)
           free  == Pooled!Chain(pool.free)
           blank == {at \in DOMAIN pool.nodes : ~ pool.nodes[at].active}
<1>1. /\ n \in Nat /\ DOMAIN pool.nodes = 1 .. n /\ n <= Cardinality(Ids)
      /\ Indexed(pool, book)
  BY PairedHolds
<1>2. Frees(free, pool.nodes, pool.free, Used(pool.index))
  BY FreeRead
<1>3. ASSUME NEW at \in Used(pool.index) PROVE pool.nodes[at].active
  <2>1. PICK id \in DOMAIN book.nodes : at = pool.index[id]
    BY <1>1 DEF Used, Indexed
  <2> DEFINE side  == book.nodes[id].side
             price == book.nodes[id].price
             queue == book.levels[side][price].queue
  <2>2. PICK k : QueuedAt(at, side, price, queue, k)
    BY <2>1, UsedIsQueued
  <2>3. queue = book.levels[side][price].queue
    OBVIOUS
  <2> HIDE DEF side, price, queue
  <2>4. Holds(pool.nodes[at], queue, k, side, price)
    BY <2>2, <2>3, NodeRead DEF QueuedAt
  <2> QED  BY <2>4 DEF Holds
<1> HIDE DEF free
<1>4. /\ DOMAIN free = 1 .. Len(free)
      /\ \A k \in 1 .. Len(free) : free[k] \in 1 .. n /\ free[k] \notin Used(pool.index)
      /\ \A j, k \in 1 .. Len(free) : free[j] = free[k] => j = k
      /\ \A at \in 1 .. n : at \notin Used(pool.index) => \E k \in 1 .. Len(free) : free[k] = at
  <2>1. free \in Seq(Nat)
    BY <1>2 DEF Frees
  <2> QED  BY <1>2, <2>1 DEF Frees
<1>5. \A next : ~ Pooled!Released(next).active
  BY DEF Pooled!Released, Pooled!Node
<1>6. \A k \in 1 .. Len(free) : ~ pool.nodes[free[k]].active
  BY <1>2, <1>5 DEF Frees
<1>7. Pooled!IsInjective(free)
  BY <1>4 DEF Pooled!IsInjective
<1>8. Pooled!ToSet(free) = blank
  <2>1. Pooled!ToSet(free) = {free[k] : k \in 1 .. Len(free)}
    BY <1>4 DEF Pooled!ToSet
  <2>2. ASSUME NEW k \in 1 .. Len(free) PROVE free[k] \in blank
    BY <1>1, <1>4, <1>6
  <2>3. ASSUME NEW at \in blank PROVE \E k \in 1 .. Len(free) : free[k] = at
    BY <1>1, <1>3, <1>4
  <2> HIDE DEF blank
  <2> QED  BY <2>1, <2>2, <2>3
<1>9. n <= Pooled!Cardinality(Ids)
  BY <1>1, SameOperators
<1> QED  BY <1>7, <1>8, <1>9 DEF Pooled!PoolIsComplete, free

\* Whatever the calls, check_invariants() of the pooled book never reports a
\* violation, and no node of its pool is lost or given out twice.
THEOREM PooledBookStaysSound == BothSpec => []PooledBookSound
<1>1. BothSpec => []Paired
  BY InitPaired, NextPaired, PTL DEF BothSpec
<1>2. Paired => PooledBookSound
  BY PairedTyped, PairedChecks, PairedComplete DEF PooledBookSound
<1> QED  BY <1>1, <1>2, PTL
===============================================================================
