--------------------------- MODULE BookLevels_proofs ---------------------------
(***************************************************************************)
(* What the operations of an order book do to its levels, its index and    *)
(* its totals, for every book: the lemmas that the proofs about the        *)
(* specifications which keep a book rest on.                               *)
(***************************************************************************)
EXTENDS BookLevels, FiniteSetTheorems, FunctionTheorems, SequenceTheorems, TLAPS

-------------------------------------------------------------------------------
(* Sequences, maps and sums.                                               *)

\* Without its k-th element a sequence keeps the others in their order.
LEMMA RemoveAtProperties ==
  ASSUME NEW S, NEW q \in Seq(S), NEW k \in 1 .. Len(q)
  PROVE  /\ RemoveAt(q, k) \in Seq(S)
         /\ Len(RemoveAt(q, k)) = Len(q) - 1
         /\ \A j \in 1 .. Len(q) - 1 :
               RemoveAt(q, k)[j] = IF j < k THEN q[j] ELSE q[j + 1]
<1> DEFINE left == SubSeq(q, 1, k - 1)
           right == SubSeq(q, k + 1, Len(q))
<1>1. /\ left \in Seq(S) /\ Len(left) = k - 1
      /\ \A j \in 1 .. k - 1 : left[j] = q[j]
  <2>1. \A j \in 1 .. k - 1 : q[j] \in S
    OBVIOUS
  <2> QED  BY <2>1, SubSeqProperties, Z3
<1>2. /\ right \in Seq(S) /\ Len(right) = Len(q) - k
      /\ \A j \in 1 .. Len(q) - k : right[j] = q[k + j]
  <2>1. \A j \in k + 1 .. Len(q) : q[j] \in S
    OBVIOUS
  <2> QED  BY <2>1, SubSeqProperties, Z3
<1>3. RemoveAt(q, k) = left \o right
  BY DEF RemoveAt
<1> HIDE DEF left, right
<1>4. /\ left \o right \in Seq(S)
      /\ Len(left \o right) = Len(left) + Len(right)
      /\ \A j \in 1 .. Len(left) + Len(right) :
            (left \o right)[j] = IF j <= Len(left) THEN left[j]
                                                 ELSE right[j - Len(left)]
  BY <1>1, <1>2, ConcatProperties, Zenon
<1>5. Len(left) + Len(right) = Len(q) - 1
  BY <1>1, <1>2
<1>6. ASSUME NEW j \in 1 .. Len(q) - 1
      PROVE  (left \o right)[j] = IF j < k THEN q[j] ELSE q[j + 1]
  <2>1. CASE j < k
    BY <1>1, <1>4, <1>5, <2>1
  <2>2. CASE ~ j < k
    <3>1. j - (k - 1) \in 1 .. Len(q) - k /\ k + (j - (k - 1)) = j + 1
      BY <2>2
    <3> QED  BY <1>1, <1>2, <1>4, <1>5, <2>2, <3>1
  <2> QED  BY <2>1, <2>2
<1> QED  BY <1>3, <1>4, <1>5, <1>6

\* A queue is another without the order at k.
Erased(r, q, S, k) ==
  /\ r \in Seq(S)
  /\ Len(r) = Len(q) - 1
  /\ \A j \in 1 .. Len(q) - 1 : r[j] = IF j < k THEN q[j] ELSE q[j + 1]
  /\ IsInjective(r)
  /\ ToSet(r) = ToSet(q) \ {q[k]}

\* Erasing an order from a queue that holds it once.
LEMMA EraseProperties ==
  ASSUME NEW S, NEW q \in Seq(S), IsInjective(q),
         NEW k \in 1 .. Len(q), NEW id, q[k] = id
  PROVE  /\ Erase(q, id) = RemoveAt(q, k)
         /\ Erased(Erase(q, id), q, S, k)
<1> DEFINE r == RemoveAt(q, k)
<1>1. DOMAIN q = 1 .. Len(q)
  OBVIOUS
<1>2. (CHOOSE j \in DOMAIN q : q[j] = q[k]) = k
  BY <1>1 DEF IsInjective
<1>3. Erase(q, id) = r
  BY <1>2 DEF Erase
<1>4. /\ r \in Seq(S) /\ Len(r) = Len(q) - 1 /\ DOMAIN r = 1 .. Len(q) - 1
      /\ \A j \in 1 .. Len(q) - 1 : r[j] = IF j < k THEN q[j] ELSE q[j + 1]
  <2>1. /\ r \in Seq(S) /\ Len(r) = Len(q) - 1
        /\ \A j \in 1 .. Len(q) - 1 : r[j] = IF j < k THEN q[j] ELSE q[j + 1]
    BY RemoveAtProperties, Zenon
  <2> HIDE DEF r
  <2>2. DOMAIN r = 1 .. Len(r)
    BY <2>1
  <2> QED  BY <2>1, <2>2
<1> HIDE DEF r
<1>5. ASSUME NEW j \in 1 .. Len(q) - 1
      PROVE  \E i \in 1 .. Len(q) :
                r[j] = q[i] /\ i # k /\ i = IF j < k THEN j ELSE j + 1
  <2>1. CASE j < k
    <3>1. j \in 1 .. Len(q) /\ j # k /\ r[j] = q[j]
      BY <1>4, <2>1
    <3> QED  BY <2>1, <3>1
  <2>2. CASE ~ j < k
    <3>1. j + 1 \in 1 .. Len(q) /\ j + 1 # k /\ r[j] = q[j + 1]
      BY <1>4, <2>2
    <3> QED  BY <2>2, <3>1
  <2> QED  BY <2>1, <2>2
<1>6. IsInjective(r)
  <2> SUFFICES ASSUME NEW i \in 1 .. Len(q) - 1, NEW j \in 1 .. Len(q) - 1, r[i] = r[j]
               PROVE  i = j
    BY <1>4 DEF IsInjective
  <2>1. PICK m \in 1 .. Len(q) : r[i] = q[m] /\ m = IF i < k THEN i ELSE i + 1
    BY <1>5
  <2>2. PICK n \in 1 .. Len(q) : r[j] = q[n] /\ n = IF j < k THEN j ELSE j + 1
    BY <1>5
  <2>3. m = n
    BY <1>1, <2>1, <2>2 DEF IsInjective
  <2> QED  BY <2>1, <2>2, <2>3
<1>7. ASSUME NEW x \in ToSet(r) PROVE x \in ToSet(q) /\ x # q[k]
  <2>1. PICK j \in 1 .. Len(q) - 1 : x = r[j]
    BY <1>4 DEF ToSet
  <2>2. PICK i \in 1 .. Len(q) : r[j] = q[i] /\ i # k
    BY <1>5
  <2> QED  BY <1>1, <2>1, <2>2 DEF ToSet, IsInjective
<1>8. ASSUME NEW x \in ToSet(q), x # q[k] PROVE x \in ToSet(r)
  <2>1. PICK j \in 1 .. Len(q) : q[j] = x
    BY <1>1 DEF ToSet
  <2>2. CASE j < k
    <3>1. j \in 1 .. Len(q) - 1 /\ r[j] = x
      BY <1>4, <2>1, <2>2
    <3> QED  BY <1>4, <3>1 DEF ToSet
  <2>3. CASE j > k
    <3>1. j - 1 \in 1 .. Len(q) - 1 /\ ~ (j - 1 < k) /\ (j - 1) + 1 = j
      BY <2>1, <2>3
    <3>2. r[j - 1] = x
      BY <1>4, <2>1, <3>1
    <3> QED  BY <1>4, <3>1, <3>2 DEF ToSet
  <2> QED  BY <1>8, <2>1, <2>2, <2>3
<1>9. ToSet(r) = ToSet(q) \ {q[k]}
  BY <1>7, <1>8
<1>10. Erased(r, q, S, k)
  BY <1>4, <1>6, <1>9 DEF Erased
<1> QED  BY <1>3, <1>10 DEF r

\* The first numbers are as many as the last of them says.
LEMMA IntervalUpTo ==
  \A n \in Nat : IsFiniteSet(1 .. n) /\ Cardinality(1 .. n) = n
<1> SUFFICES ASSUME NEW n \in Nat PROVE IsFiniteSet(1 .. n) /\ Cardinality(1 .. n) = n
  OBVIOUS
<1>1. 1 \in Int /\ n \in Int /\ (1 > n => n = 0) /\ n - 1 + 1 = n
  OBVIOUS
<1> QED  BY <1>1, FS_Interval

\* The units of finitely many orders are finitely many.
LEMMA UnitsFinite ==
  ASSUME NEW book, NEW ids, IsFiniteSet(ids),
         \A id \in ids : book.nodes[id].quantity \in Nat
  PROVE  /\ IsFiniteSet(Units(book, ids))
         /\ QuantityOf(book, ids) \in Nat
<1> DEFINE Own(id) == {id} \X (1 .. book.nodes[id].quantity)
           f == [id \in ids |-> Own(id)]
           all == {Own(id) : id \in ids}
<1>1. f \in Surjection(ids, all)
  BY DEF Surjection
<1>2. IsFiniteSet(all)
  BY <1>1, FS_Surjection
<1>3. ASSUME NEW id \in ids PROVE IsFiniteSet(Own(id))
  <2>1. IsFiniteSet(1 .. book.nodes[id].quantity)
    BY FS_Interval
  <2> QED  BY <2>1, FS_Singleton, FS_Product
<1>4. IsFiniteSet(UNION all)
  BY <1>2, <1>3, FS_UNION
<1>5. UNION all = Units(book, ids)
  BY DEF Units
<1> QED  BY <1>4, <1>5, FS_CardinalityType DEF QuantityOf

\* Sums depend on the orders summed only.
LEMMA QuantitySame ==
  ASSUME NEW book, NEW other, NEW ids,
         \A id \in ids : book.nodes[id].quantity = other.nodes[id].quantity
  PROVE  QuantityOf(book, ids) = QuantityOf(other, ids)
<1>1. Units(book, ids) = Units(other, ids)
  BY DEF Units
<1> QED  BY <1>1 DEF QuantityOf

\* An order's quantity adds to the sum of the others.
LEMMA QuantityAdds ==
  ASSUME NEW book, NEW ids, IsFiniteSet(ids), NEW one, one \notin ids,
         \A id \in ids \cup {one} : book.nodes[id].quantity \in Nat
  PROVE  /\ QuantityOf(book, ids) \in Nat
         /\ QuantityOf(book, ids \cup {one}) =
              QuantityOf(book, ids) + book.nodes[one].quantity
<1> DEFINE own == {one} \X (1 .. book.nodes[one].quantity)
<1>1. IsFiniteSet(Units(book, ids)) /\ QuantityOf(book, ids) \in Nat
  BY UnitsFinite
<1>2. IsFiniteSet(own) /\ Cardinality(own) = book.nodes[one].quantity
  <2>1. /\ IsFiniteSet(1 .. book.nodes[one].quantity)
        /\ Cardinality(1 .. book.nodes[one].quantity) = book.nodes[one].quantity
    <3>1. book.nodes[one].quantity \in Nat
      OBVIOUS
    <3> QED  BY <3>1, IntervalUpTo, Zenon
  <2>2. IsFiniteSet({one}) /\ Cardinality({one}) = 1
    BY FS_Singleton
  <2>3. /\ IsFiniteSet(own)
        /\ Cardinality(own) = 1 * Cardinality(1 .. book.nodes[one].quantity)
    BY <2>1, <2>2, FS_Product, Zenon
  <2>4. book.nodes[one].quantity \in Nat
    OBVIOUS
  <2> QED  BY <2>1, <2>3, <2>4
<1>3. Units(book, ids \cup {one}) = Units(book, ids) \cup own
  BY DEF Units
<1>4. Units(book, ids) \cap own = {}
  BY DEF Units
<1>5. Cardinality(Units(book, ids) \cap own) = 0
  BY <1>4, FS_EmptySet
<1> HIDE DEF own
<1>6. Cardinality(Units(book, ids) \cup own) =
        Cardinality(Units(book, ids)) + Cardinality(own) - 0
  BY <1>1, <1>2, <1>5, FS_Union
<1>7. book.nodes[one].quantity \in Nat
  OBVIOUS
<1>8. Cardinality(Units(book, ids)) \in Nat
  BY <1>1 DEF QuantityOf
<1>9. /\ QuantityOf(book, ids \cup {one}) = Cardinality(Units(book, ids) \cup own)
      /\ QuantityOf(book, ids) = Cardinality(Units(book, ids))
  BY <1>3, Zenon DEF QuantityOf
<1>10. Cardinality(Units(book, ids) \cup own) =
         Cardinality(Units(book, ids)) + book.nodes[one].quantity
  BY <1>2, <1>6, <1>7, <1>8
<1> QED  BY <1>1, <1>9, <1>10

\* Nothing sums to nothing, and one order to its quantity.
LEMMA QuantityOfNone == \A book : QuantityOf(book, {}) = 0
  BY FS_EmptySet DEF QuantityOf, Units
-------------------------------------------------------------------------------
(* Sound books.                                                            *)

Offer(P) == [side : Sides, price : P, quantity : Nat \ {0}]

\* A book of orders with ids in I and prices in P.
IsBook(book, I, P) ==
  /\ DOMAIN book.levels = Sides
  /\ \A side \in Sides :
        /\ DOMAIN book.levels[side] \subseteq P
        /\ \A price \in DOMAIN book.levels[side] :
              book.levels[side][price] \in [total : Nat, queue : Seq(I)]
  /\ DOMAIN book.nodes \subseteq I
  /\ IsFiniteSet(DOMAIN book.nodes)
  /\ \A id \in DOMAIN book.nodes : book.nodes[id] \in Offer(P)

SoundBook(book, I, P) ==
  IsBook(book, I, P) /\ QueuesMatchIndex(book) /\ TotalsMatchOrders(book)

\* An empty book is sound.
LEMMA EmptyBookSound == \A I, P : SoundBook(EmptyBook, I, P)
<1>1. /\ DOMAIN EmptyBook.levels = Sides
      /\ \A side \in Sides : DOMAIN EmptyBook.levels[side] = {}
      /\ DOMAIN EmptyBook.nodes = {}
  BY DEF EmptyBook
<1> QED
  BY <1>1, FS_EmptySet DEF SoundBook, IsBook, QueuesMatchIndex, TotalsMatchOrders

\* What each operation leaves of a book.
Added(after, book, id, order) ==
  /\ DOMAIN after.levels = Sides
  /\ \A side \in Sides :
        /\ DOMAIN after.levels[side] =
              DOMAIN book.levels[side] \cup (IF side = order.side THEN {order.price} ELSE {})
        /\ \A price \in DOMAIN after.levels[side] :
              after.levels[side][price] =
                IF side = order.side /\ price = order.price
                THEN LET level == LevelAt(book, order.side, order.price)
                     IN  [total |-> level.total + order.quantity,
                          queue |-> Append(level.queue, id)]
                ELSE book.levels[side][price]
  /\ DOMAIN after.nodes = DOMAIN book.nodes \cup {id}
  /\ after.nodes[id] = order
  /\ \A other \in DOMAIN book.nodes \ {id} : after.nodes[other] = book.nodes[other]

\* add_order adds one order, to one level.
LEMMA AddOrderAdds ==
  ASSUME NEW book, NEW I, NEW P, IsBook(book, I, P), NEW id, NEW order \in Offer(P)
  PROVE  Added(AddOrder(book, id, order), book, id, order)
<1> DEFINE after == AddOrder(book, id, order)
           level == LevelAt(book, order.side, order.price)
           new   == [total |-> level.total + order.quantity,
                     queue |-> Append(level.queue, id)]
<1>1. order.side \in Sides /\ DOMAIN book.levels = Sides
  BY DEF IsBook, Offer
<1>2. /\ after.levels = [book.levels EXCEPT ![order.side] =
                            Put(book.levels[order.side], order.price, new)]
      /\ after.nodes = Put(book.nodes, id, order)
  BY <1>1 DEF AddOrder
<1> HIDE DEF after, new, level
<1>3. /\ DOMAIN after.nodes = DOMAIN book.nodes \cup {id}
      /\ after.nodes[id] = order
      /\ \A other \in DOMAIN book.nodes \ {id} : after.nodes[other] = book.nodes[other]
  BY <1>2 DEF Put
<1>4. DOMAIN after.levels = Sides
  BY <1>1, <1>2
<1>5. ASSUME NEW side \in Sides, side # order.side
      PROVE  after.levels[side] = book.levels[side]
  BY <1>1, <1>2, <1>5
<1>6. after.levels[order.side] = Put(book.levels[order.side], order.price, new)
  BY <1>1, <1>2
<1>7. /\ DOMAIN after.levels[order.side] = DOMAIN book.levels[order.side] \cup {order.price}
      /\ \A price \in DOMAIN after.levels[order.side] :
            after.levels[order.side][price] =
              IF price = order.price THEN new ELSE book.levels[order.side][price]
  BY <1>6 DEF Put
<1>8. Added(after, book, id, order)
  BY <1>3, <1>4, <1>5, <1>7 DEF Added, new, level
<1> QED  BY <1>8 DEF after

\* What is so of a level with a total and a queue, whether or not it is empty.
SoundLevel(level, book, I, side, price) ==
  /\ level.total \in Nat /\ level.queue \in Seq(I)
  /\ DOMAIN level.queue = 1 .. Len(level.queue)
  /\ IsInjective(level.queue)
  /\ \A k \in 1 .. Len(level.queue) :
        /\ level.queue[k] \in DOMAIN book.nodes
        /\ book.nodes[level.queue[k]].side = side
        /\ book.nodes[level.queue[k]].price = price
  /\ ToSet(level.queue) \subseteq DOMAIN book.nodes
  /\ IsFiniteSet(ToSet(level.queue))
  /\ level.total = QuantityOf(book, ToSet(level.queue))

\* What a level of a sound book holds.
LEMMA LevelHolds ==
  ASSUME NEW book, NEW I, NEW P, SoundBook(book, I, P),
         NEW side \in Sides, NEW price \in DOMAIN book.levels[side]
  PROVE  /\ book.levels[side][price] \in [total : Nat, queue : Seq(I)]
         /\ book.levels[side][price].queue # <<>>
         /\ SoundLevel(book.levels[side][price], book, I, side, price)
<1> DEFINE level == book.levels[side][price]
<1>1. level \in [total : Nat, queue : Seq(I)]
  BY DEF SoundBook, IsBook
<1>2. /\ level.queue # <<>>
      /\ IsInjective(level.queue)
      /\ \A k \in DOMAIN level.queue :
            /\ level.queue[k] \in DOMAIN book.nodes
            /\ book.nodes[level.queue[k]].side = side
            /\ book.nodes[level.queue[k]].price = price
  BY DEF SoundBook, QueuesMatchIndex, Resting
<1>3. ToSet(level.queue) \subseteq DOMAIN book.nodes
  BY <1>2 DEF ToSet
<1>4. IsFiniteSet(ToSet(level.queue))
  BY <1>3, FS_Subset DEF SoundBook, IsBook
<1>5. level.total = QuantityOf(book, ToSet(level.queue))
  BY DEF SoundBook, TotalsMatchOrders
<1> HIDE DEF level
<1>6. DOMAIN level.queue = 1 .. Len(level.queue)
  BY <1>1
<1>7. SoundLevel(level, book, I, side, price)
  BY <1>1, <1>2, <1>3, <1>4, <1>5, <1>6 DEF SoundLevel
<1> QED  BY <1>1, <1>2, <1>7 DEF level

\* An order of a sound book is in the queue of its own level.
LEMMA PlaceInQueue ==
  ASSUME NEW book, NEW I, NEW P, SoundBook(book, I, P), NEW id \in DOMAIN book.nodes
  PROVE  LET order == book.nodes[id]
         IN  /\ order \in Offer(P)
             /\ order.side \in Sides
             /\ order.price \in DOMAIN book.levels[order.side]
             /\ \E k \in 1 .. Len(book.levels[order.side][order.price].queue) :
                   book.levels[order.side][order.price].queue[k] = id
<1> DEFINE order == book.nodes[id]
           level == book.levels[order.side][order.price]
<1>1. order \in Offer(P) /\ order.side \in Sides
  BY DEF SoundBook, IsBook, Offer
<1>2. order.price \in DOMAIN book.levels[order.side] /\ Contains(level.queue, id)
  BY DEF SoundBook, QueuesMatchIndex
<1> QED  BY <1>1, <1>2 DEF Contains

\* What the level found or made for an order holds.
LEMMA LevelAtHolds ==
  ASSUME NEW book, NEW I, NEW P, SoundBook(book, I, P), NEW side \in Sides, NEW price
  PROVE  SoundLevel(LevelAt(book, side, price), book, I, side, price)
<1>1. CASE price \in DOMAIN book.levels[side]
  BY <1>1, LevelHolds DEF LevelAt
<1>2. CASE price \notin DOMAIN book.levels[side]
  <2> DEFINE level == LevelAt(book, side, price)
  <2>1. level.total = 0 /\ level.queue = <<>>
    BY <1>2 DEF LevelAt
  <2>2. /\ ToSet(<<>>) = {} /\ IsInjective(<<>>) /\ <<>> \in Seq(I)
        /\ Len(<<>>) = 0 /\ DOMAIN <<>> = {} /\ 1 .. Len(<<>>) = {}
    BY DEF ToSet, IsInjective
  <2> HIDE DEF level
  <2>3. /\ ToSet(level.queue) = {} /\ IsInjective(level.queue)
        /\ level.queue \in Seq(I) /\ 1 .. Len(level.queue) = {}
        /\ DOMAIN level.queue = {}
    BY <2>1, <2>2, Zenon
  <2>4. IsFiniteSet({}) /\ QuantityOf(book, {}) = 0
    BY FS_EmptySet, QuantityOfNone
  <2>5. SoundLevel(level, book, I, side, price)
    BY <2>1, <2>3, <2>4 DEF SoundLevel
  <2> QED  BY <2>5 DEF level
<1> QED  BY <1>1, <1>2

\* Adding an order that does not rest keeps a book sound.
LEMMA AddOrderSound ==
  ASSUME NEW book, NEW I, NEW P, SoundBook(book, I, P),
         NEW id \in I, ~ Resting(book, id), NEW order \in Offer(P)
  PROVE  SoundBook(AddOrder(book, id, order), I, P)
<1> DEFINE after == AddOrder(book, id, order)
           old   == LevelAt(book, order.side, order.price)
           new   == after.levels[order.side][order.price]
<1>1. Added(after, book, id, order)
  BY AddOrderAdds DEF SoundBook
<1> HIDE DEF after
<1>2. /\ id \notin DOMAIN book.nodes /\ IsFiniteSet(DOMAIN book.nodes)
      /\ DOMAIN book.nodes \subseteq I
      /\ \A other \in DOMAIN book.nodes : book.nodes[other] \in Offer(P)
      /\ order.side \in Sides /\ order.price \in P /\ order.quantity \in Nat \ {0}
      /\ DOMAIN book.levels = Sides
      /\ \A side \in Sides : DOMAIN book.levels[side] \subseteq P
  BY DEF Resting, SoundBook, IsBook, Offer
<1>3. /\ DOMAIN after.levels = Sides
      /\ DOMAIN after.nodes = DOMAIN book.nodes \cup {id}
      /\ after.nodes[id] = order
      /\ \A other \in DOMAIN book.nodes : after.nodes[other] = book.nodes[other]
      /\ \A side \in Sides :
            DOMAIN after.levels[side] =
              DOMAIN book.levels[side] \cup (IF side = order.side THEN {order.price} ELSE {})
  BY <1>1, <1>2 DEF Added
<1>4. /\ old.total \in Nat /\ old.queue \in Seq(I)
      /\ IsInjective(old.queue)
      /\ \A k \in 1 .. Len(old.queue) :
            /\ old.queue[k] \in DOMAIN book.nodes
            /\ book.nodes[old.queue[k]].side = order.side
            /\ book.nodes[old.queue[k]].price = order.price
      /\ ToSet(old.queue) \subseteq DOMAIN book.nodes
      /\ IsFiniteSet(ToSet(old.queue))
      /\ old.total = QuantityOf(book, ToSet(old.queue))
  <2>1. SoundLevel(old, book, I, order.side, order.price)
    BY <1>2, LevelAtHolds
  <2> HIDE DEF old
  <2> QED  BY <2>1 DEF SoundLevel
<1>5. new = [total |-> old.total + order.quantity, queue |-> Append(old.queue, id)]
  <2>1. order.price \in DOMAIN after.levels[order.side]
    BY <1>2, <1>3
  <2> QED  BY <1>1, <1>2, <2>1 DEF Added
<1>6. ASSUME NEW side \in Sides, NEW price \in DOMAIN after.levels[side],
             ~ (side = order.side /\ price = order.price)
      PROVE  /\ price \in DOMAIN book.levels[side]
             /\ after.levels[side][price] = book.levels[side][price]
  BY <1>1, <1>6 DEF Added
<1> HIDE DEF old, new
<1>7. /\ new.queue \in Seq(I) /\ new.queue # <<>>
      /\ Len(new.queue) = Len(old.queue) + 1
      /\ \A k \in 1 .. Len(old.queue) : new.queue[k] = old.queue[k]
      /\ new.queue[Len(old.queue) + 1] = id
      /\ Len(old.queue) \in Nat
      /\ DOMAIN new.queue = 1 .. Len(old.queue) + 1
      /\ DOMAIN old.queue = 1 .. Len(old.queue)
  <2>1. old.queue \in Seq(I) /\ new.queue = Append(old.queue, id)
    BY <1>4, <1>5
  <2> QED  BY <2>1, AppendProperties
<1>8. ToSet(new.queue) = ToSet(old.queue) \cup {id}
  <2>1. ASSUME NEW x \in ToSet(new.queue) PROVE x \in ToSet(old.queue) \cup {id}
    <3>1. PICK k \in 1 .. Len(old.queue) + 1 : x = new.queue[k]
      BY <1>7, <2>1 DEF ToSet
    <3>2. k \in 1 .. Len(old.queue) \/ k = Len(old.queue) + 1
      BY <1>7, <3>1
    <3> QED  BY <1>7, <3>1, <3>2 DEF ToSet
  <2>2. ASSUME NEW x \in ToSet(old.queue) PROVE x \in ToSet(new.queue)
    <3>1. PICK k \in 1 .. Len(old.queue) : x = old.queue[k]
      BY <1>7, <2>2 DEF ToSet
    <3>2. k \in 1 .. Len(old.queue) + 1
      BY <1>7, <3>1
    <3> QED  BY <1>7, <3>1, <3>2 DEF ToSet
  <2>3. id \in ToSet(new.queue)
    <3>1. Len(old.queue) + 1 \in 1 .. Len(old.queue) + 1
      BY <1>7
    <3> QED  BY <1>7, <3>1 DEF ToSet
  <2> QED  BY <2>1, <2>2, <2>3
<1>9. IsInjective(new.queue)
  <2> SUFFICES ASSUME NEW j \in 1 .. Len(old.queue) + 1, NEW k \in 1 .. Len(old.queue) + 1,
                      new.queue[j] = new.queue[k]
               PROVE  j = k
    BY <1>7 DEF IsInjective
  <2>1. \A i \in 1 .. Len(old.queue) + 1 :
           i = Len(old.queue) + 1 \/ i \in 1 .. Len(old.queue)
    BY <1>7
  <2>2. \A i \in 1 .. Len(old.queue) : new.queue[i] = old.queue[i] /\ old.queue[i] # id
    BY <1>2, <1>4, <1>7
  <2>3. \A i, m \in 1 .. Len(old.queue) : old.queue[i] = old.queue[m] => i = m
    BY <1>4, <1>7 DEF IsInjective
  <2> QED  BY <1>7, <2>1, <2>2, <2>3
<1>10. IsBook(after, I, P)
  <2>1. IsFiniteSet(DOMAIN after.nodes)
    BY <1>2, <1>3, FS_AddElement
  <2>2. ASSUME NEW side \in Sides
        PROVE  /\ DOMAIN after.levels[side] \subseteq P
               /\ \A price \in DOMAIN after.levels[side] :
                     after.levels[side][price] \in [total : Nat, queue : Seq(I)]
    <3>1. ASSUME NEW price \in DOMAIN after.levels[side]
          PROVE  after.levels[side][price] \in [total : Nat, queue : Seq(I)]
      <4>1. CASE side = order.side /\ price = order.price
        <5>1. new.total \in Nat /\ new.queue \in Seq(I)
          BY <1>2, <1>4, <1>5, <1>7
        <5>2. new \in [total : Nat, queue : Seq(I)]
          BY <1>5, <5>1
        <5> QED  BY <4>1, <5>2 DEF new
      <4>2. CASE ~ (side = order.side /\ price = order.price)
        BY <1>6, <4>2, LevelHolds
      <4> QED  BY <4>1, <4>2
    <3> QED  BY <1>2, <1>3, <3>1
  <2> QED  BY <1>2, <1>3, <2>1, <2>2 DEF IsBook
<1>11. QueuesMatchIndex(after)
  <2>1. ASSUME NEW side \in Sides, NEW price \in DOMAIN after.levels[side]
        PROVE  LET queue == after.levels[side][price].queue
               IN  /\ queue # <<>>
                   /\ IsInjective(queue)
                   /\ \A k \in DOMAIN queue :
                         /\ Resting(after, queue[k])
                         /\ after.nodes[queue[k]].side = side
                         /\ after.nodes[queue[k]].price = price
    <3>1. CASE side = order.side /\ price = order.price
      <4>2. ASSUME NEW k \in 1 .. Len(old.queue) + 1
            PROVE  /\ new.queue[k] \in DOMAIN after.nodes
                   /\ after.nodes[new.queue[k]].side = order.side
                   /\ after.nodes[new.queue[k]].price = order.price
        <5>1. CASE k = Len(old.queue) + 1
          BY <1>3, <1>7, <5>1
        <5>2. CASE k \in 1 .. Len(old.queue)
          BY <1>3, <1>4, <1>7, <5>2
        <5> QED  BY <1>7, <5>1, <5>2
      <4>3. after.levels[side][price].queue = new.queue
        BY <3>1 DEF new
      <4> QED  BY <1>7, <1>9, <3>1, <4>2, <4>3 DEF Resting
    <3>2. CASE ~ (side = order.side /\ price = order.price)
      <4>1. /\ price \in DOMAIN book.levels[side]
            /\ after.levels[side][price] = book.levels[side][price]
        BY <1>6, <3>2
      <4>2. LET queue == book.levels[side][price].queue
            IN  /\ queue # <<>> /\ IsInjective(queue)
                /\ DOMAIN queue = 1 .. Len(queue)
                /\ \A k \in 1 .. Len(queue) :
                      /\ queue[k] \in DOMAIN book.nodes
                      /\ book.nodes[queue[k]].side = side
                      /\ book.nodes[queue[k]].price = price
        <5> DEFINE level == book.levels[side][price]
        <5>1. level.queue # <<>> /\ SoundLevel(level, book, I, side, price)
          BY <4>1, LevelHolds
        <5> HIDE DEF level
        <5>2. /\ level.queue # <<>> /\ IsInjective(level.queue)
              /\ DOMAIN level.queue = 1 .. Len(level.queue)
              /\ \A k \in 1 .. Len(level.queue) :
                    /\ level.queue[k] \in DOMAIN book.nodes
                    /\ book.nodes[level.queue[k]].side = side
                    /\ book.nodes[level.queue[k]].price = price
          BY <5>1 DEF SoundLevel
        <5> QED  BY <5>2 DEF level
      <4> QED  BY <1>3, <4>1, <4>2 DEF Resting
    <3> QED  BY <3>1, <3>2
  <2>2. ASSUME NEW other \in DOMAIN after.nodes
        PROVE  LET o == after.nodes[other]
               IN  /\ o.price \in DOMAIN after.levels[o.side]
                   /\ Contains(after.levels[o.side][o.price].queue, other)
    <3>1. CASE other = id
      <4>1. order.price \in DOMAIN after.levels[order.side]
        BY <1>2, <1>3
      <4>2. Len(old.queue) + 1 \in 1 .. Len(new.queue)
        BY <1>4, <1>7
      <4>3. Contains(new.queue, id)
        BY <1>7, <4>2 DEF Contains
      <4>4. after.nodes[other] = order
        BY <1>3, <3>1
      <4> QED  BY <3>1, <4>1, <4>3, <4>4 DEF new
    <3>2. CASE other # id
      <4> DEFINE o == book.nodes[other]
                 q == book.levels[o.side][o.price].queue
      <4>1. other \in DOMAIN book.nodes /\ after.nodes[other] = o
        BY <1>3, <3>2
      <4>2. /\ o.side \in Sides /\ o.price \in DOMAIN book.levels[o.side]
            /\ \E k \in 1 .. Len(q) : q[k] = other
        BY <4>1, PlaceInQueue
      <4>3. o.price \in DOMAIN after.levels[o.side]
        BY <1>3, <4>2
      <4>4. CASE o.side = order.side /\ o.price = order.price
        <5>1. q = old.queue
          BY <4>2, <4>4 DEF old, LevelAt
        <5>2. PICK k \in 1 .. Len(old.queue) : old.queue[k] = other
          BY <4>2, <5>1
        <5>3. k \in 1 .. Len(new.queue) /\ new.queue[k] = other
          BY <1>4, <1>7, <5>2
        <5>4. Contains(new.queue, other)
          BY <5>3 DEF Contains
        <5> QED  BY <4>1, <4>3, <4>4, <5>4 DEF new
      <4>5. CASE ~ (o.side = order.side /\ o.price = order.price)
        <5>1. after.levels[o.side][o.price] = book.levels[o.side][o.price]
          BY <1>6, <4>2, <4>3, <4>5
        <5> QED  BY <4>1, <4>2, <4>3, <5>1 DEF Contains
      <4> QED  BY <4>4, <4>5
    <3> QED  BY <3>1, <3>2
  <2> QED  BY <2>1, <2>2 DEF QueuesMatchIndex
<1>12. TotalsMatchOrders(after)
  <2>1. ASSUME NEW side \in Sides, NEW price \in DOMAIN after.levels[side]
        PROVE  after.levels[side][price].total =
                 QuantityOf(after, ToSet(after.levels[side][price].queue))
    <3>1. CASE side = order.side /\ price = order.price
      <4>1. QuantityOf(after, ToSet(old.queue)) = old.total
        BY <1>3, <1>4, QuantitySame
      <4>2. \A o \in ToSet(old.queue) \cup {id} : after.nodes[o].quantity \in Nat
        BY <1>2, <1>3, <1>4 DEF Offer
      <4>3. id \notin ToSet(old.queue)
        BY <1>2, <1>4
      <4>4. QuantityOf(after, ToSet(old.queue) \cup {id}) =
              QuantityOf(after, ToSet(old.queue)) + after.nodes[id].quantity
        BY <1>4, <4>2, <4>3, QuantityAdds
      <4>5. after.levels[side][price] = new /\ after.nodes[id] = order
        BY <1>3, <3>1 DEF new
      <4>6. new.total = old.total + order.quantity
        BY <1>5
      <4> QED  BY <1>8, <4>1, <4>4, <4>5, <4>6
    <3>2. CASE ~ (side = order.side /\ price = order.price)
      <4> DEFINE queue == book.levels[side][price].queue
      <4>1. /\ price \in DOMAIN book.levels[side]
            /\ after.levels[side][price] = book.levels[side][price]
        BY <1>6, <3>2
      <4>2. /\ ToSet(queue) \subseteq DOMAIN book.nodes
            /\ book.levels[side][price].total = QuantityOf(book, ToSet(queue))
        <5>1. SoundLevel(book.levels[side][price], book, I, side, price)
          BY <4>1, LevelHolds
        <5> QED  BY <5>1 DEF SoundLevel
      <4>3. QuantityOf(book, ToSet(queue)) = QuantityOf(after, ToSet(queue))
        BY <1>3, <4>2, QuantitySame
      <4> QED  BY <4>1, <4>2, <4>3
    <3> QED  BY <3>1, <3>2
  <2> QED  BY <2>1 DEF TotalsMatchOrders
<1> QED  BY <1>10, <1>11, <1>12 DEF SoundBook, after
Canceled(after, book, id) ==
  LET order == book.nodes[id]
      level == book.levels[order.side][order.price]
      queue == Erase(level.queue, id)
  IN  /\ DOMAIN after.levels = Sides
      /\ \A side \in Sides :
            /\ DOMAIN after.levels[side] =
                  DOMAIN book.levels[side] \
                    (IF side = order.side /\ queue = <<>> THEN {order.price} ELSE {})
            /\ \A price \in DOMAIN after.levels[side] :
                  after.levels[side][price] =
                    IF side = order.side /\ price = order.price
                    THEN [total |-> level.total - order.quantity, queue |-> queue]
                    ELSE book.levels[side][price]
      /\ DOMAIN after.nodes = DOMAIN book.nodes \ {id}
      /\ \A other \in DOMAIN book.nodes \ {id} : after.nodes[other] = book.nodes[other]

\* cancel_order removes one order, from one level.
LEMMA CancelOrderCancels ==
  ASSUME NEW book, NEW I, NEW P, SoundBook(book, I, P), NEW id \in DOMAIN book.nodes
  PROVE  Canceled(CancelOrder(book, id), book, id)
<1> DEFINE after == CancelOrder(book, id)
           order == book.nodes[id]
           level == book.levels[order.side][order.price]
           queue == Erase(level.queue, id)
           left  == [total |-> level.total - order.quantity, queue |-> queue]
           old   == book.levels[order.side]
           levels == IF queue = <<>> THEN Restrict(old, DOMAIN old \ {order.price})
                                     ELSE [old EXCEPT ![order.price] = left]
<1>1. /\ order.side \in Sides /\ DOMAIN book.levels = Sides
      /\ order.price \in DOMAIN old
  BY PlaceInQueue DEF SoundBook, IsBook
<1>2. /\ after.levels = [book.levels EXCEPT ![order.side] = levels]
      /\ after.nodes = Restrict(book.nodes, DOMAIN book.nodes \ {id})
  BY <1>1 DEF CancelOrder
<1> HIDE DEF after, queue, left, old
<1>3. /\ DOMAIN after.nodes = DOMAIN book.nodes \ {id}
      /\ \A other \in DOMAIN book.nodes \ {id} : after.nodes[other] = book.nodes[other]
  BY <1>2 DEF Restrict
<1>4. /\ DOMAIN levels = DOMAIN old \ (IF queue = <<>> THEN {order.price} ELSE {})
      /\ \A price \in DOMAIN levels :
            levels[price] = IF price = order.price THEN left ELSE old[price]
  BY <1>1 DEF Restrict
<1> HIDE DEF levels
<1>5. DOMAIN after.levels = Sides /\ after.levels[order.side] = levels
  BY <1>1, <1>2
<1>6. ASSUME NEW side \in Sides, side # order.side
      PROVE  after.levels[side] = book.levels[side]
  BY <1>1, <1>2, <1>6
<1>7. Canceled(after, book, id)
  BY <1>3, <1>4, <1>5, <1>6 DEF Canceled, queue, left, old
<1> QED  BY <1>7 DEF after

\* Canceling an order that rests keeps a book sound.
LEMMA CancelOrderSound ==
  ASSUME NEW book, NEW I, NEW P, SoundBook(book, I, P), NEW id \in DOMAIN book.nodes
  PROVE  SoundBook(CancelOrder(book, id), I, P)
<1> DEFINE after == CancelOrder(book, id)
           order == book.nodes[id]
           level == book.levels[order.side][order.price]
           queue == Erase(level.queue, id)
           Own(side, price) == side = order.side /\ price = order.price
<1>1. Canceled(after, book, id)
  BY CancelOrderCancels
<1> HIDE DEF after
<1>2. /\ IsFiniteSet(DOMAIN book.nodes)
      /\ DOMAIN book.nodes \subseteq I
      /\ \A other \in DOMAIN book.nodes : book.nodes[other] \in Offer(P)
      /\ \A other \in DOMAIN book.nodes : book.nodes[other].quantity \in Nat
      /\ DOMAIN book.levels = Sides
      /\ \A side \in Sides : DOMAIN book.levels[side] \subseteq P
  BY DEF Resting, SoundBook, IsBook, Offer
<1>3. /\ order.side \in Sides /\ order.price \in DOMAIN book.levels[order.side]
      /\ \E k \in 1 .. Len(level.queue) : level.queue[k] = id
  BY PlaceInQueue
<1>4. /\ level.total \in Nat /\ level.queue \in Seq(I)
      /\ IsInjective(level.queue)
      /\ \A k \in 1 .. Len(level.queue) :
            /\ level.queue[k] \in DOMAIN book.nodes
            /\ book.nodes[level.queue[k]].side = order.side
            /\ book.nodes[level.queue[k]].price = order.price
      /\ ToSet(level.queue) \subseteq DOMAIN book.nodes
      /\ IsFiniteSet(ToSet(level.queue))
      /\ level.total = QuantityOf(book, ToSet(level.queue))
  <2>1. SoundLevel(level, book, I, order.side, order.price)
    BY <1>3, LevelHolds
  <2> HIDE DEF level
  <2> QED  BY <2>1 DEF SoundLevel
<1>5. /\ DOMAIN after.levels = Sides
      /\ DOMAIN after.nodes = DOMAIN book.nodes \ {id}
      /\ \A other \in DOMAIN after.nodes : after.nodes[other] = book.nodes[other]
  BY <1>1 DEF Canceled
<1>6. ASSUME NEW side \in Sides, NEW price \in DOMAIN after.levels[side]
      PROVE  /\ price \in DOMAIN book.levels[side]
             /\ Own(side, price) =>
                  /\ queue # <<>>
                  /\ after.levels[side][price] =
                       [total |-> level.total - order.quantity, queue |-> queue]
             /\ ~ Own(side, price) => after.levels[side][price] = book.levels[side][price]
  <2>1. price \in DOMAIN book.levels[side] \
                    (IF side = order.side /\ queue = <<>> THEN {order.price} ELSE {})
    BY <1>1, <1>6 DEF Canceled
  <2>2. after.levels[side][price] =
          IF Own(side, price) THEN [total |-> level.total - order.quantity, queue |-> queue]
                              ELSE book.levels[side][price]
    BY <1>1, <1>6 DEF Canceled
  <2> HIDE DEF level, order, queue
  <2> QED  BY <2>1, <2>2
<1>7. ASSUME NEW side \in Sides, NEW price \in DOMAIN book.levels[side],
             ~ Own(side, price) \/ queue # <<>>
      PROVE  price \in DOMAIN after.levels[side]
  BY <1>1, <1>7 DEF Canceled
<1> HIDE DEF level
<1>8. /\ queue \in Seq(I)
      /\ IsInjective(queue)
      /\ \A j \in 1 .. Len(queue) : \E k \in 1 .. Len(level.queue) : queue[j] = level.queue[k]
      /\ ToSet(queue) = ToSet(level.queue) \ {id}
  <2>1. PICK k \in 1 .. Len(level.queue) : level.queue[k] = id
    BY <1>3
  <2>2. /\ queue \in Seq(I)
        /\ Len(queue) = Len(level.queue) - 1
        /\ \A j \in 1 .. Len(level.queue) - 1 :
              queue[j] = IF j < k THEN level.queue[j] ELSE level.queue[j + 1]
        /\ IsInjective(queue)
        /\ ToSet(queue) = ToSet(level.queue) \ {id}
    <3>1. Erased(queue, level.queue, I, k)
      BY <1>4, <2>1, EraseProperties
    <3> HIDE DEF queue
    <3> QED  BY <2>1, <3>1 DEF Erased
  <2>3. Len(level.queue) \in Nat
    BY <1>4
  <2>4. ASSUME NEW j \in 1 .. Len(level.queue) - 1
        PROVE  j \in 1 .. Len(level.queue) /\ j + 1 \in 1 .. Len(level.queue)
    BY <2>3
  <2> HIDE DEF queue
  <2> QED  BY <2>2, <2>4
<1> HIDE DEF queue
<1>9. DOMAIN queue = 1 .. Len(queue) /\ Len(queue) \in Nat
  BY <1>8
<1>10. ASSUME NEW k \in 1 .. Len(queue)
       PROVE  /\ queue[k] \in DOMAIN after.nodes
              /\ after.nodes[queue[k]].side = order.side
              /\ after.nodes[queue[k]].price = order.price
  <2>1. queue[k] \in ToSet(queue)
    BY <1>9 DEF ToSet
  <2>2. queue[k] # id
    BY <1>8, <2>1
  <2>3. PICK j \in 1 .. Len(level.queue) : queue[k] = level.queue[j]
    BY <1>8
  <2> QED  BY <1>4, <1>5, <2>2, <2>3
<1>11. /\ level.total - order.quantity \in Nat
       /\ level.total - order.quantity = QuantityOf(after, ToSet(queue))
  <2>1. id \in ToSet(level.queue)
    <3>1. DOMAIN level.queue = 1 .. Len(level.queue)
      BY <1>4
    <3> QED  BY <1>3, <3>1 DEF ToSet
  <2>2. /\ ToSet(level.queue) = ToSet(queue) \cup {id}
        /\ id \notin ToSet(queue)
        /\ ToSet(queue) \subseteq DOMAIN after.nodes
    BY <1>4, <1>5, <1>8, <2>1
  <2>3. IsFiniteSet(ToSet(queue))
    BY <1>4, <1>8, FS_RemoveElement
  <2>4. \A o \in ToSet(queue) \cup {id} : book.nodes[o].quantity \in Nat
    BY <1>2, <1>4, <2>2
  <2>5. /\ QuantityOf(book, ToSet(queue)) \in Nat
        /\ QuantityOf(book, ToSet(queue) \cup {id}) =
              QuantityOf(book, ToSet(queue)) + order.quantity
    BY <2>2, <2>3, <2>4, QuantityAdds
  <2>6. QuantityOf(book, ToSet(queue)) = QuantityOf(after, ToSet(queue))
    BY <1>5, <2>2, QuantitySame
  <2>7. order.quantity \in Nat
    BY <1>2
  <2> QED  BY <1>4, <2>2, <2>5, <2>6, <2>7
<1>12. IsBook(after, I, P)
  <2>1. IsFiniteSet(DOMAIN after.nodes)
    BY <1>2, <1>5, FS_RemoveElement
  <2>2. ASSUME NEW side \in Sides, NEW price \in DOMAIN after.levels[side]
        PROVE  price \in P /\ after.levels[side][price] \in [total : Nat, queue : Seq(I)]
    <3>1. price \in DOMAIN book.levels[side] /\ price \in P
      BY <1>2, <1>6
    <3>2. CASE Own(side, price)
      BY <1>6, <1>8, <1>11, <3>1, <3>2
    <3>3. CASE ~ Own(side, price)
      BY <1>6, <3>1, <3>3, LevelHolds
    <3> QED  BY <3>2, <3>3
  <2> QED  BY <1>2, <1>5, <2>1, <2>2 DEF IsBook
<1>13. QueuesMatchIndex(after)
  <2>1. ASSUME NEW side \in Sides, NEW price \in DOMAIN after.levels[side]
        PROVE  LET q == after.levels[side][price].queue
               IN  /\ q # <<>>
                   /\ IsInjective(q)
                   /\ \A k \in DOMAIN q :
                         /\ Resting(after, q[k])
                         /\ after.nodes[q[k]].side = side
                         /\ after.nodes[q[k]].price = price
    <3>1. CASE Own(side, price)
      <4>1. after.levels[side][price].queue = queue /\ queue # <<>>
        BY <1>6, <3>1
      <4> QED  BY <1>8, <1>9, <1>10, <3>1, <4>1 DEF Resting
    <3>2. CASE ~ Own(side, price)
      <4> DEFINE q == book.levels[side][price].queue
      <4>1. price \in DOMAIN book.levels[side] /\ after.levels[side][price].queue = q
        BY <1>6, <3>2
      <4>2. /\ q # <<>> /\ IsInjective(q)
            /\ DOMAIN q = 1 .. Len(q)
            /\ \A k \in 1 .. Len(q) :
                  /\ q[k] \in DOMAIN book.nodes
                  /\ book.nodes[q[k]].side = side
                  /\ book.nodes[q[k]].price = price
        <5>1. q # <<>> /\ SoundLevel(book.levels[side][price], book, I, side, price)
          BY <4>1, LevelHolds
        <5> QED  BY <5>1 DEF SoundLevel
      <4>3. \A k \in 1 .. Len(q) : q[k] # id
        BY <3>2, <4>2
      <4> HIDE DEF q
      <4> QED  BY <1>5, <4>1, <4>2, <4>3 DEF Resting
    <3> QED  BY <3>1, <3>2
  <2>2. ASSUME NEW other \in DOMAIN after.nodes
        PROVE  LET o == after.nodes[other]
               IN  /\ o.price \in DOMAIN after.levels[o.side]
                   /\ Contains(after.levels[o.side][o.price].queue, other)
    <3> DEFINE o == book.nodes[other]
               q == book.levels[o.side][o.price].queue
    <3>1. other \in DOMAIN book.nodes /\ other # id /\ after.nodes[other] = o
      BY <1>5
    <3>2. /\ o.side \in Sides /\ o.price \in DOMAIN book.levels[o.side]
          /\ \E k \in 1 .. Len(q) : q[k] = other
      BY <3>1, PlaceInQueue
    <3>3. CASE Own(o.side, o.price)
      <4>1. q = level.queue
        BY <3>3 DEF level
      <4>2. other \in ToSet(level.queue)
        <5>1. DOMAIN level.queue = 1 .. Len(level.queue)
          BY <1>4
        <5> QED  BY <3>2, <4>1, <5>1 DEF ToSet
      <4>3. other \in ToSet(queue)
        BY <1>8, <3>1, <4>2
      <4>4. Contains(queue, other)
        BY <1>9, <4>3 DEF ToSet, Contains
      <4>5. queue # <<>>
        BY <4>4 DEF Contains
      <4>6. o.price \in DOMAIN after.levels[o.side]
        BY <1>7, <3>2, <4>5
      <4>7. after.levels[o.side][o.price].queue = queue
        <5>1. after.levels[o.side][o.price] =
                [total |-> level.total - order.quantity, queue |-> queue]
          BY <1>6, <3>2, <3>3, <4>6, Zenon
        <5> QED  BY <5>1
      <4> QED  BY <3>1, <4>4, <4>6, <4>7
    <3>4. CASE ~ Own(o.side, o.price)
      <4>1. o.price \in DOMAIN after.levels[o.side]
        BY <1>7, <3>2, <3>4
      <4>2. after.levels[o.side][o.price] = book.levels[o.side][o.price]
        BY <1>6, <3>2, <3>4, <4>1
      <4> QED  BY <3>1, <3>2, <4>1, <4>2 DEF Contains
    <3> QED  BY <3>3, <3>4
  <2> QED  BY <2>1, <2>2 DEF QueuesMatchIndex
<1>14. TotalsMatchOrders(after)
  <2>1. ASSUME NEW side \in Sides, NEW price \in DOMAIN after.levels[side]
        PROVE  after.levels[side][price].total =
                 QuantityOf(after, ToSet(after.levels[side][price].queue))
    <3>1. CASE Own(side, price)
      <4>1. /\ after.levels[side][price].queue = queue
            /\ after.levels[side][price].total = level.total - order.quantity
        BY <1>6, <3>1
      <4> QED  BY <1>11, <4>1
    <3>2. CASE ~ Own(side, price)
      <4> DEFINE q == book.levels[side][price].queue
      <4>1. /\ price \in DOMAIN book.levels[side]
            /\ after.levels[side][price] = book.levels[side][price]
        BY <1>6, <3>2
      <4>2. /\ q \in Seq(I) /\ DOMAIN q = 1 .. Len(q)
            /\ \A k \in 1 .. Len(q) :
                  /\ q[k] \in DOMAIN book.nodes
                  /\ book.nodes[q[k]].side = side
                  /\ book.nodes[q[k]].price = price
            /\ book.levels[side][price].total = QuantityOf(book, ToSet(q))
        <5>1. SoundLevel(book.levels[side][price], book, I, side, price)
          BY <4>1, LevelHolds
        <5> QED  BY <5>1 DEF SoundLevel
      <4>3. \A k \in 1 .. Len(q) : q[k] # id
        BY <3>2, <4>2
      <4>4. ToSet(q) \subseteq DOMAIN after.nodes
        BY <1>5, <4>2, <4>3 DEF ToSet
      <4>5. QuantityOf(book, ToSet(q)) = QuantityOf(after, ToSet(q))
        BY <1>5, <4>4, QuantitySame
      <4> QED  BY <4>1, <4>2, <4>5
    <3> QED  BY <3>1, <3>2
  <2> QED  BY <2>1 DEF TotalsMatchOrders
<1> QED  BY <1>12, <1>13, <1>14 DEF SoundBook, after
\* What reduce_order leaves when it does not take the whole order.
Reduced(after, book, id, quantity) ==
  LET order == book.nodes[id]
  IN  /\ DOMAIN after.levels = Sides
      /\ \A side \in Sides : DOMAIN after.levels[side] = DOMAIN book.levels[side]
      /\ \A side \in Sides : \A price \in DOMAIN book.levels[side] :
            /\ after.levels[side][price].queue = book.levels[side][price].queue
            /\ after.levels[side][price] \in [total : Int, queue : {book.levels[side][price].queue}]
            /\ after.levels[side][price].total =
                 IF side = order.side /\ price = order.price
                 THEN book.levels[side][price].total - quantity
                 ELSE book.levels[side][price].total
      /\ DOMAIN after.nodes = DOMAIN book.nodes
      /\ after.nodes[id] = [book.nodes[id] EXCEPT !.quantity = @ - quantity]
      /\ \A other \in DOMAIN book.nodes \ {id} : after.nodes[other] = book.nodes[other]

\* reduce_order by less than an order offers changes one order and one total.
LEMMA ReduceOrderReduces ==
  ASSUME NEW book, NEW I, NEW P, SoundBook(book, I, P), NEW id \in DOMAIN book.nodes,
         NEW quantity \in Nat \ {0}, quantity < book.nodes[id].quantity
  PROVE  Reduced(ReduceOrder(book, id, quantity), book, id, quantity)
<1> DEFINE after == ReduceOrder(book, id, quantity)
           order == book.nodes[id]
           old   == book.levels[order.side]
           level == old[order.price]
           new   == [level EXCEPT !.total = level.total - quantity]
<1>1. /\ order.side \in Sides /\ DOMAIN book.levels = Sides
      /\ order.price \in DOMAIN old
      /\ order.quantity \in Nat
  BY PlaceInQueue DEF SoundBook, IsBook, Offer
<1>2. /\ after.levels = [book.levels EXCEPT ![order.side] =
                            [old EXCEPT ![order.price] = new]]
      /\ after.nodes = [book.nodes EXCEPT ![id].quantity = @ - quantity]
  <2>1. ~ quantity >= order.quantity
    BY <1>1
  <2> QED  BY <1>1, <2>1 DEF ReduceOrder
<1> HIDE DEF after
<1>3. \A side \in Sides : \A price \in DOMAIN book.levels[side] :
        book.levels[side][price] \in [total : Nat, queue : Seq(I)]
  BY DEF SoundBook, IsBook
<1>4. /\ new \in [total : Int, queue : {level.queue}]
      /\ new.queue = level.queue /\ new.total = level.total - quantity
  <2>1. level \in [total : Nat, queue : Seq(I)]
    BY <1>1, <1>3
  <2> HIDE DEF level
  <2> QED  BY <2>1
<1> HIDE DEF new
<1>5. /\ DOMAIN after.levels = Sides
      /\ after.levels[order.side] = [old EXCEPT ![order.price] = new]
  BY <1>1, <1>2
<1>6. ASSUME NEW side \in Sides, side # order.side
      PROVE  after.levels[side] = book.levels[side]
  BY <1>1, <1>2, <1>6
<1>7. /\ DOMAIN after.levels[order.side] = DOMAIN old
      /\ after.levels[order.side][order.price] = new
      /\ \A price \in DOMAIN old \ {order.price} : after.levels[order.side][price] = old[price]
  BY <1>1, <1>5
<1>8. ASSUME NEW side \in Sides, NEW price \in DOMAIN book.levels[side]
      PROVE  /\ after.levels[side][price].queue = book.levels[side][price].queue
             /\ after.levels[side][price] \in
                  [total : Int, queue : {book.levels[side][price].queue}]
             /\ after.levels[side][price].total =
                  IF side = order.side /\ price = order.price
                  THEN book.levels[side][price].total - quantity
                  ELSE book.levels[side][price].total
  <2>1. CASE side = order.side /\ price = order.price
    BY <1>4, <1>7, <2>1
  <2>2. CASE ~ (side = order.side /\ price = order.price)
    <3>1. after.levels[side][price] = book.levels[side][price]
      BY <1>6, <1>7, <2>2
    <3> QED  BY <1>3, <2>2, <3>1
  <2> QED  BY <2>1, <2>2
<1>9. /\ DOMAIN after.nodes = DOMAIN book.nodes
      /\ after.nodes[id] = [order EXCEPT !.quantity = @ - quantity]
      /\ \A other \in DOMAIN book.nodes \ {id} : after.nodes[other] = book.nodes[other]
  BY <1>2
<1>10. \A side \in Sides : DOMAIN after.levels[side] = DOMAIN book.levels[side]
  BY <1>6, <1>7
<1> HIDE DEF order
<1>11. Reduced(after, book, id, quantity)
  BY <1>5, <1>8, <1>9, <1>10 DEF Reduced, order
<1> QED  BY <1>11 DEF after

\* Reducing an order that rests keeps a book sound.
LEMMA ReduceOrderSound ==
  ASSUME NEW book, NEW I, NEW P, SoundBook(book, I, P), NEW id \in DOMAIN book.nodes,
         NEW quantity \in Nat \ {0}
  PROVE  SoundBook(ReduceOrder(book, id, quantity), I, P)
<1> DEFINE after == ReduceOrder(book, id, quantity)
           order == book.nodes[id]
<1>1. /\ IsFiniteSet(DOMAIN book.nodes) /\ DOMAIN book.nodes \subseteq I
      /\ \A other \in DOMAIN book.nodes : book.nodes[other] \in Offer(P)
      /\ DOMAIN book.levels = Sides
      /\ \A side \in Sides : DOMAIN book.levels[side] \subseteq P
  BY DEF SoundBook, IsBook
<1>2. order \in Offer(P) /\ order.quantity \in Nat
  BY <1>1 DEF Offer
<1>3. CASE quantity >= order.quantity
  BY <1>3, CancelOrderSound DEF ReduceOrder
<1>4. CASE quantity < order.quantity
  <2>1. Reduced(after, book, id, quantity)
    BY <1>4, ReduceOrderReduces
  <2> HIDE DEF after
  <2>2. /\ DOMAIN after.levels = Sides
        /\ \A side \in Sides : DOMAIN after.levels[side] = DOMAIN book.levels[side]
        /\ DOMAIN after.nodes = DOMAIN book.nodes
        /\ after.nodes[id] = [order EXCEPT !.quantity = @ - quantity]
        /\ \A other \in DOMAIN book.nodes \ {id} : after.nodes[other] = book.nodes[other]
    BY <2>1 DEF Reduced
  <2>3. ASSUME NEW side \in Sides, NEW price \in DOMAIN book.levels[side]
        PROVE  /\ after.levels[side][price].queue = book.levels[side][price].queue
               /\ after.levels[side][price] \in
                    [total : Int, queue : {book.levels[side][price].queue}]
               /\ after.levels[side][price].total =
                    IF side = order.side /\ price = order.price
                    THEN book.levels[side][price].total - quantity
                    ELSE book.levels[side][price].total
    BY <2>1 DEF Reduced
  <2>4. /\ after.nodes[id] \in Offer(P)
        /\ after.nodes[id].side = order.side /\ after.nodes[id].price = order.price
        /\ after.nodes[id].quantity = order.quantity - quantity
    <3>1. order.quantity - quantity \in Nat \ {0}
      BY <1>2, <1>4
    <3> QED  BY <1>2, <2>2, <3>1 DEF Offer
  <2>5. \A other \in DOMAIN book.nodes :
           /\ after.nodes[other] \in Offer(P)
           /\ after.nodes[other].side = book.nodes[other].side
           /\ after.nodes[other].price = book.nodes[other].price
    BY <1>1, <2>2, <2>4
  <2> HIDE DEF order
  <2>6. ASSUME NEW side \in Sides, NEW price \in DOMAIN book.levels[side]
        PROVE  /\ after.levels[side][price].total \in Nat
               /\ after.levels[side][price].total =
                    QuantityOf(after, ToSet(book.levels[side][price].queue))
    <3> DEFINE level == book.levels[side][price]
               ids   == ToSet(level.queue)
    <3>1. SoundLevel(level, book, I, side, price)
      BY LevelHolds
    <3> HIDE DEF level
    <3>2. /\ level.total \in Nat /\ IsFiniteSet(ids) /\ ids \subseteq DOMAIN book.nodes
          /\ level.total = QuantityOf(book, ids)
          /\ DOMAIN level.queue = 1 .. Len(level.queue)
          /\ \A k \in 1 .. Len(level.queue) :
                /\ book.nodes[level.queue[k]].side = side
                /\ book.nodes[level.queue[k]].price = price
      BY <3>1 DEF SoundLevel
    <3>3. CASE side = order.side /\ price = order.price
      <4> DEFINE others == ids \ {id}
      <4>1. id \in ids
        <5>1. \E k \in 1 .. Len(level.queue) : level.queue[k] = id
          <6>1. \E k \in 1 .. Len(book.levels[order.side][order.price].queue) :
                   book.levels[order.side][order.price].queue[k] = id
            BY PlaceInQueue DEF order
          <6> QED  BY <3>3, <6>1, Zenon DEF level
        <5> QED  BY <3>2, <5>1 DEF ToSet
      <4>2. IsFiniteSet(others) /\ id \notin others /\ others \cup {id} = ids
        BY <3>2, <4>1, FS_RemoveElement
      <4>3. \A o \in ids : book.nodes[o].quantity \in Nat /\ after.nodes[o].quantity \in Nat
        BY <1>1, <2>5, <3>2 DEF Offer
      <4>4. QuantityOf(book, others) = QuantityOf(after, others)
        BY <2>2, <3>2, QuantitySame
      <4> HIDE DEF others, ids
      <4>5. /\ QuantityOf(book, others) \in Nat
            /\ QuantityOf(book, ids) = QuantityOf(book, others) + order.quantity
        BY <4>2, <4>3, QuantityAdds DEF order
      <4>6. QuantityOf(after, ids) = QuantityOf(after, others) + after.nodes[id].quantity
        BY <4>2, <4>3, QuantityAdds
      <4>7. level.total - quantity = QuantityOf(after, ids)
        BY <1>2, <2>4, <3>2, <4>4, <4>5, <4>6 DEF order
      <4>8. level.total - quantity \in Nat
        BY <1>2, <1>4, <3>2, <4>5 DEF order
      <4> QED  BY <2>3, <3>3, <4>7, <4>8 DEF level, ids
    <3>4. CASE ~ (side = order.side /\ price = order.price)
      <4>1. id \notin ids
        BY <3>2, <3>4 DEF ToSet, order
      <4>2. QuantityOf(book, ids) = QuantityOf(after, ids)
        BY <2>2, <3>2, <4>1, QuantitySame
      <4> HIDE DEF ids
      <4> QED  BY <2>3, <3>2, <3>4, <4>2 DEF level, ids
    <3> QED  BY <3>3, <3>4
  <2>7. IsBook(after, I, P)
    <3>1. ASSUME NEW side \in Sides, NEW price \in DOMAIN book.levels[side]
          PROVE  after.levels[side][price] \in [total : Nat, queue : Seq(I)]
      <4>1. book.levels[side][price].queue \in Seq(I)
        BY DEF SoundBook, IsBook
      <4> QED  BY <2>3, <2>6, <4>1
    <3> QED  BY <1>1, <2>2, <2>5, <3>1 DEF IsBook
  <2>8. QueuesMatchIndex(after)
    <3>1. QueuesMatchIndex(book)
      BY DEF SoundBook
    <3>2. ASSUME NEW side \in Sides, NEW price \in DOMAIN after.levels[side]
          PROVE  LET queue == after.levels[side][price].queue
                 IN  /\ queue # <<>>
                     /\ IsInjective(queue)
                     /\ \A k \in DOMAIN queue :
                           /\ Resting(after, queue[k])
                           /\ after.nodes[queue[k]].side = side
                           /\ after.nodes[queue[k]].price = price
      <4> DEFINE queue == book.levels[side][price].queue
      <4>1. price \in DOMAIN book.levels[side] /\ after.levels[side][price].queue = queue
        BY <2>2, <2>3
      <4>2. /\ queue # <<>> /\ IsInjective(queue)
            /\ \A k \in DOMAIN queue : /\ queue[k] \in DOMAIN book.nodes
                                       /\ book.nodes[queue[k]].side = side
                                       /\ book.nodes[queue[k]].price = price
        <5>1. queue # <<>> /\ SoundLevel(book.levels[side][price], book, I, side, price)
          BY <4>1, LevelHolds
        <5> QED  BY <5>1 DEF SoundLevel
      <4> HIDE DEF queue
      <4> QED  BY <2>2, <2>5, <4>1, <4>2 DEF Resting
    <3>3. ASSUME NEW other \in DOMAIN after.nodes
          PROVE  LET o == after.nodes[other]
                 IN  /\ o.price \in DOMAIN after.levels[o.side]
                     /\ Contains(after.levels[o.side][o.price].queue, other)
      <4> DEFINE o == book.nodes[other]
      <4>1. other \in DOMAIN book.nodes /\ o.side \in Sides
        BY <1>1, <2>2 DEF Offer
      <4>2. /\ o.price \in DOMAIN book.levels[o.side]
            /\ Contains(book.levels[o.side][o.price].queue, other)
        BY <3>1, <4>1 DEF QueuesMatchIndex
      <4>3. after.nodes[other].side = o.side /\ after.nodes[other].price = o.price
        BY <2>5, <4>1
      <4> HIDE DEF o
      <4>4. after.levels[o.side][o.price].queue = book.levels[o.side][o.price].queue
        BY <2>3, <4>1, <4>2
      <4> QED  BY <2>2, <4>1, <4>2, <4>3, <4>4
    <3> QED  BY <3>2, <3>3 DEF QueuesMatchIndex
  <2>9. TotalsMatchOrders(after)
    BY <2>2, <2>3, <2>6 DEF TotalsMatchOrders
  <2> QED  BY <2>7, <2>8, <2>9 DEF SoundBook, after
<1> QED  BY <1>2, <1>3, <1>4

\* Replacing an order that rests keeps a book sound.
LEMMA ReplaceOrderSound ==
  ASSUME NEW book, NEW I, NEW P, SoundBook(book, I, P), NEW id \in DOMAIN book.nodes,
         NEW price \in P, NEW quantity \in Nat \ {0}
  PROVE  SoundBook(ReplaceOrder(book, id, price, quantity), I, P)
<1> DEFINE left  == CancelOrder(book, id)
           order == [book.nodes[id] EXCEPT !.price = price, !.quantity = quantity]
<1>1. SoundBook(left, I, P)
  BY CancelOrderSound
<1>2. ~ Resting(left, id)
  <2>1. Canceled(left, book, id)
    BY CancelOrderCancels
  <2> HIDE DEF left
  <2>2. DOMAIN left.nodes = DOMAIN book.nodes \ {id}
    BY <2>1 DEF Canceled
  <2> QED  BY <2>2 DEF Resting
<1>3. order \in Offer(P) /\ id \in I
  BY DEF SoundBook, IsBook, Offer
<1> HIDE DEF left, order
<1>4. SoundBook(AddOrder(left, id, order), I, P)
  BY <1>1, <1>2, <1>3, AddOrderSound
<1> QED  BY <1>4 DEF ReplaceOrder, left, order

-------------------------------------------------------------------------------
(* Best prices.                                                            *)

\* Prices are strictly ordered from best to worst.
LEMMA BetterOrders ==
  ASSUME NEW side, NEW p \in Nat, NEW q \in Nat
  PROVE  /\ ~ Better(side, p, p)
         /\ Better(side, p, q) => ~ Better(side, q, p)
         /\ p # q => Better(side, p, q) \/ Better(side, q, p)
         /\ \A r \in Nat : Better(side, p, q) /\ Better(side, q, r) => Better(side, p, r)
         /\ \A r \in Nat : Better(side, p, q) /\ ~ Better(side, r, q) => Better(side, p, r)
  BY DEF Better

\* How many prices are better, plus one.
Rank(S, side) == [x \in S |-> Cardinality({y \in S : Better(side, y, x)}) + 1]

Ranks(rank, S, side) ==
  /\ Cardinality(S) \in Nat
  /\ rank \in [S -> 1 .. Cardinality(S)]
  /\ \A x, y \in S : rank[x] < rank[y] <=> Better(side, x, y)
  /\ \A x, y \in S : rank[x] = rank[y] => x = y
  /\ \A k \in 1 .. Cardinality(S) : \E x \in S : rank[x] = k

\* Finitely many prices have the ranks 1, 2, ... without gaps.
LEMMA PricesAreRanked ==
  ASSUME NEW S \in SUBSET Nat, IsFiniteSet(S), NEW side
  PROVE  Ranks(Rank(S, side), S, side)
<1> DEFINE n == Cardinality(S)
           Ahead(x) == {y \in S : Better(side, y, x)}
           rank == [x \in S |-> Cardinality(Ahead(x)) + 1]
<1> SUFFICES Ranks(rank, S, side)
  BY DEF Rank
<1>1. n \in Nat
  BY FS_CardinalityType
<1>2. ASSUME NEW x \in S
      PROVE  /\ IsFiniteSet(Ahead(x)) /\ Cardinality(Ahead(x)) \in Nat
             /\ Cardinality(Ahead(x)) < n
  <2>1. /\ IsFiniteSet(Ahead(x)) /\ Cardinality(Ahead(x)) <= n
        /\ n = Cardinality(Ahead(x)) => S = Ahead(x)
    BY FS_Subset
  <2>2. x \notin Ahead(x)
    BY BetterOrders
  <2>3. Cardinality(Ahead(x)) \in Nat
    BY <2>1, FS_CardinalityType
  <2> QED  BY <1>1, <2>1, <2>2, <2>3
<1>3. ASSUME NEW x \in S, NEW y \in S, Better(side, x, y)
      PROVE  Cardinality(Ahead(x)) < Cardinality(Ahead(y))
  <2>1. Ahead(x) \in SUBSET Ahead(y)
    BY <1>3, BetterOrders
  <2>2. x \in Ahead(y) /\ x \notin Ahead(x)
    BY <1>3, BetterOrders
  <2>3. /\ Cardinality(Ahead(x)) <= Cardinality(Ahead(y))
        /\ Cardinality(Ahead(y)) = Cardinality(Ahead(x)) => Ahead(y) = Ahead(x)
    BY <1>2, <2>1, FS_Subset
  <2> HIDE DEF Ahead
  <2> QED  BY <1>2, <2>2, <2>3
<1> HIDE DEF Ahead
<1>4. rank \in [S -> 1 .. n]
  BY <1>1, <1>2
<1>5. \A x, y \in S : Better(side, x, y) => rank[x] < rank[y]
  BY <1>2, <1>3
<1>6. \A x \in S : rank[x] \in Nat
  BY <1>1, <1>4
<1> HIDE DEF rank, n
<1>7. \A x, y \in S : rank[x] = rank[y] => x = y
  <2> SUFFICES ASSUME NEW x \in S, NEW y \in S, x # y PROVE rank[x] # rank[y]
    OBVIOUS
  <2>1. Better(side, x, y) \/ Better(side, y, x)
    BY BetterOrders
  <2> QED  BY <1>5, <1>6, <2>1
<1>8. \A x, y \in S : rank[x] < rank[y] <=> Better(side, x, y)
  <2> SUFFICES ASSUME NEW x \in S, NEW y \in S, rank[x] < rank[y] PROVE Better(side, x, y)
    BY <1>5
  <2>1. x # y
    BY <1>6
  <2>2. Better(side, x, y) \/ Better(side, y, x)
    BY <2>1, BetterOrders
  <2> QED  BY <1>5, <1>6, <2>2
<1>9. \A k \in 1 .. n : \E x \in S : rank[x] = k
  <2>1. rank \in Injection(S, 1 .. n)
    BY <1>4, <1>7, Fun_IsInj
  <2>2. IsFiniteSet(1 .. n) /\ Cardinality(1 .. n) = n
    BY <1>1, FS_Interval
  <2>3. rank \in Surjection(S, 1 .. n)
    BY <2>1, <2>2, FS_Injection DEF n
  <2> QED  BY <2>3, Fun_SurjectionProperties
<1> QED  BY <1>1, <1>4, <1>7, <1>8, <1>9 DEF Ranks, n

\* All of the prices, best first, each behind exactly those that are better.
Sorts(s, S, side) ==
  LET n == Cardinality(S)
  IN  /\ n \in Nat
      /\ s \in [1 .. n -> S]
      /\ \A j, k \in 1 .. n : j < k => Better(side, s[j], s[k])
      /\ \A p \in S : \E k \in 1 .. n : s[k] = p
      /\ \A k \in 1 .. n : Cardinality({p \in S : Better(side, p, s[k])}) = k - 1

\* A side's prices can be put in its order.
LEMMA BestFirstSorts ==
  ASSUME NEW S \in SUBSET Nat, IsFiniteSet(S), NEW side
  PROVE  Sorts(BestFirst(S, side), S, side)
<1> DEFINE n == Cardinality(S)
           rank == Rank(S, side)
           byRank == [k \in 1 .. n |-> CHOOSE x \in S : rank[x] = k]
           s == BestFirst(S, side)
<1>1. /\ n \in Nat /\ rank \in [S -> 1 .. n]
      /\ \A x, y \in S : rank[x] < rank[y] <=> Better(side, x, y)
      /\ \A x, y \in S : rank[x] = rank[y] => x = y
      /\ \A k \in 1 .. n : \E x \in S : rank[x] = k
  BY PricesAreRanked DEF Ranks
<1>2. \A x \in S : Cardinality({y \in S : Better(side, y, x)}) = rank[x] - 1
  <2>1. \A x \in S : IsFiniteSet({y \in S : Better(side, y, x)})
    BY FS_Subset
  <2>2. \A x \in S : Cardinality({y \in S : Better(side, y, x)}) \in Nat
    BY <2>1, FS_CardinalityType
  <2> QED  BY <2>2 DEF Rank
<1> HIDE DEF rank, n
<1>3. byRank \in [1 .. n -> S] /\ \A k \in 1 .. n : rank[byRank[k]] = k
  BY <1>1
<1> HIDE DEF byRank
<1>4. \A j, k \in DOMAIN byRank : j < k => Better(side, byRank[j], byRank[k])
  BY <1>1, <1>3
<1>5. /\ s \in [1 .. n -> S]
      /\ \A j, k \in DOMAIN s : j < k => Better(side, s[j], s[k])
  BY <1>3, <1>4 DEF BestFirst, n
<1> HIDE DEF s
<1>6. \A j, k \in 1 .. n : s[j] = s[k] => j = k
  <2> SUFFICES ASSUME NEW j \in 1 .. n, NEW k \in 1 .. n, j < k PROVE s[j] # s[k]
    BY <1>1
  <2>1. Better(side, s[j], s[k]) /\ s[j] \in Nat /\ s[k] \in Nat
    BY <1>5
  <2> QED  BY <2>1, BetterOrders
<1>7. \A p \in S : \E k \in 1 .. n : s[k] = p
  <2>1. s \in Injection(1 .. n, S)
    BY <1>5, <1>6, Fun_IsInj
  <2>2. IsFiniteSet(1 .. n) /\ Cardinality(1 .. n) = n
    BY <1>1, FS_Interval
  <2>3. s \in Surjection(1 .. n, S)
    BY <2>1, <2>2, FS_Injection DEF n
  <2> QED  BY <2>3 DEF Surjection
<1>8. ASSUME NEW k \in 1 .. n
      PROVE  Cardinality({p \in S : Better(side, p, s[k])}) = k - 1
  <2> DEFINE ahead == {p \in S : Better(side, p, s[k])}
             first == [j \in 1 .. k - 1 |-> s[j]]
  <2>1. /\ k \in Nat /\ k - 1 \in Nat
        /\ \A j \in 1 .. k - 1 : j \in 1 .. n /\ j < k
        /\ \A j \in 1 .. n : j < k => j \in 1 .. k - 1
    BY <1>1
  <2>2. first \in [1 .. k - 1 -> ahead]
    BY <1>5, <2>1
  <2>3. \A i, j \in 1 .. k - 1 : first[i] = first[j] => i = j
    BY <1>6, <2>1
  <2>4. \A p \in ahead : \E j \in 1 .. k - 1 : first[j] = p
    <3> SUFFICES ASSUME NEW p \in S, Better(side, p, s[k])
                 PROVE  \E j \in 1 .. k - 1 : first[j] = p
      OBVIOUS
    <3>1. PICK j \in 1 .. n : s[j] = p
      BY <1>7
    <3>2. s[k] \in Nat /\ p \in Nat
      BY <1>5
    <3>3. j # k
      BY <3>1, <3>2, BetterOrders
    <3>4. ~ k < j
      <4>1. k < j => Better(side, s[k], s[j])
        BY <1>5
      <4> QED  BY <3>1, <3>2, <4>1, BetterOrders
    <3>5. j \in 1 .. k - 1
      BY <1>1, <3>3, <3>4
    <3> QED  BY <3>1, <3>5
  <2> HIDE DEF first, ahead
  <2>5. first \in Bijection(1 .. k - 1, ahead)
    BY <2>2, <2>3, <2>4, Fun_IsBij
  <2>6. IsFiniteSet(1 .. k - 1) /\ Cardinality(1 .. k - 1) = k - 1
    BY <2>1, FS_Interval
  <2> QED  BY <2>5, <2>6, FS_Bijection DEF ExistsBijection, ahead
<1>9. Sorts(s, S, side)
  BY <1>1, <1>5, <1>7, <1>8 DEF Sorts, n
<1> QED  BY <1>9 DEF s

\* The prices of a sound book are finitely many.
LEMMA LevelsFinite ==
  ASSUME NEW book, NEW I, NEW P, SoundBook(book, I, P), NEW side \in Sides
  PROVE  IsFiniteSet(DOMAIN book.levels[side])
<1> DEFINE prices == {book.nodes[id].price : id \in DOMAIN book.nodes}
           price  == [id \in DOMAIN book.nodes |-> book.nodes[id].price]
<1>1. IsFiniteSet(DOMAIN book.nodes)
  BY DEF SoundBook, IsBook
<1>2. price \in Surjection(DOMAIN book.nodes, prices)
  BY DEF Surjection
<1>3. IsFiniteSet(prices)
  BY <1>1, <1>2, FS_Surjection
<1>4. ASSUME NEW p \in DOMAIN book.levels[side] PROVE p \in prices
  <2> DEFINE level == book.levels[side][p]
  <2>1. level.queue # <<>> /\ SoundLevel(level, book, I, side, p)
    BY LevelHolds
  <2> HIDE DEF level
  <2>2. /\ level.queue \in Seq(I)
        /\ \A k \in 1 .. Len(level.queue) :
              /\ level.queue[k] \in DOMAIN book.nodes
              /\ book.nodes[level.queue[k]].price = p
    BY <2>1 DEF SoundLevel
  <2>3. 1 \in 1 .. Len(level.queue)
    BY <2>1, <2>2
  <2> QED  BY <2>2, <2>3
<1> QED  BY <1>3, <1>4, FS_Subset

\* best_bid and best_ask are live prices that no live price is better than,
\* and best_order is the oldest order there.
LEMMA BestOrderIsBest ==
  ASSUME NEW book, NEW I, NEW P \in SUBSET Nat, SoundBook(book, I, P),
         NEW side \in Sides, DOMAIN book.levels[side] # {}
  PROVE  LET price == BestPrice(book, side)
             id    == BestOrder(book, side)
         IN  /\ price \in DOMAIN book.levels[side] /\ price \in P
             /\ \A p \in DOMAIN book.levels[side] : ~ Better(side, p, price)
             /\ id \in DOMAIN book.nodes
             /\ book.nodes[id].side = side /\ book.nodes[id].price = price
<1> DEFINE S == DOMAIN book.levels[side]
           s == BestFirst(S, side)
           price == BestPrice(book, side)
           level == book.levels[side][price]
<1>1. S \in SUBSET Nat /\ S \subseteq P /\ IsFiniteSet(S)
  BY LevelsFinite DEF SoundBook, IsBook
<1>2. Cardinality(S) # 0 /\ Cardinality(S) \in Nat
  BY <1>1, FS_EmptySet, FS_CardinalityType
<1>3. /\ s \in [1 .. Cardinality(S) -> S]
      /\ \A j, k \in 1 .. Cardinality(S) : j < k => Better(side, s[j], s[k])
      /\ \A p \in S : \E k \in 1 .. Cardinality(S) : s[k] = p
  <2> HIDE DEF S
  <2>1. Sorts(s, S, side)
    BY <1>1, BestFirstSorts
  <2> HIDE DEF s
  <2> QED  BY <2>1 DEF Sorts
<1> HIDE DEF s, S
<1>4. s[1] \in S /\ \A p \in S : ~ Better(side, p, s[1])
  <2>1. 1 \in 1 .. Cardinality(S)
    BY <1>2
  <2>2. ASSUME NEW p \in S PROVE ~ Better(side, p, s[1])
    <3>1. PICK k \in 1 .. Cardinality(S) : s[k] = p
      BY <1>3
    <3>2. s[1] \in Nat /\ p \in Nat
      BY <1>1, <1>3, <2>1
    <3>3. CASE k = 1
      BY <3>1, <3>2, <3>3, BetterOrders
    <3>4. CASE 1 < k
      BY <1>3, <2>1, <3>1, <3>2, <3>4, BetterOrders
    <3> QED  BY <1>2, <3>3, <3>4
  <2> QED  BY <1>3, <2>1, <2>2
<1>5. price \in S /\ \A p \in S : ~ Better(side, p, price)
  <2>1. \A p \in S : p \in Nat
    BY <1>1
  <2>2. CASE side = "Buy"
    <3>1. \A p \in S : s[1] >= p
      BY <1>4, <2>1, <2>2 DEF Better
    <3>2. price = CHOOSE x \in S : \A y \in S : x >= y
      BY <2>2 DEF BestPrice, Max, S
    <3>3. price \in S /\ \A p \in S : price >= p
      BY <1>4, <3>1, <3>2, Zenon
    <3> HIDE DEF price
    <3> QED  BY <2>1, <2>2, <3>3 DEF Better
  <2>3. CASE side # "Buy"
    <3>1. \A p \in S : s[1] <= p
      BY <1>4, <2>1, <2>3 DEF Better
    <3>2. price = CHOOSE x \in S : \A y \in S : x <= y
      BY <2>3 DEF BestPrice, Min, S
    <3>3. price \in S /\ \A p \in S : price <= p
      BY <1>4, <3>1, <3>2, Zenon
    <3> HIDE DEF price
    <3> QED  BY <2>1, <2>3, <3>3 DEF Better
  <2> QED  BY <2>2, <2>3
<1> HIDE DEF price
<1>6. /\ BestOrder(book, side) \in DOMAIN book.nodes
      /\ book.nodes[BestOrder(book, side)].side = side
      /\ book.nodes[BestOrder(book, side)].price = price
  <2>1. BestOrder(book, side) = Head(level.queue)
    BY DEF BestOrder, price
  <2>2. level.queue # <<>> /\ SoundLevel(level, book, I, side, price)
    BY <1>5, LevelHolds DEF S
  <2> HIDE DEF level
  <2>3. /\ level.queue \in Seq(I)
        /\ \A k \in 1 .. Len(level.queue) :
              /\ level.queue[k] \in DOMAIN book.nodes
              /\ book.nodes[level.queue[k]].side = side
              /\ book.nodes[level.queue[k]].price = price
    BY <2>2 DEF SoundLevel
  <2>4. 1 \in 1 .. Len(level.queue) /\ Head(level.queue) = level.queue[1]
    BY <2>2, <2>3
  <2> QED  BY <2>1, <2>3, <2>4
<1> QED  BY <1>1, <1>5, <1>6 DEF price, S

-------------------------------------------------------------------------------
(* Views.                                                                  *)

\* A function on 1 .. n is a sequence of that length.
LEMMA IsSequence ==
  ASSUME NEW n \in Nat, NEW S, NEW f \in [1 .. n -> S]
  PROVE  f \in Seq(S) /\ Len(f) = n /\ DOMAIN f = 1 .. n
<1>1. f \in Seq(S)
  BY SeqDef
<1>2. Len(f) \in Nat /\ DOMAIN f = 1 .. Len(f)
  BY <1>1, LenProperties
<1> QED  BY <1>1, <1>2

\* The smaller of two numbers.
LEMMA MinOfTwo ==
  ASSUME NEW a \in Nat, NEW b \in Nat
  PROVE  Min({a, b}) = IF a <= b THEN a ELSE b
<1>1. CASE a <= b
  <2>1. \A x \in {a, b} : (\A y \in {a, b} : x <= y) => x = a
    BY <1>1
  <2>2. \A y \in {a, b} : a <= y
    BY <1>1
  <2> QED  BY <1>1, <2>1, <2>2 DEF Min
<1>2. CASE ~ a <= b
  <2>1. \A x \in {a, b} : (\A y \in {a, b} : x <= y) => x = b
    BY <1>2
  <2>2. \A y \in {a, b} : b <= y
    BY <1>2
  <2> QED  BY <1>2, <2>1, <2>2 DEF Min
<1> QED  BY <1>1, <1>2

\* The orders that rest on a side at a price.
Offered(book, side, price) ==
  {id \in DOMAIN book.nodes : book.nodes[id].side = side /\ book.nodes[id].price = price}

\* A level holds the orders of its side and price.
LEMMA LevelHoldsOffered ==
  ASSUME NEW book, NEW I, NEW P, SoundBook(book, I, P), NEW side \in Sides
  PROVE  /\ \A price \in DOMAIN book.levels[side] :
               /\ ToSet(book.levels[side][price].queue) = Offered(book, side, price)
               /\ Offered(book, side, price) # {}
               /\ book.levels[side][price].total =
                    QuantityOf(book, Offered(book, side, price))
         /\ \A price : Offered(book, side, price) # {} => price \in DOMAIN book.levels[side]
<1>1. ASSUME NEW price \in DOMAIN book.levels[side]
      PROVE  /\ ToSet(book.levels[side][price].queue) = Offered(book, side, price)
             /\ Offered(book, side, price) # {}
             /\ book.levels[side][price].total = QuantityOf(book, Offered(book, side, price))
  <2> DEFINE level == book.levels[side][price]
  <2>1. level.queue # <<>> /\ SoundLevel(level, book, I, side, price)
    BY LevelHolds
  <2>2. ASSUME NEW id \in Offered(book, side, price)
        PROVE  \E k \in 1 .. Len(level.queue) : level.queue[k] = id
    <3>1. /\ id \in DOMAIN book.nodes
          /\ book.nodes[id].side = side /\ book.nodes[id].price = price
      BY DEF Offered
    <3>2. \E k \in 1 .. Len(book.levels[book.nodes[id].side][book.nodes[id].price].queue) :
             book.levels[book.nodes[id].side][book.nodes[id].price].queue[k] = id
      BY <3>1, PlaceInQueue
    <3> QED  BY <3>1, <3>2, Zenon DEF level
  <2> HIDE DEF level
  <2>3. /\ level.queue \in Seq(I) /\ DOMAIN level.queue = 1 .. Len(level.queue)
        /\ \A k \in 1 .. Len(level.queue) :
              /\ level.queue[k] \in DOMAIN book.nodes
              /\ book.nodes[level.queue[k]].side = side
              /\ book.nodes[level.queue[k]].price = price
        /\ level.total = QuantityOf(book, ToSet(level.queue))
    BY <2>1 DEF SoundLevel
  <2>4. ToSet(level.queue) = Offered(book, side, price)
    BY <2>2, <2>3 DEF ToSet, Offered
  <2>5. level.queue[1] \in Offered(book, side, price)
    <3>1. 1 \in 1 .. Len(level.queue)
      BY <2>1, <2>3
    <3> QED  BY <2>3, <3>1 DEF Offered
  <2> QED  BY <2>3, <2>4, <2>5 DEF level
<1>2. ASSUME NEW price, Offered(book, side, price) # {}
      PROVE  price \in DOMAIN book.levels[side]
  <2>1. PICK id \in DOMAIN book.nodes :
           book.nodes[id].side = side /\ book.nodes[id].price = price
    BY <1>2 DEF Offered
  <2> QED  BY <2>1, PlaceInQueue
<1> QED  BY <1>1, <1>2

\* What a view of a side shows.
Shows(view, book, side, depth) ==
  LET prices == DOMAIN book.levels[side]
  IN  /\ Len(view) = Min({depth, Cardinality(prices)})
      /\ DOMAIN view = 1 .. Len(view)
      /\ \A k \in DOMAIN view :
            /\ view[k].price \in prices
            /\ view[k].quantity = book.levels[side][view[k].price].total
            /\ Cardinality({p \in prices : Better(side, p, view[k].price)}) = k - 1

\* fill_l2_view lists the best levels of a sound book, best first, without gaps.
LEMMA L2ViewShows ==
  ASSUME NEW book, NEW I, NEW P \in SUBSET Nat, SoundBook(book, I, P),
         NEW side \in Sides, NEW depth \in Nat
  PROVE  Shows(L2View(book, side, depth), book, side, depth)
<1> DEFINE prices == DOMAIN book.levels[side]
           n     == Cardinality(prices)
           best  == BestFirst(prices, side)
           m     == Min({depth, n})
           shown == SubSeq(best, 1, m)
           entry(k) == [price |-> shown[k], quantity |-> book.levels[side][shown[k]].total]
           view  == L2View(book, side, depth)
<1>1. prices \in SUBSET Nat /\ IsFiniteSet(prices)
  BY LevelsFinite DEF SoundBook, IsBook
<1>2. Sorts(best, prices, side)
  BY <1>1, BestFirstSorts
<1> HIDE DEF best
<1>3. n \in Nat /\ best \in [1 .. n -> prices]
  BY <1>2 DEF Sorts
<1>4. \A k \in 1 .. n : Cardinality({p \in prices : Better(side, p, best[k])}) = k - 1
  BY <1>2 DEF Sorts
<1> HIDE DEF n
<1>5. best \in Seq(prices) /\ Len(best) = n
  BY <1>3, IsSequence
<1>6. m \in Nat /\ m <= n
  BY <1>3, MinOfTwo
<1>7. view = [k \in DOMAIN shown |-> entry(k)]
  BY <1>5 DEF L2View, best
<1> HIDE DEF view, m
<1>8. shown \in [1 .. m -> prices] /\ \A k \in 1 .. m : k \in 1 .. n /\ shown[k] = best[k]
  <2>1. m \in 0 .. Len(best) /\ \A k \in 1 .. m : k \in 1 .. n
    BY <1>3, <1>5, <1>6
  <2>2. shown = Restrict(best, 1 .. m)
    BY <1>5, <2>1, SubSeqRestrict
  <2> HIDE DEF shown
  <2> QED  BY <1>3, <2>1, <2>2 DEF Restrict
<1>9. DOMAIN shown = 1 .. m
  BY <1>8
<1> HIDE DEF shown
<1>10. view \in [1 .. m -> {entry(k) : k \in 1 .. m}]
  BY <1>7, <1>9
<1>11. Len(view) = m /\ DOMAIN view = 1 .. m
  BY <1>6, <1>10, IsSequence
<1>12. ASSUME NEW k \in 1 .. m
       PROVE  /\ view[k].price = best[k] /\ best[k] \in prices
              /\ view[k].quantity = book.levels[side][best[k]].total
              /\ k \in 1 .. n
  BY <1>3, <1>7, <1>8, <1>9
<1>13. Shows(view, book, side, depth)
  BY <1>4, <1>11, <1>12 DEF Shows, m, n
<1> QED  BY <1>13 DEF view

-------------------------------------------------------------------------------
(* Queues.                                                                 *)

Pair(I) == [id : I, quantity : Nat]

\* A sequence shows the orders of a queue.
Pairs(s, q, book, I) ==
  /\ q \in Seq(I) /\ s \in Seq(Pair(I))
  /\ Len(s) = Len(q) /\ DOMAIN s = 1 .. Len(q) /\ DOMAIN q = 1 .. Len(q)
  /\ Len(q) \in Nat
  /\ \A k \in 1 .. Len(q) : s[k] = [id |-> q[k], quantity |-> book.nodes[q[k]].quantity]

\* What is shown of a level is its queue.
LEMMA QueuedPairs ==
  ASSUME NEW book, NEW I, NEW P, SoundBook(book, I, P), NEW side \in Sides, NEW price
  PROVE  Pairs(Queued(book, side, price), LevelAt(book, side, price).queue, book, I)
<1> DEFINE q == LevelAt(book, side, price).queue
           s == [k \in DOMAIN q |-> [id |-> q[k], quantity |-> book.nodes[q[k]].quantity]]
<1>1. /\ q \in Seq(I) /\ DOMAIN q = 1 .. Len(q)
      /\ \A k \in 1 .. Len(q) : q[k] \in DOMAIN book.nodes
  BY LevelAtHolds DEF SoundLevel
<1>2. Queued(book, side, price) = s
  BY DEF Queued
<1> HIDE DEF q
<1>3. Len(q) \in Nat /\ \A k \in 1 .. Len(q) : q[k] \in I
  BY <1>1
<1>4. \A id \in DOMAIN book.nodes : book.nodes[id].quantity \in Nat
  BY DEF SoundBook, IsBook, Offer
<1>5. s \in [1 .. Len(q) -> Pair(I)]
  BY <1>1, <1>3, <1>4 DEF Pair
<1>6. s \in Seq(Pair(I)) /\ Len(s) = Len(q) /\ DOMAIN s = 1 .. Len(q)
  BY <1>3, <1>5, IsSequence
<1>7. Pairs(s, q, book, I)
  BY <1>1, <1>3, <1>6 DEF Pairs
<1> QED  BY <1>2, <1>7 DEF q

\* Two sequences that show the same orders are the same.
LEMMA PairsDetermine ==
  ASSUME NEW I, NEW s, NEW t \in Seq(Pair(I)), NEW q, NEW book, Pairs(s, q, book, I),
         Len(t) = Len(q),
         \A k \in 1 .. Len(q) : t[k] = [id |-> q[k], quantity |-> book.nodes[q[k]].quantity]
  PROVE  s = t
  BY SeqEqual DEF Pairs

\* A level that keeps its queue and its orders' quantities shows the same.
LEMMA QueuedSame ==
  ASSUME NEW after, NEW book, NEW side, NEW price,
         LevelAt(after, side, price).queue = LevelAt(book, side, price).queue,
         \A k \in DOMAIN LevelAt(book, side, price).queue :
            after.nodes[LevelAt(book, side, price).queue[k]].quantity =
              book.nodes[LevelAt(book, side, price).queue[k]].quantity
  PROVE  Queued(after, side, price) = Queued(book, side, price)
  BY DEF Queued

\* What the operations do to the queues.
Appends(after, book, P, id, order) ==
  Queues(after, P) =
    [Queues(book, P) EXCEPT ![order.side][order.price] =
       Append(@, [id |-> id, quantity |-> order.quantity])]

Removes(after, book, P, id, k) ==
  Queues(after, P) =
    [Queues(book, P) EXCEPT ![book.nodes[id].side][book.nodes[id].price] = RemoveAt(@, k)]

LessAt(s, k, quantity) ==
  IF quantity < s[k].quantity THEN [s EXCEPT ![k].quantity = @ - quantity]
                              ELSE RemoveAt(s, k)

Takes(after, book, P, id, k, quantity) ==
  Queues(after, P) =
    [Queues(book, P) EXCEPT ![book.nodes[id].side][book.nodes[id].price] =
       LessAt(@, k, quantity)]

Moves(after, book, P, id, k, price, quantity) ==
  Queues(after, P) =
    LET side == book.nodes[id].side
        without == [Queues(book, P) EXCEPT ![side][book.nodes[id].price] = RemoveAt(@, k)]
    IN  [without EXCEPT ![side][price] = Append(@, [id |-> id, quantity |-> quantity])]

\* add_order appends to one queue.
LEMMA AddOrderQueues ==
  ASSUME NEW book, NEW I, NEW P, SoundBook(book, I, P),
         NEW id \in I, ~ Resting(book, id), NEW order \in Offer(P)
  PROVE  Appends(AddOrder(book, id, order), book, P, id, order)
<1> DEFINE after == AddOrder(book, id, order)
           q == LevelAt(book, order.side, order.price).queue
           s == Queued(book, order.side, order.price)
           pair == [id |-> id, quantity |-> order.quantity]
           r == LevelAt(after, order.side, order.price).queue
<1>1. Added(after, book, id, order)
  BY AddOrderAdds DEF SoundBook
<1>2. SoundBook(after, I, P)
  BY AddOrderSound
<1>3. order.side \in Sides /\ order.price \in P /\ order.quantity \in Nat
  BY DEF Offer
<1>4. Pairs(s, q, book, I)
  BY <1>3, QueuedPairs
<1>5. Pairs(Queued(after, order.side, order.price), r, after, I)
  BY <1>2, <1>3, QueuedPairs
<1>6. \A k \in 1 .. Len(q) : q[k] \in DOMAIN book.nodes
  BY <1>3, LevelAtHolds DEF SoundLevel
<1> HIDE DEF after
<1>7. /\ DOMAIN after.nodes = DOMAIN book.nodes \cup {id}
      /\ after.nodes[id] = order
      /\ \A other \in DOMAIN book.nodes \ {id} : after.nodes[other] = book.nodes[other]
      /\ \A side \in Sides :
            DOMAIN after.levels[side] =
              DOMAIN book.levels[side] \cup (IF side = order.side THEN {order.price} ELSE {})
  BY <1>1 DEF Added
<1>8. r = Append(q, id)
  <2>1. order.price \in DOMAIN after.levels[order.side]
    BY <1>3, <1>7
  <2>2. after.levels[order.side][order.price].queue = Append(q, id)
    BY <1>1, <1>3, <2>1 DEF Added
  <2> QED  BY <2>1, <2>2 DEF LevelAt
<1>9. ASSUME NEW side \in Sides, NEW price \in P, ~ (side = order.side /\ price = order.price)
      PROVE  Queued(after, side, price) = Queued(book, side, price)
  <2>1. price \in DOMAIN after.levels[side] <=> price \in DOMAIN book.levels[side]
    BY <1>7, <1>9
  <2>2. price \in DOMAIN after.levels[side] =>
           after.levels[side][price] = book.levels[side][price]
    BY <1>1, <1>9 DEF Added
  <2>3. LevelAt(after, side, price) = LevelAt(book, side, price)
    BY <2>1, <2>2 DEF LevelAt
  <2>4. SoundLevel(LevelAt(book, side, price), book, I, side, price)
    BY LevelAtHolds
  <2>5. \A k \in DOMAIN LevelAt(book, side, price).queue :
           LevelAt(book, side, price).queue[k] \in DOMAIN book.nodes
    BY <2>4 DEF SoundLevel
  <2> QED  BY <1>7, <2>3, <2>5, QueuedSame DEF Resting
<1> HIDE DEF q, s, r
<1>10. /\ q \in Seq(I) /\ s \in Seq(Pair(I)) /\ Len(s) = Len(q) /\ Len(q) \in Nat
       /\ \A k \in 1 .. Len(q) :
             s[k] = [id |-> q[k], quantity |-> book.nodes[q[k]].quantity]
  BY <1>4 DEF Pairs
<1>11. pair \in Pair(I)
  BY <1>3 DEF Pair
<1> HIDE DEF pair
<1>12. /\ Append(s, pair) \in Seq(Pair(I)) /\ Len(Append(s, pair)) = Len(q) + 1
       /\ \A k \in 1 .. Len(q) : Append(s, pair)[k] = s[k]
       /\ Append(s, pair)[Len(q) + 1] = pair
  BY <1>10, <1>11, AppendProperties
<1>13. /\ Len(r) = Len(q) + 1 /\ r[Len(q) + 1] = id
       /\ \A k \in 1 .. Len(q) : r[k] = q[k]
  BY <1>8, <1>10, AppendProperties
<1>14. ASSUME NEW k \in 1 .. Len(r)
       PROVE  Append(s, pair)[k] =
                [id |-> r[k], quantity |-> after.nodes[r[k]].quantity]
  <2>1. CASE k \in 1 .. Len(q)
    <3>1. q[k] \in DOMAIN book.nodes \ {id}
      BY <1>6, <2>1 DEF q, Resting
    <3> QED  BY <1>7, <1>10, <1>12, <1>13, <2>1, <3>1
  <2>2. CASE k = Len(q) + 1
    BY <1>7, <1>12, <1>13, <2>2 DEF pair
  <2> QED  BY <1>10, <1>13, <2>1, <2>2
<1>15. Queued(after, order.side, order.price) = Append(s, pair)
  <2> DEFINE joined == Append(s, pair)
             shown  == Queued(after, order.side, order.price)
  <2>1. /\ joined \in Seq(Pair(I)) /\ Len(joined) = Len(r)
        /\ \A k \in 1 .. Len(r) :
              joined[k] = [id |-> r[k], quantity |-> after.nodes[r[k]].quantity]
    BY <1>12, <1>13, <1>14
  <2>2. Pairs(shown, r, after, I)
    BY <1>5
  <2> HIDE DEF joined, shown
  <2>3. shown = joined
    BY <2>1, <2>2, PairsDetermine, Zenon
  <2> QED  BY <2>3 DEF shown, joined
<1>16. /\ Queues(after, P) = [Queues(book, P) EXCEPT ![order.side][order.price] = Append(s, pair)]
       /\ Queues(book, P)[order.side][order.price] = s
  <2> DEFINE joined == Append(s, pair)
  <2>1. Queued(after, order.side, order.price) = joined
    BY <1>15
  <2> HIDE DEF joined
  <2>2. /\ Queues(after, P) = [Queues(book, P) EXCEPT ![order.side][order.price] = joined]
        /\ Queues(book, P)[order.side][order.price] = Queued(book, order.side, order.price)
    BY <1>3, <1>9, <2>1 DEF Queues
  <2> QED  BY <2>2 DEF joined, s
<1> QED  BY <1>16 DEF after, pair, Appends

\* cancel_order removes an order from its place in one queue.
LEMMA CancelOrderQueues ==
  ASSUME NEW book, NEW I, NEW P, SoundBook(book, I, P), NEW id \in DOMAIN book.nodes,
         NEW k \in 1 .. Len(LevelAt(book, book.nodes[id].side, book.nodes[id].price).queue),
         LevelAt(book, book.nodes[id].side, book.nodes[id].price).queue[k] = id
  PROVE  Removes(CancelOrder(book, id), book, P, id, k)
<1> DEFINE after == CancelOrder(book, id)
           order == book.nodes[id]
           side == order.side
           price == order.price
           q == LevelAt(book, side, price).queue
           s == Queued(book, side, price)
           r == LevelAt(after, side, price).queue
           left == RemoveAt(s, k)
           shown == Queued(after, side, price)
<1>1. Canceled(after, book, id)
  BY CancelOrderCancels
<1>2. SoundBook(after, I, P)
  BY CancelOrderSound
<1>3. side \in Sides /\ price \in P /\ price \in DOMAIN book.levels[side]
  BY PlaceInQueue DEF Offer
<1>4. Pairs(s, q, book, I) /\ Pairs(shown, r, after, I)
  BY <1>2, <1>3, QueuedPairs
<1>5. /\ q \in Seq(I) /\ IsInjective(q) /\ k \in 1 .. Len(q) /\ q[k] = id
      /\ \A j \in 1 .. Len(q) : q[j] \in DOMAIN book.nodes
  BY <1>3, LevelAtHolds DEF SoundLevel
<1>6. q = book.levels[side][price].queue
  BY <1>3 DEF LevelAt
<1> HIDE DEF after, q
<1>7. /\ DOMAIN after.nodes = DOMAIN book.nodes \ {id}
      /\ \A other \in DOMAIN after.nodes : after.nodes[other] = book.nodes[other]
  BY <1>1 DEF Canceled
<1>8. r = Erase(q, id)
  <2>1. DOMAIN after.levels[side] =
          DOMAIN book.levels[side] \ (IF Erase(q, id) = <<>> THEN {price} ELSE {})
    BY <1>1, <1>3, <1>6 DEF Canceled
  <2>2. price \in DOMAIN after.levels[side] =>
          after.levels[side][price].queue = Erase(q, id)
    <3> DEFINE level == book.levels[side][price]
    <3>1. price \in DOMAIN after.levels[side] =>
            after.levels[side][price] =
              [total |-> level.total - order.quantity, queue |-> Erase(level.queue, id)]
      BY <1>1, <1>3 DEF Canceled
    <3>2. level.queue = q
      BY <1>6
    <3> HIDE DEF level
    <3> QED  BY <3>1, <3>2
  <2>3. CASE Erase(q, id) = <<>>
    BY <2>1, <2>3 DEF LevelAt
  <2>4. CASE Erase(q, id) # <<>>
    BY <1>3, <2>1, <2>2, <2>4 DEF LevelAt
  <2> QED  BY <2>3, <2>4
<1>9. ASSUME NEW t \in Sides, NEW p \in P, ~ (t = side /\ p = price)
      PROVE  Queued(after, t, p) = Queued(book, t, p)
  <2>1. p \in DOMAIN after.levels[t] <=> p \in DOMAIN book.levels[t]
    BY <1>1, <1>9 DEF Canceled
  <2>2. p \in DOMAIN after.levels[t] => after.levels[t][p] = book.levels[t][p]
    BY <1>1, <1>9 DEF Canceled
  <2>3. LevelAt(after, t, p) = LevelAt(book, t, p)
    BY <2>1, <2>2 DEF LevelAt
  <2>4. SoundLevel(LevelAt(book, t, p), book, I, t, p)
    BY LevelAtHolds
  <2>5. \A j \in DOMAIN LevelAt(book, t, p).queue :
           LevelAt(book, t, p).queue[j] \in DOMAIN book.nodes \ {id}
    BY <1>9, <2>4 DEF SoundLevel
  <2> QED  BY <1>7, <2>3, <2>5, QueuedSame
<1>10. /\ Len(r) = Len(q) - 1
       /\ \A j \in 1 .. Len(q) - 1 : r[j] = IF j < k THEN q[j] ELSE q[j + 1]
       /\ ToSet(r) = ToSet(q) \ {id}
  <2>1. /\ Len(Erase(q, id)) = Len(q) - 1
        /\ \A j \in 1 .. Len(q) - 1 : Erase(q, id)[j] = IF j < k THEN q[j] ELSE q[j + 1]
        /\ ToSet(Erase(q, id)) = ToSet(q) \ {id}
    <3>1. Erased(Erase(q, id), q, I, k)
      BY <1>5, EraseProperties
    <3> QED  BY <1>5, <3>1 DEF Erased
  <2> QED  BY <1>8, <2>1
<1> HIDE DEF s, r, side, price
<1>11. /\ s \in Seq(Pair(I)) /\ Len(s) = Len(q) /\ Len(q) \in Nat /\ k \in 1 .. Len(s)
       /\ \A j \in 1 .. Len(q) :
             s[j] = [id |-> q[j], quantity |-> book.nodes[q[j]].quantity]
  BY <1>4 DEF Pairs, q, side, price
<1>12. /\ left \in Seq(Pair(I)) /\ Len(left) = Len(s) - 1
       /\ \A j \in 1 .. Len(s) - 1 : left[j] = IF j < k THEN s[j] ELSE s[j + 1]
  BY <1>11, RemoveAtProperties
<1>13. DOMAIN r = 1 .. Len(r)
  BY <1>4 DEF Pairs
<1> HIDE DEF left, shown
<1>14. ASSUME NEW j \in 1 .. Len(r)
       PROVE  left[j] = [id |-> r[j], quantity |-> after.nodes[r[j]].quantity]
  <2>1. j \in 1 .. Len(q) /\ j + 1 \in 1 .. Len(q) /\ j \in 1 .. Len(q) - 1
    BY <1>10, <1>11
  <2>2. left[j] = [id |-> r[j], quantity |-> book.nodes[r[j]].quantity]
    BY <1>10, <1>11, <1>12, <2>1
  <2>3. r[j] # id
    <3>1. r[j] \in ToSet(r)
      BY <1>13 DEF ToSet
    <3> QED  BY <1>10, <3>1
  <2>4. r[j] \in DOMAIN book.nodes
    BY <1>5, <1>10, <2>1 DEF q
  <2> QED  BY <1>7, <2>2, <2>3, <2>4
<1>15. shown = left
  <2>1. Len(left) = Len(r)
    BY <1>10, <1>11, <1>12
  <2> QED  BY <1>4, <1>12, <1>14, <2>1, PairsDetermine, Zenon
<1>16. /\ Queues(after, P) = [Queues(book, P) EXCEPT ![side][price] = left]
       /\ Queues(book, P)[side][price] = s
  BY <1>3, <1>9, <1>15 DEF Queues, s, shown
<1> QED  BY <1>16 DEF Removes, after, left, side, price

\* reduce_order takes from an order in its place, or removes it from there.
LEMMA ReduceOrderQueues ==
  ASSUME NEW book, NEW I, NEW P, SoundBook(book, I, P), NEW id \in DOMAIN book.nodes,
         NEW k \in 1 .. Len(LevelAt(book, book.nodes[id].side, book.nodes[id].price).queue),
         LevelAt(book, book.nodes[id].side, book.nodes[id].price).queue[k] = id,
         NEW quantity \in Nat \ {0}
  PROVE  Takes(ReduceOrder(book, id, quantity), book, P, id, k, quantity)
<1> DEFINE after == ReduceOrder(book, id, quantity)
           order == book.nodes[id]
           side == order.side
           price == order.price
           q == LevelAt(book, side, price).queue
           s == Queued(book, side, price)
           r == LevelAt(after, side, price).queue
           less == [s EXCEPT ![k].quantity = @ - quantity]
           shown == Queued(after, side, price)
<1>1. side \in Sides /\ price \in P /\ price \in DOMAIN book.levels[side]
  BY PlaceInQueue DEF Offer
<1>2. /\ order.quantity \in Nat
      /\ \A other \in DOMAIN book.nodes : book.nodes[other].quantity \in Nat
  BY DEF SoundBook, IsBook, Offer
<1>3. Pairs(s, q, book, I)
  BY <1>1, QueuedPairs
<1>4. /\ IsInjective(q) /\ DOMAIN q = 1 .. Len(q)
      /\ \A j \in 1 .. Len(q) : q[j] \in DOMAIN book.nodes
  BY <1>1, LevelAtHolds DEF SoundLevel
<1>5. Queues(book, P)[side][price] = s
  BY <1>1 DEF Queues
<1> HIDE DEF s, q
<1>6. /\ s \in Seq(Pair(I)) /\ Len(s) = Len(q) /\ Len(q) \in Nat
      /\ k \in 1 .. Len(q) /\ q[k] = id
      /\ \A j \in 1 .. Len(q) :
            s[j] = [id |-> q[j], quantity |-> book.nodes[q[j]].quantity]
  BY <1>3 DEF Pairs, q
<1>7. s[k].quantity = order.quantity
  <2>1. s[k] = [id |-> id, quantity |-> order.quantity]
    BY <1>6
  <2> QED  BY <2>1
<1>8. CASE quantity >= order.quantity
  <2>1. ~ quantity < s[k].quantity
    BY <1>2, <1>7, <1>8
  <2>2. Queues(CancelOrder(book, id), P) =
          [Queues(book, P) EXCEPT ![side][price] = RemoveAt(@, k)]
    BY CancelOrderQueues DEF Removes
  <2>3. after = CancelOrder(book, id)
    BY <1>8 DEF ReduceOrder
  <2> HIDE DEF after, side, price
  <2>4. Queues(after, P) = [Queues(book, P) EXCEPT ![side][price] =
              LessAt(@, k, quantity)]
    BY <1>5, <2>1, <2>2, <2>3 DEF LessAt
  <2> QED  BY <2>4 DEF Takes, after, side, price
<1>9. CASE quantity < order.quantity
  <2>1. Reduced(after, book, id, quantity)
    BY <1>9, ReduceOrderReduces
  <2>2. SoundBook(after, I, P)
    BY ReduceOrderSound
  <2>3. Pairs(shown, r, after, I)
    BY <1>1, <2>2, QueuedPairs
  <2> HIDE DEF after
  <2>4. \A t \in Sides : \A p : LevelAt(after, t, p).queue = LevelAt(book, t, p).queue
    <3> SUFFICES ASSUME NEW t \in Sides, NEW p
                 PROVE  LevelAt(after, t, p).queue = LevelAt(book, t, p).queue
      OBVIOUS
    <3>1. /\ DOMAIN after.levels[t] = DOMAIN book.levels[t]
          /\ p \in DOMAIN book.levels[t] =>
               after.levels[t][p].queue = book.levels[t][p].queue
      BY <2>1 DEF Reduced
    <3> QED  BY <3>1 DEF LevelAt
  <2>5. r = q
    BY <1>1, <2>4 DEF q
  <2>6. /\ DOMAIN after.nodes = DOMAIN book.nodes
        /\ after.nodes[id] = [book.nodes[id] EXCEPT !.quantity = @ - quantity]
        /\ \A other \in DOMAIN book.nodes \ {id} : after.nodes[other] = book.nodes[other]
    BY <2>1 DEF Reduced
  <2>7. after.nodes[id].quantity = order.quantity - quantity /\ order.quantity - quantity \in Nat
    <3>1. order \in Offer(P)
      BY DEF SoundBook, IsBook
    <3> QED  BY <1>2, <1>9, <2>6, <3>1 DEF Offer
  <2>8. ASSUME NEW t \in Sides, NEW p \in P, ~ (t = side /\ p = price)
        PROVE  Queued(after, t, p) = Queued(book, t, p)
    <3>1. SoundLevel(LevelAt(book, t, p), book, I, t, p)
      BY LevelAtHolds
    <3>2. \A j \in DOMAIN LevelAt(book, t, p).queue :
             LevelAt(book, t, p).queue[j] \in DOMAIN book.nodes \ {id}
      BY <2>8, <3>1 DEF SoundLevel
    <3> QED  BY <2>4, <2>6, <3>2, QueuedSame
  <2> HIDE DEF r, shown, order, side, price
  <2>9. s[k] \in Pair(I) /\ s[k].quantity = order.quantity /\ k \in 1 .. Len(s)
    BY <1>6, <1>7, ElementOfSeq
  <2>10. [s[k] EXCEPT !.quantity = @ - quantity] \in Pair(I)
    BY <2>7, <2>9 DEF Pair
  <2>11. /\ less \in Seq(Pair(I)) /\ Len(less) = Len(s)
         /\ \A j \in 1 .. Len(s) : less[j] = IF j = k THEN [s[k] EXCEPT !.quantity = @ - quantity]
                                                     ELSE s[j]
    BY <1>6, <2>9, <2>10, ExceptSeq
  <2> HIDE DEF less
  <2>12. ASSUME NEW j \in 1 .. Len(q)
         PROVE  less[j] = [id |-> q[j], quantity |-> after.nodes[q[j]].quantity]
    <3>1. CASE j = k
      <4>1. s[k] = [id |-> id, quantity |-> order.quantity]
        BY <1>6 DEF order
      <4>2. less[k] = [id |-> id, quantity |-> order.quantity - quantity]
        BY <1>6, <2>11, <4>1
      <4> QED  BY <1>6, <2>7, <3>1, <4>2
    <3>2. CASE j # k
      <4>1. q[j] # id
        BY <1>4, <1>6, <3>2 DEF IsInjective
      <4> QED  BY <1>4, <1>6, <2>6, <2>11, <3>2, <4>1
    <3> QED  BY <3>1, <3>2
  <2>13. shown = less
    <3>1. Len(less) = Len(q) /\ Pairs(shown, q, after, I)
      BY <1>6, <2>3, <2>5, <2>11
    <3> QED  BY <2>11, <2>12, <3>1, PairsDetermine, Zenon
  <2>14. Queues(after, P) = [Queues(book, P) EXCEPT ![side][price] = less]
    BY <1>1, <2>8, <2>13 DEF Queues, shown
  <2>15. quantity < s[k].quantity
    BY <1>7, <1>9 DEF order
  <2>16. Queues(after, P) = [Queues(book, P) EXCEPT ![side][price] =
              LessAt(@, k, quantity)]
    BY <1>5, <2>14, <2>15 DEF less, LessAt
  <2> QED  BY <2>16 DEF Takes, after, side, price, order
<1> QED  BY <1>2, <1>8, <1>9

\* replace_order takes an order from its place to the end of a queue.
LEMMA ReplaceOrderQueues ==
  ASSUME NEW book, NEW I, NEW P, SoundBook(book, I, P), NEW id \in DOMAIN book.nodes,
         NEW k \in 1 .. Len(LevelAt(book, book.nodes[id].side, book.nodes[id].price).queue),
         LevelAt(book, book.nodes[id].side, book.nodes[id].price).queue[k] = id,
         NEW price \in P, NEW quantity \in Nat \ {0}
  PROVE  Moves(ReplaceOrder(book, id, price, quantity), book, P, id, k, price, quantity)
<1> DEFINE left  == CancelOrder(book, id)
           old   == book.nodes[id]
           order == [old EXCEPT !.price = price, !.quantity = quantity]
           without == [Queues(book, P) EXCEPT ![old.side][old.price] = RemoveAt(@, k)]
<1>1. SoundBook(left, I, P)
  BY CancelOrderSound
<1>2. ~ Resting(left, id)
  <2>1. Canceled(left, book, id)
    BY CancelOrderCancels
  <2> HIDE DEF left
  <2>2. DOMAIN left.nodes = DOMAIN book.nodes \ {id}
    BY <2>1 DEF Canceled
  <2> QED  BY <2>2 DEF Resting
<1>3. /\ order \in Offer(P) /\ id \in I
      /\ order.side = old.side /\ order.price = price /\ order.quantity = quantity
  BY DEF SoundBook, IsBook, Offer
<1>4. Queues(left, P) = without
  BY CancelOrderQueues DEF Removes
<1> HIDE DEF left, order, without
<1>5. Appends(AddOrder(left, id, order), left, P, id, order)
  BY <1>1, <1>2, <1>3, AddOrderQueues
<1>6. Queues(AddOrder(left, id, order), P) =
        [without EXCEPT ![old.side][price] = Append(@, [id |-> id, quantity |-> quantity])]
  BY <1>3, <1>4, <1>5 DEF Appends
<1> QED  BY <1>6 DEF Moves, ReplaceOrder, left, order, without


-------------------------------------------------------------------------------
(* The operations as changes of the order index.                           *)

NodesWithout(after, book, id) ==
  /\ DOMAIN after.nodes = DOMAIN book.nodes \ {id}
  /\ \A other \in DOMAIN book.nodes \ {id} : after.nodes[other] = book.nodes[other]

NodesWith(after, book, id, order) ==
  /\ DOMAIN after.nodes = DOMAIN book.nodes \cup {id}
  /\ after.nodes[id] = order
  /\ \A other \in DOMAIN book.nodes \ {id} : after.nodes[other] = book.nodes[other]

Less(order, quantity) == [order EXCEPT !.quantity = order.quantity - quantity]

NodesLess(after, book, id, quantity) ==
  IF quantity >= book.nodes[id].quantity
  THEN NodesWithout(after, book, id)
  ELSE NodesWith(after, book, id, Less(book.nodes[id], quantity))

LEMMA CancelOrderNodes ==
  ASSUME NEW book, NEW I, NEW P, SoundBook(book, I, P), NEW id \in DOMAIN book.nodes
  PROVE  NodesWithout(CancelOrder(book, id), book, id)
<1>1. Canceled(CancelOrder(book, id), book, id)
  BY CancelOrderCancels
<1> QED  BY <1>1 DEF Canceled, NodesWithout

LEMMA AddOrderNodes ==
  ASSUME NEW book, NEW I, NEW P, IsBook(book, I, P), NEW id, NEW order \in Offer(P)
  PROVE  NodesWith(AddOrder(book, id, order), book, id, order)
<1>1. Added(AddOrder(book, id, order), book, id, order)
  BY AddOrderAdds
<1> QED  BY <1>1 DEF Added, NodesWith

LEMMA ReduceOrderNodes ==
  ASSUME NEW book, NEW I, NEW P, SoundBook(book, I, P), NEW id \in DOMAIN book.nodes,
         NEW quantity \in Nat \ {0}
  PROVE  NodesLess(ReduceOrder(book, id, quantity), book, id, quantity)
<1> DEFINE after == ReduceOrder(book, id, quantity)
<1>1. book.nodes[id].quantity \in Nat
  BY DEF SoundBook, IsBook, Offer
<1>2. CASE quantity >= book.nodes[id].quantity
  <2>1. after = CancelOrder(book, id)
    BY <1>2 DEF ReduceOrder
  <2>2. NodesWithout(after, book, id)
    BY <2>1, CancelOrderNodes
  <2> QED  BY <1>2, <2>2 DEF NodesLess
<1>3. CASE ~ quantity >= book.nodes[id].quantity
  <2>1. Reduced(after, book, id, quantity)
    BY <1>1, <1>3, ReduceOrderReduces
  <2> HIDE DEF after
  <2>2. NodesWith(after, book, id, Less(book.nodes[id], quantity))
    BY <2>1 DEF Reduced, NodesWith, Less
  <2> QED  BY <1>3, <2>2 DEF NodesLess, after
<1> QED  BY <1>2, <1>3

-------------------------------------------------------------------------------
(* What a view's entries show in all.                                      *)

\* The units that some entries of a view show.
ShownUnits(view, entries) == UNION {{k} \X (1 .. view[k].quantity) : k \in entries}

OfferedAt(book, side, view, entries) ==
  {id \in DOMAIN book.nodes : /\ book.nodes[id].side = side
                             /\ \E k \in entries : view[k].price = book.nodes[id].price}

\* The orders at the prices of some entries offer at least what these show.
LEMMA ViewAddsUp ==
  ASSUME NEW book, NEW I, NEW P \in SUBSET Nat, SoundBook(book, I, P),
         NEW side \in Sides, NEW depth \in Nat,
         NEW entries \in SUBSET DOMAIN L2View(book, side, depth)
  PROVE  /\ Cardinality(ShownUnits(L2View(book, side, depth), entries)) \in Nat
         /\ Cardinality(ShownUnits(L2View(book, side, depth), entries)) <=
              QuantityOf(book, OfferedAt(book, side, L2View(book, side, depth), entries))
<1> DEFINE view == L2View(book, side, depth)
           Own(k) == Units(book, Offered(book, side, view[k].price))
           shown == ShownUnits(view, entries)
           all == Units(book, OfferedAt(book, side, view, entries))
           Number(k) == CHOOSE f : f \in Bijection(1 .. view[k].quantity, Own(k))
           unit == [u \in shown |-> Number(u[1])[u[2]]]
<1>1. /\ DOMAIN view = 1 .. Len(view)
      /\ \A k \in DOMAIN view :
            /\ view[k].price \in DOMAIN book.levels[side]
            /\ view[k].quantity = book.levels[side][view[k].price].total
            /\ Cardinality({p \in DOMAIN book.levels[side] : Better(side, p, view[k].price)})
                 = k - 1
  <2>1. Shows(view, book, side, depth)
    BY L2ViewShows
  <2> HIDE DEF view
  <2> QED  BY <2>1 DEF Shows
<1>2. /\ IsFiniteSet(DOMAIN book.nodes)
      /\ \A id \in DOMAIN book.nodes : book.nodes[id].quantity \in Nat
  BY DEF SoundBook, IsBook, Offer
<1> HIDE DEF view
<1>3. ASSUME NEW k \in entries
      PROVE  Number(k) \in Bijection(1 .. view[k].quantity, Own(k))
  <2> DEFINE ids == Offered(book, side, view[k].price)
  <2>1. ids \subseteq DOMAIN book.nodes /\ IsFiniteSet(ids)
    BY <1>2, FS_Subset DEF Offered
  <2>2. IsFiniteSet(Own(k))
    BY <1>2, <2>1, UnitsFinite
  <2>3. view[k].price \in DOMAIN book.levels[side]
    BY <1>1 DEF view
  <2>4. book.levels[side][view[k].price].total = QuantityOf(book, ids)
    BY <2>3, LevelHoldsOffered
  <2>5. view[k].quantity = Cardinality(Own(k))
    BY <1>1, <2>4 DEF QuantityOf, view
  <2>6. ExistsBijection(1 .. view[k].quantity, Own(k))
    BY <2>2, <2>5, FS_CardinalityType
  <2> QED  BY <2>6 DEF ExistsBijection
<1>4. \A k \in entries : /\ Number(k) \in [1 .. view[k].quantity -> Own(k)]
                         /\ IsInjective(Number(k))
  BY <1>3 DEF Bijection, Injection
<1>5. ASSUME NEW u \in shown
      PROVE  /\ u[1] \in entries /\ u[2] \in 1 .. view[u[1]].quantity
             /\ u = <<u[1], u[2]>>
  BY DEF ShownUnits
<1>6. ASSUME NEW u \in shown
      PROVE  /\ unit[u] \in Own(u[1]) /\ unit[u] \in all
  <2>1. unit[u] \in Own(u[1])
    BY <1>4, <1>5
  <2>2. Offered(book, side, view[u[1]].price) \subseteq OfferedAt(book, side, view, entries)
    BY <1>5 DEF Offered, OfferedAt
  <2>3. Own(u[1]) \subseteq all
    BY <2>2 DEF Units
  <2> QED  BY <2>1, <2>3
<1>7. ASSUME NEW u \in shown, NEW v \in shown, unit[u] = unit[v]
      PROVE  u = v
  <2> DEFINE j == u[1]
             k == v[1]
  <2>1. unit[u] \in Own(j) /\ unit[u] \in Own(k)
    BY <1>6, <1>7
  <2>2. /\ \E id \in Offered(book, side, view[j].price) : unit[u][1] = id
        /\ \E id \in Offered(book, side, view[k].price) : unit[u][1] = id
    <3> HIDE DEF unit, j, k
    <3> QED  BY <2>1 DEF Units
  <2>3. view[j].price = view[k].price
    <3> HIDE DEF unit, j, k
    <3> QED  BY <2>2 DEF Offered
  <2>4. j \in DOMAIN view /\ k \in DOMAIN view
    BY <1>5 DEF view
  <2>5. j - 1 = k - 1 /\ j \in Int /\ k \in Int
    <3>1. /\ Cardinality({p \in DOMAIN book.levels[side] : Better(side, p, view[j].price)}) = j - 1
          /\ Cardinality({p \in DOMAIN book.levels[side] : Better(side, p, view[k].price)}) = k - 1
      BY <1>1, <2>4 DEF view
    <3>2. j \in 1 .. Len(view) /\ k \in 1 .. Len(view)
      BY <1>1, <2>4 DEF view
    <3> HIDE DEF j, k
    <3> QED  BY <3>1, <3>2, <2>3
  <2>6. j = k
    <3> HIDE DEF j, k
    <3> QED  BY <2>5
  <2>7. Number(j)[u[2]] = Number(j)[v[2]]
    BY <1>7, <2>6
  <2>8. u[2] = v[2]
    <3>1. /\ IsInjective(Number(j)) /\ Number(j) \in [1 .. view[j].quantity -> Own(j)]
          /\ u[2] \in 1 .. view[j].quantity /\ v[2] \in 1 .. view[j].quantity
      BY <1>4, <1>5, <2>6
    <3> HIDE DEF Number, j, Own
    <3> QED  BY <2>7, <3>1 DEF IsInjective
  <2> QED  BY <1>5, <2>6, <2>8
<1>8. unit \in Injection(shown, all)
  <2>1. unit \in [shown -> all]
    BY <1>6
  <2>2. IsInjective(unit)
    <3> HIDE DEF unit, shown
    <3>1. DOMAIN unit = shown
      BY <2>1
    <3> QED  BY <1>7, <3>1 DEF IsInjective
  <2> QED  BY <2>1, <2>2 DEF Injection
<1>9. IsFiniteSet(all)
  <2> DEFINE ids == OfferedAt(book, side, view, entries)
  <2>1. ids \subseteq DOMAIN book.nodes /\ IsFiniteSet(ids)
    BY <1>2, FS_Subset DEF OfferedAt
  <2> QED  BY <1>2, <2>1, UnitsFinite
<1>10. IsFiniteSet(shown) /\ Cardinality(shown) <= Cardinality(all)
  BY <1>8, <1>9, FS_Injection
<1>11. Cardinality(shown) \in Nat
  BY <1>10, FS_CardinalityType
<1> HIDE DEF shown, all, unit
<1> QED  BY <1>10, <1>11 DEF QuantityOf, view, shown, all

-------------------------------------------------------------------------------
(* Orders in the queues.                                                   *)

LEMMA EmptyQueues ==
  ASSUME NEW P
  PROVE  Queues(EmptyBook, P) = [side \in Sides |-> [price \in P |-> <<>>]]
<1>1. ASSUME NEW side \in Sides, NEW price \in P
      PROVE  Queued(EmptyBook, side, price) = <<>>
  <2>1. LevelAt(EmptyBook, side, price).queue = <<>>
    BY DEF LevelAt, EmptyBook
  <2>2. Pairs(Queued(EmptyBook, side, price), <<>>, EmptyBook, {})
    BY <2>1, EmptyBookSound, QueuedPairs
  <2> QED  BY <2>2, EmptySeq DEF Pairs
<1> QED  BY <1>1 DEF Queues

\* Where an order is in the queues.
LEMMA PlaceOf ==
  ASSUME NEW book, NEW I, NEW P, SoundBook(book, I, P), NEW id \in DOMAIN book.nodes
  PROVE  LET order == book.nodes[id]
             s     == Queued(book, order.side, order.price)
         IN  /\ order.side \in Sides /\ order.price \in P
             /\ \E k \in DOMAIN s :
                   /\ k \in 1 .. Len(LevelAt(book, order.side, order.price).queue)
                   /\ LevelAt(book, order.side, order.price).queue[k] = id
                   /\ s[k].id = id
<1> DEFINE order == book.nodes[id]
           q == LevelAt(book, order.side, order.price).queue
           s == Queued(book, order.side, order.price)
<1>1. /\ order.side \in Sides /\ order.price \in P
      /\ order.price \in DOMAIN book.levels[order.side]
      /\ \E k \in 1 .. Len(book.levels[order.side][order.price].queue) :
            book.levels[order.side][order.price].queue[k] = id
  <2>1. /\ order \in Offer(P)
        /\ order.side \in Sides /\ order.price \in DOMAIN book.levels[order.side]
        /\ \E k \in 1 .. Len(book.levels[order.side][order.price].queue) :
              book.levels[order.side][order.price].queue[k] = id
    BY PlaceInQueue, Zenon
  <2> HIDE DEF order
  <2>2. order.price \in P
    BY <2>1 DEF Offer
  <2> QED  BY <2>1, <2>2
<1>2. q = book.levels[order.side][order.price].queue
  BY <1>1 DEF LevelAt
<1>3. Pairs(s, q, book, I)
  BY <1>1, QueuedPairs
<1> HIDE DEF s
<1>4. PICK k \in 1 .. Len(q) : q[k] = id
  BY <1>1, <1>2
<1> HIDE DEF q
<1>5. k \in DOMAIN s /\ s[k].id = id
  BY <1>3, <1>4 DEF Pairs
<1> QED  BY <1>1, <1>4, <1>5 DEF q, s

\* An order that does not rest is in no queue.
LEMMA NotQueued ==
  ASSUME NEW book, NEW I, NEW P, SoundBook(book, I, P), NEW id, ~ Resting(book, id),
         NEW side \in Sides, NEW price, NEW k \in DOMAIN Queued(book, side, price)
  PROVE  Queued(book, side, price)[k].id # id
<1> DEFINE q == LevelAt(book, side, price).queue
           s == Queued(book, side, price)
<1>1. Pairs(s, q, book, I)
  BY QueuedPairs
<1>2. \A j \in 1 .. Len(q) : q[j] \in DOMAIN book.nodes
  BY LevelAtHolds DEF SoundLevel
<1> HIDE DEF q, s
<1>3. k \in 1 .. Len(q) /\ s[k].id = q[k]
  BY <1>1 DEF Pairs, s
<1> QED  BY <1>2, <1>3 DEF Resting, s

\* The oldest order of a level, and the levels that have one.
IsOldest(first, book, I, side, price) ==
  /\ first = Head(book.levels[side][price].queue)
  /\ 1 \in 1 .. Len(LevelAt(book, side, price).queue)
  /\ LevelAt(book, side, price).queue[1] = first
  /\ first \in DOMAIN book.nodes
  /\ Len(Queued(book, side, price)) \in Nat \ {0}
  /\ Queued(book, side, price) \in Seq(Pair(I))
  /\ Queued(book, side, price)[1] =
       [id |-> first, quantity |-> book.nodes[first].quantity]

LEMMA OldestQueued ==
  ASSUME NEW book, NEW I, NEW P, SoundBook(book, I, P), NEW side \in Sides, NEW price
  PROVE  /\ Queued(book, side, price) # <<>> <=> price \in DOMAIN book.levels[side]
         /\ price \in DOMAIN book.levels[side] =>
              IsOldest(Head(book.levels[side][price].queue), book, I, side, price)
<1> DEFINE q == LevelAt(book, side, price).queue
           s == Queued(book, side, price)
<1>1. Pairs(s, q, book, I)
  BY QueuedPairs
<1>2. CASE price \notin DOMAIN book.levels[side]
  <2>1. q = <<>>
    BY <1>2 DEF LevelAt
  <2>2. Len(s) = 0 /\ s \in Seq(Pair(I))
    <3> HIDE DEF s
    <3> QED  BY <1>1, <2>1 DEF Pairs
  <2>3. s = <<>>
    <3> HIDE DEF s
    <3> QED  BY <2>2, EmptySeq
  <2> QED  BY <1>2, <2>3
<1>3. CASE price \in DOMAIN book.levels[side]
  <2> DEFINE first == Head(book.levels[side][price].queue)
  <2>1. q = book.levels[side][price].queue
    BY <1>3 DEF LevelAt
  <2>2. /\ q # <<>> /\ q \in Seq(I) /\ Len(q) \in Nat
        /\ \A k \in 1 .. Len(q) : q[k] \in DOMAIN book.nodes
    <3>1. book.levels[side][price].queue # <<>>
      BY <1>3, LevelHolds
    <3>2. SoundLevel(book.levels[side][price], book, I, side, price)
      BY <1>3, LevelHolds
    <3> QED  BY <1>1, <2>1, <3>1, <3>2 DEF SoundLevel, Pairs
  <2> HIDE DEF q, s
  <2>3. Len(q) # 0 /\ 1 \in 1 .. Len(q) /\ q[1] = Head(q)
    BY <2>2, EmptySeq
  <2>4. first = q[1]
    BY <2>1, <2>3
  <2> HIDE DEF first
  <2>5. /\ Len(s) \in Nat \ {0} /\ s \in Seq(Pair(I))
        /\ s[1] = [id |-> first, quantity |-> book.nodes[first].quantity]
    BY <1>1, <2>3, <2>4 DEF Pairs
  <2>6. s # <<>>
    BY <2>5
  <2>7. first \in DOMAIN book.nodes
    BY <2>2, <2>3, <2>4
  <2> QED  BY <1>3, <2>3, <2>4, <2>5, <2>6, <2>7 DEF q, s, first, IsOldest
<1> QED  BY <1>2, <1>3

\* The oldest order leaves the rest of its queue.
LEMMA RemoveOldest ==
  ASSUME NEW S, NEW q \in Seq(S), Len(q) \in Nat \ {0}
  PROVE  RemoveAt(q, 1) = Tail(q)
<1>1. q # <<>>
  BY EmptySeq
<1>2. 1 \in 1 .. Len(q)
  OBVIOUS
<1>3. /\ RemoveAt(q, 1) \in Seq(S) /\ Len(RemoveAt(q, 1)) = Len(q) - 1
      /\ \A j \in 1 .. Len(q) - 1 : RemoveAt(q, 1)[j] = IF j < 1 THEN q[j] ELSE q[j + 1]
  BY <1>2, RemoveAtProperties
<1>4. /\ Tail(q) \in Seq(S) /\ Len(Tail(q)) = Len(q) - 1
      /\ \A j \in 1 .. Len(q) - 1 : Tail(q)[j] = q[j + 1]
  BY <1>1
<1>5. \A j \in 1 .. Len(q) - 1 : RemoveAt(q, 1)[j] = Tail(q)[j]
  BY <1>3, <1>4
<1> QED  BY <1>3, <1>4, <1>5, SeqEqual
===============================================================================
