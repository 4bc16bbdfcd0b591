------------------------ MODULE AggregateReplay_proofs ------------------------
(***************************************************************************)
(* Proofs about the two paths and the two modes of the aggregate replay.   *)
(***************************************************************************)
EXTENDS AggregateReplay, BookLevels_proofs, WellFoundedInduction

-------------------------------------------------------------------------------
(* The checks on an event.                                                 *)

\* A set of numbers has a least.
LEMMA Least ==
  ASSUME NEW S \in SUBSET Nat, S # {}
  PROVE  \E n \in S : \A m \in S : n <= m
<1> DEFINE R == OpToRel(<, Nat)
<1>1. IsWellFoundedOn(R, Nat)
  BY NatLessThanWellFounded
<1>2. \A x, y \in Nat : x < y => <<x, y>> \in R
  BY DEF OpToRel
<1> HIDE DEF R
<1>3. PICK n \in S : \A m \in S : ~ <<m, n>> \in R
  BY <1>1, WFMin
<1>4. ASSUME NEW m \in S PROVE n <= m
  <2>1. m \in Nat /\ n \in Nat
    BY <1>3
  <2>2. ~ m < n
    BY <1>2, <1>3, <2>1
  <2> QED  BY <2>1, <2>2
<1> QED  BY <1>3, <1>4

\* The first reason of a list is that of its least condition that holds.
LEMMA ReasonIs ==
  ASSUME NEW list, NEW n \in Nat, DOMAIN list = 1 .. n,
         NEW k \in 1 .. n, list[k][1], \A j \in 1 .. n : j < k => ~ list[j][1]
  PROVE  FirstReason(list) = <<list[k][2]>>
<1> DEFINE holding == {j \in DOMAIN list : list[j][1]}
<1>1. k \in holding /\ \A j \in holding : k <= j
  OBVIOUS
<1>2. \A j \in holding : j \in Int
  OBVIOUS
<1> HIDE DEF holding
<1>3. \A m \in holding : (\A j \in holding : m <= j) => m = k
  BY <1>1, <1>2
<1>4. Min(holding) = k
  BY <1>1, <1>3 DEF Min
<1>5. holding # {}
  BY <1>1
<1> QED  BY <1>4, <1>5 DEF FirstReason, holding

LEMMA NoReasonIs ==
  ASSUME NEW list
  PROVE  FirstReason(list) = NoReason <=> \A k \in DOMAIN list : ~ list[k][1]
<1> DEFINE holding == {j \in DOMAIN list : list[j][1]}
<1>1. \A x : <<x>> # <<>>
  OBVIOUS
<1>2. FirstReason(list) = NoReason <=> holding = {}
  BY <1>1 DEF FirstReason, NoReason
<1> QED  BY <1>2

\* A condition that does not hold may as well be left out.
LeavesOut(short, long, n, out) ==
  /\ n \in Nat /\ out \in 1 .. n + 1
  /\ DOMAIN long = 1 .. n + 1 /\ DOMAIN short = 1 .. n /\ ~ long[out][1]
  /\ \A k \in 1 .. n : k < out => short[k] = long[k]
  /\ \A k \in 1 .. n : k >= out => short[k] = long[k + 1]

LEMMA LeftOut ==
  ASSUME NEW long, NEW short, NEW n, NEW out, LeavesOut(short, long, n, out)
  PROVE  FirstReason(long) = FirstReason(short)
<1> USE DEF LeavesOut
<1>1. CASE \A k \in 1 .. n : ~ short[k][1]
  <2>1. ASSUME NEW k \in 1 .. n + 1 PROVE ~ long[k][1]
    <3>1. CASE k < out
      <4>1. k \in 1 .. n /\ short[k] = long[k]
        BY <3>1
      <4>2. ~ short[k][1]
        BY <1>1, <4>1
      <4> QED  BY <4>1, <4>2, Zenon
    <3>2. CASE k = out
      BY <3>2
    <3>3. CASE k > out
      <4>1. k - 1 \in 1 .. n /\ short[k - 1] = long[k]
        BY <3>3
      <4>2. ~ short[k - 1][1]
        BY <1>1, <4>1
      <4> QED  BY <4>1, <4>2, Zenon
    <3> QED  BY <3>1, <3>2, <3>3
  <2> QED  BY <1>1, <2>1, NoReasonIs
<1>2. CASE \E k \in 1 .. n : short[k][1]
  <2> DEFINE S == {k \in 1 .. n : short[k][1]}
  <2>1. S \in SUBSET Nat /\ S # {}
    BY <1>2
  <2>2. PICK k \in S : \A j \in S : k <= j
    <3> HIDE DEF S
    <3> QED  BY <2>1, Least
  <2>3. FirstReason(short) = <<short[k][2]>>
    <3>1. \A j \in 1 .. n : j < k => ~ short[j][1]
      BY <2>2
    <3> QED  BY <3>1, ReasonIs
  <2> DEFINE at == IF k < out THEN k ELSE k + 1
  <2>4. at \in 1 .. n + 1 /\ long[at] = short[k]
    OBVIOUS
  <2>5. ASSUME NEW j \in 1 .. n + 1, j < at PROVE ~ long[j][1]
    <3>1. CASE j < out
      <4>1. j \in 1 .. n /\ j < k /\ short[j] = long[j]
        BY <2>5, <3>1
      <4> QED  BY <2>2, <4>1
    <3>2. CASE j = out
      BY <3>2
    <3>3. CASE j > out
      <4>1. j - 1 \in 1 .. n /\ j - 1 < k /\ short[j - 1] = long[j]
        BY <2>5, <3>3
      <4> QED  BY <2>2, <4>1
    <3> QED  BY <3>1, <3>2, <3>3
  <2>6. FirstReason(long) = <<long[at][2]>>
    <3>1. n + 1 \in Nat /\ long[at][1]
      BY <2>4
    <3> HIDE DEF at
    <3> QED  BY <2>4, <2>5, <3>1, ReasonIs
  <2> QED  BY <2>3, <2>4, <2>6
<1> QED  BY <1>1, <1>2

\* The checks that both paths make: whether the order rests, and whether the
\* event asks for more of it than there is, are found out in different ways.
Checks(e, rests, exceeds) ==
  <<<<e.symbol = 0, "invalid symbol id">>,
    <<NeedsOrder(e) /\ e.id = 0, "invalid order id">>,
    <<e.type \in {"Add", "Replace"} /\ e.side \notin Sides, "invalid side">>,
    <<NeedsPrice(e) /\ e.price <= 0, "invalid price">>,
    <<~ NeedsPrice(e) /\ e.price < 0, "invalid negative price">>,
    <<NeedsQuantity(e) /\ e.quantity <= 0, "invalid quantity">>,
    <<~ NeedsQuantity(e) /\ e.quantity < 0, "invalid negative quantity">>,
    <<e.type = "Add" /\ rests, "duplicate order id">>,
    <<Reinstates(e) /\ e.side \notin Sides, "invalid snapshot side">>,
    <<Reinstates(e) /\ e.price <= 0, "invalid snapshot price">>,
    <<Reinstates(e) /\ e.quantity <= 0, "invalid snapshot quantity">>,
    <<Amends(e) /\ ~ rests, "unknown order id">>,
    <<Reduces(e) /\ exceeds, "invalid quantity exceeds resting order quantity">> >>

Exceeds(e, book) == Resting(book, e.id) /\ e.quantity > book.nodes[e.id].quantity

LEMMA GroupedChecks ==
  ASSUME NEW e, NEW book
  PROVE  EventObjection(e, book, e.symbol)
           = FirstReason(Checks(e, Resting(book, e.id), Exceeds(e, book)))
<1> DEFINE rests == Resting(book, e.id)
           exceeds == Exceeds(e, book)
           short == Checks(e, rests, exceeds)
           long == <<<<e.symbol = 0, "invalid symbol id">>,
    <<e.symbol # e.symbol, "event symbol does not match replay book symbol">>,
    <<NeedsOrder(e) /\ e.id = 0, "invalid order id">>,
    <<e.type \in {"Add", "Replace"} /\ e.side \notin Sides, "invalid side">>,
    <<NeedsPrice(e) /\ e.price <= 0, "invalid price">>,
    <<~ NeedsPrice(e) /\ e.price < 0, "invalid negative price">>,
    <<NeedsQuantity(e) /\ e.quantity <= 0, "invalid quantity">>,
    <<~ NeedsQuantity(e) /\ e.quantity < 0, "invalid negative quantity">>,
    <<e.type = "Add" /\ rests, "duplicate order id">>,
    <<Reinstates(e) /\ e.side \notin Sides, "invalid snapshot side">>,
    <<Reinstates(e) /\ e.price <= 0, "invalid snapshot price">>,
    <<Reinstates(e) /\ e.quantity <= 0, "invalid snapshot quantity">>,
    <<Amends(e) /\ ~ rests, "unknown order id">>,
    <<Reduces(e) /\ exceeds, "invalid quantity exceeds resting order quantity">> >>
<1>1. EventObjection(e, book, e.symbol) = FirstReason(long)
  BY DEF EventObjection, Exceeds
<1>2. DOMAIN long = 1 .. 14 /\ DOMAIN short = 1 .. 13
  BY DEF Checks
<1>3. ~ long[2][1]
  OBVIOUS
<1>4. short[1] = long[1]
  BY DEF Checks
<1>5. \A k \in 2 .. 13 : short[k] = long[k + 1]
  <2> HIDE DEF rests, exceeds
  <2>1. /\ short[2] = long[3] /\ short[3] = long[4] /\ short[4] = long[5]
        /\ short[5] = long[6]
    BY DEF Checks
  <2>2. /\ short[6] = long[7] /\ short[7] = long[8] /\ short[8] = long[9]
        /\ short[9] = long[10]
    BY DEF Checks
  <2>3. /\ short[10] = long[11] /\ short[11] = long[12] /\ short[12] = long[13]
        /\ short[13] = long[14]
    BY DEF Checks
  <2> HIDE DEF short, long
  <2> QED  BY <2>1, <2>2, <2>3
<1> HIDE DEF short, long
<1>6. FirstReason(long) = FirstReason(short)
  <2>1. \A k \in 1 .. 13 : k < 2 => short[k] = long[k]
    BY <1>4
  <2>2. \A k \in 1 .. 13 : k >= 2 => short[k] = long[k + 1]
    BY <1>5
  <2>3. 13 \in Nat /\ 2 \in 1 .. 13 + 1 /\ DOMAIN long = 1 .. 13 + 1
    BY <1>2
  <2>4. LeavesOut(short, long, 13, 2)
    BY <1>2, <1>3, <2>1, <2>2, <2>3 DEF LeavesOut
  <2> QED  BY <2>4, LeftOut
<1> QED  BY <1>1, <1>6 DEF short

LEMMA SharedChecks ==
  ASSUME NEW e, NEW all
  PROVE  LET book == BookFor(all, e.symbol)
         IN  SharedObjection(all, e)
               = FirstReason(Checks(e, Resting(book, e.id), Exceeds(e, book)))
<1> DEFINE book == BookFor(all, e.symbol)
<1>1. Resting(book, e.id) = Found(all, e)
  BY DEF BookFor, Found, Resting, HasBook, EmptyBook
<1>2. Exceeds(e, book)
        = (Found(all, e) /\ e.quantity > all.books[e.symbol].nodes[e.id].quantity)
  BY <1>1 DEF Exceeds, BookFor, Found
<1> DEFINE exceeds == Found(all, e) /\ e.quantity > all.books[e.symbol].nodes[e.id].quantity
<1>3. SharedObjection(all, e) = FirstReason(Checks(e, Found(all, e), exceeds))
  BY DEF SharedObjection, Checks
<1> QED  BY <1>1, <1>2, <1>3

\* So both paths raise the same objection.
LEMMA SameObjection ==
  ASSUME NEW e, NEW all
  PROVE  EventObjection(e, BookFor(all, e.symbol), e.symbol) = SharedObjection(all, e)
BY GroupedChecks, SharedChecks

\* What is so of an event nothing is said against.
Fits(e, book) ==
  /\ e.symbol # 0
  /\ e.type \in {"Add", "Replace"} => e.side \in Sides
  /\ NeedsOrder(e) => e.id # 0
  /\ NeedsPrice(e) => ~ e.price <= 0
  /\ NeedsQuantity(e) => ~ e.quantity <= 0
  /\ ~ NeedsQuantity(e) => ~ e.quantity < 0
  /\ e.type = "Add" => ~ Resting(book, e.id)
  /\ Reinstates(e) => e.side \in Sides /\ ~ e.price <= 0 /\ ~ e.quantity <= 0
  /\ Amends(e) => Resting(book, e.id)

LEMMA NoObjectionFits ==
  ASSUME NEW e, NEW book, EventObjection(e, book, e.symbol) = NoReason
  PROVE  Fits(e, book)
<1> DEFINE list == Checks(e, Resting(book, e.id), Exceeds(e, book))
<1>1. \A k \in DOMAIN list : ~ list[k][1]
  BY GroupedChecks, NoReasonIs
<1>2. DOMAIN list = 1 .. 13
  BY DEF Checks
<1>3. \A k \in 1 .. 13 : ~ list[k][1]
  <2> HIDE DEF list
  <2> QED  BY <1>1, <1>2
<1>4. /\ ~ list[1][1] /\ ~ list[2][1] /\ ~ list[3][1] /\ ~ list[4][1] /\ ~ list[6][1]
      /\ ~ list[7][1] /\ ~ list[8][1] /\ ~ list[9][1] /\ ~ list[10][1] /\ ~ list[11][1]
      /\ ~ list[12][1]
  <2> HIDE DEF list
  <2> QED  BY <1>3
<1>5. /\ e.symbol # 0 /\ ~ (NeedsOrder(e) /\ e.id = 0)
      /\ ~ (e.type \in {"Add", "Replace"} /\ e.side \notin Sides)
      /\ ~ (NeedsPrice(e) /\ e.price <= 0)
  BY <1>4 DEF Checks
<1>6. /\ ~ (NeedsQuantity(e) /\ e.quantity <= 0) /\ ~ (~ NeedsQuantity(e) /\ e.quantity < 0)
      /\ ~ (e.type = "Add" /\ Resting(book, e.id))
      /\ ~ (Reinstates(e) /\ e.side \notin Sides)
  BY <1>4 DEF Checks
<1>7. /\ ~ (Reinstates(e) /\ e.price <= 0) /\ ~ (Reinstates(e) /\ e.quantity <= 0)
      /\ ~ (Amends(e) /\ ~ Resting(book, e.id))
  BY <1>4 DEF Checks
<1> QED  BY <1>5, <1>6, <1>7 DEF Fits

-------------------------------------------------------------------------------
(* What an event does to a book.                                           *)

Types == {"Add", "Cancel", "Replace", "Execute", "Trade", "Snapshot", "Heartbeat"}
Fields == {"type", "symbol", "id", "side", "price", "quantity", "begin", "sequence",
           "time"}

\* What is so of every event the venue sends or damage makes of one.
Formed(e) ==
  DOMAIN e = Fields /\ e.type \in Types /\ e.id \in Int /\ e.price \in Int /\ e.quantity \in Int

Positive == Nat \ {0}
IsSound(book) == SoundBook(book, Int, Positive)

\* The book set refuses what the engine's book refuses.
LEMMA SameRefusal ==
  ASSUME NEW e, NEW book, Formed(e), Fits(e, book)
  PROVE  Applies(book, e) <=> ~ Refused(book, e)
BY DEF Formed, Fits, Applies, Refused, Types, Amends, Reduces, Reinstates

\* An event that was refused changes no book.
LEMMA RefusedKeeps ==
  ASSUME NEW e, NEW book, Formed(e), Fits(e, book), Refused(book, e)
  PROVE  Applied(book, e) = book
<1>1. ~ Applies(book, e)
  BY SameRefusal
<1> QED  BY <1>1 DEF Applied, Refused, Reinstates

\* The book set does to a symbol's book what the engine does to its own.
LEMMA SameBook ==
  ASSUME NEW e, NEW book, Formed(e), Fits(e, book), ~ Refused(book, e)
  PROVE  Applied(book, e) = AfterEvent(book, e)
<1> DEFINE order == [side |-> e.side, price |-> e.price, quantity |-> e.quantity]
<1>1. Applies(book, e)
  BY SameRefusal
<1>2. e.type \in Types /\ e.quantity \in Int
  BY DEF Formed
<1>3. CASE e.type = "Add"
  BY <1>1, <1>3 DEF Applied, AfterEvent, Reduces
<1>4. CASE e.type = "Cancel"
  <2>1. ~ e.quantity < 0
    BY <1>4 DEF Fits, NeedsQuantity
  <2>2. CASE e.quantity = 0
    BY <1>1, <1>4, <2>2 DEF Applied, AfterEvent, Reinstates
  <2>3. CASE e.quantity > 0
    BY <1>1, <1>2, <1>4, <2>3 DEF Applied, AfterEvent, Reinstates, Reduces
  <2> QED  BY <1>2, <2>1, <2>2, <2>3
<1>5. CASE e.type = "Replace"
  BY <1>1, <1>5 DEF Applied, AfterEvent, Reinstates, Reduces
<1>6. CASE e.type = "Execute"
  <2>1. e.quantity > 0
    BY <1>2, <1>6 DEF Fits, NeedsQuantity
  <2> QED  BY <1>1, <1>6, <2>1 DEF Applied, AfterEvent, Reinstates, Reduces
<1>7. CASE e.type = "Snapshot"
  BY <1>1, <1>7 DEF Applied, AfterEvent, Reinstates, Reduces
<1>8. CASE e.type \in {"Trade", "Heartbeat"}
  BY <1>1, <1>8 DEF Applied, AfterEvent, Reinstates, Reduces
<1> QED  BY <1>2, <1>3, <1>4, <1>5, <1>6, <1>7, <1>8 DEF Types

\* And the book stays sound.
LEMMA EventKeepsSound ==
  ASSUME NEW e, NEW book, Formed(e), Fits(e, book), ~ Refused(book, e), IsSound(book)
  PROVE  IsSound(AfterEvent(book, e))
<1> DEFINE order == [side |-> e.side, price |-> e.price, quantity |-> e.quantity]
<1>1. e.type \in Types /\ e.quantity \in Int /\ e.price \in Int /\ e.id \in Int
  BY DEF Formed
<1>2. SoundBook(book, Int, Positive) /\ SoundBook(EmptyBook, Int, Positive)
  BY EmptyBookSound DEF IsSound
<1>3. ASSUME NEW start, SoundBook(start, Int, Positive), ~ Resting(start, e.id),
             e.side \in Sides, ~ e.price <= 0, ~ e.quantity <= 0
      PROVE  IsSound(AddOrder(start, e.id, order))
  <2>1. order \in Offer(Positive)
    BY <1>1, <1>3 DEF Offer, Positive
  <2> HIDE DEF order
  <2> QED  BY <1>1, <1>3, <2>1, AddOrderSound DEF IsSound
<1>4. CASE e.type = "Add"
  <2>1. /\ ~ Resting(book, e.id) /\ e.side \in Sides /\ ~ e.price <= 0 /\ ~ e.quantity <= 0
    BY <1>4 DEF Fits, NeedsPrice, NeedsQuantity
  <2>2. IsSound(AddOrder(book, e.id, order))
    BY <1>2, <1>3, <2>1
  <2>3. AfterEvent(book, e) = AddOrder(book, e.id, order)
    BY <1>4 DEF AfterEvent, Reduces
  <2> HIDE DEF order
  <2> QED  BY <2>2, <2>3
<1>5. CASE Reinstates(e)
  <2>1. e.side \in Sides /\ ~ e.price <= 0 /\ ~ e.quantity <= 0
    BY <1>5 DEF Fits
  <2>2. CASE e.begin
    <3>1. ~ Resting(EmptyBook, e.id)
      BY DEF Resting, EmptyBook
    <3>2. IsSound(AddOrder(EmptyBook, e.id, order))
      BY <1>2, <1>3, <2>1, <3>1
    <3>3. AfterEvent(book, e) = AddOrder(EmptyBook, e.id, order)
      BY <1>5, <2>2 DEF AfterEvent, Reinstates, Reduces
    <3> HIDE DEF order
    <3> QED  BY <3>2, <3>3
  <2>3. CASE ~ e.begin
    <3>1. ~ Resting(book, e.id)
      BY <1>5, <2>3 DEF Refused
    <3>2. IsSound(AddOrder(book, e.id, order))
      BY <1>2, <1>3, <2>1, <3>1
    <3>3. AfterEvent(book, e) = AddOrder(book, e.id, order)
      BY <1>5, <2>3 DEF AfterEvent, Reinstates, Reduces
    <3> HIDE DEF order
    <3> QED  BY <3>2, <3>3
  <2> QED  BY <2>2, <2>3
<1>6. CASE Amends(e)
  <2>1. e.id \in DOMAIN book.nodes /\ e.type \in {"Cancel", "Execute", "Replace"}
    BY <1>6 DEF Fits, Resting, Amends, Reduces
  <2>2. CASE e.type = "Replace"
    <3>1. e.price \in Positive /\ e.quantity \in Nat \ {0}
      BY <1>1, <2>2 DEF Fits, NeedsPrice, NeedsQuantity, Positive
    <3>2. IsSound(ReplaceOrder(book, e.id, e.price, e.quantity))
      BY <1>2, <2>1, <3>1, ReplaceOrderSound DEF IsSound
    <3> QED  BY <2>2, <3>2 DEF AfterEvent, Reinstates, Reduces
  <2>3. CASE e.type # "Replace" /\ e.quantity > 0
    <3>1. e.quantity \in Nat \ {0}
      BY <1>1, <2>3
    <3>2. IsSound(ReduceOrder(book, e.id, e.quantity))
      BY <1>2, <2>1, <3>1, ReduceOrderSound DEF IsSound
    <3>3. ~ e.quantity = 0
      BY <3>1
    <3> QED  BY <2>1, <2>3, <3>2, <3>3 DEF AfterEvent, Reinstates, Reduces
  <2>4. CASE e.type # "Replace" /\ ~ e.quantity > 0
    <3>1. e.type = "Cancel" /\ e.quantity = 0
      BY <1>1, <2>1, <2>4 DEF Fits, NeedsQuantity
    <3>2. IsSound(CancelOrder(book, e.id))
      BY <1>2, <2>1, CancelOrderSound DEF IsSound
    <3> QED  BY <3>1, <3>2 DEF AfterEvent, Reinstates
  <2> QED  BY <2>2, <2>3, <2>4
<1>7. CASE ~ e.type = "Add" /\ ~ Reinstates(e) /\ ~ Amends(e)
  <2>1. /\ ~ (e.type = "Cancel" /\ e.quantity = 0) /\ ~ (Reduces(e) /\ e.quantity > 0)
        /\ ~ e.type = "Replace"
    BY <1>7 DEF Amends, Reduces
  <2>2. AfterEvent(book, e) \in {book, EmptyBook}
    BY <1>7, <2>1 DEF AfterEvent
  <2> QED  BY <1>2, <2>2 DEF IsSound
<1> QED  BY <1>4, <1>5, <1>6, <1>7

-------------------------------------------------------------------------------
(* The checks on a book.                                                   *)

\* The best bid and the best ask cross when some bid and ask do.
LEMMA SameCrossing ==
  ASSUME NEW book, IsSound(book)
  PROVE  CrossedReason(book) = SharedTopReason(book)
<1> DEFINE bids == DOMAIN book.levels["Buy"]
           asks == DOMAIN book.levels["Sell"]
           bid == BestPrice(book, "Buy")
           ask == BestPrice(book, "Sell")
           crossed == (\A side \in Sides : DOMAIN book.levels[side] # {}) /\ bid >= ask
           list == << <<crossed, "crossed book state">> >>
<1>1. SoundBook(book, Int, Positive) /\ Positive \in SUBSET Nat
  BY DEF IsSound, Positive
<1>2. bids \subseteq Nat /\ asks \subseteq Nat
  BY <1>1 DEF SoundBook, IsBook, Sides
<1>3. bids # {} => bid \in bids /\ \A p \in bids : bid >= p
  <2>1. bids # {} => bid \in bids /\ \A p \in bids : ~ Better("Buy", p, bid)
    BY <1>1, BestOrderIsBest DEF Sides
  <2> HIDE DEF bids, bid
  <2>2. ASSUME bids # {}, NEW p \in bids PROVE bid >= p
    <3>1. bid \in Nat /\ p \in Nat
      BY <1>2, <2>1, <2>2
    <3> QED  BY <2>1, <2>2, <3>1 DEF Better
  <2> QED  BY <2>1, <2>2
<1>4. asks # {} => ask \in asks /\ \A p \in asks : ask <= p
  <2>1. asks # {} => ask \in asks /\ \A p \in asks : ~ Better("Sell", p, ask)
    BY <1>1, BestOrderIsBest DEF Sides
  <2> HIDE DEF asks, ask
  <2>2. ASSUME asks # {}, NEW p \in asks PROVE ask <= p
    <3>1. ask \in Nat /\ p \in Nat
      BY <1>2, <2>1, <2>2
    <3> QED  BY <2>1, <2>2, <3>1 DEF Better
  <2> QED  BY <2>1, <2>2
<1>5. crossed <=> bids # {} /\ asks # {} /\ bid >= ask
  BY DEF Sides
<1> HIDE DEF bids, asks, bid, ask, crossed
<1>6. crossed <=> ~ \A b \in bids, a \in asks : b < a
  <2>1. ASSUME crossed PROVE \E b \in bids, a \in asks : ~ b < a
    <3>1. bid \in bids /\ ask \in asks /\ bid >= ask
      BY <1>3, <1>4, <1>5, <2>1
    <3>2. ~ bid < ask
      BY <1>2, <3>1
    <3> QED  BY <3>1, <3>2
  <2>2. ASSUME NEW b \in bids, NEW a \in asks, ~ b < a PROVE crossed
    <3>1. bid \in bids /\ bid >= b /\ ask \in asks /\ ask <= a
      BY <1>3, <1>4
    <3>2. bid >= ask
      BY <1>2, <2>2, <3>1
    <3> QED  BY <1>5, <3>2
  <2> QED  BY <2>1, <2>2
<1>7. FirstReason(list) = IF crossed THEN <<"crossed book state">> ELSE NoReason
  <2>1. list[1] = <<crossed, "crossed book state">>
    BY Zenon
  <2>2. DOMAIN list = 1 .. 1
    BY IsSequence
  <2>3. CASE crossed
    <3>1. list[1][1] /\ list[1][2] = "crossed book state"
      BY <2>3
    <3> HIDE DEF list
    <3>2. \A j \in 1 .. 1 : j < 1 => ~ list[j][1]
      OBVIOUS
    <3>3. 1 \in Nat /\ 1 \in 1 .. 1
      OBVIOUS
    <3>4. FirstReason(list) = <<list[1][2]>>
      BY <2>2, <3>1, <3>2, <3>3, ReasonIs
    <3> QED  BY <2>3, <3>1, <3>4
  <2>4. CASE ~ crossed
    <3>1. ~ list[1][1]
      BY <2>4
    <3> HIDE DEF list
    <3>2. \A k \in DOMAIN list : ~ list[k][1]
      BY <2>2, <3>1
    <3>3. FirstReason(list) = NoReason
      BY <3>2, NoReasonIs
    <3> QED  BY <2>4, <3>3
  <2> QED  BY <2>3, <2>4
<1>8. CrossedReason(book) = FirstReason(list)
  BY DEF CrossedReason, crossed, bid, ask
<1>9. SharedTopReason(book) = IF crossed THEN <<"crossed book state">> ELSE NoReason
  BY <1>6 DEF SharedTopReason, bids, asks
<1> QED  BY <1>7, <1>8, <1>9

\* Of a sound book the full check finds no more than the quick one.
LEMMA SameChecksOfBook ==
  ASSUME NEW book, IsSound(book)
  PROVE  /\ FullBookReason(book) = CrossedReason(book)
         /\ SharedFullReason(book) = CrossedReason(book)
BY SameCrossing DEF IsSound, SoundBook, FullBookReason, SharedFullReason

\* So neither the mode nor the path matters to what is found.
LEMMA SameBookObjection ==
  ASSUME NEW book, IsSound(book), NEW mode \in Modes
  PROVE  /\ BookObjection(book, In(mode)) = BookObjection(book, In("Full"))
         /\ SharedBookReason(book, In(mode)) = BookObjection(book, In(mode))
         /\ BookObjection(book, In(mode)) =
              IF scenario.config.bookState THEN CrossedReason(book) ELSE NoReason
<1>1. /\ In(mode).mode = mode /\ In(mode).bookState = scenario.config.bookState
      /\ In("Full").mode = "Full" /\ In("Full").bookState = scenario.config.bookState
  BY DEF In
<1>2. SharedTopReason(book) = CrossedReason(book)
  BY SameCrossing
<1>3. mode = "Full" \/ mode = "Light"
  BY DEF Modes
<1>4. BookObjection(book, In("Full")) = IF scenario.config.bookState THEN CrossedReason(book) ELSE NoReason
  BY <1>1, SameChecksOfBook DEF BookObjection
<1>5. BookObjection(book, In(mode)) = IF scenario.config.bookState THEN CrossedReason(book) ELSE NoReason
  BY <1>1, SameChecksOfBook DEF BookObjection
<1>6. SharedBookReason(book, In(mode)) = IF scenario.config.bookState THEN CrossedReason(book) ELSE NoReason
  BY <1>1, <1>2, <1>3, SameChecksOfBook DEF SharedBookReason
<1> QED  BY <1>4, <1>5, <1>6

\* What executes or trades crosses no book: it adds no price.
LEMMA TradeNeverCrosses ==
  ASSUME NEW e, NEW book, Formed(e), Fits(e, book), IsSound(book),
         e.type \in {"Execute", "Trade"}, CrossedReason(book) = NoReason
  PROVE  CrossedReason(AfterEvent(book, e)) = NoReason
<1> DEFINE after == AfterEvent(book, e)
<1>1. IsSound(after)
  BY EventKeepsSound DEF Refused, Reinstates
<1>2. \A side \in Sides : DOMAIN after.levels[side] \subseteq DOMAIN book.levels[side]
  <2>1. CASE e.type = "Trade"
    <3>1. after = book
      BY <2>1 DEF AfterEvent, Reinstates, Reduces
    <3> QED  BY <3>1
  <2>2. CASE e.type = "Execute"
    <3>1. e.id \in DOMAIN book.nodes /\ e.quantity \in Nat \ {0}
      BY <2>2 DEF Formed, Fits, Amends, Reduces, Resting, NeedsQuantity
    <3>2. after = ReduceOrder(book, e.id, e.quantity)
      <4>1. e.quantity > 0
        BY <3>1
      <4> QED  BY <2>2, <4>1 DEF AfterEvent, Reinstates, Reduces
    <3>3. SoundBook(book, Int, Positive) /\ book.nodes[e.id].quantity \in Nat
      BY <3>1 DEF IsSound, SoundBook, IsBook, Offer
    <3> HIDE DEF after
    <3>4. CASE e.quantity >= book.nodes[e.id].quantity
      <4>1. after = CancelOrder(book, e.id)
        BY <3>2, <3>4 DEF ReduceOrder
      <4>2. Canceled(after, book, e.id)
        BY <3>1, <3>3, <4>1, CancelOrderCancels
      <4> QED  BY <4>2 DEF Canceled
    <3>5. CASE e.quantity < book.nodes[e.id].quantity
      <4>1. Reduced(after, book, e.id, e.quantity)
        BY <3>1, <3>2, <3>3, <3>5, ReduceOrderReduces
      <4> QED  BY <4>1 DEF Reduced
    <3> QED  BY <3>1, <3>3, <3>4, <3>5
  <2> QED  BY <2>1, <2>2
<1> HIDE DEF after
<1>3. SharedTopReason(book) = NoReason
  BY SameCrossing
<1>4. SharedTopReason(after) = NoReason
  <2>1. <<"crossed book state">> # NoReason
    BY DEF NoReason
  <2>2. \A b \in DOMAIN book.levels["Buy"], a \in DOMAIN book.levels["Sell"] : b < a
    BY <1>3, <2>1 DEF SharedTopReason
  <2>3. \A b \in DOMAIN after.levels["Buy"], a \in DOMAIN after.levels["Sell"] : b < a
    BY <1>2, <2>2 DEF Sides
  <2> QED  BY <2>3 DEF SharedTopReason
<1>5. CrossedReason(after) = NoReason
  BY <1>1, <1>4, SameCrossing
<1> QED  BY <1>5 DEF after

-------------------------------------------------------------------------------
(* One event on both paths.                                                *)

StreamFields == {"book", "expected", "last", "index", "halted", "valid", "diagnostics",
                 "activity", "error"}
StateFields == {"count", "expected", "last", "failed", "valid", "diagnostics",
                "activity", "error"}

\* A stream and a shared state that tell the same, ...
Tell(stream, state) ==
  /\ DOMAIN stream = StreamFields /\ DOMAIN state = StateFields
  /\ stream.diagnostics = state.diagnostics /\ stream.activity = state.activity
  /\ stream.error = state.error

\* ... before either failed and after.
Open(stream, state) ==
  /\ Tell(stream, state)
  /\ stream.halted = FALSE /\ stream.valid = TRUE
  /\ state.failed = FALSE /\ state.valid = TRUE
  /\ stream.expected = state.expected /\ stream.last = state.last
Shut(stream, state) ==
  /\ Tell(stream, state)
  /\ stream.halted = TRUE /\ stream.valid = FALSE
  /\ state.failed = TRUE /\ state.valid = FALSE

\* A stream that fails where its shared state does goes on telling the same.
LEMMA FailAlike ==
  ASSUME NEW stream, NEW state, NEW sequence, NEW reason,
         Open(stream, state), stream.index \in Nat, state.count = stream.index + 1
  PROVE  /\ Shut(Diagnose(stream, sequence, reason), Failed(state, sequence, reason))
         /\ Diagnose(stream, sequence, reason).book = stream.book
         /\ Failed(state, sequence, reason).count = state.count
<1>1. state.count - 1 = stream.index
  OBVIOUS
<1> DEFINE entry == <<stream.index, sequence, reason>>
           told == Append(stream.diagnostics, entry)
<1>2. Diagnose(stream, sequence, reason)
        = [stream EXCEPT !.diagnostics = told, !.valid = FALSE, !.halted = TRUE, !.error = reason]
  BY DEF Diagnose
<1>3. Failed(state, sequence, reason)
        = [state EXCEPT !.diagnostics = told, !.valid = FALSE, !.failed = TRUE, !.error = reason]
  BY <1>1 DEF Failed, Open, Tell
<1> HIDE DEF told
<1> QED  BY <1>2, <1>3 DEF Open, Shut, Tell, StreamFields, StateFields

\* What the checks of sequence number and time leave, on both paths.
Passed(stream, state, next, n, e, symbol, config) ==
  LET reason == EventObjection(e, stream.book, symbol)
  IN  \E timed : /\ Open(timed, state)
                 /\ timed.index = n /\ timed.book = stream.book
                 /\ next = IF reason # NoReason THEN Diagnose(timed, e.sequence, reason)
                           ELSE ApplyEvent(timed, e, config)

LEMMA NotedAlike ==
  ASSUME NEW stream, NEW state, NEW n \in Nat, NEW e, NEW symbol, NEW config,
         Open(stream, state), stream.index = n, state.count = n + 1
  PROVE  LET noted == Noted(state, e, config)
             next == ReplayStep(stream, e, symbol, config)
         IN  /\ noted.count = n + 1
             /\ \/ Shut(next, noted) /\ next.book = stream.book
                \/ Passed(stream, noted, next, n, e, symbol, config)
<1> DEFINE noted == Noted(state, e, config)
           next == ReplayStep(stream, e, symbol, config)
           expected == IF stream.expected = 0 THEN e.sequence ELSE stream.expected
           seen == IF config.sequences THEN [stream EXCEPT !.expected = expected + 1] ELSE stream
           counted == IF config.sequences THEN [state EXCEPT !.expected = expected + 1] ELSE state
           timed == IF config.timestamps THEN [seen EXCEPT !.last = {e.time}] ELSE seen
           dated == IF config.timestamps THEN [counted EXCEPT !.last = {e.time}] ELSE counted
           gap == config.sequences /\ e.sequence # expected
           back == config.timestamps /\ \E last \in stream.last : e.time < last
           reason == EventObjection(e, stream.book, symbol)
<1> SUFFICES /\ noted.count = n + 1
             /\ \/ Shut(next, noted) /\ next.book = stream.book
                \/ Passed(stream, noted, next, n, e, symbol, config)
  OBVIOUS
<1>1. stream.expected = state.expected /\ stream.last = state.last
  BY DEF Open
<1>2. Open(seen, counted) /\ seen.index = n /\ counted.count = n + 1 /\ seen.book = stream.book
      /\ seen.last = stream.last
  <2> HIDE DEF expected
  <2> QED  BY DEF Open, Tell, StreamFields, StateFields
<1>3. Open(timed, dated) /\ timed.index = n /\ dated.count = n + 1 /\ timed.book = stream.book
  <2> HIDE DEF seen, counted
  <2> QED  BY <1>2 DEF Open, Tell, StreamFields, StateFields
<1>4. CASE gap
  <2>1. noted = Failed(state, e.sequence, <<"sequence gap", expected, e.sequence>>)
    BY <1>1, <1>4 DEF Noted
  <2>2. next = Diagnose(stream, e.sequence, <<"sequence gap", expected, e.sequence>>)
    BY <1>4 DEF ReplayStep
  <2>3. stream.index \in Nat /\ state.count = stream.index + 1
    OBVIOUS
  <2>4. Shut(next, noted) /\ next.book = stream.book /\ noted.count = state.count
    <3> DEFINE why == <<"sequence gap", expected, e.sequence>>
    <3> HIDE DEF noted, next, expected
    <3>1. noted = Failed(state, e.sequence, why) /\ next = Diagnose(stream, e.sequence, why)
      BY <2>1, <2>2
    <3> HIDE DEF why
    <3>2. /\ Shut(Diagnose(stream, e.sequence, why), Failed(state, e.sequence, why))
          /\ Diagnose(stream, e.sequence, why).book = stream.book
          /\ Failed(state, e.sequence, why).count = state.count
      BY <2>3, FailAlike
    <3> QED  BY <3>1, <3>2
  <2> HIDE DEF noted, next
  <2> QED  BY <2>4
<1>5. CASE ~ gap /\ back
  <2>1. noted = Failed(counted, e.sequence, <<"timestamp reversal", stream.last, e.time>>)
    BY <1>1, <1>5 DEF Noted
  <2>2. next = Diagnose(seen, e.sequence, <<"timestamp reversal", stream.last, e.time>>)
    BY <1>5 DEF ReplayStep
  <2> HIDE DEF noted, next, seen, counted
  <2>3. seen.index \in Nat /\ counted.count = seen.index + 1
    BY <1>2
  <2>4. Shut(next, noted) /\ next.book = seen.book /\ noted.count = counted.count
    <3> DEFINE why == <<"timestamp reversal", stream.last, e.time>>
    <3>1. noted = Failed(counted, e.sequence, why) /\ next = Diagnose(seen, e.sequence, why)
      BY <2>1, <2>2
    <3> HIDE DEF why
    <3>2. /\ Shut(Diagnose(seen, e.sequence, why), Failed(counted, e.sequence, why))
          /\ Diagnose(seen, e.sequence, why).book = seen.book
          /\ Failed(counted, e.sequence, why).count = counted.count
      BY <1>2, <2>3, FailAlike
    <3> QED  BY <3>1, <3>2
  <2> QED  BY <1>2, <2>4
<1>6. CASE ~ gap /\ ~ back
  <2>1. noted = dated
    BY <1>1, <1>6 DEF Noted
  <2>2. next = IF reason # NoReason THEN Diagnose(timed, e.sequence, reason)
               ELSE ApplyEvent(timed, e, config)
    BY <1>6 DEF ReplayStep
  <2> HIDE DEF noted, next, timed, dated
  <2>3. Passed(stream, noted, next, n, e, symbol, config)
    BY <1>3, <2>1, <2>2 DEF Passed
  <2> QED  BY <1>3, <2>1, <2>3
<1> QED  BY <1>4, <1>5, <1>6

\* What a path has of a symbol, also of one it has not seen.
GroupOf(groups, symbol) ==
  IF symbol \in DOMAIN groups THEN groups[symbol] ELSE [count |-> 0, stream |-> NewStream]
StateOf(all, symbol) ==
  IF symbol \in DOMAIN all.states THEN all.states[symbol] ELSE NewState

\* What the two paths have of a symbol: the same counts and the same book, which
\* is sound and, where books are checked and nothing failed, not crossed.
Alike(group, state, book, checked) ==
  /\ group.count \in Nat /\ state.count = group.count
  /\ group.stream.book = book /\ IsSound(book)
  /\ \/ /\ Open(group.stream, state) /\ group.stream.index = group.count
        /\ checked => CrossedReason(book) = NoReason
     \/ Shut(group.stream, state)

\* A turn of the shared loop sets one symbol's state and perhaps its book.
Sets(all, after, symbol, state, book) ==
  /\ DOMAIN after = {"books", "states"}
  /\ DOMAIN after.states = DOMAIN all.states \cup {symbol}
  /\ \A s \in DOMAIN all.states \ {symbol} : after.states[s] = all.states[s]
  /\ after.states[symbol] = state
  /\ DOMAIN after.books \subseteq DOMAIN all.books \cup {symbol}
  /\ \A s : s # symbol => BookFor(after, s) = BookFor(all, s)
  /\ BookFor(after, symbol) = book

LEMMA WithSets ==
  ASSUME NEW all, DOMAIN all = {"books", "states"}, NEW symbol, NEW state
  PROVE  Sets(all, [all EXCEPT !.states = Put(@, symbol, state)], symbol, state,
              BookFor(all, symbol))
<1> DEFINE states == Put(all.states, symbol, state)
           after == [all EXCEPT !.states = states]
<1>1. after.books = all.books /\ after.states = states /\ DOMAIN after = {"books", "states"}
  OBVIOUS
<1>2. /\ DOMAIN states = DOMAIN all.states \cup {symbol}
      /\ \A s \in DOMAIN all.states \ {symbol} : states[s] = all.states[s]
      /\ states[symbol] = state
  BY DEF Put
<1> HIDE DEF states, after
<1>3. \A s : BookFor(after, s) = BookFor(all, s)
  BY <1>1 DEF BookFor, HasBook
<1>4. Sets(all, after, symbol, state, BookFor(all, symbol))
  BY <1>1, <1>2, <1>3 DEF Sets
<1> QED  BY <1>4 DEF after, states

LEMMA IntoSets ==
  ASSUME NEW all, NEW symbol, NEW state, NEW book
  PROVE  Sets(all, [books |-> Put(all.books, symbol, book),
                    states |-> Put(all.states, symbol, state)], symbol, state, book)
<1> DEFINE states == Put(all.states, symbol, state)
           books == Put(all.books, symbol, book)
           after == [books |-> books, states |-> states]
<1>1. after.books = books /\ after.states = states /\ DOMAIN after = {"books", "states"}
  OBVIOUS
<1>2. /\ DOMAIN states = DOMAIN all.states \cup {symbol}
      /\ \A s \in DOMAIN all.states \ {symbol} : states[s] = all.states[s]
      /\ states[symbol] = state
  BY DEF Put
<1>3. /\ DOMAIN books = DOMAIN all.books \cup {symbol}
      /\ \A s \in DOMAIN all.books \ {symbol} : books[s] = all.books[s]
      /\ books[symbol] = book
  BY DEF Put
<1> HIDE DEF states, books, after
<1>4. \A s : s # symbol => BookFor(after, s) = BookFor(all, s)
  BY <1>1, <1>3 DEF BookFor, HasBook
<1>5. BookFor(after, symbol) = book
  BY <1>1, <1>3 DEF BookFor, HasBook
<1>6. Sets(all, after, symbol, state, book)
  BY <1>1, <1>2, <1>3, <1>4, <1>5 DEF Sets
<1> QED  BY <1>6 DEF after, states, books

\* What the paths make of an event that nothing is said against.
LEMMA AppliedAlike ==
  ASSUME NEW e, NEW mode \in Modes, NEW timed, NEW state, NEW book, NEW n \in Nat,
         Formed(e), Fits(e, book), IsSound(book),
         Open(timed, state), timed.index = n, state.count = n + 1, timed.book = book,
         scenario.config.bookState => CrossedReason(book) = NoReason
  PROVE  LET next   == ApplyEvent(timed, e, In(mode))
             found  == Applied(book, e)
             after  == SharedBookReason(found, In(mode))
             traded == IF e.type \in {"Execute", "Trade"}
                       THEN [state EXCEPT !.activity = Append(@, e)] ELSE state
             result == IF ~ Applies(book, e)
                       THEN Failed(state, e.sequence, <<"failed to apply", e.type>>)
                       ELSE IF after # NoReason THEN Failed(state, e.sequence, after)
                       ELSE traded
         IN  Alike([count |-> n + 1, stream |-> next], result, found,
                  scenario.config.bookState)
<1> DEFINE next   == ApplyEvent(timed, e, In(mode))
           found  == Applied(book, e)
           after  == SharedBookReason(found, In(mode))
           traded == IF e.type \in {"Execute", "Trade"}
                     THEN [state EXCEPT !.activity = Append(@, e)] ELSE state
           result == IF ~ Applies(book, e)
                     THEN Failed(state, e.sequence, <<"failed to apply", e.type>>)
                     ELSE IF after # NoReason THEN Failed(state, e.sequence, after)
                     ELSE traded
<1> SUFFICES Alike([count |-> n + 1, stream |-> next], result, found,
                  scenario.config.bookState)
  OBVIOUS
<1>1. CASE Refused(book, e)
  <2> DEFINE why == <<"failed to apply", e.type>>
  <2>1. ~ Applies(book, e) /\ found = book
    BY <1>1, SameRefusal, RefusedKeeps
  <2>2. result = Failed(state, e.sequence, why) /\ next = Diagnose(timed, e.sequence, why)
    BY <1>1, <2>1 DEF ApplyEvent
  <2> HIDE DEF why, result, next, found
  <2>3. /\ Shut(Diagnose(timed, e.sequence, why), Failed(state, e.sequence, why))
        /\ Diagnose(timed, e.sequence, why).book = timed.book
        /\ Failed(state, e.sequence, why).count = state.count
    BY FailAlike
  <2> QED  BY <2>1, <2>2, <2>3 DEF Alike
<1>2. CASE ~ Refused(book, e)
  <2> DEFINE noted == IF e.type \in {"Execute", "Trade"} THEN Append(timed.activity, e)
                      ELSE timed.activity
             applied == [timed EXCEPT !.book = AfterEvent(book, e), !.activity = noted]
             said == BookObjection(found, In(mode))
  <2>1. Applies(book, e) /\ found = AfterEvent(book, e) /\ IsSound(found)
    BY <1>2, SameRefusal, SameBook, EventKeepsSound
  <2>2. after = said /\ said = IF scenario.config.bookState THEN CrossedReason(found) ELSE NoReason
    <3> HIDE DEF found
    <3> QED  BY <2>1, SameBookObjection
  <2>3. result = IF said # NoReason THEN Failed(state, e.sequence, said) ELSE traded
    BY <2>1, <2>2
  <2>4. next = IF said = NoReason THEN [applied EXCEPT !.index = applied.index + 1]
               ELSE Diagnose(applied, e.sequence, said)
    BY <1>2, <2>1 DEF ApplyEvent
  <2>5. CASE said # NoReason
    <3>1. e.type \notin {"Execute", "Trade"}
      BY <2>1, <2>2, <2>5, TradeNeverCrosses
    <3>2. Open(applied, state) /\ applied.index = n /\ applied.book = found
      BY <2>1, <3>1 DEF Open, Tell, StreamFields
    <3>3. result = Failed(state, e.sequence, said) /\ next = Diagnose(applied, e.sequence, said)
      BY <2>3, <2>4, <2>5
    <3> HIDE DEF applied, result, next, found, said
    <3>4. /\ Shut(Diagnose(applied, e.sequence, said), Failed(state, e.sequence, said))
          /\ Diagnose(applied, e.sequence, said).book = applied.book
          /\ Failed(state, e.sequence, said).count = state.count
      BY <3>2, FailAlike
    <3> QED  BY <2>1, <3>2, <3>3, <3>4 DEF Alike
  <2>6. CASE said = NoReason
    <3>1. Open(applied, traded) /\ applied.index = n /\ applied.book = found /\ traded.count = n + 1
      BY <2>1 DEF Open, Tell, StreamFields, StateFields
    <3>2. result = traded /\ next = [applied EXCEPT !.index = applied.index + 1]
      BY <2>3, <2>4, <2>6
    <3>3. scenario.config.bookState => CrossedReason(found) = NoReason
      BY <2>2, <2>6
    <3> HIDE DEF applied, traded, result, next, found, said
    <3>4. Open(next, traded) /\ next.index = n + 1 /\ next.book = found
      BY <3>1, <3>2 DEF Open, Tell, StreamFields
    <3> DEFINE group == [count |-> n + 1, stream |-> next]
    <3>5. group.count = n + 1 /\ group.stream = next /\ n + 1 \in Nat
      OBVIOUS
    <3> HIDE DEF group
    <3>6. Alike(group, result, found, scenario.config.bookState)
      BY <2>1, <3>1, <3>2, <3>3, <3>4, <3>5 DEF Alike
    <3> QED  BY <3>6 DEF group
  <2> QED  BY <2>5, <2>6
<1> QED  BY <1>1, <1>2

\* An event leaves alike what was alike, and the other symbols as they were.
LEMMA EventAlike ==
  ASSUME NEW e, NEW mode \in Modes, NEW group, NEW all,
         Formed(e), DOMAIN all = {"books", "states"},
         Alike(group, StateOf(all, e.symbol), BookFor(all, e.symbol),
               scenario.config.bookState)
  PROVE  LET next  == [count |-> group.count + 1,
                       stream |-> StreamAfter(group.stream, e, e.symbol, In(mode))]
             after == SharedAfter(all, e, In(mode))
         IN  \E state, book : /\ Sets(all, after, e.symbol, state, book)
                              /\ Alike(next, state, book, scenario.config.bookState)
<1> DEFINE config == In(mode)
           symbol == e.symbol
           old    == StateOf(all, symbol)
           book   == BookFor(all, symbol)
           stream == StreamAfter(group.stream, e, symbol, config)
           next   == [count |-> group.count + 1, stream |-> stream]
           start  == [old EXCEPT !.count = @ + 1]
           noted  == Noted(start, e, config)
           reason == SharedObjection(all, e)
           found  == Applied(book, e)
           later  == SharedBookReason(found, config)
           traded == IF e.type \in {"Execute", "Trade"}
                     THEN [noted EXCEPT !.activity = Append(@, e)] ELSE noted
           With(state) == [all EXCEPT !.states = Put(@, symbol, state)]
           Into(state) == [books |-> Put(all.books, symbol, found),
                           states |-> Put(all.states, symbol, state)]
           after  == SharedAfter(all, e, config)
<1> SUFFICES \E state, b : Sets(all, after, symbol, state, b) /\ Alike(next, state, b, scenario.config.bookState)
  OBVIOUS
<1>1. after = IF start.failed THEN With(start)
              ELSE IF noted.failed THEN With(noted)
              ELSE IF reason # NoReason THEN With(Failed(noted, e.sequence, reason))
              ELSE IF ~ Applies(book, e)
              THEN Into(Failed(noted, e.sequence, <<"failed to apply", e.type>>))
              ELSE IF later # NoReason THEN Into(Failed(noted, e.sequence, later))
              ELSE Into(traded)
  BY DEF SharedAfter, StateOf
<1>2. \A state : Sets(all, With(state), symbol, state, book)
  BY WithSets
<1>3. \A state : Sets(all, Into(state), symbol, state, found)
  BY IntoSets
<1>4. /\ group.count \in Nat /\ old.count = group.count
      /\ group.stream.book = book /\ IsSound(book)
      /\ \/ /\ Open(group.stream, old) /\ group.stream.index = group.count
            /\ scenario.config.bookState => CrossedReason(book) = NoReason
         \/ Shut(group.stream, old)
  BY DEF Alike
<1>5. next.count = group.count + 1 /\ next.stream = stream
  OBVIOUS
<1>6. CASE Shut(group.stream, old)
  <2>1. stream = group.stream
    BY <1>6 DEF StreamAfter, Shut
  <2>2. Shut(group.stream, start) /\ start.count = group.count + 1 /\ start.failed
    BY <1>4, <1>6 DEF Shut, Tell, StateFields
  <2>3. after = With(start)
    BY <1>1, <2>2
  <2> HIDE DEF next, stream, start, book, With, after
  <2>4. Alike(next, start, book, scenario.config.bookState)
    BY <1>4, <1>5, <2>1, <2>2 DEF Alike
  <2> QED  BY <1>2, <2>3, <2>4
<1>7. CASE /\ Open(group.stream, old) /\ group.stream.index = group.count
           /\ scenario.config.bookState => CrossedReason(book) = NoReason
  <2>1. /\ Open(group.stream, start) /\ start.count = group.count + 1 /\ ~ start.failed
    BY <1>4, <1>7 DEF Open, Tell, StateFields
  <2>2. stream = ReplayStep(group.stream, e, symbol, config)
    BY <1>7 DEF StreamAfter, Open
  <2>3. /\ noted.count = group.count + 1
        /\ \/ Shut(stream, noted) /\ stream.book = group.stream.book
           \/ Passed(group.stream, noted, stream, group.count, e, symbol, config)
    <3> HIDE DEF start, stream, config, symbol
    <3> QED  BY <1>4, <1>7, <2>1, <2>2, NotedAlike
  <2> HIDE DEF start, stream, config, With, Into, after
  <2>4. CASE Shut(stream, noted) /\ stream.book = group.stream.book
    <3>1. after = With(noted)
      BY <1>1, <2>1, <2>4 DEF Shut
    <3> HIDE DEF next, noted, book
    <3>2. Alike(next, noted, book, scenario.config.bookState)
      BY <1>4, <1>5, <2>3, <2>4 DEF Alike
    <3> QED  BY <1>2, <3>1, <3>2
  <2>5. CASE Passed(group.stream, noted, stream, group.count, e, symbol, config)
    <3>1. EventObjection(e, group.stream.book, symbol) = reason
      BY <1>4, SameObjection
    <3> HIDE DEF noted
    <3>2. PICK timed : /\ Open(timed, noted)
                       /\ timed.index = group.count /\ timed.book = book
                       /\ stream = IF reason # NoReason THEN Diagnose(timed, e.sequence, reason)
                                   ELSE ApplyEvent(timed, e, config)
      BY <1>4, <2>5, <3>1 DEF Passed
    <3>3. ~ noted.failed
      BY <3>2 DEF Open
    <3>4. CASE reason # NoReason
      <4> DEFINE failed == Failed(noted, e.sequence, reason)
      <4>1. after = With(failed) /\ stream = Diagnose(timed, e.sequence, reason)
        BY <1>1, <2>1, <3>2, <3>3, <3>4
      <4>2. Shut(stream, failed) /\ stream.book = book /\ failed.count = noted.count
        <5>1. timed.index \in Nat /\ noted.count = timed.index + 1
          BY <1>4, <2>3, <3>2
        <5> HIDE DEF reason
        <5> QED  BY <3>2, <4>1, <5>1, FailAlike
      <4> HIDE DEF next, book, failed
      <4>3. Alike(next, failed, book, scenario.config.bookState)
        BY <1>4, <1>5, <2>3, <4>2 DEF Alike
      <4> QED  BY <1>2, <4>1, <4>3
    <3>5. CASE reason = NoReason
      <4> DEFINE result == IF ~ Applies(book, e)
                           THEN Failed(noted, e.sequence, <<"failed to apply", e.type>>)
                           ELSE IF later # NoReason THEN Failed(noted, e.sequence, later)
                           ELSE traded
      <4>1. Fits(e, book)
        BY <1>4, <3>1, <3>5, NoObjectionFits
      <4>2. after = Into(result)
        BY <1>1, <2>1, <3>3, <3>5
      <4>3. stream = ApplyEvent(timed, e, In(mode))
        BY <3>2, <3>5 DEF config
      <4>4. Alike(next, result, found, scenario.config.bookState)
        <5> HIDE DEF book
        <5> QED  BY <1>4, <1>7, <2>3, <3>2, <4>1, <4>3, AppliedAlike DEF config
      <4> HIDE DEF result, next, found
      <4> QED  BY <1>3, <4>2, <4>4
    <3> QED  BY <3>4, <3>5
  <2> QED  BY <2>3, <2>4, <2>5
<1> QED  BY <1>4, <1>6, <1>7

-------------------------------------------------------------------------------
(* Both paths and both modes.                                              *)

\* What the two paths have in a mode.
AlikeIn(groups, all, checked) ==
  /\ DOMAIN all = {"books", "states"}
  /\ DOMAIN groups = DOMAIN all.states /\ DOMAIN all.books \subseteq DOMAIN groups
  /\ \A s \in DOMAIN groups : Alike(groups[s], all.states[s], BookFor(all, s), checked)

PathsAlike ==
  \A mode \in Modes : AlikeIn(grouped[mode], shared[mode], scenario.config.bookState)
ModesAlike == grouped["Light"] = grouped["Full"]

\* So it is of a symbol that neither path has seen.
LEMMA UnseenAlike ==
  ASSUME NEW groups, NEW all, NEW checked, AlikeIn(groups, all, checked), NEW symbol
  PROVE  Alike(GroupOf(groups, symbol), StateOf(all, symbol), BookFor(all, symbol), checked)
<1>1. CASE symbol \in DOMAIN groups
  BY <1>1 DEF AlikeIn, GroupOf, StateOf
<1>2. CASE symbol \notin DOMAIN groups
  <2> DEFINE group == [count |-> 0, stream |-> NewStream]
  <2>1. /\ GroupOf(groups, symbol) = group /\ StateOf(all, symbol) = NewState
        /\ BookFor(all, symbol) = EmptyBook
    BY <1>2 DEF AlikeIn, GroupOf, StateOf, BookFor, HasBook
  <2>2. IsSound(EmptyBook)
    BY EmptyBookSound DEF IsSound
  <2>3. CrossedReason(EmptyBook) = NoReason
    <3>1. DOMAIN EmptyBook.levels["Buy"] = {}
      BY DEF EmptyBook, Sides
    <3>2. SharedTopReason(EmptyBook) = NoReason
      BY <3>1 DEF SharedTopReason
    <3> QED  BY <2>2, <3>2, SameCrossing
  <2>4. /\ group.count = 0 /\ group.stream = NewStream /\ NewState.count = 0
        /\ NewStream.book = EmptyBook /\ NewStream.index = 0
    BY DEF NewState, NewStream
  <2>5. Open(NewStream, NewState)
    BY DEF Open, Tell, NewStream, NewState, StreamFields, StateFields
  <2> HIDE DEF group
  <2>6. Alike(group, NewState, EmptyBook, checked)
    BY <2>2, <2>3, <2>4, <2>5 DEF Alike
  <2> QED  BY <2>1, <2>6
<1> QED  BY <1>1, <1>2

\* In a mode an event leaves the paths alike.
LEMMA GroupAlike ==
  ASSUME NEW groups, NEW all, NEW mode \in Modes, NEW e, Formed(e),
         AlikeIn(groups, all, scenario.config.bookState)
  PROVE  AlikeIn(Group(groups, e, mode), SharedAfter(all, e, In(mode)), scenario.config.bookState)
<1> DEFINE symbol == e.symbol
           checked == scenario.config.bookState
           group == GroupOf(groups, symbol)
           next  == [count |-> group.count + 1,
                     stream |-> StreamAfter(group.stream, e, symbol, In(mode))]
           after == SharedAfter(all, e, In(mode))
           then  == Group(groups, e, mode)
<1>1. DOMAIN all = {"books", "states"}
  BY DEF AlikeIn
<1>2. PICK state, book : Sets(all, after, symbol, state, book) /\ Alike(next, state, book, checked)
  <2>1. Alike(group, StateOf(all, symbol), BookFor(all, symbol), checked)
    BY UnseenAlike
  <2> HIDE DEF group
  <2> QED  BY <1>1, <2>1, EventAlike
<1>3. then = Put(groups, symbol, next)
  BY DEF Group, GroupOf
<1> HIDE DEF after, next, group
<1>4. /\ DOMAIN then = DOMAIN groups \cup {symbol} /\ then[symbol] = next
      /\ \A s \in DOMAIN groups \ {symbol} : then[s] = groups[s]
  BY <1>3 DEF Put
<1> HIDE DEF then, symbol, checked
<1>5. /\ DOMAIN after = {"books", "states"}
      /\ DOMAIN after.states = DOMAIN then
      /\ DOMAIN after.books \subseteq DOMAIN then
  BY <1>2, <1>4 DEF Sets, AlikeIn
<1>6. ASSUME NEW s \in DOMAIN then
      PROVE  Alike(then[s], after.states[s], BookFor(after, s), checked)
  <2>1. CASE s = symbol
    BY <1>2, <1>4, <2>1 DEF Sets
  <2>2. CASE s # symbol
    <3>1. s \in DOMAIN groups /\ s \in DOMAIN all.states
      BY <1>4, <2>2 DEF AlikeIn
    <3>2. /\ then[s] = groups[s] /\ after.states[s] = all.states[s]
          /\ BookFor(after, s) = BookFor(all, s)
      BY <1>2, <1>4, <2>2, <3>1 DEF Sets
    <3>3. Alike(groups[s], all.states[s], BookFor(all, s), checked)
      BY <3>1 DEF AlikeIn, checked
    <3> QED  BY <3>2, <3>3
  <2> QED  BY <2>1, <2>2
<1>7. AlikeIn(then, after, checked)
  BY <1>5, <1>6 DEF AlikeIn
<1> QED  BY <1>7 DEF then, after, checked

\* The engine does the same in either mode to a stream with a sound book.
LEMMA SameInModes ==
  ASSUME NEW e, NEW stream, Formed(e), IsSound(stream.book), DOMAIN stream = StreamFields
  PROVE  StreamAfter(stream, e, e.symbol, In("Light")) = StreamAfter(stream, e, e.symbol, In("Full"))
<1> DEFINE light == In("Light")
           full  == In("Full")
           book  == stream.book
<1>1. light.sequences = full.sequences /\ light.timestamps = full.timestamps
  BY DEF In
<1>2. ASSUME NEW timed, timed.book = book, DOMAIN timed = StreamFields,
             EventObjection(e, book, e.symbol) = NoReason
      PROVE  ApplyEvent(timed, e, light) = ApplyEvent(timed, e, full)
  <2>1. Fits(e, book)
    BY <1>2, NoObjectionFits
  <2>2. CASE Refused(book, e)
    BY <1>2, <2>2 DEF ApplyEvent
  <2>3. CASE ~ Refused(book, e)
    <3> DEFINE found == AfterEvent(book, e)
               noted == IF e.type \in {"Execute", "Trade"} THEN Append(timed.activity, e)
                        ELSE timed.activity
               applied == [timed EXCEPT !.book = found, !.activity = noted]
               Said(config) == BookObjection(applied.book, config)
               After(said) == IF said = NoReason THEN [applied EXCEPT !.index = applied.index + 1]
                              ELSE Diagnose(applied, e.sequence, said)
    <3>1. IsSound(found)
      BY <2>1, <2>3, EventKeepsSound
    <3>2. BookObjection(found, light) = BookObjection(found, full)
      <4> HIDE DEF found
      <4> QED  BY <3>1, SameBookObjection DEF Modes
    <3>3. /\ ApplyEvent(timed, e, light) = After(Said(light))
          /\ ApplyEvent(timed, e, full) = After(Said(full))
      BY <1>2, <2>3 DEF ApplyEvent
    <3>4. Said(light) = Said(full)
      <4>1. applied.book = found
        BY <1>2 DEF StreamFields
      <4> HIDE DEF applied, found
      <4> QED  BY <3>2, <4>1
    <3> HIDE DEF After, Said
    <3> QED  BY <3>3, <3>4
  <2> QED  BY <2>2, <2>3
<1> DEFINE expected == IF stream.expected = 0 THEN e.sequence ELSE stream.expected
           counted == IF light.sequences THEN [stream EXCEPT !.expected = expected + 1] ELSE stream
           timed == IF light.timestamps THEN [counted EXCEPT !.last = {e.time}] ELSE counted
           gap == light.sequences /\ e.sequence # expected
           back == light.timestamps /\ \E last \in stream.last : e.time < last
           reason == EventObjection(e, book, e.symbol)
           Step(config) ==
             IF gap THEN Diagnose(stream, e.sequence, <<"sequence gap", expected, e.sequence>>)
             ELSE IF back
             THEN Diagnose(counted, e.sequence, <<"timestamp reversal", stream.last, e.time>>)
             ELSE IF reason # NoReason THEN Diagnose(timed, e.sequence, reason)
             ELSE ApplyEvent(timed, e, config)
<1>3. timed.book = book /\ DOMAIN timed = StreamFields
  <2> HIDE DEF expected
  <2> QED  BY DEF StreamFields
<1>4. ReplayStep(stream, e, e.symbol, light) = Step(light)
  BY DEF ReplayStep
<1>5. ReplayStep(stream, e, e.symbol, full) = Step(full)
  <2> HIDE DEF light, full
  <2> QED  BY <1>1 DEF ReplayStep
<1>6. Step(light) = Step(full)
  <2>1. reason = NoReason => ApplyEvent(timed, e, light) = ApplyEvent(timed, e, full)
    <3> HIDE DEF light, full, timed
    <3> QED  BY <1>2, <1>3
  <2> HIDE DEF light, full, timed, counted, gap, back, reason
  <2> QED  BY <2>1
<1> HIDE DEF Step, light, full
<1>7. StreamAfter(stream, e, e.symbol, light) = StreamAfter(stream, e, e.symbol, full)
  BY <1>4, <1>5, <1>6 DEF StreamAfter
<1> QED  BY <1>7 DEF light, full

\* Taking an event keeps the paths and the modes alike.
LEMMA TakeAlike ==
  ASSUME NEW e, Formed(e), Take(e), scenario' = scenario, PathsAlike, ModesAlike
  PROVE  PathsAlike' /\ ModesAlike'
<1> DEFINE checked == scenario.config.bookState
<1>1. /\ \A mode \in Modes : grouped'[mode] = Group(grouped[mode], e, mode)
      /\ \A mode \in Modes : shared'[mode] = SharedAfter(shared[mode], e, In(mode))
  BY DEF Take
<1>2. ASSUME NEW mode \in Modes
      PROVE  AlikeIn(grouped'[mode], shared'[mode], checked)
  <2>1. AlikeIn(grouped[mode], shared[mode], scenario.config.bookState)
    BY DEF PathsAlike
  <2>2. AlikeIn(Group(grouped[mode], e, mode), SharedAfter(shared[mode], e, In(mode)), checked)
    BY <2>1, GroupAlike
  <2> QED  BY <1>1, <2>2
<1>3. PathsAlike'
  <2>1. scenario'.config.bookState = checked
    OBVIOUS
  <2> QED  BY <1>2, <2>1 DEF PathsAlike
<1>4. ModesAlike'
  <2> DEFINE groups == grouped["Full"]
             group == GroupOf(groups, e.symbol)
             Then(mode) == [count |-> group.count + 1,
                            stream |-> StreamAfter(group.stream, e, e.symbol, In(mode))]
  <2>1. AlikeIn(groups, shared["Full"], checked) /\ grouped["Light"] = groups
    BY DEF PathsAlike, ModesAlike, Modes
  <2>2. \A mode : Group(groups, e, mode) = Put(groups, e.symbol, Then(mode))
    BY DEF Group, GroupOf
  <2>3. IsSound(group.stream.book) /\ DOMAIN group.stream = StreamFields
    <3> HIDE DEF groups, checked
    <3>1. Alike(group, StateOf(shared["Full"], e.symbol), BookFor(shared["Full"], e.symbol), checked)
      BY <2>1, UnseenAlike
    <3> HIDE DEF group
    <3> QED  BY <3>1 DEF Alike, Open, Shut, Tell
  <2>4. Then("Light") = Then("Full")
    <3> HIDE DEF group
    <3> QED  BY <2>3, SameInModes
  <2>5. grouped'["Light"] = grouped'["Full"]
    <3> HIDE DEF Then, groups
    <3> QED  BY <1>1, <2>1, <2>2, <2>4 DEF Modes, groups
  <2> QED  BY <2>5 DEF ModesAlike
<1> QED  BY <1>3, <1>4

-------------------------------------------------------------------------------
(* What the venue sends.                                                   *)

AnySide == Sides \cup {"None"}
Orders == [id : Int, symbol : Int, side : AnySide, price : Int, quantity : Int]
Events ==
  [type : Types, symbol : Int, id : Int, side : AnySide, price : Int, quantity : Int,
   begin : BOOLEAN, sequence : Int, time : Int]

FlowInv ==
  /\ sent \in Nat /\ nextId \in Int
  /\ active \in Seq(Orders)
  /\ pending \in [Symbols -> Seq(Events)]
  /\ \A e \in held \cup latest : Formed(e)

LEMMA EventTyped ==
  ASSUME NEW type \in Types, NEW symbol \in Int, NEW id \in Int, NEW side \in AnySide,
         NEW price \in Int, NEW quantity \in Int
  PROVE  Event(type, symbol, id, side, price, quantity) \in Events
BY DEF Event, Events

LEMMA MaxOfTwo == \A a, b \in Int : Max({a, b}) = IF a >= b THEN a ELSE b
<1> SUFFICES ASSUME NEW a \in Int, NEW b \in Int
             PROVE  Max({a, b}) = IF a >= b THEN a ELSE b
  OBVIOUS
<1> DEFINE m == IF a >= b THEN a ELSE b
<1>1. m \in {a, b} /\ \A y \in {a, b} : m >= y
  OBVIOUS
<1>2. \A x \in {a, b} : (\A y \in {a, b} : x >= y) => x = m
  OBVIOUS
<1> HIDE DEF m
<1>3. Max({a, b}) = m
  BY <1>1, <1>2 DEF Max
<1> QED  BY <1>3 DEF m

LEMMA PricesTyped == \A side : RandomPrices(side) \subseteq Int
<1>1. MidPrice \in Int /\ PriceRange \in Int
  BY FlowAssumption
<1> SUFFICES ASSUME NEW side, NEW depth \in 1 .. Max({1, PriceRange})
             PROVE  Max({1, IF side = "Buy" THEN MidPrice - depth ELSE MidPrice + depth}) \in Int
  BY DEF RandomPrices
<1>2. Max({1, PriceRange}) \in Int
  BY <1>1, MaxOfTwo
<1>3. depth \in Int
  BY <1>2
<1> DEFINE price == IF side = "Buy" THEN MidPrice - depth ELSE MidPrice + depth
<1>4. price \in Int
  BY <1>1, <1>3
<1> HIDE DEF price
<1>5. Max({1, price}) \in Int
  BY <1>4, MaxOfTwo
<1> QED  BY <1>5 DEF price

LEMMA AddsTyped ==
  ASSUME NEW symbol \in Int, NEW id \in Int
  PROVE  Adds(symbol, id) \subseteq Events
<1> SUFFICES ASSUME NEW side \in {"Buy", "Sell"}, NEW price \in RandomPrices(side),
                    NEW quantity \in Quantities
             PROVE  Event("Add", symbol, id, side, price, quantity) \in Events
  BY DEF Adds
<1>1. price \in Int /\ quantity \in Int /\ side \in AnySide /\ "Add" \in Types
  BY PricesTyped, FlowAssumption DEF AnySide, Sides, Types
<1> QED  BY <1>1, EventTyped

LEMMA AmendmentsTyped ==
  ASSUME NEW order \in Orders
  PROVE  Amendments(order) \subseteq Events
<1>1. /\ order.symbol \in Int /\ order.id \in Int /\ order.side \in AnySide
      /\ order.price \in Int /\ order.quantity \in Int
  BY DEF Orders
<1> DEFINE Of(type, price, quantity) ==
             Event(type, order.symbol, order.id, order.side, price, quantity)
<1>2. ASSUME NEW type \in {"Cancel", "Replace", "Execute"}, NEW price \in Int,
             NEW quantity \in Int
      PROVE  Of(type, price, quantity) \in Events
  BY <1>1, EventTyped DEF Types
<1>3. \A price \in RandomPrices(order.side) : price \in Int
  BY PricesTyped
<1>4. \A quantity \in Quantities : quantity \in Int
  BY FlowAssumption
<1>5. \A done \in 1 .. order.quantity : done \in Int
  BY <1>1
<1>6. Amendments(order) =
        {Of("Cancel", order.price, 0)}
        \cup {Of("Replace", price, quantity) :
                price \in RandomPrices(order.side), quantity \in Quantities}
        \cup {Of("Execute", order.price, done) : done \in 1 .. order.quantity}
  BY DEF Amendments
<1> HIDE DEF Of
<1>7. Of("Cancel", order.price, 0) \in Events
  BY <1>1, <1>2
<1>8. \A price \in RandomPrices(order.side), quantity \in Quantities :
        Of("Replace", price, quantity) \in Events
  BY <1>2, <1>3, <1>4
<1>9. \A done \in 1 .. order.quantity : Of("Execute", order.price, done) \in Events
  BY <1>1, <1>2, <1>5
<1> QED  BY <1>6, <1>7, <1>8, <1>9

LEMMA SymbolTyped ==
  ASSUME NEW which, NEW index \in Nat
  PROVE  SymbolAt(which, index) \in Int
<1> DEFINE count == Max({1, SymbolCount})
<1>1. count \in Nat /\ count > 0
  <2>1. SymbolCount \in Nat
    BY FlowAssumption
  <2>2. count = IF 1 >= SymbolCount THEN 1 ELSE SymbolCount
    BY <2>1, MaxOfTwo
  <2> HIDE DEF count
  <2> QED  BY <2>1, <2>2
<1>2. SymbolAt(which, index) = IF which = "MultiSymbol" THEN 1 + (index % count) ELSE 1
  BY DEF SymbolAt
<1> HIDE DEF count
<1>3. index % count \in Int
  BY <1>1
<1> QED  BY <1>2, <1>3

LEMMA LifecycleTyped ==
  ASSUME NEW index \in Nat
  PROVE  Lifecycle(index) \in Events
<1> DEFINE cycle == index \div 16
           away  == 5 + (cycle % 17)
           buy   == 2 * cycle + 1
           sell  == 2 * cycle + 2
           bid   == Max({1, MidPrice - away})
           ask   == MidPrice + away
           lower(ticks) == Max({1, bid - ticks})
           Buy(type, price, quantity)  == Event(type, 1, buy, "Buy", price, quantity)
           Sell(type, price, quantity) == Event(type, 1, sell, "Sell", price, quantity)
           all == <<Buy("Add", bid, 100), Buy("Cancel", bid, 0), Buy("Add", lower(1), 80),
        Buy("Replace", lower(1), 120), Buy("Replace", lower(1), 60),
        Buy("Replace", lower(2), 70), Buy("Cancel", lower(2), 0),
        Sell("Add", ask, 90), Sell("Execute", ask, 30), Sell("Replace", ask + 1, 50),
        Sell("Execute", ask + 1, 50), Sell("Add", ask, 40), Sell("Cancel", ask, 20),
        Sell("Cancel", ask, 0), Event("Trade", 1, 0, "Buy", bid, 1),
        Event("Heartbeat", 1, 0, "None", 0, 0)>>
           place == 1 + (index % 16)
<1>1. cycle \in Int /\ away \in Int /\ buy \in Int /\ sell \in Int /\ place \in 1 .. 16
  OBVIOUS
<1>2. MidPrice \in Int
  BY FlowAssumption
<1> HIDE DEF cycle, place
<1>3. ask \in Int /\ ask + 1 \in Int /\ MidPrice - away \in Int
  BY <1>1, <1>2
<1> HIDE DEF away, buy, sell, ask
<1>4. bid \in Int
  BY <1>3, MaxOfTwo
<1> HIDE DEF bid
<1>5. lower(1) \in Int /\ lower(2) \in Int
  BY <1>4, MaxOfTwo
<1> HIDE DEF lower
<1>6. ASSUME NEW type \in Types, NEW price \in Int, NEW quantity \in Int
      PROVE  Buy(type, price, quantity) \in Events /\ Sell(type, price, quantity) \in Events
  BY <1>1, EventTyped DEF AnySide, Sides
<1>7. /\ Event("Trade", 1, 0, "Buy", bid, 1) \in Events
      /\ Event("Heartbeat", 1, 0, "None", 0, 0) \in Events
  <2>1. /\ "Trade" \in Types /\ "Heartbeat" \in Types /\ "Buy" \in AnySide /\ "None" \in AnySide
        /\ 0 \in Int /\ 1 \in Int
    BY DEF Types, AnySide, Sides
  <2> QED  BY <1>4, <2>1, EventTyped, Zenon
<1> HIDE DEF Buy, Sell
<1>8. Lifecycle(index) = all[place]
  BY DEF Lifecycle, cycle, away, buy, sell, bid, ask, lower, Buy, Sell, place
<1>9. /\ "Add" \in Types /\ "Cancel" \in Types /\ "Replace" \in Types /\ "Execute" \in Types
  BY DEF Types
<1>10. /\ all[1] \in Events /\ all[2] \in Events /\ all[3] \in Events /\ all[4] \in Events
       /\ all[5] \in Events /\ all[6] \in Events /\ all[7] \in Events
  BY <1>4, <1>5, <1>6, <1>9
<1>11. /\ all[8] \in Events /\ all[9] \in Events /\ all[10] \in Events /\ all[11] \in Events
       /\ all[12] \in Events /\ all[13] \in Events /\ all[14] \in Events
  BY <1>3, <1>6, <1>9
<1>12. all[15] \in Events /\ all[16] \in Events
  BY <1>7
<1> HIDE DEF all
<1> QED  BY <1>1, <1>8, <1>10, <1>11, <1>12

LEMMA GeneratedTyped ==
  ASSUME FlowInv
  PROVE  Generated(flow, sent, active, nextId) \subseteq Events
<1>1. sent \in Nat /\ nextId \in Int /\ active \in Seq(Orders)
  BY DEF FlowInv
<1>2. Lifecycle(sent) \in Events
  BY <1>1, LifecycleTyped
<1>3. Adds(SymbolAt(flow, sent), nextId) \subseteq Events
  BY <1>1, SymbolTyped, AddsTyped
<1>4. ASSUME NEW k \in DOMAIN active PROVE Amendments(active[k]) \subseteq Events
  <2>1. active[k] \in Orders
    BY <1>1, <1>4
  <2> QED  BY <2>1, AmendmentsTyped
<1> QED  BY <1>2, <1>3, <1>4 DEF Generated

\* A sequence of the elements of a set.
LEMMA SetToSeqTyped ==
  ASSUME NEW S, IsFiniteSet(S)
  PROVE  SetToSeq(S) \in Seq(S)
<1> DEFINE n == Cardinality(S)
<1>1. n \in Nat /\ ExistsBijection(1 .. n, S)
  BY FS_CardinalityType
<1>2. PICK f \in [1 .. n -> S] : IsInjective(f)
  <2>1. PICK f \in Bijection(1 .. n, S) : TRUE
    BY <1>1 DEF ExistsBijection
  <2> HIDE DEF n
  <2> QED  BY <2>1 DEF Bijection, Injection
<1>3. SetToSeq(S) \in [1 .. n -> S]
  BY <1>2 DEF SetToSeq
<1> HIDE DEF n
<1> QED  BY <1>1, <1>3, IsSequence

LEMMA SnapshotTyped ==
  ASSUME FlowInv, NEW symbol \in Int
  PROVE  SnapshotOf(symbol) \in Seq(Events) /\ SnapshotOf(symbol) # <<>>
<1> DEFINE living == {x \in ToSet(active) : x.symbol = symbol}
           orders == SetToSeq(living)
           marker == Event("Snapshot", symbol, 0, "None", 0, 0)
           Bare(k) == Event("Snapshot", symbol, orders[k].id, orders[k].side,
                            orders[k].price, orders[k].quantity)
           Frame(k) == [Bare(k) EXCEPT !.begin = (k = 1)]
           frames == [k \in DOMAIN orders |-> Frame(k)]
           first == [marker EXCEPT !.begin = TRUE]
<1>1. active \in Seq(Orders)
  BY DEF FlowInv
<1>2. living \subseteq Orders /\ IsFiniteSet(living)
  <2>1. active \in [1 .. Len(active) -> Orders] /\ Len(active) \in Nat
    BY <1>1
  <2>2. IsFiniteSet(DOMAIN active)
    BY <2>1, FS_Interval
  <2>3. active \in Surjection(DOMAIN active, ToSet(active))
    <3>1. /\ active \in [DOMAIN active -> ToSet(active)]
          /\ \A x \in ToSet(active) : \E k \in DOMAIN active : active[k] = x
      BY <2>1 DEF ToSet
    <3> QED  BY <3>1 DEF Surjection
  <2>4. IsFiniteSet(ToSet(active))
    BY <2>2, <2>3, FS_Surjection
  <2>5. ToSet(active) \subseteq Orders
    BY <2>1 DEF ToSet
  <2>6. living \subseteq ToSet(active)
    OBVIOUS
  <2> HIDE DEF living
  <2> QED  BY <2>4, <2>5, <2>6, FS_Subset
<1> HIDE DEF living
<1>3. orders \in Seq(Orders)
  <2>1. orders \in Seq(living)
    BY <1>2, SetToSeqTyped
  <2> HIDE DEF orders
  <2> QED  BY <1>2, <2>1
<1>4. marker \in Events
  <2>1. "Snapshot" \in Types /\ "None" \in AnySide /\ 0 \in Int
    BY DEF Types, AnySide
  <2> QED  BY <2>1, EventTyped, Zenon
<1> HIDE DEF marker
<1>5. first \in Events
  BY <1>4 DEF Events
<1>6. ASSUME NEW k \in DOMAIN orders PROVE Frame(k) \in Events
  <2>1. orders[k] \in Orders
    <3> HIDE DEF orders
    <3> QED  BY <1>3, <1>6
  <2> HIDE DEF orders
  <2>2. Bare(k) \in Events
    BY <2>1, EventTyped DEF Orders, Types
  <2> HIDE DEF Bare
  <2> QED  BY <2>2 DEF Events
<1>7. SnapshotOf(symbol) = IF orders = <<>> THEN <<first, marker>> ELSE Append(frames, marker)
  BY DEF SnapshotOf, living, marker
<1> HIDE DEF orders, first, Frame
<1>8. frames \in Seq(Events)
  <2>1. frames \in [1 .. Len(orders) -> Events] /\ Len(orders) \in Nat
    BY <1>3, <1>6
  <2> HIDE DEF frames
  <2> QED  BY <2>1, IsSequence
<1> HIDE DEF frames
<1>9. <<first, marker>> \in Seq(Events) /\ <<first, marker>> # <<>>
  BY <1>4, <1>5
<1>10. Append(frames, marker) \in Seq(Events) /\ Append(frames, marker) # <<>>
  BY <1>4, <1>8, AppendProperties
<1> QED  BY <1>7, <1>9, <1>10

\* What may be sent is an event, and leaves the symbols events to send.
LEMMA UpcomingTyped ==
  ASSUME FlowInv, NEW next \in Upcoming
  PROVE  next[1] \in Events /\ next[2] \in [Symbols -> Seq(Events)]
<1>1. pending \in [Symbols -> Seq(Events)] /\ nextId \in Int /\ active \in Seq(Orders)
  BY DEF FlowInv
<1>2. ASSUME NEW s \in Symbols PROVE s \in Int
  BY FlowAssumption DEF Symbols
<1>3. CASE \E e \in Events : next = <<e, pending>>
  BY <1>1, <1>3
<1>4. CASE \E s \in Quiet : next = <<Head(SnapshotOf(s)), [pending EXCEPT ![s] = Tail(SnapshotOf(s))]>>
  <2>1. PICK s \in Quiet : next = <<Head(SnapshotOf(s)), [pending EXCEPT ![s] = Tail(SnapshotOf(s))]>>
    BY <1>4
  <2>2. s \in Symbols /\ SnapshotOf(s) \in Seq(Events) /\ SnapshotOf(s) # <<>>
    BY <1>2, SnapshotTyped DEF Quiet
  <2>3. Head(SnapshotOf(s)) \in Events /\ Tail(SnapshotOf(s)) \in Seq(Events)
    BY <2>2, HeadTailProperties
  <2> QED  BY <1>1, <2>1, <2>2, <2>3
<1>5. CASE \E s \in Symbols \ Quiet : next = <<Head(pending[s]), [pending EXCEPT ![s] = Tail(@)]>>
  <2>1. PICK s \in Symbols \ Quiet : next = <<Head(pending[s]), [pending EXCEPT ![s] = Tail(@)]>>
    BY <1>5
  <2>2. pending[s] \in Seq(Events) /\ pending[s] # <<>>
    BY <1>1, <2>1 DEF Quiet
  <2>3. Head(pending[s]) \in Events /\ Tail(pending[s]) \in Seq(Events)
    BY <2>2, HeadTailProperties
  <2> QED  BY <1>1, <2>1, <2>3
<1>6. CASE flow # "Venue"
  <2>1. \E e \in Generated(flow, sent, active, nextId) : next = <<e, pending>>
    BY <1>6 DEF Upcoming
  <2> QED  BY <1>3, <2>1, GeneratedTyped
<1>7. CASE flow = "Venue"
  <2>1. \/ \E e \in UNION {Adds(s, nextId) : s \in Quiet} : next = <<e, pending>>
        \/ \E k \in {j \in DOMAIN active : active[j].symbol \in Quiet} :
             \E e \in Amendments(active[k]) : next = <<e, pending>>
        \/ \E s \in Quiet : next = <<Head(SnapshotOf(s)), [pending EXCEPT ![s] = Tail(SnapshotOf(s))]>>
        \/ \E s \in Symbols \ Quiet : next = <<Head(pending[s]), [pending EXCEPT ![s] = Tail(@)]>>
    <3> DEFINE A == {<<e, pending>> : e \in UNION {Adds(s, nextId) : s \in Quiet}}
               K == {j \in DOMAIN active : active[j].symbol \in Quiet}
               B == UNION {{<<e, pending>> : e \in Amendments(active[k])} : k \in K}
               C == {<<Head(SnapshotOf(s)), [pending EXCEPT ![s] = Tail(SnapshotOf(s))]>> :
                       s \in Quiet}
               D == {<<Head(pending[s]), [pending EXCEPT ![s] = Tail(@)]>> : s \in Symbols \ Quiet}
    <3>1. Upcoming = IF flow # "Venue"
                     THEN {<<e, pending>> : e \in Generated(flow, sent, active, nextId)}
                     ELSE A \cup B \cup C \cup D
      BY Zenon DEF Upcoming
    <3>2. next \in A => \E e \in UNION {Adds(s, nextId) : s \in Quiet} : next = <<e, pending>>
      OBVIOUS
    <3>3. next \in B => \E k \in K : \E e \in Amendments(active[k]) : next = <<e, pending>>
      OBVIOUS
    <3>4. next \in C => \E s \in Quiet :
            next = <<Head(SnapshotOf(s)), [pending EXCEPT ![s] = Tail(SnapshotOf(s))]>>
      OBVIOUS
    <3>5. next \in D => \E s \in Symbols \ Quiet :
            next = <<Head(pending[s]), [pending EXCEPT ![s] = Tail(@)]>>
      OBVIOUS
    <3> HIDE DEF A, B, C, D
    <3>6. next \in A \/ next \in B \/ next \in C \/ next \in D
      BY <1>7, <3>1
    <3> QED  BY <3>2, <3>3, <3>4, <3>5, <3>6
  <2>2. CASE \E e \in UNION {Adds(s, nextId) : s \in Quiet} : next = <<e, pending>>
    <3>1. \A s \in Quiet : Adds(s, nextId) \subseteq Events
      BY <1>1, <1>2, AddsTyped DEF Quiet
    <3> QED  BY <1>3, <2>2, <3>1
  <2>3. CASE \E k \in {j \in DOMAIN active : active[j].symbol \in Quiet} :
               \E e \in Amendments(active[k]) : next = <<e, pending>>
    <3>1. \A k \in DOMAIN active : active[k] \in Orders
      BY <1>1
    <3>2. \A k \in DOMAIN active : Amendments(active[k]) \subseteq Events
      BY <3>1, AmendmentsTyped
    <3> QED  BY <1>3, <2>3, <3>2
  <2> QED  BY <1>4, <1>5, <2>1, <2>2, <2>3
<1> QED  BY <1>6, <1>7

\* The active orders stay orders.
LEMMA AmendedTyped ==
  ASSUME active \in Seq(Orders), NEW e \in Events
  PROVE  Amended(active, e) \in Seq(Orders)
<1> DEFINE order == [id |-> e.id, symbol |-> e.symbol, side |-> e.side,
                     price |-> e.price, quantity |-> e.quantity]
           Same(x) == x.id = e.id
           k == SelectInSeq(active, Same)
           left == active[k].quantity - e.quantity
<1>1. order \in Orders /\ e.quantity \in Int /\ e.type \in Types
  BY DEF Events, Orders
<1>2. Amended(active, e) =
        CASE e.type = "Add"     -> Append(active, order)
          [] e.type = "Replace" -> [active EXCEPT ![k] = order]
          [] e.type \in {"Cancel", "Execute"} ->
               IF e.quantity = 0 \/ left = 0 THEN RemoveAt(active, k)
               ELSE [active EXCEPT ![k].quantity = left]
          [] OTHER -> active
  BY DEF Amended, SelectInSeq
<1>3. k \in 0 .. Len(active)
  <2> DEFINE I == {i \in 1 .. Len(active) : active[i].id = e.id}
  <2>1. k = IF I # {} THEN Min(I) ELSE 0
    BY DEF SelectInSeq
  <2>2. CASE I # {}
    <3>1. I \in SUBSET Nat
      OBVIOUS
    <3>2. PICK n \in I : \A m \in I : n <= m
      <4> HIDE DEF I
      <4> QED  BY <2>2, <3>1, Least
    <3> HIDE DEF I
    <3>3. Min(I) \in I
      BY <3>2, Zenon DEF Min
    <3> QED  BY <2>1, <2>2, <3>3 DEF I
  <2> HIDE DEF I, k
  <2>3. CASE I = {}
    BY <2>1, <2>3
  <2> QED  BY <2>2, <2>3
<1> HIDE DEF order, k
<1>4. Append(active, order) \in Seq(Orders)
  BY <1>1
<1>5. [active EXCEPT ![k] = order] \in Seq(Orders)
  <2>1. CASE k = 0
    <3>1. DOMAIN active = 1 .. Len(active) /\ 0 \notin DOMAIN active
      OBVIOUS
    <3>2. [active EXCEPT ![k] = order] = active
      BY <2>1, <3>1
    <3> QED  BY <3>2
  <2>2. CASE k # 0
    <3>1. k \in 1 .. Len(active)
      BY <1>3, <2>2
    <3> QED  BY <1>1, <3>1, ExceptSeq
  <2> QED  BY <2>1, <2>2
<1>6. [active EXCEPT ![k].quantity = left] \in Seq(Orders)
  <2>1. CASE k = 0
    <3>1. DOMAIN active = 1 .. Len(active) /\ 0 \notin DOMAIN active
      OBVIOUS
    <3>2. [active EXCEPT ![k].quantity = left] = active
      BY <2>1, <3>1
    <3> QED  BY <3>2
  <2>2. CASE k # 0
    <3>1. k \in 1 .. Len(active)
      BY <1>3, <2>2
    <3>2. active[k] \in Orders
      BY <3>1
    <3>3. [active[k] EXCEPT !.quantity = left] \in Orders
      <4>1. left \in Int
        <5>1. \A x \in Orders : x.quantity \in Int
          BY DEF Orders
        <5>2. active[k].quantity \in Int
          BY <3>2, <5>1
        <5> QED  BY <1>1, <5>2
      <4> HIDE DEF left
      <4>2. \A x \in Orders : [x EXCEPT !.quantity = left] \in Orders
        BY <4>1 DEF Orders
      <4> QED  BY <3>2, <4>2
    <3> HIDE DEF left
    <3> DEFINE less == [active[k] EXCEPT !.quantity = left]
    <3>4. [active EXCEPT ![k].quantity = left] = [active EXCEPT ![k] = less]
      BY <3>1
    <3> HIDE DEF less
    <3>5. [active EXCEPT ![k] = less] \in Seq(Orders)
      BY <3>1, <3>3, ExceptSeq DEF less
    <3> QED  BY <3>4, <3>5
  <2> QED  BY <2>1, <2>2
<1>7. RemoveAt(active, k) \in Seq(Orders)
  <2>1. CASE k = 0
    <3>1. SubSeq(active, 1, k - 1) \in Seq(Orders) /\ SubSeq(active, k + 1, Len(active)) \in Seq(Orders)
      BY <2>1, SubSeqProperties
    <3> QED  BY <3>1, ConcatProperties DEF RemoveAt
  <2>2. CASE k # 0
    <3>1. k \in 1 .. Len(active)
      BY <1>3, <2>2
    <3> QED  BY <3>1, RemoveAtProperties
  <2> QED  BY <2>1, <2>2
<1> HIDE DEF left
<1> QED  BY <1>1, <1>2, <1>4, <1>5, <1>6, <1>7

\* An event is formed as it leaves the venue, and after damage.
LEMMA StampedFormed ==
  ASSUME NEW e \in Events
  PROVE  Formed(Stamped(e)) /\ \A d \in Damages(Stamped(e)) : Formed(d)
<1> DEFINE s == Stamped(e)
<1>1. Formed(s)
  BY DEF Stamped, Events, Formed, Fields
<1> HIDE DEF s
<1>2. ASSUME NEW d \in Damages(s) PROVE Formed(d)
  BY <1>1, <1>2 DEF Damages, Formed, Fields
<1> QED  BY <1>1, <1>2 DEF s

-------------------------------------------------------------------------------
(* The specification.                                                      *)

ReplayInv == FlowInv /\ PathsAlike /\ ModesAlike

LEMMA ReplayInit == Init => ReplayInv
<1> SUFFICES ASSUME Init PROVE ReplayInv
  OBVIOUS
<1>1. FlowInv
  <2>1. <<>> \in Seq(Orders) /\ <<>> \in Seq(Events)
    OBVIOUS
  <2> QED  BY <2>1 DEF Init, FlowInv
<1>2. ASSUME NEW mode \in Modes
      PROVE  AlikeIn(grouped[mode], shared[mode], scenario.config.bookState)
  <2>1. grouped[mode] = <<>> /\ shared[mode] = NewShared
    BY DEF Init
  <2>2. DOMAIN NewShared = {"books", "states"} /\ DOMAIN NewShared.states = {} /\ DOMAIN NewShared.books = {}
    BY DEF NewShared
  <2> QED  BY <2>1, <2>2 DEF AlikeIn
<1>3. PathsAlike /\ ModesAlike
  BY <1>2 DEF PathsAlike, ModesAlike, Init, Modes
<1> QED  BY <1>1, <1>3 DEF ReplayInv

LEMMA ReplayStepKeeps == ReplayInv /\ [Next]_vars => ReplayInv'
<1> SUFFICES ASSUME ReplayInv, [Next]_vars PROVE ReplayInv'
  OBVIOUS
<1>1. FlowInv /\ PathsAlike /\ ModesAlike
  BY DEF ReplayInv
<1>2. ASSUME NEW next \in Upcoming, Send(next[1], next[2])
      PROVE  /\ scenario' = scenario /\ sent' \in Nat /\ nextId' \in Int
             /\ active' \in Seq(Orders) /\ pending' \in [Symbols -> Seq(Events)]
             /\ Formed(Stamped(next[1])) /\ \A d \in Damages(Stamped(next[1])) : Formed(d)
  <2>1. next[1] \in Events /\ next[2] \in [Symbols -> Seq(Events)]
    BY <1>1, UpcomingTyped
  <2>2. sent \in Nat /\ nextId \in Int /\ active \in Seq(Orders)
    BY <1>1 DEF FlowInv
  <2>3. active' \in Seq(Orders)
    BY <1>2, <2>1, <2>2, AmendedTyped DEF Send
  <2>4. sent' \in Nat /\ nextId' \in Int /\ pending' = next[2] /\ scenario' = scenario
    BY <1>2, <2>2 DEF Send
  <2> QED  BY <2>1, <2>3, <2>4, StampedFormed
<1>3. ASSUME NEW e, Formed(e), Take(e), scenario' = scenario
      PROVE  PathsAlike' /\ ModesAlike' /\ latest' = {e}
  BY <1>1, <1>3, TakeAlike DEF Take
<1>4. ASSUME UNCHANGED <<scenario, grouped, shared>> PROVE PathsAlike' /\ ModesAlike'
  BY <1>1, <1>4 DEF PathsAlike, ModesAlike
<1>5. \A e \in held \cup latest : Formed(e)
  BY <1>1 DEF FlowInv
<1>6. CASE Arrive
  <2>1. PICK next \in Upcoming : /\ Send(next[1], next[2]) /\ Take(Stamped(next[1]))
                                 /\ UNCHANGED <<held, faults, tampered>>
    BY <1>6 DEF Arrive
  <2>2. PathsAlike' /\ ModesAlike' /\ latest' = {Stamped(next[1])}
    BY <1>2, <1>3, <2>1
  <2> QED  BY <1>2, <1>5, <2>1, <2>2 DEF ReplayInv, FlowInv
<1>7. CASE Lose
  <2>1. PICK next \in Upcoming : /\ Send(next[1], next[2])
                                 /\ UNCHANGED <<held, tampered, grouped, shared, latest, synced>>
    BY <1>7 DEF Lose
  <2>2. PathsAlike' /\ ModesAlike'
    BY <1>2, <1>4, <2>1
  <2> QED  BY <1>2, <1>5, <2>1, <2>2 DEF ReplayInv, FlowInv
<1>8. CASE HoldBack
  <2>1. PICK next \in Upcoming : /\ Send(next[1], next[2])
                                 /\ held' = {Stamped(next[1])}
                                 /\ UNCHANGED <<tampered, grouped, shared, latest, synced>>
    BY <1>8 DEF HoldBack
  <2>2. PathsAlike' /\ ModesAlike'
    BY <1>2, <1>4, <2>1
  <2> QED  BY <1>2, <1>5, <2>1, <2>2 DEF ReplayInv, FlowInv
<1>9. CASE Release
  <2>1. PICK e \in held : Take(e) /\ held' = {} /\ UNCHANGED venue
    BY <1>9 DEF Release
  <2>2. PathsAlike' /\ ModesAlike' /\ latest' = {e} /\ Formed(e)
    BY <1>3, <1>5, <2>1 DEF venue
  <2> QED  BY <1>1, <2>1, <2>2 DEF ReplayInv, FlowInv, venue
<1>10. CASE Repeat
  <2>1. PICK e \in latest : Take(e) /\ UNCHANGED venue /\ UNCHANGED held
    BY <1>10 DEF Repeat
  <2>2. PathsAlike' /\ ModesAlike' /\ latest' = {e} /\ Formed(e)
    BY <1>3, <1>5, <2>1 DEF venue
  <2> QED  BY <1>1, <1>5, <2>1, <2>2 DEF ReplayInv, FlowInv, venue
<1>11. CASE Damage
  <2>1. PICK next \in Upcoming : \E e \in Damages(Stamped(next[1])) :
           Send(next[1], next[2]) /\ Take(e) /\ UNCHANGED held
    BY <1>11 DEF Damage
  <2>2. PICK e \in Damages(Stamped(next[1])) :
           Send(next[1], next[2]) /\ Take(e) /\ UNCHANGED held
    BY <2>1
  <2>3. Formed(e)
    BY <1>2, <2>2
  <2>4. PathsAlike' /\ ModesAlike' /\ latest' = {e}
    BY <1>2, <1>3, <2>2, <2>3
  <2> QED  BY <1>2, <1>5, <2>2, <2>3, <2>4 DEF ReplayInv, FlowInv
<1>12. CASE UNCHANGED vars
  BY <1>1, <1>4, <1>12 DEF ReplayInv, FlowInv, vars
<1> QED  BY <1>6, <1>7, <1>8, <1>9, <1>10, <1>11, <1>12 DEF Next

LEMMA ReplayInvariant == Spec => []ReplayInv
<1> QED  BY ReplayInit, ReplayStepKeeps, PTL DEF Spec

\* The last full check of a book, on either path, finds nothing more, so both
\* paths summarise a symbol alike.
LEMMA SummariesAgree ==
  ASSUME ReplayInv, NEW mode \in Modes, NEW s \in DOMAIN grouped[mode]
  PROVE  GroupedSummary(mode, s) = SharedSummary(mode, s)
<1> DEFINE group == grouped[mode][s]
           state == shared[mode].states[s]
           book  == BookFor(shared[mode], s)
           config == In(mode)
<1>1. Alike(group, state, book, scenario.config.bookState)
  BY DEF ReplayInv, PathsAlike, AlikeIn
<1>2. config.bookState = scenario.config.bookState
  BY DEF In
<1> HIDE DEF config
<1>3. Finalized(group.stream, config) = group.stream
  <2> HIDE DEF group, state, book
  <2>1. CASE Shut(group.stream, state)
    BY <2>1 DEF Finalized, Shut
  <2>2. CASE config.bookState => CrossedReason(book) = NoReason
    <3>1. group.stream.book = book /\ IsSound(book)
      BY <1>1 DEF Alike
    <3>2. FullBookReason(book) = CrossedReason(book)
      BY <3>1, SameChecksOfBook
    <3> QED  BY <2>2, <3>1, <3>2 DEF Finalized
  <2> QED  BY <1>1, <1>2, <2>1, <2>2 DEF Alike
<1>4. Settled(shared[mode], s, config) = state
  <2>1. CASE Shut(group.stream, state)
    BY <2>1 DEF Settled, Shut
  <2>2. CASE config.bookState => CrossedReason(book) = NoReason
    <3>1. IsSound(book)
      BY <1>1 DEF Alike
    <3>2. SharedFullReason(book) = CrossedReason(book)
      <4> HIDE DEF book
      <4> QED  BY <3>1, SameChecksOfBook
    <3> QED  BY <2>2, <3>2 DEF Settled
  <2> QED  BY <1>1, <1>2, <2>1, <2>2 DEF Alike
<1>5. /\ state.count = group.count /\ group.stream.book = book
      /\ state.valid = group.stream.valid /\ state.activity = group.stream.activity
      /\ state.diagnostics = group.stream.diagnostics /\ state.error = group.stream.error
  <2> HIDE DEF group, state, book
  <2> QED  BY <1>1 DEF Alike, Open, Shut, Tell
<1>6. GroupedSummary(mode, s) =
        [count |-> group.count, valid |-> group.stream.valid, book |-> group.stream.book,
         activity |-> group.stream.activity, diagnostics |-> group.stream.diagnostics,
         error |-> group.stream.error]
  BY <1>3 DEF GroupedSummary, config
<1>7. SharedSummary(mode, s) =
        [count |-> state.count, valid |-> state.valid, book |-> book,
         activity |-> state.activity, diagnostics |-> state.diagnostics,
         error |-> state.error]
  BY <1>4 DEF SharedSummary, config
<1> HIDE DEF group, state, book
<1> QED  BY <1>5, <1>6, <1>7

\* For any number of symbols and any faults on the way, replay_by_symbol and
\* replay_shared_by_symbol return the same summary of every symbol: the checks
\* that the shared loop repeats, in its own order and on its own state, never
\* come to another verdict, book, error or count than the engine's.
THEOREM PathsAgree == Spec => []Parity
<1>1. ReplayInv => Parity
  <2> SUFFICES ASSUME ReplayInv, NEW mode \in Modes
               PROVE  GroupedAggregate(mode) = SharedAggregate(mode)
    BY DEF Parity
  <2>1. DOMAIN grouped[mode] = DOMAIN shared[mode].states
    BY DEF ReplayInv, PathsAlike, AlikeIn
  <2>2. \A s \in DOMAIN grouped[mode] : GroupedSummary(mode, s) = SharedSummary(mode, s)
    BY SummariesAgree
  <2> QED  BY <2>1, <2>2 DEF GroupedAggregate, SharedAggregate
<1> QED  BY <1>1, ReplayInvariant, PTL

\* Light validation returns what full validation returns: no event leaves a
\* book that only the full check of its queues and totals would refuse.
THEOREM ModesAlwaysAgree == Spec => []ModesAgree
<1>1. ReplayInv => ModesAgree
  <2> SUFFICES ASSUME ReplayInv PROVE ModesAgree
    OBVIOUS
  <2>1. grouped["Light"] = grouped["Full"]
    BY DEF ReplayInv, ModesAlike
  <2>2. ASSUME NEW s \in DOMAIN grouped["Light"]
        PROVE  GroupedSummary("Light", s) = GroupedSummary("Full", s)
    <3> DEFINE stream == grouped["Light"][s].stream
    <3>1. ASSUME NEW mode \in Modes PROVE Finalized(stream, In(mode)) = stream
      <4>1. s \in DOMAIN grouped[mode] /\ grouped[mode][s].stream = stream
        BY <2>1, <2>2 DEF Modes
      <4>2. Alike(grouped[mode][s], shared[mode].states[s], BookFor(shared[mode], s),
                  scenario.config.bookState)
        BY <4>1 DEF ReplayInv, PathsAlike, AlikeIn
      <4> DEFINE book == BookFor(shared[mode], s)
      <4>3. /\ stream.book = book /\ IsSound(book)
            /\ \/ stream.valid = FALSE
               \/ scenario.config.bookState => CrossedReason(book) = NoReason
        <5> HIDE DEF book, stream
        <5> QED  BY <4>1, <4>2 DEF Alike, Shut, book
      <4>4. FullBookReason(book) = CrossedReason(book)
        <5> HIDE DEF book
        <5> QED  BY <4>3, SameChecksOfBook
      <4>5. In(mode).bookState = scenario.config.bookState
        BY DEF In
      <4> HIDE DEF book, stream
      <4> QED  BY <4>3, <4>4, <4>5 DEF Finalized
    <3>2. Finalized(stream, In("Light")) = stream /\ Finalized(stream, In("Full")) = stream
      BY <3>1 DEF Modes
    <3> QED  BY <2>1, <3>2 DEF GroupedSummary
  <2> QED  BY <2>1, <2>2 DEF ModesAgree, GroupedAggregate
<1> QED  BY <1>1, ReplayInvariant, PTL
===============================================================================
