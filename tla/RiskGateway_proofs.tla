-------------------------- MODULE RiskGateway_proofs ---------------------------
(***************************************************************************)
(* Proofs about the risk gateway, alone and with a session attached, for   *)
(* every set of orders, reports, limits and ids: what is stopped tracks    *)
(* nothing, the four maps of working orders agree, what is tracked is live *)
(* in the session, the session's log tells all of it, final states are     *)
(* final, and a disconnect releases everything when the gateway refuses    *)
(* orders while it is disconnected; and in front of a matching engine:     *)
(* what it counts as working is what rests there.                          *)
(***************************************************************************)
EXTENDS SessionGateway, GatedMatching, FiniteSetTheorems, FunctionTheorems,
        SequenceTheorems, WellFoundedInduction, TLAPS

-------------------------------------------------------------------------------
(* The gateway.                                                            *)

\* Every call of the gateway, whatever its arguments.
AnyCall ==
  \/ \E r, clOrdId : CheckNewOrder(r, clOrdId)
  \/ \E exchange, price, quantity, clOrdId :
        CheckReplaceOrder(exchange, price, quantity, clOrdId)
  \/ \E clOrdId : CallerReleases(clOrdId)
  \/ \E report : OnExecutionReport(report)
  \/ EnableKillSwitch \/ DisableKillSwitch \/ OnDisconnect \/ OnReconnect
  \/ \E symbol, price : OnMarketData(symbol, price)
  \/ \E symbol, position : SetPosition(symbol, position)
  \/ \E newLimits \in LimitSets : SetLimits(newLimits)
  \/ Tick
  \/ UNCHANGED gatewayVars

\* The limits that are set on the way agree on what a disconnect does.
LimitsAgree ==
  \A a, b \in LimitSets : /\ a.cancelOnDisconnect = b.cancelOnDisconnect
                          /\ a.whenDown = b.whenDown

StopInv == limits \in LimitSets /\ StoppedMeansNothingWorks

\* Where nothing works, no report finds an order, no replacement has a target
\* and nothing is there to be released.
LEMMA NothingToFind ==
  /\ \A report, stp : OnReport(NoWorking, report, stp) = NoWorking
  /\ \A clOrdId : ReleaseOrder(NoWorking, clOrdId) = NoWorking
  /\ working = NoWorking => \A exchange : Replaceable(exchange) = {}
<1>1. /\ NoWorking.orders = <<>> /\ NoWorking.boundTo = <<>>
      /\ DOMAIN NoWorking.orders = {} /\ DOMAIN NoWorking.boundTo = {}
  BY DEF NoWorking
<1>2. \A report : Subject(NoWorking, report) = {}
  BY <1>1 DEF Subject
<1> QED  BY <1>1, <1>2 DEF OnReport, ReleaseOrder, Replaceable

\* What is stopped stays without orders, whatever is called.
LEMMA StopStep == LimitsAgree /\ StopInv /\ AnyCall => StopInv'
<1> SUFFICES ASSUME LimitsAgree, StopInv, AnyCall PROVE StopInv'
  OBVIOUS
<1>1. limits \in LimitSets /\ (Stopped => working = NoWorking)
  BY DEF StopInv, StoppedMeansNothingWorks
<1>2. Stopped => ~ Open
  BY DEF Stopped, Open
<1> USE DEF StopInv, StoppedMeansNothingWorks, controls, inputs, orders
<1>3. ASSUME NEW r, NEW clOrdId, CheckNewOrder(r, clOrdId) PROVE StopInv'
  <2>1. UNCHANGED controls /\ (Stopped => UNCHANGED working)
    BY <1>2, <1>3 DEF CheckNewOrder, RefuseUncounted
  <2> QED  BY <1>1, <2>1 DEF Stopped
<1>4. ASSUME NEW exchange, NEW price, NEW quantity, NEW clOrdId,
             CheckReplaceOrder(exchange, price, quantity, clOrdId)
      PROVE  StopInv'
  <2>1. UNCHANGED controls /\ (Stopped => UNCHANGED working)
    BY <1>2, <1>4 DEF CheckReplaceOrder, RefuseUncounted
  <2> QED  BY <1>1, <2>1 DEF Stopped
<1>5. ASSUME NEW report, OnExecutionReport(report) PROVE StopInv'
  <2>1. UNCHANGED controls /\ working' = OnReport(working, report, limits.stp)
    BY <1>5 DEF OnExecutionReport
  <2> QED  BY <1>1, <2>1, NothingToFind DEF Stopped
<1>6. ASSUME NEW clOrdId, CallerReleases(clOrdId) PROVE StopInv'
  <2>1. UNCHANGED controls /\ working' = ReleaseOrder(working, clOrdId)
    BY <1>6 DEF CallerReleases
  <2> QED  BY <1>1, <2>1, NothingToFind DEF Stopped
<1>7. CASE EnableKillSwitch
  BY <1>1, <1>7 DEF EnableKillSwitch, CancelAll
<1>8. CASE DisableKillSwitch \/ OnReconnect
  BY <1>1, <1>8 DEF DisableKillSwitch, OnReconnect, Stopped
<1>9. CASE OnDisconnect
  <2>1. /\ connected' = FALSE /\ UNCHANGED <<limits, killed>>
        /\ working' = IF connected /\ limits.cancelOnDisconnect THEN NoWorking ELSE working
    BY <1>9 DEF OnDisconnect, CancelAll
  <2> QED  BY <1>1, <2>1 DEF Stopped
<1>10. ASSUME NEW newLimits \in LimitSets, SetLimits(newLimits) PROVE StopInv'
  <2>1. limits' = newLimits /\ UNCHANGED <<killed, connected, working>>
    BY <1>10 DEF SetLimits
  <2>2. /\ limits.cancelOnDisconnect = newLimits.cancelOnDisconnect
        /\ limits.whenDown = newLimits.whenDown
    BY <1>1 DEF LimitsAgree
  <2> QED  BY <1>1, <2>1, <2>2 DEF Stopped
<1>11. ASSUME UNCHANGED <<controls, working>> PROVE StopInv'
  BY <1>1, <1>11 DEF Stopped
<1>12. CASE \/ \E symbol, price : OnMarketData(symbol, price)
            \/ \E symbol, position : SetPosition(symbol, position)
            \/ Tick \/ UNCHANGED gatewayVars
  <2>1. UNCHANGED <<controls, working>>
    BY <1>12 DEF OnMarketData, SetPosition, Tick, gatewayVars
  <2> QED  BY <1>11, <2>1
<1> QED
  BY <1>3, <1>4, <1>5, <1>6, <1>7, <1>8, <1>9, <1>10, <1>12 DEF AnyCall

\* The gateway alone: after the kill switch, and after a disconnect that
\* cancels, nothing works until orders are let through again.
THEOREM StoppedGatewayTracksNothing ==
  ASSUME LimitsAgree PROVE GatewaySpec => []StoppedMeansNothingWorks
<1>1. GatewayInit => StopInv
  BY DEF GatewayInit, StopInv, StoppedMeansNothingWorks
<1>2. [Calls]_gatewayVars => AnyCall
  BY DEF Calls, AnyCall
<1>3. StopInv => StoppedMeansNothingWorks
  BY DEF StopInv
<1> QED  BY <1>1, <1>2, <1>3, StopStep, PTL DEF GatewaySpec

-------------------------------------------------------------------------------
(* Sums of quantities.                                                     *)

\* The first numbers are as many as the last of them says.
LEMMA IntervalUpTo ==
  \A n \in Nat : IsFiniteSet(1 .. n) /\ Cardinality(1 .. n) = n
<1> SUFFICES ASSUME NEW n \in Nat PROVE IsFiniteSet(1 .. n) /\ Cardinality(1 .. n) = n
  OBVIOUS
<1>1. 1 \in Int /\ n \in Int /\ (1 > n => n = 0) /\ n - 1 + 1 = n
  OBVIOUS
<1> QED  BY <1>1, FS_Interval

\* Finitely many orders have finitely many units left.
LEMMA UnitsLeftFinite ==
  ASSUME NEW cs, IsFiniteSet(cs), NEW quantity, \A c \in cs : quantity[c] \in Nat
  PROVE  /\ IsFiniteSet(UnitsLeft(cs, quantity))
         /\ Cardinality(UnitsLeft(cs, quantity)) \in Nat
<1> DEFINE Own(c) == {c} \X (1 .. quantity[c])
           own == [c \in cs |-> Own(c)]
           all == {Own(c) : c \in cs}
<1>1. own \in Surjection(cs, all)
  BY DEF Surjection
<1>2. IsFiniteSet(all)
  BY <1>1, FS_Surjection
<1>3. ASSUME NEW c \in cs PROVE IsFiniteSet(Own(c))
  <2>1. IsFiniteSet(1 .. quantity[c])
    BY FS_Interval
  <2> QED  BY <2>1, FS_Singleton, FS_Product
<1>4. IsFiniteSet(UNION all)
  BY <1>2, <1>3, FS_UNION
<1>5. UNION all = UnitsLeft(cs, quantity)
  BY DEF UnitsLeft
<1> QED  BY <1>4, <1>5, FS_CardinalityType

\* One more order adds what it has left.
LEMMA UnitsLeftAdd ==
  ASSUME NEW cs, IsFiniteSet(cs), NEW quantity, NEW one, one \notin cs,
         \A c \in cs \cup {one} : quantity[c] \in Nat
  PROVE  Cardinality(UnitsLeft(cs \cup {one}, quantity)) =
           Cardinality(UnitsLeft(cs, quantity)) + quantity[one]
<1> DEFINE own == {one} \X (1 .. quantity[one])
<1>1. IsFiniteSet(UnitsLeft(cs, quantity)) /\ Cardinality(UnitsLeft(cs, quantity)) \in Nat
  BY UnitsLeftFinite
<1>2. IsFiniteSet(own) /\ Cardinality(own) = quantity[one]
  <2>1. /\ IsFiniteSet(1 .. quantity[one])
        /\ Cardinality(1 .. quantity[one]) = quantity[one]
    <3>1. quantity[one] \in Nat
      OBVIOUS
    <3> QED  BY <3>1, IntervalUpTo, Zenon
  <2>2. IsFiniteSet({one}) /\ Cardinality({one}) = 1
    BY FS_Singleton
  <2>3. /\ IsFiniteSet(own)
        /\ Cardinality(own) = 1 * Cardinality(1 .. quantity[one])
    BY <2>1, <2>2, FS_Product, Zenon
  <2>4. quantity[one] \in Nat
    OBVIOUS
  <2> QED  BY <2>1, <2>3, <2>4
<1>3. UnitsLeft(cs \cup {one}, quantity) = UnitsLeft(cs, quantity) \cup own
  BY DEF UnitsLeft
<1>4. Cardinality(UnitsLeft(cs, quantity) \cap own) = 0
  <2>1. UnitsLeft(cs, quantity) \cap own = {}
    BY DEF UnitsLeft
  <2> QED  BY <2>1, FS_EmptySet
<1>5. quantity[one] \in Nat
  OBVIOUS
<1> HIDE DEF own
<1>6. Cardinality(UnitsLeft(cs, quantity) \cup own) =
        Cardinality(UnitsLeft(cs, quantity)) + Cardinality(own) - 0
  BY <1>1, <1>2, <1>4, FS_Union
<1>7. Cardinality(UnitsLeft(cs \cup {one}, quantity)) =
        Cardinality(UnitsLeft(cs, quantity) \cup own)
  BY <1>3, Zenon
<1> QED  BY <1>1, <1>2, <1>5, <1>6, <1>7

\* Quantities of orders: of finitely many, each with something left.
SoundQuantities(quantity, key) ==
  /\ IsFiniteSet(DOMAIN key) /\ DOMAIN quantity = DOMAIN key
  /\ \A c \in DOMAIN key : quantity[c] \in Nat \ {0}

\* One more order raises the sum under its key.
LEMMA RaisedAddsUp ==
  ASSUME NEW map, NEW key, NEW quantity, AddsUp(map, key, quantity),
         SoundQuantities(quantity, key), NEW one, one \notin DOMAIN key,
         NEW k, NEW n \in Nat \ {0}
  PROVE  AddsUp(Raised(map, k, n), With(key, one, k), With(quantity, one, n))
<1> DEFINE after == Raised(map, k, n)
           key2 == With(key, one, k)
           quantity2 == With(quantity, one, n)
<1>1. /\ DOMAIN key2 = DOMAIN key \cup {one} /\ key2[one] = k
      /\ \A c \in DOMAIN key : key2[c] = key[c]
      /\ DOMAIN quantity2 = DOMAIN key \cup {one} /\ quantity2[one] = n
      /\ \A c \in DOMAIN key : quantity2[c] = quantity[c]
  BY DEF With, SoundQuantities
<1>2. /\ DOMAIN after = DOMAIN map \cup {k}
      /\ after[k] = n + (IF k \in DOMAIN map THEN map[k] ELSE 0)
      /\ \A other \in DOMAIN map \ {k} : after[other] = map[other]
  BY DEF With, Raised
<1> HIDE DEF after, key2, quantity2
<1>3. DOMAIN after = {key2[c] : c \in DOMAIN key2}
  BY <1>1, <1>2 DEF AddsUp
<1>4. ASSUME NEW other
      PROVE  UnitsLeft(Under(key, other), quantity2) = UnitsLeft(Under(key, other), quantity)
  BY <1>1 DEF UnitsLeft, Under
<1>5. ASSUME NEW other \in DOMAIN map \ {k}
      PROVE  after[other] = Cardinality(UnitsLeft(Under(key2, other), quantity2))
  <2>1. Under(key2, other) = Under(key, other)
    BY <1>1, <1>5 DEF Under
  <2>2. after[other] = Cardinality(UnitsLeft(Under(key, other), quantity))
    BY <1>2, <1>5 DEF AddsUp
  <2> QED  BY <1>4, <2>1, <2>2
<1>6. after[k] = Cardinality(UnitsLeft(Under(key2, k), quantity2))
  <2>1. Under(key2, k) = Under(key, k) \cup {one}
    BY <1>1 DEF Under
  <2>2. /\ IsFiniteSet(Under(key, k)) /\ one \notin Under(key, k)
        /\ \A c \in Under(key, k) \cup {one} : quantity2[c] \in Nat
    <3>1. Under(key, k) \subseteq DOMAIN key
      BY DEF Under
    <3>2. IsFiniteSet(Under(key, k))
      BY <3>1, FS_Subset DEF SoundQuantities
    <3> QED  BY <1>1, <3>1, <3>2 DEF SoundQuantities
  <2>3. Cardinality(UnitsLeft(Under(key, k) \cup {one}, quantity2)) =
          Cardinality(UnitsLeft(Under(key, k), quantity2)) + n
    BY <1>1, <2>2, UnitsLeftAdd
  <2>4. Cardinality(UnitsLeft(Under(key, k), quantity2)) \in Nat
    BY <2>2, UnitsLeftFinite
  <2>5. Cardinality(UnitsLeft(Under(key, k), quantity2)) =
          IF k \in DOMAIN map THEN map[k] ELSE 0
    <3>1. CASE k \in DOMAIN map
      BY <1>4, <3>1 DEF AddsUp
    <3>2. CASE k \notin DOMAIN map
      <4>1. Under(key, k) = {}
        BY <3>2 DEF AddsUp, Under
      <4>2. UnitsLeft({}, quantity2) = {}
        BY DEF UnitsLeft
      <4> QED  BY <3>2, <4>1, <4>2, FS_EmptySet
    <3> QED  BY <3>1, <3>2
  <2> QED  BY <1>2, <2>1, <2>3, <2>4, <2>5
<1>7. AddsUp(after, key2, quantity2)
  BY <1>2, <1>3, <1>5, <1>6 DEF AddsUp
<1> QED  BY <1>7 DEF after, key2, quantity2

\* One order less lowers it, to nothing if there is no other.
LEMMA LoweredAddsUp ==
  ASSUME NEW map, NEW key, NEW quantity, AddsUp(map, key, quantity),
         SoundQuantities(quantity, key), NEW one \in DOMAIN key
  PROVE  AddsUp(Lowered(map, key[one], quantity[one]),
                Without(key, one), Without(quantity, one))
<1> DEFINE k == key[one]
           n == quantity[one]
           after == Lowered(map, k, n)
           key2 == Without(key, one)
           quantity2 == Without(quantity, one)
           rest == Under(key, k) \ {one}
           left == Cardinality(UnitsLeft(rest, quantity))
<1>1. /\ DOMAIN key2 = DOMAIN key \ {one} /\ DOMAIN quantity2 = DOMAIN key \ {one}
      /\ \A c \in DOMAIN key \ {one} : key2[c] = key[c] /\ quantity2[c] = quantity[c]
  BY DEF Without, SoundQuantities
<1>2. /\ k \in DOMAIN map /\ n \in Nat \ {0}
      /\ map[k] = Cardinality(UnitsLeft(Under(key, k), quantity))
  BY DEF AddsUp, SoundQuantities
<1>3. /\ IsFiniteSet(rest) /\ one \notin rest /\ Under(key, k) = rest \cup {one}
      /\ \A c \in rest \cup {one} : quantity[c] \in Nat \ {0}
  <2>1. rest \subseteq DOMAIN key /\ one \notin rest /\ Under(key, k) = rest \cup {one}
    BY DEF Under
  <2>2. IsFiniteSet(rest)
    BY <2>1, FS_Subset DEF SoundQuantities
  <2> QED  BY <2>1, <2>2 DEF SoundQuantities
<1>4. left \in Nat /\ map[k] = left + n
  BY <1>2, <1>3, UnitsLeftAdd, UnitsLeftFinite
<1>5. left = 0 <=> rest = {}
  <2>1. IsFiniteSet(UnitsLeft(rest, quantity))
    BY <1>3, UnitsLeftFinite
  <2>2. left = 0 <=> UnitsLeft(rest, quantity) = {}
    BY <2>1, FS_EmptySet
  <2>3. ASSUME NEW c \in rest PROVE <<c, 1>> \in UnitsLeft(rest, quantity)
    <3>1. 1 \in 1 .. quantity[c]
      BY <1>3
    <3> QED  BY <3>1 DEF UnitsLeft
  <2>4. rest = {} => UnitsLeft(rest, quantity) = {}
    BY DEF UnitsLeft
  <2> QED  BY <2>2, <2>3, <2>4
<1>6. /\ DOMAIN after = DOMAIN map \ (IF rest = {} THEN {k} ELSE {})
      /\ \A other \in DOMAIN after : after[other] = IF other = k THEN left ELSE map[other]
  <2> HIDE DEF k, n, left, rest
  <2>1. map[k] <= n <=> left = 0
    BY <1>2, <1>4
  <2>2. map[k] - n = left
    BY <1>2, <1>4
  <2>3. CASE rest = {}
    <3>1. after = Without(map, k)
      BY <1>2, <1>5, <2>1, <2>3 DEF Lowered
    <3> QED  BY <2>3, <3>1 DEF Without
  <2>4. CASE rest # {}
    <3>1. after = With(map, k, left)
      BY <1>2, <1>5, <2>1, <2>2, <2>4 DEF Lowered
    <3> QED  BY <1>2, <2>4, <3>1 DEF With
  <2> QED  BY <2>3, <2>4
<1> HIDE DEF after, key2, quantity2, left
<1>7. DOMAIN after = {key2[c] : c \in DOMAIN key2}
  <2>1. DOMAIN map = {key[c] : c \in DOMAIN key}
    BY DEF AddsUp
  <2> QED  BY <1>1, <1>6, <2>1 DEF Under
<1>8. ASSUME NEW other \in DOMAIN after
      PROVE  after[other] = Cardinality(UnitsLeft(Under(key2, other), quantity2))
  <2>1. UnitsLeft(Under(key2, other), quantity2) = UnitsLeft(Under(key2, other), quantity)
    BY <1>1 DEF UnitsLeft, Under
  <2>2. CASE other = k
    <3>1. Under(key2, other) = rest
      BY <1>1, <2>2 DEF Under
    <3> QED  BY <1>6, <2>1, <2>2, <3>1 DEF left
  <2>3. CASE other # k
    <3>1. Under(key2, other) = Under(key, other)
      BY <1>1, <2>3 DEF Under
    <3>2. after[other] = map[other] /\ other \in DOMAIN map
      BY <1>6, <2>3
    <3> QED  BY <2>1, <3>1, <3>2 DEF AddsUp
  <2> QED  BY <2>2, <2>3
<1>9. AddsUp(after, key2, quantity2)
  BY <1>7, <1>8 DEF AddsUp
<1> QED  BY <1>9 DEF after, key2, quantity2

-------------------------------------------------------------------------------
(* The maps of quantities.                                                 *)

Fields == {"orders", "total", "books", "boundTo"}
OrderFields == {"client", "symbol", "side", "price", "quantity", "exchange"}

SoundOrder(order) == DOMAIN order = OrderFields /\ order.quantity \in Nat \ {0}
SoundOrders(all) ==
  IsFiniteSet(DOMAIN all) /\ \A c \in DOMAIN all : SoundOrder(all[c])

\* An order comes, or goes, in the sums per symbol and per place in a book.
LEMMA OrderComes ==
  ASSUME NEW all, SoundOrders(all), NEW c, c \notin DOMAIN all, NEW order, SoundOrder(order)
  PROVE  /\ SoundOrders(With(all, c, order))
         /\ \A map : AddsUp(map, SymbolsOf(all), Amounts(all)) =>
              AddsUp(Raised(map, order.symbol, order.quantity),
                     SymbolsOf(With(all, c, order)), Amounts(With(all, c, order)))
         /\ \A map : AddsUp(map, PlacesOf(all), Amounts(all)) =>
              AddsUp(Raised(map, BookKey(order), order.quantity),
                     PlacesOf(With(all, c, order)), Amounts(With(all, c, order)))
<1> DEFINE after == With(all, c, order)
<1>1. /\ DOMAIN after = DOMAIN all \cup {c} /\ after[c] = order
      /\ \A other \in DOMAIN all : after[other] = all[other]
  BY DEF With
<1> HIDE DEF after
<1>2. SoundOrders(after)
  <2>1. IsFiniteSet(DOMAIN after)
    BY <1>1, FS_AddElement DEF SoundOrders
  <2> QED  BY <1>1, <2>1 DEF SoundOrders
<1>3. /\ Amounts(after) = With(Amounts(all), c, order.quantity)
      /\ SymbolsOf(after) = With(SymbolsOf(all), c, order.symbol)
      /\ PlacesOf(after) = With(PlacesOf(all), c, BookKey(order))
  BY <1>1 DEF Amounts, SymbolsOf, PlacesOf, With
<1>4. /\ SoundQuantities(Amounts(all), SymbolsOf(all)) /\ c \notin DOMAIN SymbolsOf(all)
      /\ SoundQuantities(Amounts(all), PlacesOf(all)) /\ c \notin DOMAIN PlacesOf(all)
      /\ order.quantity \in Nat \ {0}
  BY DEF SoundQuantities, Amounts, SymbolsOf, PlacesOf, SoundOrders, SoundOrder
<1>5. ASSUME NEW map, AddsUp(map, SymbolsOf(all), Amounts(all))
      PROVE  AddsUp(Raised(map, order.symbol, order.quantity), SymbolsOf(after), Amounts(after))
  BY <1>3, <1>4, <1>5, RaisedAddsUp
<1>6. ASSUME NEW map, AddsUp(map, PlacesOf(all), Amounts(all))
      PROVE  AddsUp(Raised(map, BookKey(order), order.quantity), PlacesOf(after), Amounts(after))
  BY <1>3, <1>4, <1>6, RaisedAddsUp
<1> QED  BY <1>2, <1>5, <1>6 DEF after

\* An order that is over takes what it has left out of both sums.
LEMMA OrderGoes ==
  ASSUME NEW all, SoundOrders(all), NEW c \in DOMAIN all
  PROVE  /\ SoundOrders(Without(all, c))
         /\ \A map : AddsUp(map, SymbolsOf(all), Amounts(all)) =>
              AddsUp(Lowered(map, all[c].symbol, all[c].quantity),
                     SymbolsOf(Without(all, c)), Amounts(Without(all, c)))
         /\ \A map : AddsUp(map, PlacesOf(all), Amounts(all)) =>
              AddsUp(Lowered(map, BookKey(all[c]), all[c].quantity),
                     PlacesOf(Without(all, c)), Amounts(Without(all, c)))
<1> DEFINE after == Without(all, c)
<1>1. /\ DOMAIN after = DOMAIN all \ {c}
      /\ \A other \in DOMAIN after : after[other] = all[other]
  BY DEF Without
<1> HIDE DEF after
<1>2. SoundOrders(after)
  <2>1. IsFiniteSet(DOMAIN after)
    BY <1>1, FS_Subset DEF SoundOrders
  <2> QED  BY <1>1, <2>1 DEF SoundOrders
<1>3. /\ Amounts(after) = Without(Amounts(all), c)
      /\ SymbolsOf(after) = Without(SymbolsOf(all), c)
      /\ PlacesOf(after) = Without(PlacesOf(all), c)
  BY <1>1 DEF Amounts, SymbolsOf, PlacesOf, Without
<1>4. /\ SoundQuantities(Amounts(all), SymbolsOf(all)) /\ c \in DOMAIN SymbolsOf(all)
      /\ SoundQuantities(Amounts(all), PlacesOf(all)) /\ c \in DOMAIN PlacesOf(all)
      /\ Amounts(all)[c] = all[c].quantity
      /\ SymbolsOf(all)[c] = all[c].symbol /\ PlacesOf(all)[c] = BookKey(all[c])
  BY DEF SoundQuantities, Amounts, SymbolsOf, PlacesOf, SoundOrders, SoundOrder
<1>5. ASSUME NEW map, AddsUp(map, SymbolsOf(all), Amounts(all))
      PROVE  AddsUp(Lowered(map, all[c].symbol, all[c].quantity),
                    SymbolsOf(after), Amounts(after))
  BY <1>3, <1>4, <1>5, LoweredAddsUp
<1>6. ASSUME NEW map, AddsUp(map, PlacesOf(all), Amounts(all))
      PROVE  AddsUp(Lowered(map, BookKey(all[c]), all[c].quantity),
                    PlacesOf(after), Amounts(after))
  BY <1>3, <1>4, <1>6, LoweredAddsUp
<1> QED  BY <1>2, <1>5, <1>6 DEF after

-------------------------------------------------------------------------------
(* The operations on working orders keep the sums right.                   *)

\* Self-trade prevention is on in all limits that are set on the way.
Preventing == \A l \in LimitSets : l.stp = TRUE

Kept(w) ==
  /\ DOMAIN w = Fields /\ SoundOrders(w.orders)
  /\ TotalsMatch(w) /\ (Preventing => BooksMatch(w))

\* Without working orders all sums are empty.
LEMMA NothingKept == Kept(NoWorking)
<1>1. /\ DOMAIN NoWorking = Fields
      /\ DOMAIN NoWorking.orders = {} /\ DOMAIN NoWorking.total = {}
      /\ DOMAIN NoWorking.books = {}
  BY DEF NoWorking, Fields
<1>2. IsFiniteSet({})
  BY FS_EmptySet
<1> QED
  BY <1>1, <1>2 DEF Kept, SoundOrders, TotalsMatch, BooksMatch, AddsUp, SymbolsOf,
     PlacesOf

\* add_working_order_quantity and release_working_order_quantity, by field.
LEMMA QuantityFields ==
  ASSUME NEW w, DOMAIN w = Fields, NEW order, NEW stp
  PROVE  /\ DOMAIN AddQuantity(w, order, stp) = Fields
         /\ AddQuantity(w, order, stp).orders = w.orders
         /\ AddQuantity(w, order, stp).boundTo = w.boundTo
         /\ AddQuantity(w, order, stp).total = Raised(w.total, order.symbol, order.quantity)
         /\ stp => AddQuantity(w, order, stp).books =
                     Raised(w.books, BookKey(order), order.quantity)
  BY DEF AddQuantity, Fields

\* release_working_order_quantity touches the two sums and nothing else.
LEMMA FreedFields ==
  ASSUME NEW w, DOMAIN w = Fields, NEW order
  PROVE  /\ DOMAIN ReleaseQuantity(w, order) = Fields
         /\ ReleaseQuantity(w, order).orders = w.orders
         /\ ReleaseQuantity(w, order).boundTo = w.boundTo
         /\ ReleaseQuantity(w, order).total =
              Lowered(w.total, order.symbol, order.quantity)
         /\ ReleaseQuantity(w, order).books =
              Lowered(w.books, BookKey(order), order.quantity)
  BY DEF ReleaseQuantity, Fields

\* An order that is let through.
LEMMA RegisterKeeps ==
  ASSUME NEW w, Kept(w), NEW r, r.quantity \in Nat \ {0}, NEW c, c \notin DOMAIN w.orders,
         NEW stp, Preventing => stp
  PROVE  Kept(Register(w, r, c, stp))
<1> DEFINE order == [client |-> r.client, symbol |-> r.symbol, side |-> r.side,
                     price |-> r.price, quantity |-> r.quantity, exchange |-> 0]
           with == [w EXCEPT !.orders = With(w.orders, c, order)]
           after == AddQuantity(with, order, stp)
<1>1. Register(w, r, c, stp) = IF r.type = "Limit" /\ r.tif = "Gtc" THEN after ELSE w
  BY DEF Register
<1>2. SoundOrder(order)
  BY DEF SoundOrder, OrderFields
<1>3. /\ DOMAIN with = Fields /\ with.orders = With(w.orders, c, order)
      /\ with.total = w.total /\ with.books = w.books
  BY DEF Kept, Fields
<1> HIDE DEF order, with
<1>4. /\ DOMAIN after = Fields /\ after.orders = With(w.orders, c, order)
      /\ after.total = Raised(w.total, order.symbol, order.quantity)
      /\ stp => after.books = Raised(w.books, BookKey(order), order.quantity)
  BY <1>3, QuantityFields
<1> HIDE DEF after
<1>5. /\ SoundOrders(after.orders) /\ TotalsMatch(after)
      /\ Preventing => BooksMatch(after)
  BY <1>2, <1>4, OrderComes DEF Kept, TotalsMatch, BooksMatch
<1>6. Kept(after)
  BY <1>4, <1>5 DEF Kept
<1> QED  BY <1>1, <1>6

\* An order that is released.
LEMMA ReleaseFields ==
  ASSUME NEW w, DOMAIN w = Fields, NEW c \in DOMAIN w.orders
  PROVE  /\ DOMAIN ReleaseOrder(w, c) = Fields
         /\ ReleaseOrder(w, c).orders = Without(w.orders, c)
         /\ ReleaseOrder(w, c).boundTo = Without(w.boundTo, w.orders[c].exchange)
         /\ ReleaseOrder(w, c).total =
              Lowered(w.total, w.orders[c].symbol, w.orders[c].quantity)
         /\ ReleaseOrder(w, c).books =
              Lowered(w.books, BookKey(w.orders[c]), w.orders[c].quantity)
<1> DEFINE freed == ReleaseQuantity(w, w.orders[c])
<1>1. ReleaseOrder(w, c) =
        [freed EXCEPT !.orders = Without(freed.orders, c),
                      !.boundTo = Without(freed.boundTo, w.orders[c].exchange)]
  BY DEF ReleaseOrder
<1>2. /\ DOMAIN freed = Fields /\ freed.orders = w.orders /\ freed.boundTo = w.boundTo
      /\ freed.total = Lowered(w.total, w.orders[c].symbol, w.orders[c].quantity)
      /\ freed.books = Lowered(w.books, BookKey(w.orders[c]), w.orders[c].quantity)
  BY FreedFields
<1> HIDE DEF freed
<1> QED  BY <1>1, <1>2 DEF Fields

\* release_order keeps the sums right.
LEMMA ReleaseKeeps ==
  ASSUME NEW w, Kept(w), NEW c PROVE Kept(ReleaseOrder(w, c))
<1> DEFINE after == ReleaseOrder(w, c)
<1>1. CASE c \notin DOMAIN w.orders
  BY <1>1 DEF ReleaseOrder
<1>2. CASE c \in DOMAIN w.orders
  <2>1. /\ DOMAIN after = Fields /\ after.orders = Without(w.orders, c)
        /\ after.total = Lowered(w.total, w.orders[c].symbol, w.orders[c].quantity)
        /\ after.books = Lowered(w.books, BookKey(w.orders[c]), w.orders[c].quantity)
    BY <1>2, ReleaseFields DEF Kept
  <2> HIDE DEF after
  <2>2. /\ SoundOrders(after.orders) /\ TotalsMatch(after)
        /\ Preventing => BooksMatch(after)
    BY <1>2, <2>1, OrderGoes DEF Kept, TotalsMatch, BooksMatch
  <2>3. Kept(after)
    BY <2>1, <2>2 DEF Kept
  <2> QED  BY <2>3 DEF after
<1> QED  BY <1>1, <1>2

\* An order that takes a new price and quantity.
Repriced(order, price, quantity) ==
  [order EXCEPT !.price = price, !.quantity = quantity]

\* A new price and quantity, by field: the order is replaced in place, its old
\* quantity released and its new one added.
LEMMA ResizeFields ==
  ASSUME NEW w, DOMAIN w = Fields, NEW c \in DOMAIN w.orders,
         NEW price, NEW quantity, NEW stp, NEW old, old = w.orders[c],
         NEW order, order = Repriced(old, price, quantity),
         NEW after, after = Resize(w, c, price, quantity, stp)
  PROVE  /\ DOMAIN after = Fields /\ after.boundTo = w.boundTo
         /\ after.orders = [w.orders EXCEPT ![c] = order]
         /\ after.total = Raised(Lowered(w.total, old.symbol, old.quantity),
                                 order.symbol, order.quantity)
         /\ stp => after.books = Raised(Lowered(w.books, BookKey(old), old.quantity),
                                        BookKey(order), order.quantity)
<1> DEFINE freed == ReleaseQuantity(w, old)
           changed == [freed EXCEPT !.orders = [freed.orders EXCEPT ![c] = order]]
<1>1. after = AddQuantity([freed EXCEPT !.orders[c] = order], order, stp)
  BY DEF Resize, Repriced
<1>2. [freed EXCEPT !.orders[c] = order] = changed
  OBVIOUS
<1>3. /\ DOMAIN freed = Fields /\ freed.orders = w.orders /\ freed.boundTo = w.boundTo
      /\ freed.total = Lowered(w.total, old.symbol, old.quantity)
      /\ freed.books = Lowered(w.books, BookKey(old), old.quantity)
  BY FreedFields
<1>4. after = AddQuantity(changed, order, stp)
  BY <1>1, <1>2, Zenon
<1> HIDE DEF freed
<1>5. /\ DOMAIN changed = Fields /\ changed.orders = [w.orders EXCEPT ![c] = order]
      /\ changed.boundTo = freed.boundTo /\ changed.total = freed.total
      /\ changed.books = freed.books
  BY <1>3 DEF Fields
<1> HIDE DEF changed
<1>6. /\ DOMAIN after = Fields /\ after.orders = changed.orders
      /\ after.boundTo = changed.boundTo
      /\ after.total = Raised(changed.total, order.symbol, order.quantity)
      /\ stp => after.books = Raised(changed.books, BookKey(order), order.quantity)
  BY <1>4, <1>5, QuantityFields
<1> QED  BY <1>3, <1>5, <1>6

\* It goes and comes again.
LEMMA ResizeKeeps ==
  ASSUME NEW w, Kept(w), NEW c \in DOMAIN w.orders, NEW price,
         NEW quantity \in Nat \ {0}, NEW stp, Preventing => stp
  PROVE  Kept(Resize(w, c, price, quantity, stp))
<1> DEFINE old == w.orders[c]
           order == Repriced(old, price, quantity)
           rest == Without(w.orders, c)
           all == With(rest, c, order)
           after == Resize(w, c, price, quantity, stp)
<1>1. SoundOrder(old) /\ SoundOrder(order) /\ SoundOrders(w.orders) /\ DOMAIN w = Fields
  BY DEF Kept, SoundOrders, SoundOrder, OrderFields, Repriced
<1> HIDE DEF order, old, after
<1>2. /\ DOMAIN after = Fields
      /\ after.orders = [w.orders EXCEPT ![c] = order]
      /\ after.total = Raised(Lowered(w.total, old.symbol, old.quantity),
                              order.symbol, order.quantity)
      /\ stp => after.books = Raised(Lowered(w.books, BookKey(old), old.quantity),
                                     BookKey(order), order.quantity)
  BY <1>1, ResizeFields DEF order, old, after
<1>3. SoundOrders(rest) /\ c \notin DOMAIN rest
  BY <1>1, OrderGoes DEF Without
<1>4. /\ DOMAIN all = DOMAIN w.orders /\ all[c] = order
      /\ \A d \in DOMAIN w.orders \ {c} : all[d] = w.orders[d]
  BY DEF With, Without
<1>5. SoundOrders(all)
  BY <1>1, <1>3, OrderComes
<1> HIDE DEF all, rest
<1>6. DOMAIN after.orders = DOMAIN all /\ \A d \in DOMAIN all : after.orders[d] = all[d]
  BY <1>2, <1>4
<1>7. /\ SoundOrders(after.orders) /\ Amounts(after.orders) = Amounts(all)
      /\ SymbolsOf(after.orders) = SymbolsOf(all) /\ PlacesOf(after.orders) = PlacesOf(all)
  BY <1>5, <1>6 DEF SoundOrders, Amounts, SymbolsOf, PlacesOf
<1>8. TotalsMatch(after)
  <2>1. AddsUp(w.total, SymbolsOf(w.orders), Amounts(w.orders))
    BY DEF Kept, TotalsMatch
  <2>2. AddsUp(Lowered(w.total, old.symbol, old.quantity), SymbolsOf(rest), Amounts(rest))
    BY <1>1, <2>1, OrderGoes DEF old, rest
  <2>3. AddsUp(after.total, SymbolsOf(all), Amounts(all))
    BY <1>1, <1>2, <1>3, <2>2, OrderComes DEF all
  <2> QED  BY <1>7, <2>3 DEF TotalsMatch
<1>9. ASSUME Preventing PROVE BooksMatch(after)
  <2>1. AddsUp(w.books, PlacesOf(w.orders), Amounts(w.orders))
    BY <1>9 DEF Kept, BooksMatch
  <2>2. AddsUp(Lowered(w.books, BookKey(old), old.quantity), PlacesOf(rest), Amounts(rest))
    BY <1>1, <2>1, OrderGoes DEF old, rest
  <2>3. AddsUp(after.books, PlacesOf(all), Amounts(all))
    BY <1>1, <1>2, <1>3, <1>9, <2>2, OrderComes DEF all
  <2> QED  BY <1>7, <2>3 DEF BooksMatch
<1> QED  BY <1>2, <1>7, <1>8, <1>9 DEF Kept, after

IsMap(m) == m = [k \in DOMAIN m |-> m[k]]

\* An order that takes an exchange order id keeps its place and quantity.
NowBound(after, w, c, exchange) ==
  /\ DOMAIN after = Fields /\ after.total = w.total /\ after.books = w.books
  /\ DOMAIN after.orders = DOMAIN w.orders /\ IsMap(after.orders)
  /\ \A d \in DOMAIN w.orders \ {c} : after.orders[d] = w.orders[d]
  /\ after.orders[c] = [w.orders[c] EXCEPT !.exchange = exchange]
  /\ after.boundTo = With(Without(w.boundTo, w.orders[c].exchange), exchange, c)

\* bind_exchange_order_id, by field.
LEMMA BindFields ==
  ASSUME NEW w, DOMAIN w = Fields, NEW c \in DOMAIN w.orders, NEW exchange,
         exchange \notin {0, w.orders[c].exchange}
  PROVE  NowBound(Bind(w, c, exchange), w, c, exchange)
<1> DEFINE after == Bind(w, c, exchange)
<1>1. after = [w EXCEPT !.orders = [w.orders EXCEPT ![c] =
                                      [w.orders[c] EXCEPT !.exchange = exchange]],
                        !.boundTo = With(Without(w.boundTo, w.orders[c].exchange),
                                         exchange, c)]
  BY DEF Bind
<1> HIDE DEF after
<1>2. NowBound(after, w, c, exchange)
  BY <1>1 DEF NowBound, Fields, IsMap
<1> QED  BY <1>2 DEF after

\* bind_exchange_order_id leaves the sums alone.
LEMMA BindKeeps ==
  ASSUME NEW w, Kept(w), NEW c \in DOMAIN w.orders, NEW exchange
  PROVE  Kept(Bind(w, c, exchange)) /\ c \in DOMAIN Bind(w, c, exchange).orders
<1> DEFINE after == Bind(w, c, exchange)
<1>1. CASE exchange \in {0, w.orders[c].exchange}
  BY <1>1 DEF Bind
<1>2. CASE exchange \notin {0, w.orders[c].exchange}
  <2>1. DOMAIN w = Fields /\ SoundOrders(w.orders) /\ DOMAIN w.orders[c] = OrderFields
    BY DEF Kept, SoundOrders, SoundOrder
  <2> HIDE DEF after
  <2>2. /\ DOMAIN after = Fields /\ after.total = w.total /\ after.books = w.books
        /\ DOMAIN after.orders = DOMAIN w.orders
        /\ \A d \in DOMAIN w.orders \ {c} : after.orders[d] = w.orders[d]
        /\ after.orders[c] = [w.orders[c] EXCEPT !.exchange = exchange]
    <3>1. NowBound(after, w, c, exchange)
      BY <1>2, <2>1, BindFields DEF after
    <3> QED  BY <3>1 DEF NowBound
  <2>3. \A d \in DOMAIN w.orders :
          /\ DOMAIN after.orders[d] = DOMAIN w.orders[d]
          /\ after.orders[d].quantity = w.orders[d].quantity
          /\ after.orders[d].symbol = w.orders[d].symbol
          /\ BookKey(after.orders[d]) = BookKey(w.orders[d])
    BY <2>1, <2>2 DEF BookKey, OrderFields
  <2>4. /\ SoundOrders(after.orders) /\ Amounts(after.orders) = Amounts(w.orders)
        /\ SymbolsOf(after.orders) = SymbolsOf(w.orders)
        /\ PlacesOf(after.orders) = PlacesOf(w.orders)
    BY <2>1, <2>2, <2>3 DEF SoundOrders, SoundOrder, Amounts, SymbolsOf, PlacesOf
  <2>5. Kept(after) /\ c \in DOMAIN after.orders
    BY <2>2, <2>4 DEF Kept, TotalsMatch, BooksMatch
  <2> QED  BY <2>5 DEF after
<1> QED  BY <1>1, <1>2

\* A report releases its order, or binds and resizes it.
LEMMA ReportKeeps ==
  ASSUME NEW w, Kept(w), NEW report, report.remaining \in Int,
         NEW stp, Preventing => stp
  PROVE  Kept(OnReport(w, report, stp))
<1>1. CASE report.clOrdId = 0 \/ Subject(w, report) = {}
  BY <1>1 DEF OnReport
<1>2. CASE report.clOrdId # 0 /\ Subject(w, report) # {} /\ Ends(report)
  <2>1. OnReport(w, report, stp) = ReleaseOrder(w, report.clOrdId)
    BY <1>2 DEF OnReport
  <2> QED  BY <2>1, ReleaseKeeps
<1>3. CASE report.clOrdId # 0 /\ Subject(w, report) # {} /\ ~ Ends(report)
  <2> DEFINE c == CHOOSE d \in Subject(w, report) : TRUE
             bound == Bind(w, c, report.exchange)
  <2>1. c \in DOMAIN w.orders
    <3>1. c \in Subject(w, report)
      BY <1>3
    <3> QED  BY <3>1 DEF Subject
  <2>2. Kept(bound) /\ c \in DOMAIN bound.orders
    BY <2>1, BindKeeps
  <2>3. report.remaining \in Nat \ {0}
    BY <1>3 DEF Ends
  <2>4. \/ OnReport(w, report, stp) = bound
        \/ \E price : OnReport(w, report, stp) =
                        Resize(bound, c, price, report.remaining, stp)
    BY <1>3 DEF OnReport
  <2> HIDE DEF c, bound
  <2>5. ASSUME NEW price PROVE Kept(Resize(bound, c, price, report.remaining, stp))
    BY <2>2, <2>3, ResizeKeeps
  <2> QED  BY <2>2, <2>4, <2>5
<1> QED  BY <1>1, <1>2, <1>3

-------------------------------------------------------------------------------
(* The operations keep the bindings of exchange order ids.                 *)

\* The same orders carry the same exchange order ids.
SameExchanges(after, before) ==
  /\ DOMAIN after = DOMAIN before
  /\ \A c \in DOMAIN before : after[c].exchange = before[c].exchange

\* One order more than in w, bound to nothing.
NowTracked(after, w, c) ==
  /\ after.boundTo = w.boundTo /\ DOMAIN after.orders = DOMAIN w.orders \cup {c}
  /\ after.orders[c].exchange = 0
  /\ \A d \in DOMAIN w.orders : after.orders[d] = w.orders[d]

\* register_working_order adds one order, bound to no exchange order id.
LEMMA RegisterFields ==
  ASSUME NEW w, DOMAIN w = Fields, NEW r, NEW c, c \notin DOMAIN w.orders, NEW stp,
         Register(w, r, c, stp) # w
  PROVE  NowTracked(Register(w, r, c, stp), w, c)
<1> DEFINE order == [client |-> r.client, symbol |-> r.symbol, side |-> r.side,
                     price |-> r.price, quantity |-> r.quantity, exchange |-> 0]
           with == [w EXCEPT !.orders = With(w.orders, c, order)]
           after == Register(w, r, c, stp)
<1>1. after = AddQuantity(with, order, stp)
  BY DEF Register
<1>2. /\ DOMAIN with = Fields /\ with.orders = With(w.orders, c, order)
      /\ with.boundTo = w.boundTo
  BY DEF Fields
<1>3. order.exchange = 0
  OBVIOUS
<1> HIDE DEF order, with, after
<1>4. after.orders = With(w.orders, c, order) /\ after.boundTo = w.boundTo
  BY <1>1, <1>2, QuantityFields
<1>5. NowTracked(after, w, c)
  BY <1>3, <1>4 DEF With, NowTracked
<1> QED  BY <1>5 DEF after

\* A new order is bound to nothing, so the bindings stay right.
LEMMA RegisterBinds ==
  ASSUME NEW w, Kept(w), BindingsMatch(w), NEW r, NEW c, c \notin DOMAIN w.orders, NEW stp
  PROVE  BindingsMatch(Register(w, r, c, stp))
<1> DEFINE after == Register(w, r, c, stp)
<1>1. CASE after = w
  BY <1>1
<1>2. CASE after # w
  <2>1. DOMAIN w = Fields
    BY DEF Kept
  <2> HIDE DEF after
  <2>2. /\ after.boundTo = w.boundTo /\ DOMAIN after.orders = DOMAIN w.orders \cup {c}
        /\ after.orders[c].exchange = 0
        /\ \A d \in DOMAIN w.orders : after.orders[d] = w.orders[d]
    <3>1. NowTracked(after, w, c)
      BY <1>2, <2>1, RegisterFields DEF after
    <3> QED  BY <3>1 DEF NowTracked
  <2>3. BindingsMatch(after)
    BY <2>2 DEF BindingsMatch
  <2> QED  BY <2>3 DEF after
<1> QED  BY <1>1, <1>2

\* release_order erases the binding of the order it erases.
LEMMA ReleaseBinds ==
  ASSUME NEW w, Kept(w), BindingsMatch(w), NEW c
  PROVE  BindingsMatch(ReleaseOrder(w, c))
<1> DEFINE after == ReleaseOrder(w, c)
<1>1. CASE c \notin DOMAIN w.orders
  BY <1>1 DEF ReleaseOrder
<1>2. CASE c \in DOMAIN w.orders
  <2>1. /\ after.orders = Without(w.orders, c)
        /\ after.boundTo = Without(w.boundTo, w.orders[c].exchange)
    BY <1>2, ReleaseFields DEF Kept
  <2> HIDE DEF after
  <2>2. BindingsMatch(after)
    BY <1>2, <2>1 DEF BindingsMatch, Without
  <2> QED  BY <2>2 DEF after
<1> QED  BY <1>1, <1>2

\* A new price and quantity leaves exchange order ids and bindings alone.
LEMMA ResizeExchanges ==
  ASSUME NEW w, Kept(w), NEW c \in DOMAIN w.orders, NEW price, NEW quantity, NEW stp
  PROVE  /\ Resize(w, c, price, quantity, stp).boundTo = w.boundTo
         /\ SameExchanges(Resize(w, c, price, quantity, stp).orders, w.orders)
<1> DEFINE after == Resize(w, c, price, quantity, stp)
           old == w.orders[c]
           order == Repriced(old, price, quantity)
<1>1. DOMAIN w = Fields /\ DOMAIN old = OrderFields
  BY DEF Kept, SoundOrders, SoundOrder
<1>2. order.exchange = old.exchange
  BY <1>1 DEF Repriced, OrderFields
<1> HIDE DEF after, order, old
<1>3. after.orders = [w.orders EXCEPT ![c] = order] /\ after.boundTo = w.boundTo
  BY <1>1, ResizeFields DEF after, order, old
<1> QED  BY <1>2, <1>3 DEF SameExchanges, after, old

\* Orders that carry the same exchange order ids go with the same bindings.
LEMMA SameExchangesBind ==
  ASSUME NEW w, BindingsMatch(w), NEW after, after.boundTo = w.boundTo,
         SameExchanges(after.orders, w.orders)
  PROVE  BindingsMatch(after)
  BY DEF BindingsMatch, SameExchanges

\* A binding to an exchange order id no other order carries keeps map and orders
\* in step.
LEMMA BindBinds ==
  ASSUME NEW w, Kept(w), BindingsMatch(w), NEW c \in DOMAIN w.orders, NEW exchange,
         exchange \notin DOMAIN w.boundTo \/ w.boundTo[exchange] = c
  PROVE  BindingsMatch(Bind(w, c, exchange))
<1> DEFINE after == Bind(w, c, exchange)
<1>1. CASE exchange \in {0, w.orders[c].exchange}
  BY <1>1 DEF Bind
<1>2. CASE exchange \notin {0, w.orders[c].exchange}
  <2>1. /\ DOMAIN w = Fields /\ DOMAIN w.orders[c] = OrderFields
        /\ exchange \notin DOMAIN w.boundTo
    BY <1>2 DEF Kept, SoundOrders, SoundOrder, BindingsMatch
  <2> HIDE DEF after
  <2>2. /\ DOMAIN after.orders = DOMAIN w.orders
        /\ \A d \in DOMAIN w.orders \ {c} : after.orders[d] = w.orders[d]
        /\ after.orders[c] = [w.orders[c] EXCEPT !.exchange = exchange]
        /\ after.boundTo = With(Without(w.boundTo, w.orders[c].exchange), exchange, c)
    <3>1. NowBound(after, w, c, exchange)
      BY <1>2, <2>1, BindFields DEF after
    <3> QED  BY <3>1 DEF NowBound
  <2>3. after.orders[c].exchange = exchange
    BY <2>1, <2>2 DEF OrderFields
  <2> DEFINE old == w.orders[c].exchange
  <2>4. /\ DOMAIN after.boundTo = (DOMAIN w.boundTo \ {old}) \cup {exchange}
        /\ after.boundTo[exchange] = c
        /\ \A e \in DOMAIN w.boundTo \ {old} : after.boundTo[e] = w.boundTo[e]
    BY <2>1, <2>2 DEF With, Without
  <2>5. ASSUME NEW e \in DOMAIN after.boundTo
        PROVE  /\ after.boundTo[e] \in DOMAIN after.orders
               /\ after.orders[after.boundTo[e]].exchange = e
    <3>1. CASE e = exchange
      BY <2>2, <2>3, <2>4, <3>1
    <3>2. CASE e # exchange
      <4>1. /\ e \in DOMAIN w.boundTo \ {old} /\ after.boundTo[e] = w.boundTo[e]
            /\ w.boundTo[e] \in DOMAIN w.orders /\ w.orders[w.boundTo[e]].exchange = e
        BY <2>4, <3>2 DEF BindingsMatch
      <4> QED  BY <2>2, <4>1
    <3> QED  BY <3>1, <3>2
  <2>6. ASSUME NEW d \in DOMAIN after.orders, after.orders[d].exchange # 0
        PROVE  /\ after.orders[d].exchange \in DOMAIN after.boundTo
               /\ after.boundTo[after.orders[d].exchange] = d
    <3>1. CASE d = c
      BY <2>3, <2>4, <3>1
    <3>2. CASE d # c
      <4> DEFINE e == w.orders[d].exchange
      <4>1. after.orders[d].exchange = e /\ d \in DOMAIN w.orders
        BY <2>2, <3>2
      <4>2. e \in DOMAIN w.boundTo /\ w.boundTo[e] = d
        BY <2>6, <4>1 DEF BindingsMatch
      <4>3. e # old
        <5>1. SUFFICES ASSUME e = old PROVE FALSE
          OBVIOUS
        <5>2. w.boundTo[old] = c
          BY <2>6, <4>1, <5>1 DEF BindingsMatch
        <5> QED  BY <3>2, <4>2, <5>1, <5>2
      <4> QED  BY <2>4, <4>1, <4>2, <4>3
    <3> QED  BY <3>1, <3>2
  <2>7. BindingsMatch(after)
    BY <2>5, <2>6 DEF BindingsMatch
  <2> QED  BY <2>7 DEF after
<1> QED  BY <1>1, <1>2

\* What a report that does not end its order leaves of bindings.
LEMMA ReportBinding ==
  ASSUME NEW w, Kept(w), NEW report, NEW stp, report.clOrdId # 0,
         Subject(w, report) # {}, ~ Ends(report)
  PROVE  \E c \in DOMAIN w.orders \cap Subject(w, report) :
           /\ OnReport(w, report, stp).boundTo = Bind(w, c, report.exchange).boundTo
           /\ SameExchanges(OnReport(w, report, stp).orders,
                            Bind(w, c, report.exchange).orders)
<1> DEFINE c == CHOOSE d \in Subject(w, report) : TRUE
           bound == Bind(w, c, report.exchange)
<1>1. c \in Subject(w, report)
  OBVIOUS
<1>2. c \in DOMAIN w.orders
  BY <1>1 DEF Subject
<1>3. Kept(bound) /\ c \in DOMAIN bound.orders
  BY <1>2, BindKeeps
<1>4. \/ OnReport(w, report, stp) = bound
      \/ \E price : OnReport(w, report, stp) =
                      Resize(bound, c, price, report.remaining, stp)
  BY DEF OnReport
<1> HIDE DEF c, bound
<1>5. /\ OnReport(w, report, stp).boundTo = bound.boundTo
      /\ SameExchanges(OnReport(w, report, stp).orders, bound.orders)
  <2>1. CASE OnReport(w, report, stp) = bound
    BY <2>1 DEF SameExchanges
  <2>2. ASSUME NEW price,
               OnReport(w, report, stp) = Resize(bound, c, price, report.remaining, stp)
        PROVE  /\ OnReport(w, report, stp).boundTo = bound.boundTo
               /\ SameExchanges(OnReport(w, report, stp).orders, bound.orders)
    BY <1>3, <2>2, ResizeExchanges
  <2> QED  BY <1>4, <2>1, <2>2
<1> QED  BY <1>1, <1>2, <1>5 DEF bound

\* Reports keep the bindings if they name no exchange order id that is bound to
\* another order.
LEMMA ReportBinds ==
  ASSUME NEW w, Kept(w), BindingsMatch(w), NEW report, NEW stp,
         \A e \in DOMAIN w.boundTo \cap DOMAIN OnReport(w, report, stp).boundTo :
            OnReport(w, report, stp).boundTo[e] = w.boundTo[e]
  PROVE  BindingsMatch(OnReport(w, report, stp))
<1> DEFINE after == OnReport(w, report, stp)
<1>1. CASE report.clOrdId = 0 \/ Subject(w, report) = {}
  BY <1>1 DEF OnReport
<1>2. CASE report.clOrdId # 0 /\ Subject(w, report) # {} /\ Ends(report)
  <2>1. after = ReleaseOrder(w, report.clOrdId)
    BY <1>2 DEF OnReport
  <2> QED  BY <2>1, ReleaseBinds
<1>3. CASE report.clOrdId # 0 /\ Subject(w, report) # {} /\ ~ Ends(report)
  <2>1. PICK c \in DOMAIN w.orders :
           /\ after.boundTo = Bind(w, c, report.exchange).boundTo
           /\ SameExchanges(after.orders, Bind(w, c, report.exchange).orders)
    BY <1>3, ReportBinding
  <2> DEFINE bound == Bind(w, c, report.exchange)
  <2>2. BindingsMatch(bound)
    <3>1. CASE report.exchange \in {0, w.orders[c].exchange}
      BY <3>1 DEF Bind
    <3>2. CASE report.exchange \notin {0, w.orders[c].exchange}
      <4>1. DOMAIN w = Fields /\ DOMAIN w.orders[c] = OrderFields
        BY <2>1 DEF Kept, SoundOrders, SoundOrder
      <4> HIDE DEF bound
      <4>2. bound.boundTo = With(Without(w.boundTo, w.orders[c].exchange), report.exchange, c)
        <5>1. NowBound(bound, w, c, report.exchange)
          BY <2>1, <3>2, <4>1, BindFields DEF bound
        <5> QED  BY <5>1 DEF NowBound
      <4>3. report.exchange \in DOMAIN bound.boundTo /\ bound.boundTo[report.exchange] = c
        BY <4>2 DEF With
      <4>4. report.exchange \in DOMAIN w.boundTo => w.boundTo[report.exchange] = c
        BY <2>1, <4>3 DEF bound
      <4> QED  BY <2>1, <4>4, BindBinds DEF bound
    <3> QED  BY <3>1, <3>2
  <2> HIDE DEF bound, after
  <2>3. BindingsMatch(after)
    BY <2>1, <2>2, SameExchangesBind DEF bound
  <2> QED  BY <2>3 DEF after
<1> QED  BY <1>1, <1>2, <1>3

\* Neither a release nor a report takes orders up.
LEMMA ReleaseTracks ==
  ASSUME NEW w, DOMAIN w = Fields, NEW c
  PROVE  DOMAIN ReleaseOrder(w, c).orders = DOMAIN w.orders \ {c}
<1>1. CASE c \notin DOMAIN w.orders
  BY <1>1 DEF ReleaseOrder
<1>2. CASE c \in DOMAIN w.orders
  <2>1. ReleaseOrder(w, c).orders = Without(w.orders, c)
    BY <1>2, ReleaseFields
  <2> QED  BY <2>1 DEF Without
<1> QED  BY <1>1, <1>2

\* A report makes the gateway track no order it did not track.
LEMMA ReportTracks ==
  ASSUME NEW w, Kept(w), NEW report, NEW stp
  PROVE  DOMAIN OnReport(w, report, stp).orders \subseteq DOMAIN w.orders
<1> DEFINE after == OnReport(w, report, stp)
<1>1. DOMAIN w = Fields /\ SoundOrders(w.orders)
  BY DEF Kept
<1>2. CASE report.clOrdId = 0 \/ Subject(w, report) = {}
  BY <1>2 DEF OnReport
<1>3. CASE report.clOrdId # 0 /\ Subject(w, report) # {} /\ Ends(report)
  <2>1. after = ReleaseOrder(w, report.clOrdId)
    BY <1>3 DEF OnReport
  <2> QED  BY <1>1, <2>1, ReleaseTracks
<1>4. CASE report.clOrdId # 0 /\ Subject(w, report) # {} /\ ~ Ends(report)
  <2>1. PICK c \in DOMAIN w.orders :
           SameExchanges(after.orders, Bind(w, c, report.exchange).orders)
    BY <1>4, ReportBinding
  <2>2. DOMAIN Bind(w, c, report.exchange).orders = DOMAIN w.orders
    <3>1. CASE report.exchange \in {0, w.orders[c].exchange}
      BY <3>1 DEF Bind
    <3>2. CASE report.exchange \notin {0, w.orders[c].exchange}
      <4>1. NowBound(Bind(w, c, report.exchange), w, c, report.exchange)
        BY <1>1, <2>1, <3>2, BindFields
      <4> QED  BY <4>1 DEF NowBound
    <3> QED  BY <3>1, <3>2
  <2> QED  BY <2>1, <2>2 DEF SameExchanges
<1> QED  BY <1>2, <1>3, <1>4

-------------------------------------------------------------------------------
(* What the calls of the gateway do to the working orders.                 *)

\* Every call of the gateway with integers for quantities.
WholeCall ==
  \/ \E r, clOrdId : r.quantity \in Int /\ CheckNewOrder(r, clOrdId)
  \/ \E exchange, price, clOrdId : \E quantity \in Int :
        CheckReplaceOrder(exchange, price, quantity, clOrdId)
  \/ \E clOrdId : CallerReleases(clOrdId)
  \/ \E report : report.remaining \in Int /\ OnExecutionReport(report)
  \/ EnableKillSwitch \/ DisableKillSwitch \/ OnDisconnect \/ OnReconnect
  \/ \E symbol, price : OnMarketData(symbol, price)
  \/ \E symbol, position : SetPosition(symbol, position)
  \/ \E newLimits \in LimitSets : SetLimits(newLimits)
  \/ Tick
  \/ UNCHANGED gatewayVars

\* What it changes.
Registers ==
  \E r, c : /\ c \notin accepted /\ r.quantity \in Nat \ {0}
            /\ accepted' = accepted \cup {c}
            /\ working' = Register(working, r, c, limits.stp)
Resizes ==
  \E c \in DOMAIN working.orders, quantity \in Nat \ {0} : \E price :
     /\ accepted \subseteq accepted'
     /\ working' = Resize(working, c, price, quantity, limits.stp)
Reported ==
  \E report : /\ report.remaining \in Int /\ accepted' = accepted
              /\ working' = OnReport(working, report, limits.stp)
Releases ==
  \E c : accepted' = accepted /\ working' = ReleaseOrder(working, c)
Leaves ==
  accepted \subseteq accepted' /\ working' \in {working, NoWorking}
Changes == Registers \/ Resizes \/ Reported \/ Releases \/ Leaves

\* Each call with integers for quantities does one of five things to the working
\* orders: it adds, resizes or releases one, applies a report, or drops or leaves
\* them all.
LEMMA CallChanges ==
  ASSUME limits \in LimitSets, WholeCall
  PROVE  limits' \in LimitSets /\ Changes
<1> USE DEF controls, inputs, orders, Changes
<1>1. ASSUME NEW r, NEW clOrdId, r.quantity \in Int, CheckNewOrder(r, clOrdId)
      PROVE  limits' \in LimitSets /\ Changes
  <2>1. limits' = limits
    BY <1>1 DEF CheckNewOrder
  <2>2. CASE UNCHANGED <<accepted, working>>
    BY <2>1, <2>2 DEF Leaves
  <2>3. CASE NewOrderPasses(r, clOrdId) /\ AcceptNew(r, clOrdId)
    <3>1. clOrdId \notin accepted /\ r.quantity \in Nat \ {0}
      BY <1>1, <2>3 DEF NewOrderPasses
    <3>2. /\ accepted' = accepted \cup {clOrdId}
          /\ \/ working' = working
             \/ working' = Register(working, r, clOrdId, limits.stp)
      BY <2>3 DEF AcceptNew
    <3> QED  BY <2>1, <3>1, <3>2 DEF Leaves, Registers
  <2> QED  BY <1>1, <2>2, <2>3 DEF CheckNewOrder, RefuseUncounted, RefuseCounted
<1>2. ASSUME NEW exchange, NEW price, NEW quantity \in Int, NEW clOrdId,
             CheckReplaceOrder(exchange, price, quantity, clOrdId)
      PROVE  limits' \in LimitSets /\ Changes
  <2>1. limits' = limits
    BY <1>2 DEF CheckReplaceOrder
  <2>2. CASE UNCHANGED <<accepted, working>>
    BY <2>1, <2>2 DEF Leaves
  <2>3. ASSUME quantity > 0, NEW target \in Replaceable(exchange),
               AcceptReplace(target, price, quantity, clOrdId)
        PROVE  limits' \in LimitSets /\ Changes
    <3>1. target \in DOMAIN working.orders /\ quantity \in Nat \ {0}
      BY <2>3 DEF Replaceable
    <3>2. /\ accepted \subseteq accepted'
          /\ working' = Resize(working, target, price, quantity, limits.stp)
      BY <2>3 DEF AcceptReplace
    <3> QED  BY <2>1, <3>1, <3>2 DEF Resizes
  <2> QED  BY <1>2, <2>2, <2>3 DEF CheckReplaceOrder, RefuseUncounted, RefuseCounted
<1>3. ASSUME NEW report, report.remaining \in Int, OnExecutionReport(report)
      PROVE  limits' \in LimitSets /\ Changes
  BY <1>3 DEF OnExecutionReport, Reported
<1>4. ASSUME NEW clOrdId, CallerReleases(clOrdId) PROVE limits' \in LimitSets /\ Changes
  BY <1>4 DEF CallerReleases, Releases
<1>5. CASE \/ EnableKillSwitch \/ DisableKillSwitch \/ OnDisconnect \/ OnReconnect
           \/ Tick \/ UNCHANGED gatewayVars
           \/ \E symbol, price : OnMarketData(symbol, price)
           \/ \E symbol, position : SetPosition(symbol, position)
  <2>1. accepted' = accepted /\ limits' = limits
    BY <1>5 DEF EnableKillSwitch, DisableKillSwitch, OnDisconnect, OnReconnect, Tick,
       gatewayVars, OnMarketData, SetPosition
  <2>2. working' \in {working, NoWorking}
    <3>1. CASE EnableKillSwitch \/ OnDisconnect
      BY <3>1 DEF EnableKillSwitch, OnDisconnect, CancelAll
    <3>2. CASE \/ DisableKillSwitch \/ OnReconnect \/ Tick \/ UNCHANGED gatewayVars
               \/ \E symbol, price : OnMarketData(symbol, price)
               \/ \E symbol, position : SetPosition(symbol, position)
      BY <3>2 DEF DisableKillSwitch, OnReconnect, Tick, gatewayVars, OnMarketData, SetPosition
    <3> QED  BY <1>5, <3>1, <3>2
  <2> QED  BY <2>1, <2>2 DEF Leaves
<1>6. ASSUME NEW newLimits \in LimitSets, SetLimits(newLimits)
      PROVE  limits' \in LimitSets /\ Changes
  BY <1>6 DEF SetLimits, Leaves
<1> QED  BY <1>1, <1>2, <1>3, <1>4, <1>5, <1>6 DEF WholeCall

\* The inductive invariant of the sums: what is tracked was accepted, so the id
\* of a new order is not among them.
SumsInv ==
  /\ limits \in LimitSets
  /\ Kept(working) /\ DOMAIN working.orders \subseteq accepted

\* Every call keeps the sums right.
LEMMA SumsStep == SumsInv /\ WholeCall => SumsInv'
<1> SUFFICES ASSUME SumsInv, WholeCall PROVE SumsInv'
  OBVIOUS
<1>1. limits' \in LimitSets /\ Changes
  BY CallChanges DEF SumsInv
<1>2. Kept(working) /\ DOMAIN working.orders \subseteq accepted
  BY DEF SumsInv
<1>3. Preventing => limits.stp
  BY DEF SumsInv, Preventing
<1>4. DOMAIN working = Fields /\ SoundOrders(working.orders)
  BY <1>2 DEF Kept
<1>5. ASSUME NEW r, NEW c, c \notin accepted, r.quantity \in Nat \ {0},
             accepted' = accepted \cup {c},
             working' = Register(working, r, c, limits.stp)
      PROVE  Kept(working') /\ DOMAIN working'.orders \subseteq accepted'
  <2>1. c \notin DOMAIN working.orders
    BY <1>2, <1>5
  <2>2. Kept(working')
    BY <1>2, <1>3, <1>5, <2>1, RegisterKeeps
  <2>3. ASSUME working' # working
        PROVE  DOMAIN working'.orders = DOMAIN working.orders \cup {c}
    <3>1. NowTracked(working', working, c)
      BY <1>4, <1>5, <2>1, <2>3, RegisterFields
    <3> QED  BY <3>1 DEF NowTracked
  <2> QED  BY <1>2, <1>5, <2>2, <2>3
<1>6. ASSUME NEW c \in DOMAIN working.orders, NEW price, NEW quantity \in Nat \ {0},
             accepted \subseteq accepted',
             working' = Resize(working, c, price, quantity, limits.stp)
      PROVE  Kept(working') /\ DOMAIN working'.orders \subseteq accepted'
  <2>1. Kept(working')
    BY <1>2, <1>3, <1>6, ResizeKeeps
  <2>2. SameExchanges(working'.orders, working.orders)
    BY <1>2, <1>6, ResizeExchanges
  <2> QED  BY <1>2, <1>6, <2>1, <2>2 DEF SameExchanges
<1>7. ASSUME NEW report, report.remaining \in Int, accepted' = accepted,
             working' = OnReport(working, report, limits.stp)
      PROVE  Kept(working') /\ DOMAIN working'.orders \subseteq accepted'
  <2>1. Kept(working')
    BY <1>2, <1>3, <1>7, ReportKeeps
  <2>2. DOMAIN working'.orders \subseteq DOMAIN working.orders
    BY <1>2, <1>7, ReportTracks
  <2> QED  BY <1>2, <1>7, <2>1, <2>2
<1>8. ASSUME NEW c, accepted' = accepted, working' = ReleaseOrder(working, c)
      PROVE  Kept(working') /\ DOMAIN working'.orders \subseteq accepted'
  <2>1. Kept(working')
    BY <1>2, <1>8, ReleaseKeeps
  <2>2. DOMAIN working'.orders \subseteq DOMAIN working.orders
    BY <1>4, <1>8, ReleaseTracks
  <2> QED  BY <1>2, <1>8, <2>1, <2>2
<1>9. CASE Leaves
  <2>1. Kept(NoWorking) /\ DOMAIN NoWorking.orders = {}
    BY NothingKept DEF NoWorking
  <2> QED  BY <1>1, <1>2, <1>9, <2>1 DEF Leaves, SumsInv
<1> QED
  BY <1>1, <1>5, <1>6, <1>7, <1>8, <1>9
  DEF Changes, Registers, Resizes, Reported, Releases, SumsInv

\* The venue never gives an exchange order id that is bound to a tracked order to
\* another order.
VenueKeepsIds ==
  \A e \in DOMAIN working.boundTo \cap DOMAIN working'.boundTo :
     working'.boundTo[e] = working.boundTo[e]

\* Every call keeps the bindings right if the venue keeps to its ids.
LEMMA BindingsStep ==
  SumsInv /\ BindingsMatch(working) /\ WholeCall /\ VenueKeepsIds
    => BindingsMatch(working')
<1> SUFFICES ASSUME SumsInv, BindingsMatch(working), WholeCall, VenueKeepsIds
             PROVE  BindingsMatch(working')
  OBVIOUS
<1>1. Changes /\ Kept(working) /\ DOMAIN working.orders \subseteq accepted
  BY CallChanges DEF SumsInv
<1>2. ASSUME NEW r, NEW c, c \notin accepted, working' = Register(working, r, c, limits.stp)
      PROVE  BindingsMatch(working')
  <2>1. c \notin DOMAIN working.orders
    BY <1>1, <1>2
  <2> QED  BY <1>1, <1>2, <2>1, RegisterBinds
<1>3. ASSUME NEW c \in DOMAIN working.orders, NEW price, NEW quantity,
             working' = Resize(working, c, price, quantity, limits.stp)
      PROVE  BindingsMatch(working')
  <2>1. /\ working'.boundTo = working.boundTo
        /\ SameExchanges(working'.orders, working.orders)
    BY <1>1, <1>3, ResizeExchanges
  <2> QED  BY <2>1, SameExchangesBind
<1>4. ASSUME NEW report, working' = OnReport(working, report, limits.stp)
      PROVE  BindingsMatch(working')
  BY <1>1, <1>4, ReportBinds DEF VenueKeepsIds
<1>5. ASSUME NEW c, working' = ReleaseOrder(working, c) PROVE BindingsMatch(working')
  BY <1>1, <1>5, ReleaseBinds
<1>6. CASE Leaves
  <2>1. BindingsMatch(NoWorking)
    BY DEF BindingsMatch, NoWorking
  <2> QED  BY <1>6, <2>1 DEF Leaves
<1> QED
  BY <1>1, <1>2, <1>3, <1>4, <1>5, <1>6 DEF Changes, Registers, Resizes, Reported, Releases

\* Quantities are integers, as in the code.
WholeQuantities ==
  /\ \A r \in NewRequests : r.quantity \in Int
  /\ \A report \in Reports : report.remaining \in Int
  /\ ReplaceQuantities \subseteq Int

\* Every call the specification makes is one with integers for quantities.
LEMMA CallsAreWhole ==
  ASSUME WholeQuantities, [Calls]_gatewayVars PROVE WholeCall
<1>1. ASSUME NEW clOrdId, NEW r \in NewRequests, CheckNewOrder(r, clOrdId) PROVE WholeCall
  BY <1>1 DEF WholeCall, WholeQuantities
<1>2. ASSUME NEW exchange, NEW price, NEW quantity \in ReplaceQuantities, NEW clOrdId,
             CheckReplaceOrder(exchange, price, quantity, clOrdId)
      PROVE  WholeCall
  <2>1. quantity \in Int
    BY DEF WholeQuantities
  <2> QED  BY <1>2, <2>1 DEF WholeCall
<1>3. ASSUME NEW report \in Reports, OnExecutionReport(report) PROVE WholeCall
  BY <1>3 DEF WholeCall, WholeQuantities
<1>4. ASSUME NEW clOrdId, CallerReleases(clOrdId) PROVE WholeCall
  BY <1>4 DEF WholeCall
<1>5. CASE \/ EnableKillSwitch \/ DisableKillSwitch \/ OnDisconnect \/ OnReconnect
           \/ Tick \/ UNCHANGED gatewayVars
           \/ \E symbol, price : OnMarketData(symbol, price)
           \/ \E symbol, position : SetPosition(symbol, position)
           \/ \E newLimits \in LimitSets : SetLimits(newLimits)
  BY <1>5 DEF WholeCall
<1> QED
  BY <1>1, <1>2, <1>3, <1>4, <1>5 DEF Calls

\* A new gateway tracks nothing.
LEMMA SumsInit == GatewayInit => SumsInv /\ BindingsMatch(working)
<1>1. DOMAIN NoWorking.orders = {} /\ DOMAIN NoWorking.boundTo = {}
  BY DEF NoWorking
<1> QED  BY <1>1, NothingKept DEF GatewayInit, SumsInv, BindingsMatch

\* The quantity the open-order limit reads is the sum of the working orders,
\* whatever limits are set on the way and whatever the venue reports.
THEOREM TotalsAlwaysMatch ==
  ASSUME WholeQuantities PROVE GatewaySpec => []TotalsMatch(working)
<1>1. SumsInv /\ [Calls]_gatewayVars => SumsInv'
  BY CallsAreWhole, SumsStep
<1>2. SumsInv => TotalsMatch(working)
  BY DEF SumsInv, Kept
<1>3. GatewayInit => SumsInv
  BY SumsInit
<1> QED  BY <1>1, <1>2, <1>3, PTL DEF GatewaySpec

\* With self-trade prevention on throughout, and a venue that keeps to the ids it
\* gave, the four maps always hold the same working orders.
THEOREM ExposureAlwaysMatches ==
  ASSUME WholeQuantities, Preventing
  PROVE  GatewaySpec /\ [][VenueKeepsIds]_gatewayVars => []ExposureMatchesOrders
<1> DEFINE Inv == SumsInv /\ BindingsMatch(working)
<1>1. GatewayInit => Inv
  BY SumsInit
<1>2. Inv /\ [Calls]_gatewayVars /\ [VenueKeepsIds]_gatewayVars => Inv'
  <2> SUFFICES ASSUME Inv, [Calls]_gatewayVars, [VenueKeepsIds]_gatewayVars PROVE Inv'
    OBVIOUS
  <2>1. WholeCall /\ SumsInv'
    BY CallsAreWhole, SumsStep
  <2>2. CASE VenueKeepsIds
    BY <2>1, <2>2, BindingsStep
  <2>3. CASE UNCHANGED gatewayVars
    BY <2>1, <2>3 DEF gatewayVars, orders
  <2> QED  BY <2>2, <2>3
<1>3. Inv => ExposureMatchesOrders
  BY DEF SumsInv, Kept, ExposureMatchesOrders
<1> HIDE DEF Inv
<1> QED  BY <1>1, <1>2, <1>3, PTL DEF GatewaySpec

-------------------------------------------------------------------------------
(* The session with the gateway attached.                                  *)

\* Each step of the two together is a call of the gateway or leaves it alone.
LEMMA SessionCalls == [Next]_attachedVars => AnyCall
<1> SUFFICES ASSUME [Next]_attachedVars PROVE AnyCall
  OBVIOUS
<1>1. CASE Connect \/ (\E id \in ExchangeIds : CancelRequested(id)) \/ UNCHANGED attachedVars
  BY <1>1 DEF Connect, CancelRequested, AnyCall, attachedVars
<1>2. CASE Disconnect \/ Reconnect
  BY <1>2 DEF Disconnect, Reconnect, AnyCall
<1>3. CASE MarketData
  BY <1>3 DEF MarketData, AnyCall
<1>4. ASSUME NEW clOrdId, NEW r, Submit(r, clOrdId) PROVE AnyCall
  BY <1>4 DEF Submit, AnyCall
<1>5. ASSUME NEW clOrdId, NEW id, VenueAccepts(clOrdId, id) PROVE AnyCall
  <2>1. \E report : OnExecutionReport(report)
    BY <1>5 DEF VenueAccepts
  <2> QED  BY <2>1 DEF AnyCall
<1>6. ASSUME NEW id, VenueFills(id) \/ VenueCancels(id) PROVE AnyCall
  <2>1. (\E report : OnExecutionReport(report)) \/ UNCHANGED gatewayVars
    BY <1>6 DEF VenueFills, VenueCancels, Told
  <2> QED  BY <2>1 DEF AnyCall
<1> QED
  BY <1>1, <1>2, <1>3, <1>4, <1>5, <1>6 DEF Next

\* A canceled or filled order stays so, whatever comes late: in every step the
\* states of orders that are over are left alone.
THEOREM FinalStaysFinal == Spec => FinalIsFinal
<1>1. ASSUME [Next]_attachedVars, NEW id \in Session!In({"Canceled", "Filled"})
      PROVE  orderStates'[id] = orderStates[id]
  <2>1. id \in DOMAIN orderStates /\ orderStates[id] \in {"Canceled", "Filled"}
    BY <1>1 DEF Session!In
  <2>2. CASE Session!Connect \/ Session!Reconnect \/ UNCHANGED sessionVars
    BY <2>2 DEF Session!Connect, Session!Reconnect, sessionVars
  <2>3. CASE Session!Disconnect
    <3>1. orderStates' = Session!Requested
      BY <2>3 DEF Session!Disconnect
    <3>2. id \notin Session!ToCancel
      BY <2>1 DEF Session!ToCancel, Session!In
    <3> QED  BY <2>1, <3>1, <3>2 DEF Session!Requested
  <2>4. ASSUME NEW new, Session!OnOrderAccepted(new)
        PROVE  orderStates'[id] = orderStates[id]
    <3>1. /\ new # id
          /\ orderStates' = [other \in DOMAIN orderStates \cup {new} |->
                               IF other = new THEN "Accepted" ELSE orderStates[other]]
      BY <2>1, <2>4 DEF Session!OnOrderAccepted
    <3> QED  BY <2>1, <3>1
  <2>5. ASSUME NEW other, NEW from, NEW to, NEW event, Session!Move(other, from, to, event),
               from \subseteq {"Accepted", "PendingCancel"}
        PROVE  orderStates'[id] = orderStates[id]
    <3>1. other # id /\ orderStates' = [orderStates EXCEPT ![other] = to]
      BY <2>1, <2>5 DEF Session!Move, Session!In
    <3> QED  BY <2>1, <3>1
  <2>6. ASSUME NEW other, \/ Session!RequestCancel(other) \/ Session!AcknowledgeCancel(other)
                          \/ Session!RejectCancel(other) \/ Session!OnOrderFilled(other)
        PROVE  orderStates'[id] = orderStates[id]
    BY <2>5, <2>6 DEF Session!RequestCancel, Session!AcknowledgeCancel,
                      Session!RejectCancel, Session!OnOrderFilled
  <2> QED
    BY <1>1, <2>2, <2>3, <2>4, <2>6 DEF Next, Connect, Disconnect, Reconnect, MarketData,
       Submit, VenueAccepts, VenueFills, VenueCancels, CancelRequested, attachedVars
<1>2. [Next]_attachedVars =>
        [\A id \in Session!In({"Canceled", "Filled"}) :
            orderStates'[id] = orderStates[id]]_(Session!vars)
  BY <1>1
<1> QED  BY <1>2, PTL DEF Spec, FinalIsFinal, Session!FinalIsFinal

\* The gateway refuses orders while it is disconnected, and cancels at a
\* disconnect.
Refuses ==
  \A l \in LimitSets : l.cancelOnDisconnect = TRUE /\ l.whenDown = "RejectNewOrders"

\* A disconnect releases all exposure and asks to cancel every live order, also
\* one after a connect that the gateway was not told of: it let nothing through.
THEOREM RefusingDisconnectReleases ==
  ASSUME Refuses PROVE Spec => DisconnectReleases
<1>1. LimitsAgree
  BY DEF LimitsAgree, Refuses
<1>2. Init => StopInv
  BY DEF Init, GatewayInit, StopInv, StoppedMeansNothingWorks
<1>3. StopInv /\ [Next]_attachedVars => StopInv'
  BY <1>1, SessionCalls, StopStep
<1>4. ASSUME StopInv, [Next]_attachedVars, up, ~ up'
      PROVE  /\ working' = NoWorking
             /\ \A id \in DOMAIN orderStates' : orderStates'[id] # "Accepted"
  <2>1. Disconnect
    BY <1>4 DEF Next, Connect, Reconnect, MarketData, Submit, VenueAccepts, VenueFills,
       VenueCancels, CancelRequested, attachedVars, sessionVars, Session!Connect,
       Session!Reconnect, Session!OnOrderAccepted, Session!RequestCancel,
       Session!AcknowledgeCancel, Session!RejectCancel, Session!OnOrderFilled, Session!Move
  <2>2. working' = NoWorking
    <3>1. limits.cancelOnDisconnect /\ limits.whenDown = "RejectNewOrders"
      BY <1>4 DEF Refuses, StopInv
    <3>2. ~ connected => working = NoWorking
      BY <1>4, <3>1 DEF StopInv, StoppedMeansNothingWorks, Stopped
    <3> QED  BY <2>1, <3>1, <3>2 DEF Disconnect, OnDisconnect, CancelAll
  <2>3. orderStates' = Session!Requested
    BY <2>1 DEF Disconnect, Session!Disconnect
  <2>4. Session!ToCancel = Session!In({"Accepted"})
    BY DEF Session!ToCancel, Refuses
  <2>5. ASSUME NEW id \in DOMAIN orderStates PROVE Session!Requested[id] # "Accepted"
    BY <2>4, <2>5 DEF Session!Requested, Session!In
  <2> QED  BY <2>2, <2>3, <2>5 DEF Session!Requested
<1>5. StopInv /\ [Next]_attachedVars =>
        [up /\ ~ up' /\ limits.cancelOnDisconnect =>
           /\ working' = NoWorking
           /\ \A id \in DOMAIN orderStates' : orderStates'[id] # "Accepted"]_attachedVars
  BY <1>4
<1> QED  BY <1>2, <1>3, <1>5, PTL DEF Spec, DisconnectReleases

-------------------------------------------------------------------------------
(* What the gateway tracks is live in the session.                         *)

Live(table, id) == id \in DOMAIN table /\ table[id] \in {"Accepted", "PendingCancel"}

\* A tracked order with an exchange order id is a live order of the session, and
\* the client order id 0 is not one of them.
LiveInv ==
  /\ BindingsMatch(working)
  /\ \A c \in DOMAIN working.orders : working.orders[c].exchange # 0 =>
        c # 0 /\ Live(orderStates, working.orders[c].exchange)
SessionInv == SumsInv /\ LiveInv

WholeRequests == \A r \in NewRequests : r.quantity \in Int

\* A session's operation ends no order but the one it fills or cancels.
StayLive == \A other : Live(orderStates, other) => Live(orderStates', other)
OthersStayLive(id) ==
  \A other : Live(orderStates, other) /\ other # id => Live(orderStates', other)

\* connect, disconnect and reconnect end no order: at most they ask to cancel it.
LEMMA ConnectionKeepsLive ==
  Session!Connect \/ Session!Reconnect \/ Session!Disconnect => StayLive
<1>1. CASE Session!Connect \/ Session!Reconnect
  BY <1>1 DEF Session!Connect, Session!Reconnect, Live, StayLive
<1>2. CASE Session!Disconnect
  <2>1. orderStates' = Session!Requested
    BY <1>2 DEF Session!Disconnect
  <2> QED  BY <2>1 DEF Session!Requested, Live, StayLive
<1> QED  BY <1>1, <1>2

\* on_order_accepted takes up a live order.
LEMMA AcceptedIsLive ==
  ASSUME NEW id, Session!OnOrderAccepted(id) PROVE StayLive /\ Live(orderStates', id)
<1>1. /\ id \notin DOMAIN orderStates
      /\ orderStates' = [other \in DOMAIN orderStates \cup {id} |->
                           IF other = id THEN "Accepted" ELSE orderStates[other]]
  BY DEF Session!OnOrderAccepted
<1> QED  BY <1>1 DEF Live, StayLive

\* A change of an order's state leaves the others alone.
LEMMA MoveKeepsLive ==
  ASSUME NEW id, NEW from, NEW to, NEW event, Session!Move(id, from, to, event)
  PROVE  OthersStayLive(id) /\ (to \in {"Accepted", "PendingCancel"} => Live(orderStates', id))
<1>1. id \in DOMAIN orderStates /\ orderStates' = [orderStates EXCEPT ![id] = to]
  BY DEF Session!Move, Session!In
<1> QED  BY <1>1 DEF Live, OthersStayLive

\* request_cancel and reject_cancel end no order.
LEMMA RequestKeepsLive ==
  ASSUME NEW id, Session!RequestCancel(id) \/ Session!RejectCancel(id) PROVE StayLive
<1>1. OthersStayLive(id) /\ Live(orderStates', id)
  BY MoveKeepsLive DEF Session!RequestCancel, Session!RejectCancel
<1> QED  BY <1>1 DEF OthersStayLive, StayLive

\* A fill or an acknowledged cancel ends no other order.
LEMMA EndKeepsOthersLive ==
  ASSUME NEW id, Session!OnOrderFilled(id) \/ Session!AcknowledgeCancel(id)
  PROVE  OthersStayLive(id)
BY MoveKeepsLive DEF Session!OnOrderFilled, Session!AcknowledgeCancel

\* No order carries an exchange order id that it did not carry before.
NoneBound(after, before) ==
  \A c \in DOMAIN after.orders : after.orders[c].exchange # 0 =>
     c \in DOMAIN before.orders /\ before.orders[c].exchange = after.orders[c].exchange

\* A new order, a disconnect, a reconnect and market data bind no exchange order id.
LEMMA QuietCall ==
  ASSUME SumsInv, BindingsMatch(working),
         \/ \E r, c : CheckNewOrder(r, c)
         \/ OnDisconnect \/ OnReconnect \/ \E symbol, price : OnMarketData(symbol, price)
  PROVE  BindingsMatch(working') /\ NoneBound(working', working)
<1>1. Kept(working) /\ DOMAIN working = Fields /\ DOMAIN working.orders \subseteq accepted
  BY DEF SumsInv, Kept
<1>2. ASSUME NEW r, NEW c, CheckNewOrder(r, c)
      PROVE  BindingsMatch(working') /\ NoneBound(working', working)
  <2>1. \/ working' = working
        \/ c \notin accepted /\ working' = Register(working, r, c, limits.stp)
    BY <1>2 DEF CheckNewOrder, RefuseUncounted, RefuseCounted, AcceptNew, NewOrderPasses,
       orders
  <2>2. CASE working' = working
    BY <2>2 DEF NoneBound
  <2>3. CASE working' # working
    <3>1. c \notin DOMAIN working.orders /\ working' = Register(working, r, c, limits.stp)
      BY <1>1, <2>1, <2>3
    <3>2. NowTracked(working', working, c)
      BY <1>1, <2>3, <3>1, RegisterFields
    <3>3. BindingsMatch(working')
      BY <1>1, <3>1, RegisterBinds
    <3> QED  BY <3>2, <3>3 DEF NowTracked, NoneBound
  <2> QED  BY <2>2, <2>3
<1>3. CASE OnDisconnect \/ OnReconnect \/ \E symbol, price : OnMarketData(symbol, price)
  <2>1. working' \in {working, NoWorking}
    BY <1>3 DEF OnDisconnect, OnReconnect, OnMarketData, CancelAll, orders
  <2>2. BindingsMatch(NoWorking) /\ NoneBound(NoWorking, working)
    BY DEF BindingsMatch, NoneBound, NoWorking
  <2> QED  BY <2>1, <2>2 DEF NoneBound
<1> QED  BY <1>2, <1>3

\* Once it is told that an order is over, the gateway tracks none that carries
\* its exchange order id.
LEMMA ToldReleases ==
  ASSUME SessionInv, NEW id, NEW ending \in {"Filled", "Canceled"}, Told(id, ending)
  PROVE  /\ BindingsMatch(working') /\ NoneBound(working', working)
         /\ \A c \in DOMAIN working'.orders :
               working'.orders[c].exchange # 0 => working'.orders[c].exchange # id
<1>1. /\ Kept(working) /\ DOMAIN working = Fields /\ BindingsMatch(working)
      /\ \A c \in DOMAIN working.orders : working.orders[c].exchange # 0 => c # 0
  BY DEF SessionInv, LiveInv, SumsInv, Kept
<1>2. CASE Replaceable(id) = {} /\ UNCHANGED gatewayVars
  <2>1. working' = working
    BY <1>2 DEF gatewayVars, orders
  <2>2. \A c \in DOMAIN working.orders :
          working.orders[c].exchange # 0 => working.orders[c].exchange # id
    BY <1>1, <1>2 DEF Replaceable, BindingsMatch
  <2> QED  BY <1>1, <2>1, <2>2 DEF NoneBound
<1>3. ASSUME NEW c \in Replaceable(id),
             OnExecutionReport([clOrdId |-> c, exchange |-> id, exec |-> ending,
                                status |-> ending, remaining |-> 0, restingPrice |-> 0])
      PROVE  /\ BindingsMatch(working') /\ NoneBound(working', working)
             /\ \A d \in DOMAIN working'.orders :
                   working'.orders[d].exchange # 0 => working'.orders[d].exchange # id
  <2> DEFINE report == [clOrdId |-> c, exchange |-> id, exec |-> ending,
                        status |-> ending, remaining |-> 0, restingPrice |-> 0]
  <2>1. /\ id \in DOMAIN working.boundTo /\ working.boundTo[id] = c
        /\ c \in DOMAIN working.orders /\ working.orders[c].exchange = id
    BY <1>1, <1>3 DEF Replaceable, BindingsMatch
  <2>2. working' = OnReport(working, report, limits.stp)
    BY <1>3 DEF OnExecutionReport
  <2>3. report.clOrdId = c /\ Ends(report)
    BY DEF Ends
  <2>4. Subject(working, report) = {c}
    BY <2>1, <2>3 DEF Subject
  <2> HIDE DEF report
  <2>5. CASE c = 0
    <3>1. id = 0 /\ working' = working
      BY <1>1, <2>1, <2>2, <2>3, <2>5 DEF OnReport
    <3> QED  BY <1>1, <3>1 DEF NoneBound
  <2>6. CASE c # 0
    <3>1. working' = ReleaseOrder(working, c)
      BY <2>2, <2>3, <2>4, <2>6 DEF OnReport
    <3>2. working'.orders = Without(working.orders, c)
      BY <1>1, <2>1, <3>1, ReleaseFields
    <3>3. NoneBound(working', working)
      BY <3>2 DEF NoneBound, Without
    <3>4. ASSUME NEW d \in DOMAIN working'.orders, working'.orders[d].exchange # 0
          PROVE  working'.orders[d].exchange # id
      <4>1. d # c /\ d \in DOMAIN working.orders /\ working'.orders[d] = working.orders[d]
        BY <3>2 DEF Without
      <4> QED  BY <1>1, <2>1, <3>4, <4>1 DEF BindingsMatch
    <3>5. BindingsMatch(working')
      BY <1>1, <3>1, ReleaseBinds
    <3> QED  BY <3>3, <3>4, <3>5
  <2> QED  BY <2>5, <2>6
<1> QED  BY <1>2, <1>3 DEF Told

\* A venue that accepts an order gives it an exchange order id that is new to the
\* session, so to the gateway.
LEMMA AcceptedBinds ==
  ASSUME SessionInv, NEW clOrdId, NEW id, VenueAccepts(clOrdId, id)
  PROVE  /\ BindingsMatch(working')
         /\ \A c \in DOMAIN working'.orders : working'.orders[c].exchange # 0 =>
               /\ c # 0
               /\ \/ working'.orders[c].exchange = id
                  \/ c \in DOMAIN working.orders
                     /\ working.orders[c].exchange = working'.orders[c].exchange
<1> DEFINE report == [clOrdId |-> clOrdId, exchange |-> id, exec |-> "New",
                      status |-> "New", remaining |-> working.orders[clOrdId].quantity,
                      restingPrice |-> working.orders[clOrdId].price]
<1>1. /\ Kept(working) /\ DOMAIN working = Fields /\ BindingsMatch(working)
      /\ SoundOrders(working.orders)
      /\ \A c \in DOMAIN working.orders : working.orders[c].exchange # 0 =>
            c # 0 /\ working.orders[c].exchange \in DOMAIN orderStates
  BY DEF SessionInv, LiveInv, Live, SumsInv, Kept
<1>2. /\ clOrdId \in DOMAIN working.orders /\ working.orders[clOrdId].exchange = 0
      /\ id \notin DOMAIN orderStates
      /\ working' = OnReport(working, report, limits.stp)
  BY DEF VenueAccepts, Session!OnOrderAccepted, OnExecutionReport
<1>3. /\ report.clOrdId = clOrdId /\ report.exchange = id
      /\ report.remaining = working.orders[clOrdId].quantity
      /\ report.exec = "New" /\ report.status = "New"
  OBVIOUS
<1> HIDE DEF report
<1>4. CASE clOrdId = 0
  <2>1. working' = working
    BY <1>2, <1>3, <1>4 DEF OnReport
  <2> QED  BY <1>1, <2>1
<1>5. CASE clOrdId # 0
  <2> DEFINE bound == Bind(working, clOrdId, id)
  <2>1. Subject(working, report) = {clOrdId}
    BY <1>2, <1>3 DEF Subject
  <2>2. ~ Ends(report)
    <3>1. report.remaining \in Nat \ {0}
      BY <1>1, <1>2, <1>3 DEF SoundOrders, SoundOrder
    <3> QED  BY <1>3, <3>1 DEF Ends
  <2>3. working'.boundTo = bound.boundTo /\ SameExchanges(working'.orders, bound.orders)
    BY <1>1, <1>2, <1>3, <1>5, <2>1, <2>2, ReportBinding
  <2>4. id \notin DOMAIN working.boundTo \/ id = 0
    BY <1>1, <1>2 DEF BindingsMatch
  <2>5. /\ BindingsMatch(bound)
        /\ DOMAIN bound.orders = DOMAIN working.orders
        /\ \A c \in DOMAIN working.orders \ {clOrdId} : bound.orders[c] = working.orders[c]
        /\ bound.orders[clOrdId].exchange = id
    <3>1. CASE id = 0
      BY <1>1, <1>2, <3>1 DEF Bind
    <3>2. CASE id # 0
      <4>1. BindingsMatch(bound)
        BY <1>1, <1>2, <2>4, <3>2, BindBinds
      <4>2. NowBound(bound, working, clOrdId, id)
        BY <1>1, <1>2, <3>2, BindFields
      <4>3. DOMAIN working.orders[clOrdId] = OrderFields
        BY <1>1, <1>2 DEF SoundOrders, SoundOrder
      <4> HIDE DEF bound
      <4> QED  BY <4>1, <4>2, <4>3 DEF NowBound, OrderFields
    <3> QED  BY <3>1, <3>2
  <2> HIDE DEF bound
  <2>6. BindingsMatch(working')
    BY <2>3, <2>5, SameExchangesBind
  <2> QED  BY <1>1, <1>5, <2>3, <2>5, <2>6 DEF SameExchanges
<1> QED  BY <1>4, <1>5

\* What the session's steps mean to the bindings: the orders that carry an
\* exchange order id carry one of a live order.
LEMMA LiveStep ==
  ASSUME SessionInv, [Next]_attachedVars PROVE LiveInv'
<1>1. SumsInv /\ LiveInv /\ BindingsMatch(working)
  BY DEF SessionInv, LiveInv
<1>2. ASSUME BindingsMatch(working'), NoneBound(working', working), StayLive
      PROVE  LiveInv'
  <2>1. ASSUME NEW c \in DOMAIN working'.orders, working'.orders[c].exchange # 0
        PROVE  c # 0 /\ Live(orderStates', working'.orders[c].exchange)
    <3>1. /\ c \in DOMAIN working.orders
          /\ working.orders[c].exchange = working'.orders[c].exchange
      BY <1>2, <2>1 DEF NoneBound
    <3>2. Live(orderStates, working'.orders[c].exchange) /\ c # 0
      BY <1>1, <2>1, <3>1 DEF LiveInv
    <3> QED  BY <1>2, <3>2 DEF StayLive
  <2> QED  BY <1>2, <2>1 DEF LiveInv
<1>3. ASSUME BindingsMatch(working'), working' = working, StayLive PROVE LiveInv'
  BY <1>1, <1>3 DEF LiveInv, StayLive
<1>4. CASE Connect \/ (\E id : CancelRequested(id)) \/ UNCHANGED attachedVars
  <2>1. working' = working
    BY <1>4 DEF Connect, CancelRequested, attachedVars, gatewayVars, orders
  <2>2. StayLive
    <3>1. CASE Connect
      BY <3>1, ConnectionKeepsLive DEF Connect
    <3>2. ASSUME NEW id, CancelRequested(id) PROVE StayLive
      BY <3>2, RequestKeepsLive DEF CancelRequested
    <3>3. CASE UNCHANGED attachedVars
      BY <3>3 DEF attachedVars, sessionVars, StayLive
    <3> QED  BY <1>4, <3>1, <3>2, <3>3
  <2> QED  BY <1>1, <1>3, <2>1, <2>2
<1>5. CASE Disconnect \/ Reconnect \/ MarketData \/ \E r, c : Submit(r, c)
  <2>1. BindingsMatch(working') /\ NoneBound(working', working)
    <3>1. \/ \E r, c : CheckNewOrder(r, c)
          \/ OnDisconnect \/ OnReconnect \/ \E symbol, price : OnMarketData(symbol, price)
      BY <1>5 DEF Disconnect, Reconnect, MarketData, Submit
    <3> QED  BY <1>1, <3>1, QuietCall
  <2>2. StayLive
    <3>1. CASE Disconnect \/ Reconnect
      BY <3>1, ConnectionKeepsLive DEF Disconnect, Reconnect
    <3>2. CASE UNCHANGED sessionVars
      BY <3>2 DEF sessionVars, StayLive
    <3> QED  BY <1>5, <3>1, <3>2 DEF MarketData, Submit
  <2> QED  BY <1>2, <2>1, <2>2
<1>6. ASSUME NEW id, VenueFills(id) \/ VenueCancels(id) PROVE LiveInv'
  <2>1. OthersStayLive(id)
    BY <1>6, EndKeepsOthersLive DEF VenueFills, VenueCancels
  <2>2. /\ BindingsMatch(working') /\ NoneBound(working', working)
        /\ \A c \in DOMAIN working'.orders :
              working'.orders[c].exchange # 0 => working'.orders[c].exchange # id
    <3>1. Told(id, "Filled") \/ Told(id, "Canceled")
      BY <1>6 DEF VenueFills, VenueCancels
    <3> QED  BY <3>1, ToldReleases
  <2>3. ASSUME NEW c \in DOMAIN working'.orders, working'.orders[c].exchange # 0
        PROVE  c # 0 /\ Live(orderStates', working'.orders[c].exchange)
    <3>1. /\ c \in DOMAIN working.orders
          /\ working.orders[c].exchange = working'.orders[c].exchange
      BY <2>2, <2>3 DEF NoneBound
    <3>2. Live(orderStates, working'.orders[c].exchange) /\ c # 0
      BY <1>1, <2>3, <3>1 DEF LiveInv
    <3>3. working'.orders[c].exchange # id
      BY <2>2, <2>3
    <3> QED  BY <2>1, <3>2, <3>3 DEF OthersStayLive
  <2> QED  BY <2>2, <2>3 DEF LiveInv
<1>7. ASSUME NEW clOrdId, NEW id, VenueAccepts(clOrdId, id) PROVE LiveInv'
  <2>1. StayLive /\ Live(orderStates', id)
    BY <1>7, AcceptedIsLive DEF VenueAccepts
  <2>2. /\ BindingsMatch(working')
        /\ \A c \in DOMAIN working'.orders : working'.orders[c].exchange # 0 =>
              /\ c # 0
              /\ \/ working'.orders[c].exchange = id
                 \/ c \in DOMAIN working.orders
                    /\ working.orders[c].exchange = working'.orders[c].exchange
    BY <1>7, AcceptedBinds
  <2>3. ASSUME NEW c \in DOMAIN working'.orders, working'.orders[c].exchange # 0
        PROVE  c # 0 /\ Live(orderStates', working'.orders[c].exchange)
    <3>1. \/ working'.orders[c].exchange = id
          \/ Live(orderStates, working'.orders[c].exchange)
      BY <1>1, <2>2, <2>3 DEF LiveInv
    <3> QED  BY <2>1, <2>2, <2>3, <3>1 DEF StayLive
  <2> QED  BY <2>2, <2>3 DEF LiveInv
<1> QED  BY <1>4, <1>5, <1>6, <1>7 DEF Next

\* Every step of session and gateway keeps the invariant.
LEMMA SessionStep ==
  ASSUME SessionInv, WholeRequests, [Next]_attachedVars PROVE SessionInv'
<1>1. CASE [WholeCall]_gatewayVars
  <2>1. SumsInv'
    <3>1. CASE UNCHANGED gatewayVars
      BY <3>1 DEF SessionInv, SumsInv, gatewayVars, controls, orders
    <3> QED  BY <1>1, <3>1, SumsStep DEF SessionInv
  <2> QED  BY <2>1, LiveStep DEF SessionInv
<1>2. ASSUME NEW r \in NewRequests, NEW clOrdId, Submit(r, clOrdId) PROVE WholeCall
  BY <1>2 DEF Submit, WholeCall, WholeRequests
<1>3. ASSUME NEW clOrdId, NEW id, VenueAccepts(clOrdId, id) PROVE WholeCall
  <2>1. working.orders[clOrdId].quantity \in Int
    <3>1. SoundOrders(working.orders)
      BY DEF SessionInv, SumsInv, Kept
    <3> QED  BY <1>3, <3>1 DEF VenueAccepts, SoundOrders, SoundOrder
  <2> QED  BY <1>3, <2>1 DEF VenueAccepts, WholeCall
<1>4. ASSUME NEW id, VenueFills(id) \/ VenueCancels(id) PROVE [WholeCall]_gatewayVars
  <2>1. PICK ending : Told(id, ending)
    BY <1>4 DEF VenueFills, VenueCancels
  <2>2. ASSUME NEW clOrdId,
               OnExecutionReport([clOrdId |-> clOrdId, exchange |-> id, exec |-> ending,
                                  status |-> ending, remaining |-> 0, restingPrice |-> 0])
        PROVE  WholeCall
    <3> DEFINE report == [clOrdId |-> clOrdId, exchange |-> id, exec |-> ending,
                          status |-> ending, remaining |-> 0, restingPrice |-> 0]
    <3>1. report.remaining \in Int /\ OnExecutionReport(report)
      BY <2>2
    <3> HIDE DEF report
    <3> QED  BY <3>1 DEF WholeCall
  <2> QED  BY <2>1, <2>2 DEF Told
<1>5. CASE Connect \/ (\E id : CancelRequested(id)) \/ UNCHANGED attachedVars
  BY <1>1, <1>5 DEF Connect, CancelRequested, attachedVars
<1>6. CASE Disconnect \/ Reconnect \/ MarketData
  BY <1>1, <1>6 DEF Disconnect, Reconnect, MarketData, WholeCall
<1> QED  BY <1>1, <1>2, <1>3, <1>4, <1>5, <1>6 DEF Next

\* It holds before the first event.
LEMMA SessionStarts == Init => SessionInv
<1>1. DOMAIN NoWorking.orders = {}
  BY DEF NoWorking
<1> QED  BY <1>1, SumsInit DEF Init, GatewayInit, SessionInv, LiveInv

\* Whatever comes late, what the gateway tracks as accepted by the venue is a
\* live order of the session.
THEOREM TrackedStaysLive ==
  ASSUME WholeRequests PROVE Spec => []TrackedIsLive
<1>1. SessionInv /\ [Next]_attachedVars => SessionInv'
  BY SessionStep
<1>2. SessionInv => TrackedIsLive
  BY DEF SessionInv, LiveInv, Live, TrackedIsLive
<1> QED  BY <1>1, <1>2, SessionStarts, PTL DEF Spec

\* Behind a session no venue is needed that keeps to its ids: the session takes
\* each id once.
THEOREM SessionExposureMatches ==
  ASSUME WholeRequests, Preventing PROVE Spec => []ExposureMatchesOrders
<1>1. SessionInv /\ [Next]_attachedVars => SessionInv'
  BY SessionStep
<1>2. SessionInv => ExposureMatchesOrders
  BY DEF SessionInv, LiveInv, SumsInv, Kept, ExposureMatchesOrders
<1> QED  BY <1>1, <1>2, SessionStarts, PTL DEF Spec

-------------------------------------------------------------------------------
(* The session's log.                                                      *)

\* A set of numbers has a least.
LEMMA Least ==
  ASSUME NEW S \in SUBSET Nat, S # {}
  PROVE  \E n \in S : \A m \in S : n <= m
<1> DEFINE R == OpToRel(<, Nat)
<1>1. IsWellFoundedOn(R, Nat)
  BY NatLessThanWellFounded
<1>2. \A x, y \in Nat : x < y => <<x, y>> \in R
  BY DEF OpToRel
<1> HIDE DEF R
<1>3. PICK n \in S : \A m \in S : ~ <<m, n>> \in R
  BY <1>1, WFMin
<1>4. ASSUME NEW m \in S PROVE n <= m
  <2>1. m \in Nat /\ n \in Nat
    BY <1>3
  <2>2. ~ m < n
    BY <1>2, <1>3, <2>1
  <2> QED  BY <2>1, <2>2
<1> QED  BY <1>3, <1>4

\* One that has 0, and with every number the next, has them all.
LEMMA Induct ==
  ASSUME NEW S \in SUBSET Nat, 0 \in S, \A n \in S : n + 1 \in S
  PROVE  S = Nat
<1> DEFINE T == Nat \ S
<1>1. CASE T = {}
  BY <1>1
<1>2. CASE T # {}
  <2>1. PICK n \in T : \A m \in T : n <= m
    BY <1>2, Least
  <2>2. n - 1 \in Nat /\ n - 1 \in S
    BY <2>1
  <2> QED  BY <2>1, <2>2
<1> QED  BY <1>1, <1>2

Ascends(s, S) ==
  /\ s \in [1 .. Cardinality(S) -> S]
  /\ \A j, k \in 1 .. Cardinality(S) : j < k => s[j] < s[k]
  /\ \A x \in S : \E k \in 1 .. Cardinality(S) : s[k] = x

\* A set with its least number in front of a list of the others.
LEMMA AscendsFrom ==
  ASSUME NEW S \in SUBSET Nat, IsFiniteSet(S), NEW x \in S, \A y \in S : x <= y,
         NEW s, Ascends(s, S \ {x})
  PROVE  \E t : Ascends(t, S)
<1> DEFINE n == Cardinality(S)
           t == [k \in 1 .. n |-> IF k = 1 THEN x ELSE s[k - 1]]
<1>1. n \in Nat /\ n # 0 /\ Cardinality(S \ {x}) = n - 1
  BY FS_CardinalityType, FS_EmptySet, FS_RemoveElement
<1> HIDE DEF n
<1>2. /\ s \in [1 .. n - 1 -> S \ {x}]
      /\ \A j, k \in 1 .. n - 1 : j < k => s[j] < s[k]
      /\ \A y \in S \ {x} : \E k \in 1 .. n - 1 : s[k] = y
  BY <1>1 DEF Ascends
<1>3. \A k \in 1 .. n : k # 1 => /\ k - 1 \in 1 .. n - 1 /\ t[k] = s[k - 1]
                               /\ s[k - 1] \in S \ {x}
  BY <1>1, <1>2
<1>4. 1 \in 1 .. n /\ t[1] = x
  BY <1>1
<1>5. t \in [1 .. n -> S]
  BY <1>2, <1>3
<1>6. ASSUME NEW j \in 1 .. n, NEW k \in 1 .. n, j < k PROVE t[j] < t[k]
  <2>1. k # 1 /\ t[k] = s[k - 1] /\ s[k - 1] \in S \ {x} /\ k - 1 \in 1 .. n - 1
    BY <1>1, <1>3, <1>6
  <2>2. CASE j = 1
    <3>1. t[j] = x
      BY <1>4, <2>2
    <3>2. x \in Nat /\ s[k - 1] \in Nat /\ x <= s[k - 1] /\ x # s[k - 1]
      BY <2>1
    <3> QED  BY <2>1, <3>1, <3>2
  <2>3. CASE j # 1
    <3>1. t[j] = s[j - 1] /\ j - 1 \in 1 .. n - 1 /\ j - 1 < k - 1
      BY <1>1, <1>3, <1>6, <2>3
    <3> QED  BY <1>2, <2>1, <3>1
  <2> QED  BY <2>2, <2>3
<1>7. ASSUME NEW y \in S PROVE \E k \in 1 .. n : t[k] = y
  <2>1. CASE y = x
    BY <1>4, <2>1
  <2>2. CASE y # x
    <3>1. PICK k \in 1 .. n - 1 : s[k] = y
      BY <1>2, <2>2
    <3>2. k + 1 \in 1 .. n /\ k + 1 # 1 /\ (k + 1) - 1 = k
      BY <1>1
    <3>3. t[k + 1] = s[k]
      BY <1>3, <3>2
    <3> QED  BY <3>1, <3>2, <3>3
  <2> QED  BY <2>1, <2>2
<1> HIDE DEF t
<1>8. Ascends(t, S)
  BY <1>5, <1>6, <1>7 DEF Ascends, n
<1> QED  BY <1>8

\* Every finite set of numbers has its ascending list.
LEMMA FiniteSetAscends ==
  ASSUME NEW S \in SUBSET Nat, IsFiniteSet(S)
  PROVE  \E s : Ascends(s, S)
<1> DEFINE N == {n \in Nat : \A T \in SUBSET Nat :
                              IsFiniteSet(T) /\ Cardinality(T) = n => \E s : Ascends(s, T)}
<1>1. 0 \in N
  <2> SUFFICES ASSUME NEW T \in SUBSET Nat, IsFiniteSet(T), Cardinality(T) = 0
               PROVE  \E s : Ascends(s, T)
    OBVIOUS
  <2> DEFINE s == [k \in 1 .. 0 |-> 0]
  <2>1. T = {}
    BY FS_EmptySet
  <2>2. Ascends(s, T)
    BY <2>1 DEF Ascends
  <2> QED  BY <2>2
<1>2. ASSUME NEW n \in N PROVE n + 1 \in N
  <2> SUFFICES ASSUME NEW T \in SUBSET Nat, IsFiniteSet(T), Cardinality(T) = n + 1
               PROVE  \E s : Ascends(s, T)
    OBVIOUS
  <2>1. T # {}
    BY FS_EmptySet
  <2>2. PICK x \in T : \A y \in T : x <= y
    BY <2>1, Least
  <2>3. IsFiniteSet(T \ {x}) /\ Cardinality(T \ {x}) = n
    <3>1. n \in Nat /\ IsFiniteSet(T \ {x}) /\ Cardinality(T \ {x}) = Cardinality(T) - 1
      BY FS_RemoveElement
    <3> QED  BY <3>1
  <2>4. PICK s : Ascends(s, T \ {x})
    BY <2>3
  <2> QED  BY <2>2, <2>4, AscendsFrom
<1> HIDE DEF N
<1>3. N = Nat
  BY <1>1, <1>2, Induct DEF N
<1>4. Cardinality(S) \in N
  BY <1>3, FS_CardinalityType
<1> QED  BY <1>4 DEF N

\* The instance counts as this module does.
LEMMA SameCounting ==
  \A S : Session!Cardinality(S) = Cardinality(S) /\ Session!Max(S) = Max(S)
<1>1. \A S : Session!Cardinality(S) = Cardinality(S)
  BY DEF Session!Cardinality, Cardinality
<1>2. \A S : Session!Max(S) = Max(S)
  BY DEF Session!Max, Max
<1> QED  BY <1>1, <1>2

\* A finite set of numbers has a largest.
LEMMA LargestIsMax ==
  ASSUME NEW S \in SUBSET Nat, IsFiniteSet(S), S # {}
  PROVE  Max(S) \in S /\ \A x \in S : Max(S) >= x
<1> DEFINE n == Cardinality(S)
<1>1. n \in Nat /\ n # 0
  BY FS_CardinalityType, FS_EmptySet
<1>2. PICK s : Ascends(s, S)
  BY FiniteSetAscends
<1>3. /\ s \in [1 .. n -> S] /\ \A j, k \in 1 .. n : j < k => s[j] < s[k]
      /\ \A x \in S : \E k \in 1 .. n : s[k] = x
  BY <1>2 DEF Ascends
<1> HIDE DEF n
<1>4. n \in 1 .. n
  BY <1>1
<1>5. s[n] \in S
  BY <1>3, <1>4
<1>6. ASSUME NEW x \in S PROVE s[n] >= x
  <2>1. PICK k \in 1 .. n : s[k] = x
    BY <1>3
  <2>2. x \in Nat /\ s[n] \in Nat
    BY <1>5
  <2>3. k = n \/ k < n
    BY <1>1
  <2>4. k < n => s[k] < s[n]
    BY <1>3, <1>4
  <2> QED  BY <2>1, <2>2, <2>3, <2>4
<1> QED  BY <1>5, <1>6 DEF Max

\* ... and can be put in ascending order.
LEMMA AscendingLists ==
  ASSUME NEW S \in SUBSET Nat, IsFiniteSet(S)
  PROVE  /\ Cardinality(S) \in Nat
         /\ Session!Ascending(S) \in [1 .. Cardinality(S) -> S]
         /\ \A j, k \in 1 .. Cardinality(S) :
               Session!Ascending(S)[j] = Session!Ascending(S)[k] => j = k
         /\ \A x \in S : \E k \in 1 .. Cardinality(S) : Session!Ascending(S)[k] = x
<1> DEFINE a == Session!Ascending(S)
           n == Cardinality(S)
<1>1. PICK s : Ascends(s, S)
  BY FiniteSetAscends
<1>2. /\ n \in Nat /\ s \in [1 .. n -> S]
      /\ \A j, k \in DOMAIN s : j < k => s[j] < s[k]
  BY <1>1, FS_CardinalityType DEF Ascends
<1>3. a \in [1 .. n -> S] /\ \A j, k \in DOMAIN a : j < k => a[j] < a[k]
  BY <1>2, SameCounting DEF Session!Ascending
<1> HIDE DEF a, n
<1>4. \A j, k \in 1 .. n : a[j] = a[k] => j = k
  <2> SUFFICES ASSUME NEW j \in 1 .. n, NEW k \in 1 .. n, j # k PROVE a[j] # a[k]
    OBVIOUS
  <2>1. a[j] \in Nat /\ a[k] \in Nat
    BY <1>3
  <2>2. j < k \/ k < j
    BY <1>2
  <2> QED  BY <1>3, <2>1, <2>2
<1>5. a \in Injection(1 .. n, S)
  BY <1>3, <1>4, Fun_IsInj
<1>6. IsFiniteSet(1 .. n) /\ Cardinality(1 .. n) = n
  BY <1>2, FS_Interval
<1>7. a \in Surjection(1 .. n, S)
  BY <1>5, <1>6, FS_Injection DEF n
<1>8. \A x \in S : \E k \in 1 .. n : a[k] = x
  BY <1>7, Zenon DEF Surjection
<1> QED  BY <1>2, <1>3, <1>4, <1>8 DEF a, n

Connecting == {"Connect", "Reconnect", "Disconnect"}
Kinds == Connecting \cup {"OrderAccepted", "CancelRequested", "CancelAcknowledged",
                          "CancelRejected", "OrderFilled"}
Entry == [type : Kinds, id : Nat]
SoundLog(log) ==
  /\ log \in Seq(Entry)
  /\ \A k \in DOMAIN log : log[k].id = 0 <=> log[k].type \in Connecting

\* What is said of a subject: nothing, or what the last event about it says.
SaidByLast(said, log, id, n) ==
  \/ (\A k \in 1 .. n : log[k].id # id) /\ said = "None"
  \/ \E k \in 1 .. n : /\ log[k].id = id /\ \A j \in k + 1 .. n : log[j].id # id
                       /\ said = Session!StateAfter[log[k].type]

LEMMA Says ==
  ASSUME NEW log \in Seq(Entry), NEW id, NEW n \in 0 .. Len(log)
  PROVE  SaidByLast(Session!SaidOf(log, id, n), log, id, n)
<1> DEFINE about == Session!About(log, id, n)
<1>1. about = {k \in 1 .. n : log[k].id = id}
  BY DEF Session!About
<1>2. CASE about = {}
  BY <1>1, <1>2 DEF Session!SaidOf, SaidByLast
<1>3. CASE about # {}
  <2>1. about \in SUBSET Nat /\ IsFiniteSet(about)
    <3>1. IsFiniteSet(1 .. n)
      BY FS_Interval
    <3> QED  BY <1>1, <3>1, FS_Subset
  <2> DEFINE k == Max(about)
  <2> HIDE DEF about
  <2>2. k \in about /\ \A j \in about : k >= j
    BY <1>3, <2>1, LargestIsMax
  <2>3. Session!SaidOf(log, id, n) = Session!StateAfter[log[k].type]
    BY <1>3, SameCounting DEF Session!SaidOf, about
  <2> HIDE DEF k
  <2>4. ASSUME NEW j \in k + 1 .. n PROVE log[j].id # id
    BY <1>1, <2>2
  <2> QED  BY <1>1, <2>2, <2>3, <2>4 DEF SaidByLast
<1> QED  BY <1>2, <1>3

\* ... which determines it.
LEMMA SaysLast ==
  ASSUME NEW log \in Seq(Entry), NEW n \in 0 .. Len(log), NEW k \in 1 .. n,
         \A j \in k + 1 .. n : log[j].id # log[k].id
  PROVE  Session!SaidOf(log, log[k].id, n) = Session!StateAfter[log[k].type]
<1>1. SaidByLast(Session!SaidOf(log, log[k].id, n), log, log[k].id, n)
  BY Says
<1>2. PICK i \in 1 .. n :
        /\ log[i].id = log[k].id /\ \A j \in i + 1 .. n : log[j].id # log[k].id
        /\ Session!SaidOf(log, log[k].id, n) = Session!StateAfter[log[i].type]
  BY <1>1 DEF SaidByLast
<1>3. ~ i < k /\ ~ k < i
  BY <1>2
<1> QED  BY <1>2, <1>3

\* A log without an event of a subject says nothing of it.
LEMMA SaysNothing ==
  ASSUME NEW log \in Seq(Entry), NEW id, NEW n \in 0 .. Len(log),
         \A k \in 1 .. n : log[k].id # id
  PROVE  Session!SaidOf(log, id, n) = "None"
<1>1. Session!About(log, id, n) = {}
  BY DEF Session!About
<1> QED  BY <1>1 DEF Session!SaidOf

\* Two logs that agree on their first events say the same with them, and what is
\* said of a subject lasts as long as no event is about it.
LEMMA SaysTheSame ==
  ASSUME NEW log \in Seq(Entry), NEW after \in Seq(Entry), NEW id,
         NEW n \in 0 .. Len(log), NEW m \in n .. Len(after),
         \A k \in 1 .. n : after[k] = log[k],
         \A k \in n + 1 .. m : after[k].id # id
  PROVE  Session!SaidOf(after, id, m) = Session!SaidOf(log, id, n)
<1>0. SaidByLast(Session!SaidOf(log, id, n), log, id, n)
  BY Says
<1>1. CASE \A k \in 1 .. n : log[k].id # id
  <2>1. \A k \in 1 .. m : after[k].id # id
    BY <1>1
  <2>2. Session!SaidOf(after, id, m) = "None"
    BY <2>1, SaysNothing
  <2> QED  BY <1>1, <2>2, SaysNothing
<1>2. CASE \E k \in 1 .. n : log[k].id = id
  <2>1. PICK k \in 1 .. n :
          /\ log[k].id = id /\ \A j \in k + 1 .. n : log[j].id # id
          /\ Session!SaidOf(log, id, n) = Session!StateAfter[log[k].type]
    BY <1>0, <1>2 DEF SaidByLast
  <2>2. \A j \in k + 1 .. m : after[j].id # id
    BY <2>1
  <2>3. after[k] = log[k] /\ k \in 1 .. m /\ m \in 0 .. Len(after) /\ after[k].id = id
    BY <2>1
  <2>4. Session!SaidOf(after, after[k].id, m) = Session!StateAfter[after[k].type]
    <3>1. \A j \in k + 1 .. m : after[j].id # after[k].id
      BY <2>2, <2>3
    <3> QED  BY <2>3, <3>1, SaysLast
  <2> QED  BY <2>1, <2>3, <2>4
<1> QED  BY <1>1, <1>2

Fits(log) ==
  \A k \in DOMAIN log :
     Session!SaidOf(log, log[k].id, k - 1) \in Session!Presupposes[log[k].type]
Subjects(log) == {log[k].id : k \in DOMAIN log}

\* Events that may follow a log together: of different subjects, each fitting what
\* the log says of its own.
Fitting(new, log) ==
  /\ SoundLog(new)
  /\ \A j, k \in DOMAIN new : new[j].id = new[k].id => j = k
  /\ \A k \in DOMAIN new : Session!SaidOf(log, new[k].id, Len(log))
                              \in Session!Presupposes[new[k].type]

Grown(after, log, new) ==
  /\ SoundLog(after) /\ Fits(after)
  /\ Subjects(after) = Subjects(log) \cup Subjects(new)
  /\ \A k \in DOMAIN new :
        Session!SaidOf(after, new[k].id, Len(after)) = Session!StateAfter[new[k].type]
  /\ \A id : id \notin Subjects(new) =>
        Session!SaidOf(after, id, Len(after)) = Session!SaidOf(log, id, Len(log))

\* Events that fit a log together may be appended to it.
LEMMA LogGrows ==
  ASSUME NEW log, NEW new, SoundLog(log), Fits(log), Fitting(new, log)
  PROVE  Grown(log \o new, log, new)
<1> DEFINE after == log \o new
           n == Len(log)
           m == Len(new)
<1>1. /\ log \in Seq(Entry) /\ new \in Seq(Entry) /\ n \in Nat /\ m \in Nat
      /\ DOMAIN log = 1 .. n /\ DOMAIN new = 1 .. m
  BY DEF SoundLog, Fitting
<1>2. /\ after \in Seq(Entry) /\ Len(after) = n + m /\ DOMAIN after = 1 .. n + m
      /\ \A k \in 1 .. n : after[k] = log[k]
      /\ \A k \in n + 1 .. n + m : after[k] = new[k - n]
      /\ \A k \in 1 .. m : after[n + k] = new[k]
  <2>1. after \in Seq(Entry) /\ Len(after) = n + m
    BY <1>1, ConcatProperties
  <2>2. DOMAIN after = 1 .. n + m
    BY <1>1, <2>1
  <2>3. \A k \in 1 .. n + m : after[k] = IF k <= n THEN log[k] ELSE new[k - n]
    BY <1>1, ConcatProperties
  <2> HIDE DEF after, n, m
  <2>4. \A k \in 1 .. m : after[n + k] = new[k]
    BY <1>1, <2>3
  <2> QED  BY <1>1, <2>1, <2>2, <2>3, <2>4
<1> HIDE DEF after, n, m
<1>3. \A k \in 1 .. n + m :
        \/ k \in 1 .. n /\ after[k] = log[k]
        \/ \E j \in 1 .. m : k = n + j /\ after[k] = new[j]
  <2> SUFFICES ASSUME NEW k \in 1 .. n + m, k \notin 1 .. n
               PROVE  \E j \in 1 .. m : k = n + j /\ after[k] = new[j]
    BY <1>2
  <2>1. k - n \in 1 .. m /\ k = n + (k - n) /\ k \in n + 1 .. n + m
    BY <1>1
  <2> QED  BY <1>2, <2>1
<1>4. SoundLog(after)
  <2>1. \A k \in 1 .. n : log[k].id = 0 <=> log[k].type \in Connecting
    BY <1>1 DEF SoundLog
  <2>2. \A k \in 1 .. m : new[k].id = 0 <=> new[k].type \in Connecting
    BY <1>1 DEF SoundLog, Fitting
  <2>3. ASSUME NEW k \in 1 .. n + m
        PROVE  after[k].id = 0 <=> after[k].type \in Connecting
    <3>1. (\E j \in 1 .. n : after[k] = log[j]) \/ (\E j \in 1 .. m : after[k] = new[j])
      BY <1>3
    <3> QED  BY <2>1, <2>2, <3>1
  <2> QED  BY <1>2, <2>3 DEF SoundLog
<1>5. Subjects(after) = Subjects(log) \cup Subjects(new)
  <2>1. \A k \in 1 .. n : k \in 1 .. n + m
    BY <1>1
  <2>2. \A k \in 1 .. m : n + k \in 1 .. n + m
    BY <1>1
  <2>3. ASSUME NEW k \in 1 .. n + m PROVE after[k].id \in Subjects(log) \cup Subjects(new)
    BY <1>1, <1>3 DEF Subjects
  <2>4. ASSUME NEW k \in 1 .. n PROVE log[k].id \in Subjects(after)
    <3>1. k \in 1 .. n + m /\ log[k].id = after[k].id
      BY <1>2, <2>1
    <3> QED  BY <1>2, <3>1 DEF Subjects
  <2>5. ASSUME NEW k \in 1 .. m PROVE new[k].id \in Subjects(after)
    <3>1. n + k \in 1 .. n + m /\ new[k].id = after[n + k].id
      BY <1>2, <2>2
    <3> QED  BY <1>2, <3>1 DEF Subjects
  <2>6. Subjects(after) \subseteq Subjects(log) \cup Subjects(new)
    BY <1>2, <2>3 DEF Subjects
  <2>7. Subjects(log) \subseteq Subjects(after)
    BY <1>1, <2>4 DEF Subjects
  <2>8. Subjects(new) \subseteq Subjects(after)
    BY <1>1, <2>5 DEF Subjects
  <2> QED  BY <2>6, <2>7, <2>8
<1>6. ASSUME NEW k \in 1 .. n, NEW id
      PROVE  Session!SaidOf(after, id, k - 1) = Session!SaidOf(log, id, k - 1)
  <2>1. /\ k - 1 \in 0 .. Len(log) /\ k - 1 \in k - 1 .. Len(after)
        /\ \A j \in 1 .. k - 1 : after[j] = log[j]
        /\ \A j \in (k - 1) + 1 .. k - 1 : after[j].id # id
    BY <1>1, <1>2 DEF n
  <2> QED  BY <1>1, <1>2, <2>1, SaysTheSame
<1>7. ASSUME NEW k \in 1 .. m
      PROVE  Session!SaidOf(after, new[k].id, n + k - 1) = Session!SaidOf(log, new[k].id, n)
  <2>1. ASSUME NEW j \in n + 1 .. n + k - 1 PROVE after[j].id # new[k].id
    <3>1. j - n \in 1 .. m /\ j - n # k /\ after[j] = new[j - n]
      BY <1>1, <1>2
    <3> QED  BY <1>1, <3>1 DEF Fitting
  <2>2. n \in 0 .. Len(log) /\ n + k - 1 \in n .. Len(after)
    BY <1>1, <1>2 DEF n
  <2> QED  BY <1>1, <1>2, <2>1, <2>2, SaysTheSame
<1>8. Fits(after)
  <2> SUFFICES ASSUME NEW k \in 1 .. n + m
               PROVE  Session!SaidOf(after, after[k].id, k - 1)
                        \in Session!Presupposes[after[k].type]
    BY <1>2 DEF Fits
  <2>1. CASE k \in 1 .. n
    <3>1. Session!SaidOf(after, after[k].id, k - 1) = Session!SaidOf(log, log[k].id, k - 1)
      BY <1>2, <1>6, <2>1
    <3> QED  BY <1>1, <1>2, <2>1, <3>1 DEF Fits
  <2>2. ASSUME NEW j \in 1 .. m, k = n + j, after[k] = new[j]
        PROVE  Session!SaidOf(after, after[k].id, k - 1)
                 \in Session!Presupposes[after[k].type]
    <3>1. Session!SaidOf(after, new[j].id, n + j - 1) = Session!SaidOf(log, new[j].id, n)
      BY <1>7
    <3>2. Session!SaidOf(log, new[j].id, n) \in Session!Presupposes[new[j].type]
      BY <1>1 DEF Fitting, n
    <3>3. Session!SaidOf(after, after[k].id, k - 1) = Session!SaidOf(log, new[j].id, n)
      <4>1. k - 1 = n + j - 1 /\ after[k].id = new[j].id
        BY <1>1, <2>2
      <4> QED  BY <3>1, <4>1, Zenon
    <3> QED  BY <2>2, <3>2, <3>3
  <2> QED  BY <1>3, <2>1, <2>2
<1>9. ASSUME NEW k \in 1 .. m
      PROVE  Session!SaidOf(after, new[k].id, n + m) = Session!StateAfter[new[k].type]
  <2>1. ASSUME NEW j \in (n + k) + 1 .. n + m PROVE after[j].id # after[n + k].id
    <3>1. j - n \in 1 .. m /\ j - n # k /\ j \in n + 1 .. n + m
      BY <1>1
    <3>2. after[j] = new[j - n] /\ after[n + k] = new[k]
      BY <1>2, <3>1
    <3> QED  BY <1>1, <3>1, <3>2 DEF Fitting
  <2>2. n + m \in 0 .. Len(after) /\ n + k \in 1 .. n + m /\ after[n + k] = new[k]
    BY <1>1, <1>2
  <2> QED  BY <1>2, <2>1, <2>2, SaysLast
<1>10. ASSUME NEW id, id \notin Subjects(new)
       PROVE  Session!SaidOf(after, id, n + m) = Session!SaidOf(log, id, n)
  <2>1. ASSUME NEW j \in n + 1 .. n + m PROVE after[j].id # id
    <3>1. j - n \in 1 .. m /\ after[j] = new[j - n]
      BY <1>1, <1>2
    <3> QED  BY <1>1, <1>10, <3>1 DEF Subjects
  <2>2. n \in 0 .. Len(log) /\ n + m \in n .. Len(after)
    BY <1>1, <1>2 DEF n
  <2> QED  BY <1>1, <1>2, <2>1, <2>2, SaysTheSame
<1>11. Grown(after, log, new)
  BY <1>1, <1>2, <1>4, <1>5, <1>8, <1>9, <1>10 DEF Grown, n
<1> QED  BY <1>11 DEF after

\* A count stays, or rises by one.
LEMMA CountSame ==
  ASSUME NEW log \in Seq(Entry), NEW new \in Seq(Entry), NEW type,
         \A k \in DOMAIN new : new[k].type # type
  PROVE  Session!Count(log \o new, type) = Session!Count(log, type)
<1> DEFINE after == log \o new
<1>1. /\ DOMAIN log = 1 .. Len(log) /\ DOMAIN new = 1 .. Len(new)
      /\ DOMAIN after = 1 .. Len(log) + Len(new)
      /\ \A k \in 1 .. Len(log) + Len(new) :
            after[k] = IF k <= Len(log) THEN log[k] ELSE new[k - Len(log)]
  BY ConcatProperties
<1> HIDE DEF after
<1>2. ASSUME NEW k \in DOMAIN log PROVE k \in DOMAIN after /\ after[k] = log[k]
  BY <1>1
<1>3. ASSUME NEW k \in DOMAIN after, after[k].type = type PROVE k \in DOMAIN log
  <2>1. CASE k <= Len(log)
    BY <1>1, <2>1
  <2>2. CASE ~ k <= Len(log)
    <3>1. k - Len(log) \in DOMAIN new /\ after[k] = new[k - Len(log)]
      BY <1>1, <2>2
    <3> QED  BY <1>3, <3>1
  <2> QED  BY <2>1, <2>2
<1>4. {k \in DOMAIN after : after[k].type = type} = {k \in DOMAIN log : log[k].type = type}
  BY <1>2, <1>3
<1> QED  BY <1>4 DEF Session!Count, after

\* ... when one event of the type is logged.
LEMMA CountOne ==
  ASSUME NEW log \in Seq(Entry), NEW e \in Entry
  PROVE  Session!Count(log \o <<e>>, e.type) = Session!Count(log, e.type) + 1
<1> DEFINE after == log \o <<e>>
           n == Len(log)
           Of(l) == {k \in DOMAIN l : l[k].type = e.type}
<1>1. /\ n \in Nat /\ DOMAIN log = 1 .. n /\ DOMAIN after = 1 .. n + 1
      /\ \A k \in 1 .. n : after[k] = log[k]
      /\ after[n + 1] = e
  OBVIOUS
<1> HIDE DEF after, n
<1>2. Of(after) = Of(log) \cup {n + 1} /\ n + 1 \notin Of(log)
  BY <1>1
<1>3. IsFiniteSet(Of(log))
  <2>1. IsFiniteSet(1 .. n)
    BY <1>1, IntervalUpTo
  <2> QED  BY <1>1, <2>1, FS_Subset
<1> HIDE DEF Of
<1>4. Cardinality(Of(after)) = Cardinality(Of(log)) + 1
  BY <1>2, <1>3, FS_AddElement
<1> QED  BY <1>4, SameCounting DEF Session!Count, after, Of

\* The session's log says what the session is.
LogInv == SoundLog(events) /\ LogTellsAll

\* A step that logs some events and does what they say.
Does(new) ==
  /\ events' = events \o new
  /\ up' = IF 0 \in Subjects(new) THEN \A k \in DOMAIN new : new[k].type # "Disconnect"
                                   ELSE up
  /\ DOMAIN orderStates' = DOMAIN orderStates \cup (Subjects(new) \ {0})
  /\ \A k \in DOMAIN new : new[k].id # 0 =>
        orderStates'[new[k].id] = Session!StateAfter[new[k].type]
  /\ \A id \in DOMAIN orderStates \ Subjects(new) : orderStates'[id] = orderStates[id]
  /\ counts' = [canceled |-> Session!Count(events \o new, "CancelAcknowledged"),
                filled   |-> Session!Count(events \o new, "OrderFilled"),
                rejected |-> Session!Count(events \o new, "CancelRejected")]

\* Such a step keeps the log telling, if the events fit it.
LEMMA LogStep ==
  ASSUME LogInv, NEW new, Fitting(new, events), Does(new) PROVE LogInv'
<1>1. SoundLog(events) /\ Fits(events) /\ Subjects(events) \ {0} = DOMAIN orderStates
  BY DEF LogInv, LogTellsAll, Session!LogTellsAll, Fits, Subjects
<1>2. Grown(events', events, new)
  BY <1>1, LogGrows DEF Does
<1>3. Fits(events') /\ SoundLog(events')
  BY <1>2 DEF Grown
<1>4. DOMAIN orderStates' = Subjects(events') \ {0}
  BY <1>1, <1>2 DEF Grown, Does
<1>5. \A id \in DOMAIN orderStates' :
        orderStates'[id] = Session!SaidOf(events', id, Len(events'))
  <2> SUFFICES ASSUME NEW id \in DOMAIN orderStates'
               PROVE  orderStates'[id] = Session!SaidOf(events', id, Len(events'))
    OBVIOUS
  <2>1. CASE id \in Subjects(new)
    <3>1. PICK k \in DOMAIN new : new[k].id = id
      BY <2>1 DEF Subjects
    <3>2. id # 0
      BY <1>4
    <3> QED  BY <1>2, <3>1, <3>2 DEF Grown, Does
  <2>2. CASE id \notin Subjects(new)
    <3>1. id \in DOMAIN orderStates /\ orderStates'[id] = orderStates[id]
      BY <2>2 DEF Does
    <3>2. orderStates[id] = Session!SaidOf(events, id, Len(events))
      BY <3>1 DEF LogInv, LogTellsAll, Session!LogTellsAll
    <3> QED  BY <1>2, <2>2, <3>1, <3>2 DEF Grown
  <2> QED  BY <2>1, <2>2
<1>6. up' = (Session!SaidOf(events', 0, Len(events')) = "Up")
  <2>1. CASE 0 \in Subjects(new)
    <3>1. PICK k \in DOMAIN new : new[k].id = 0
      BY <2>1 DEF Subjects
    <3>2. new[k].type \in Connecting
      BY <3>1 DEF Fitting, SoundLog
    <3>3. Session!SaidOf(events', 0, Len(events')) = Session!StateAfter[new[k].type]
      BY <1>2, <3>1 DEF Grown
    <3>4. up' = (new[k].type # "Disconnect")
      <4>1. \A j \in DOMAIN new : new[j].type = "Disconnect" => j = k
        BY <3>1 DEF Fitting, SoundLog, Connecting
      <4>2. up' = \A j \in DOMAIN new : new[j].type # "Disconnect"
        BY <2>1 DEF Does
      <4> QED  BY <4>1, <4>2
    <3> QED  BY <3>2, <3>3, <3>4 DEF Connecting, Session!StateAfter
  <2>2. CASE 0 \notin Subjects(new)
    <3>1. up' = up
      BY <2>2 DEF Does
    <3>2. up = (Session!SaidOf(events, 0, Len(events)) = "Up")
      BY DEF LogInv, LogTellsAll, Session!LogTellsAll
    <3> QED  BY <1>2, <2>2, <3>1, <3>2 DEF Grown
  <2> QED  BY <2>1, <2>2
<1>7. counts' = [canceled |-> Session!Count(events', "CancelAcknowledged"),
                 filled   |-> Session!Count(events', "OrderFilled"),
                 rejected |-> Session!Count(events', "CancelRejected")]
  BY DEF Does
<1> QED
  BY <1>3, <1>4, <1>5, <1>6, <1>7
  DEF LogInv, LogTellsAll, Session!LogTellsAll, Fits, Subjects

\* What the log says fits what the session is.
LEMMA LogSays ==
  ASSUME LogInv
  PROVE  /\ IsFiniteSet(DOMAIN orderStates) /\ DOMAIN orderStates \subseteq Nat \ {0}
         /\ IF up THEN Session!SaidOf(events, 0, Len(events)) = "Up"
                  ELSE Session!SaidOf(events, 0, Len(events)) \in {"None", "Down"}
         /\ \A id : id # 0 /\ id \notin DOMAIN orderStates =>
               Session!SaidOf(events, id, Len(events)) = "None"
         /\ \A id \in DOMAIN orderStates :
               Session!SaidOf(events, id, Len(events)) = orderStates[id]
<1> DEFINE n == Len(events)
<1>1. /\ events \in Seq(Entry) /\ n \in Nat /\ DOMAIN events = 1 .. n
      /\ \A k \in 1 .. n : events[k].id = 0 => events[k].type \in Connecting
  BY DEF LogInv, SoundLog
<1>2. DOMAIN orderStates = Subjects(events) \ {0}
  BY DEF LogInv, LogTellsAll, Session!LogTellsAll, Subjects
<1>3. up = (Session!SaidOf(events, 0, n) = "Up")
  BY DEF LogInv, LogTellsAll, Session!LogTellsAll
<1>4. n \in 0 .. Len(events)
  BY <1>1
<1>5. IsFiniteSet(Subjects(events))
  <2> DEFINE f == [k \in 1 .. n |-> events[k].id]
  <2>1. f \in Surjection(1 .. n, Subjects(events))
    BY <1>1 DEF Subjects, Surjection
  <2>2. IsFiniteSet(1 .. n)
    BY <1>1, IntervalUpTo
  <2> HIDE DEF f
  <2> QED  BY <2>1, <2>2, FS_Surjection
<1>6. IsFiniteSet(DOMAIN orderStates)
  BY <1>2, <1>5, FS_Subset
<1>7. DOMAIN orderStates \subseteq Nat \ {0}
  <2>1. ASSUME NEW k \in 1 .. n PROVE events[k].id \in Nat
    <3>1. events[k] \in Entry
      BY <1>1
    <3> QED  BY <3>1 DEF Entry
  <2> QED  BY <1>1, <1>2, <2>1 DEF Subjects
<1>8. Session!SaidOf(events, 0, n) \in {"None", "Up", "Down"}
  <2>1. SaidByLast(Session!SaidOf(events, 0, n), events, 0, n)
    BY <1>1, <1>4, Says
  <2> QED  BY <1>1, <2>1 DEF SaidByLast, Connecting, Session!StateAfter
<1>9. ASSUME NEW id, id # 0, id \notin DOMAIN orderStates
      PROVE  Session!SaidOf(events, id, n) = "None"
  <2>1. \A k \in 1 .. n : events[k].id # id
    BY <1>1, <1>2, <1>9 DEF Subjects
  <2> QED  BY <1>1, <1>4, <2>1, SaysNothing
<1>10. \A id \in DOMAIN orderStates : Session!SaidOf(events, id, n) = orderStates[id]
  BY DEF LogInv, LogTellsAll, Session!LogTellsAll
<1> QED  BY <1>3, <1>6, <1>7, <1>8, <1>9, <1>10

\* A single event that fits.
LEMMA OneFits ==
  ASSUME LogInv, NEW type \in Kinds, NEW id \in Nat, id = 0 <=> type \in Connecting,
         Session!SaidOf(events, id, Len(events)) \in Session!Presupposes[type]
  PROVE  /\ Fitting(<<Session!Event(type, id)>>, events)
         /\ Subjects(<<Session!Event(type, id)>>) = {id}
<1> DEFINE e == Session!Event(type, id)
           new == <<e>>
<1>1. e \in Entry /\ e.type = type /\ e.id = id
  BY DEF Session!Event, Entry
<1> HIDE DEF e
<1>2. new \in Seq(Entry) /\ DOMAIN new = {1} /\ new[1] = e
  BY <1>1
<1> HIDE DEF new
<1>3. SoundLog(new) /\ Subjects(new) = {id}
  BY <1>1, <1>2 DEF SoundLog, Subjects
<1>4. Fitting(new, events)
  BY <1>1, <1>2, <1>3 DEF Fitting
<1> QED  BY <1>3, <1>4 DEF new, e

\* What the counts are by the log.
CountsOf(log) ==
  [canceled |-> Session!Count(log, "CancelAcknowledged"),
   filled   |-> Session!Count(log, "OrderFilled"),
   rejected |-> Session!Count(log, "CancelRejected")]

\* The counts after events of which they count none ...
LEMMA NoneCounted ==
  ASSUME LogInv, NEW new \in Seq(Entry),
         \A k \in DOMAIN new :
            new[k].type \notin {"CancelAcknowledged", "OrderFilled", "CancelRejected"}
  PROVE  CountsOf(events \o new) = counts
<1>1. events \in Seq(Entry) /\ counts = CountsOf(events)
  BY DEF LogInv, SoundLog, LogTellsAll, Session!LogTellsAll, CountsOf
<1>2. \A type \in {"CancelAcknowledged", "OrderFilled", "CancelRejected"} :
        Session!Count(events \o new, type) = Session!Count(events, type)
  BY <1>1, CountSame
<1> QED  BY <1>1, <1>2 DEF CountsOf

\* ... and after one they count.
LEMMA OneCounted ==
  ASSUME LogInv, NEW id \in Nat, NEW type \in Kinds
  PROVE  LET after == CountsOf(events \o <<Session!Event(type, id)>>)
         IN  /\ type = "CancelAcknowledged" =>
                  after = [counts EXCEPT !.canceled = counts.canceled + 1]
             /\ type = "OrderFilled" =>
                  after = [counts EXCEPT !.filled = counts.filled + 1]
             /\ type = "CancelRejected" =>
                  after = [counts EXCEPT !.rejected = counts.rejected + 1]
<1> DEFINE e == Session!Event(type, id)
           log == events \o <<e>>
<1>1. events \in Seq(Entry) /\ counts = CountsOf(events)
  BY DEF LogInv, SoundLog, LogTellsAll, Session!LogTellsAll, CountsOf
<1>2. e \in Entry /\ e.type = type
  BY DEF Session!Event, Entry
<1> HIDE DEF e
<1>3. <<e>> \in Seq(Entry) /\ \A k \in DOMAIN <<e>> : <<e>>[k] = e
  BY <1>2
<1>4. Session!Count(log, type) = Session!Count(events, type) + 1
  BY <1>1, <1>2, CountOne
<1>5. ASSUME NEW other, other # type
      PROVE  Session!Count(log, other) = Session!Count(events, other)
  <2>1. \A k \in DOMAIN <<e>> : <<e>>[k].type # other
    BY <1>2, <1>3, <1>5
  <2> QED  BY <1>1, <1>3, <2>1, CountSame
<1> HIDE DEF log
<1> QED  BY <1>1, <1>4, <1>5 DEF CountsOf, log, e

\* Connect and reconnect.
LEMMA ConnectLogs ==
  ASSUME LogInv, Session!Connect \/ Session!Reconnect PROVE LogInv'
<1>1. PICK type \in {"Connect", "Reconnect"} :
        /\ ~ up /\ up' /\ events' = events \o <<Session!Event(type, 0)>>
        /\ orderStates' = orderStates /\ counts' = counts
  BY DEF Session!Connect, Session!Reconnect, Session!Record
<1> DEFINE new == <<Session!Event(type, 0)>>
<1>2. Session!SaidOf(events, 0, Len(events)) \in Session!Presupposes[type]
  BY <1>1, LogSays DEF Session!Presupposes
<1>3. Fitting(new, events) /\ Subjects(new) = {0}
  BY <1>2, OneFits DEF Kinds, Connecting
<1>4. DOMAIN new = {1} /\ new[1].type = type /\ new[1].id = 0
  BY DEF Session!Event
<1> HIDE DEF new
<1>5. CountsOf(events \o new) = counts
  BY <1>3, <1>4, NoneCounted DEF Fitting, SoundLog
<1>6. Does(new)
  <2>1. 0 \notin DOMAIN orderStates
    BY LogSays
  <2>2. events' = events \o new
    BY <1>1 DEF new
  <2> QED  BY <1>1, <1>3, <1>4, <1>5, <2>1, <2>2 DEF Does, CountsOf
<1> QED  BY <1>3, <1>6, LogStep

\* One event about an order, new or known.
LEMMA OneLogs ==
  ASSUME LogInv, NEW id \in Nat \ {0}, NEW type \in Kinds \ Connecting,
         Session!SaidOf(events, id, Len(events)) \in Session!Presupposes[type],
         orderStates' = [other \in DOMAIN orderStates \cup {id} |->
                           IF other = id THEN Session!StateAfter[type]
                                         ELSE orderStates[other]],
         events' = events \o <<Session!Event(type, id)>>, up' = up,
         counts' = CountsOf(events \o <<Session!Event(type, id)>>)
  PROVE  LogInv'
<1> DEFINE new == <<Session!Event(type, id)>>
<1>1. Fitting(new, events) /\ Subjects(new) = {id}
  BY OneFits
<1>2. DOMAIN new = {1} /\ new[1].type = type /\ new[1].id = id
  BY DEF Session!Event
<1>3. events' = events \o new /\ counts' = CountsOf(events \o new)
  OBVIOUS
<1> HIDE DEF new
<1>4. DOMAIN orderStates' = DOMAIN orderStates \cup (Subjects(new) \ {0})
  BY <1>1
<1>5. \A k \in DOMAIN new : orderStates'[new[k].id] = Session!StateAfter[new[k].type]
  BY <1>2
<1>6. \A other \in DOMAIN orderStates \ Subjects(new) :
        orderStates'[other] = orderStates[other]
  BY <1>1
<1>7. 0 \notin Subjects(new)
  BY <1>1
<1>8. up' = IF 0 \in Subjects(new) THEN \A k \in DOMAIN new : new[k].type # "Disconnect"
                                   ELSE up
  BY <1>7
<1>9. Does(new)
  BY <1>3, <1>4, <1>5, <1>6, <1>8, Zenon DEF Does, CountsOf
<1> QED  BY <1>1, <1>9, LogStep

\* An order the venue accepts has not been spoken of.
LEMMA AcceptLogs ==
  ASSUME LogInv, NEW id \in Nat, Session!OnOrderAccepted(id) PROVE LogInv'
<1> DEFINE new == <<Session!Event("OrderAccepted", id)>>
<1>1. /\ id # 0 /\ id \notin DOMAIN orderStates
      /\ orderStates' = [other \in DOMAIN orderStates \cup {id} |->
                           IF other = id THEN "Accepted" ELSE orderStates[other]]
      /\ events' = events \o new /\ up' = up /\ counts' = counts
  BY DEF Session!OnOrderAccepted, Session!Record
<1>2. "OrderAccepted" \in Kinds \ Connecting
  BY DEF Kinds, Connecting
<1>3. Session!SaidOf(events, id, Len(events)) \in Session!Presupposes["OrderAccepted"]
  BY <1>1, LogSays DEF Session!Presupposes
<1>4. new \in Seq(Entry) /\ DOMAIN new = {1} /\ new[1].type = "OrderAccepted"
  BY <1>2 DEF Session!Event, Entry
<1> HIDE DEF new
<1>5. counts' = CountsOf(events \o new)
  BY <1>1, <1>4, NoneCounted
<1>6. Session!StateAfter["OrderAccepted"] = "Accepted"
  BY DEF Session!StateAfter
<1> QED  BY <1>1, <1>2, <1>3, <1>5, <1>6, OneLogs DEF new

\* A transition from a state its event presupposes, which is what was said last.
LEMMA MoveLogs ==
  ASSUME LogInv, NEW id, NEW from, NEW type \in Kinds \ Connecting,
         from \subseteq Session!Presupposes[type],
         Session!Move(id, from, Session!StateAfter[type], type),
         counts' = CountsOf(events \o <<Session!Event(type, id)>>)
  PROVE  LogInv'
<1>1. /\ id \in DOMAIN orderStates /\ orderStates[id] \in from
      /\ orderStates' = [orderStates EXCEPT ![id] = Session!StateAfter[type]]
      /\ events' = events \o <<Session!Event(type, id)>> /\ up' = up
  BY DEF Session!Move, Session!In, Session!Record
<1>2. id \in Nat \ {0}
  BY <1>1, LogSays
<1>3. Session!SaidOf(events, id, Len(events)) \in Session!Presupposes[type]
  BY <1>1, LogSays
<1>4. orderStates' = [other \in DOMAIN orderStates \cup {id} |->
                        IF other = id THEN Session!StateAfter[type] ELSE orderStates[other]]
  BY <1>1
<1> QED  BY <1>1, <1>2, <1>3, <1>4, OneLogs

\* Requests, acknowledgements, rejections and fills are such transitions.
LEMMA OrderLogs ==
  ASSUME LogInv, NEW id,
         \/ Session!RequestCancel(id) \/ Session!AcknowledgeCancel(id)
         \/ Session!RejectCancel(id) \/ Session!OnOrderFilled(id)
  PROVE  LogInv'
<1>1. CASE Session!RequestCancel(id)
  <2> DEFINE new == <<Session!Event("CancelRequested", id)>>
  <2>1. id \in Nat
    BY <1>1, LogSays DEF Session!RequestCancel, Session!Move, Session!In
  <2>2. new \in Seq(Entry) /\ \A k \in DOMAIN new : new[k].type = "CancelRequested"
    BY <2>1 DEF Session!Event, Entry, Kinds
  <2> HIDE DEF new
  <2>3. CountsOf(events \o new) = counts
    BY <2>2, NoneCounted
  <2>4. counts' = CountsOf(events \o <<Session!Event("CancelRequested", id)>>)
    BY <1>1, <2>3 DEF Session!RequestCancel, new
  <2> QED
    BY <1>1, <2>4, MoveLogs
    DEF Session!RequestCancel, Session!StateAfter, Session!Presupposes, Kinds, Connecting
<1>2. CASE Session!AcknowledgeCancel(id)
  <2>1. id \in Nat
    BY <1>2, LogSays DEF Session!AcknowledgeCancel, Session!Move, Session!In
  <2>2. counts' = CountsOf(events \o <<Session!Event("CancelAcknowledged", id)>>)
    BY <1>2, <2>1, OneCounted DEF Session!AcknowledgeCancel, Kinds
  <2> QED
    BY <1>2, <2>2, MoveLogs
    DEF Session!AcknowledgeCancel, Session!StateAfter, Session!Presupposes, Kinds, Connecting
<1>3. CASE Session!RejectCancel(id)
  <2>1. id \in Nat
    BY <1>3, LogSays DEF Session!RejectCancel, Session!Move, Session!In
  <2>2. counts' = CountsOf(events \o <<Session!Event("CancelRejected", id)>>)
    BY <1>3, <2>1, OneCounted DEF Session!RejectCancel, Kinds
  <2> QED
    BY <1>3, <2>2, MoveLogs
    DEF Session!RejectCancel, Session!StateAfter, Session!Presupposes, Kinds, Connecting
<1>4. CASE Session!OnOrderFilled(id)
  <2>1. id \in Nat
    BY <1>4, LogSays DEF Session!OnOrderFilled, Session!Move, Session!In
  <2>2. counts' = CountsOf(events \o <<Session!Event("OrderFilled", id)>>)
    BY <1>4, <2>1, OneCounted DEF Session!OnOrderFilled, Kinds
  <2> QED
    BY <1>4, <2>2, MoveLogs
    DEF Session!OnOrderFilled, Session!StateAfter, Session!Presupposes, Kinds, Connecting
<1> QED  BY <1>1, <1>2, <1>3, <1>4

\* A disconnect logs itself and then a cancel request for each order it asks to
\* cancel: each of another subject.
LEMMA DisconnectLogs ==
  ASSUME LogInv, Session!Disconnect PROVE LogInv'
<1> DEFINE ids   == Session!ToCancel
           n     == Cardinality(ids)
           list  == Session!Ascending(ids)
           first == <<Session!Event("Disconnect", 0)>>
           batch == [k \in 1 .. n |-> Session!Event("CancelRequested", list[k])]
           new   == first \o batch
<1>1. /\ up /\ up' = FALSE /\ events' = events \o new /\ counts' = counts
      /\ orderStates' = [id \in DOMAIN orderStates |->
                           IF id \in ids THEN "PendingCancel" ELSE orderStates[id]]
  BY SameCounting DEF Session!Disconnect, Session!Record, Session!Requested
<1>2. ids \subseteq DOMAIN orderStates /\ \A id \in ids : orderStates[id] = "Accepted"
  BY DEF Session!ToCancel, Session!In
<1> HIDE DEF ids
<1>3. IsFiniteSet(ids) /\ ids \subseteq Nat \ {0}
  BY <1>2, LogSays, FS_Subset
<1>4. /\ n \in Nat /\ list \in [1 .. n -> ids]
      /\ \A j, k \in 1 .. n : list[j] = list[k] => j = k
      /\ \A id \in ids : \E k \in 1 .. n : list[k] = id
  BY <1>3, AscendingLists
<1> HIDE DEF n, list
<1>5. /\ first \in Seq(Entry) /\ Len(first) = 1
      /\ first[1].type = "Disconnect" /\ first[1].id = 0
  BY DEF Session!Event, Entry, Kinds, Connecting
<1>6. /\ batch \in Seq(Entry) /\ Len(batch) = n
      /\ \A k \in 1 .. n : batch[k].type = "CancelRequested" /\ batch[k].id = list[k]
  <2>1. \A k \in 1 .. n : Session!Event("CancelRequested", list[k]) \in Entry
    BY <1>3, <1>4 DEF Session!Event, Entry, Kinds
  <2>2. batch \in [1 .. n -> Entry]
    BY <2>1
  <2>3. batch \in Seq(Entry) /\ Len(batch) = n
    BY <1>4, <2>2, SeqDef
  <2> QED  BY <2>3 DEF Session!Event
<1> HIDE DEF first, batch
<1>7. /\ new \in Seq(Entry) /\ DOMAIN new = 1 .. n + 1
      /\ new[1].type = "Disconnect" /\ new[1].id = 0
      /\ \A k \in 2 .. n + 1 : new[k].type = "CancelRequested" /\ new[k].id = list[k - 1]
  <2>1. first \in Seq(Entry) /\ batch \in Seq(Entry)
    BY <1>5, <1>6
  <2>2. first \o batch \in Seq(Entry)
    BY <2>1, ConcatProperties
  <2>3. Len(first \o batch) = Len(first) + Len(batch)
    BY <2>1, ConcatProperties
  <2>4. new \in Seq(Entry) /\ Len(new) = 1 + n
    BY <1>5, <1>6, <2>2, <2>3
  <2>5. \A k \in 1 .. Len(first) + Len(batch) :
          new[k] = IF k <= Len(first) THEN first[k] ELSE batch[k - Len(first)]
    BY <2>1, ConcatProperties
  <2> HIDE DEF new
  <2>6. DOMAIN new = 1 .. n + 1 /\ new[1] = first[1]
    BY <1>4, <1>5, <1>6, <2>4, <2>5
  <2>7. ASSUME NEW k \in 2 .. n + 1 PROVE new[k] = batch[k - 1] /\ k - 1 \in 1 .. n
    BY <1>4, <1>5, <1>6, <2>5
  <2> QED  BY <1>5, <1>6, <2>4, <2>6, <2>7
<1> HIDE DEF new
<1>8. \A k \in 1 .. n + 1 : k = 1 \/ (k \in 2 .. n + 1 /\ k - 1 \in 1 .. n)
  BY <1>4
<1>9. \A k \in 2 .. n + 1 : new[k].id \in ids /\ new[k].id # 0
  BY <1>3, <1>4, <1>7, <1>8
<1>10. Subjects(new) = {0} \cup ids
  <2>1. ASSUME NEW id \in ids PROVE \E k \in 1 .. n + 1 : new[k].id = id
    <3>1. PICK k \in 1 .. n : list[k] = id
      BY <1>4
    <3>2. k + 1 \in 2 .. n + 1 /\ (k + 1) - 1 = k
      BY <1>4
    <3> QED  BY <1>7, <3>1, <3>2
  <2>2. 1 \in 1 .. n + 1
    BY <1>4
  <2>3. Subjects(new) \subseteq {0} \cup ids
    BY <1>7, <1>8, <1>9 DEF Subjects
  <2>4. {0} \cup ids \subseteq Subjects(new)
    BY <1>7, <2>1, <2>2 DEF Subjects
  <2> QED  BY <2>3, <2>4
<1>11. SoundLog(new)
  BY <1>7, <1>8, <1>9 DEF SoundLog, Connecting
<1>12. Fitting(new, events)
  <2>1. ASSUME NEW j \in 1 .. n + 1, NEW k \in 1 .. n + 1, new[j].id = new[k].id
        PROVE  j = k
    <3>1. CASE j = 1 \/ k = 1
      BY <1>7, <1>8, <1>9, <2>1, <3>1
    <3>2. CASE j # 1 /\ k # 1
      <4>1. j - 1 \in 1 .. n /\ k - 1 \in 1 .. n /\ list[j - 1] = list[k - 1]
        BY <1>7, <1>8, <2>1, <3>2
      <4>2. j - 1 = k - 1
        BY <1>4, <4>1
      <4> QED  BY <4>2
    <3> QED  BY <3>1, <3>2
  <2>2. Session!SaidOf(events, 0, Len(events)) \in Session!Presupposes["Disconnect"]
    BY <1>1, LogSays DEF Session!Presupposes
  <2>3. \A id \in ids :
          Session!SaidOf(events, id, Len(events)) \in Session!Presupposes["CancelRequested"]
    BY <1>2, LogSays DEF Session!Presupposes
  <2>4. ASSUME NEW k \in 1 .. n + 1
        PROVE  Session!SaidOf(events, new[k].id, Len(events))
                 \in Session!Presupposes[new[k].type]
    <3>1. CASE k = 1
      BY <1>7, <2>2, <3>1
    <3>2. CASE k # 1
      BY <1>7, <1>8, <1>9, <2>3, <3>2
    <3> QED  BY <3>1, <3>2
  <2> QED  BY <1>7, <1>11, <2>1, <2>4 DEF Fitting
<1>13. CountsOf(events \o new) = counts
  BY <1>7, <1>8, NoneCounted
<1>14. Does(new)
  <2>1. DOMAIN orderStates' = DOMAIN orderStates \cup (Subjects(new) \ {0})
    BY <1>1, <1>2, <1>3, <1>10
  <2>2. ASSUME NEW k \in DOMAIN new, new[k].id # 0
        PROVE  orderStates'[new[k].id] = Session!StateAfter[new[k].type]
    <3>1. k \in 2 .. n + 1
      BY <1>7, <1>8, <2>2
    <3> QED  BY <1>1, <1>2, <1>7, <1>9, <3>1 DEF Session!StateAfter
  <2>3. \A id \in DOMAIN orderStates \ Subjects(new) : orderStates'[id] = orderStates[id]
    BY <1>1, <1>10
  <2>4. up' = IF 0 \in Subjects(new) THEN \A k \in DOMAIN new : new[k].type # "Disconnect"
                                     ELSE up
    <3>1. 1 \in DOMAIN new /\ 0 \in Subjects(new)
      BY <1>4, <1>7, <1>10
    <3>2. ~ \A k \in DOMAIN new : new[k].type # "Disconnect"
      BY <1>7, <3>1
    <3> QED  BY <1>1, <3>1, <3>2
  <2> QED  BY <1>1, <1>13, <2>1, <2>2, <2>3, <2>4 DEF Does, CountsOf
<1> QED  BY <1>12, <1>14, LogStep

\* The log is empty and nothing is said when the session begins.
LEMMA LogStarts == Init => LogInv
<1> SUFFICES ASSUME Init PROVE LogInv
  OBVIOUS
<1>1. up = FALSE /\ orderStates = <<>> /\ events = <<>>
      /\ counts = [canceled |-> 0, filled |-> 0, rejected |-> 0]
  BY DEF Init, Session!Init
<1>2. events \in Seq(Entry) /\ Len(events) = 0 /\ DOMAIN events = {} /\ DOMAIN orderStates = {}
  BY <1>1
<1>3. Session!SaidOf(events, 0, Len(events)) = "None"
  <2>1. Len(events) \in 0 .. Len(events) /\ \A k \in 1 .. Len(events) : events[k].id # 0
    BY <1>2
  <2> QED  BY <1>2, <2>1, SaysNothing
<1>4. \A type : Session!Count(events, type) = 0
  BY <1>2, SameCounting, FS_EmptySet DEF Session!Count
<1> QED  BY <1>1, <1>2, <1>3, <1>4 DEF LogInv, SoundLog, LogTellsAll, Session!LogTellsAll

\* Every step of the session keeps its log telling.
LEMMA LogKeepsTelling == LogInv /\ [Next]_attachedVars => LogInv'
<1> SUFFICES ASSUME LogInv, [Next]_attachedVars PROVE LogInv'
  OBVIOUS
<1>0. ASSUME UNCHANGED sessionVars PROVE LogInv'
  BY <1>0 DEF sessionVars, LogInv, LogTellsAll, Session!LogTellsAll
<1>1. CASE Connect
  BY <1>1, ConnectLogs DEF Connect
<1>2. CASE Reconnect
  BY <1>2, ConnectLogs DEF Reconnect
<1>3. CASE Disconnect
  BY <1>3, DisconnectLogs DEF Disconnect
<1>4. CASE MarketData
  BY <1>0, <1>4 DEF MarketData
<1>5. ASSUME NEW clOrdId, NEW r, Submit(r, clOrdId) PROVE LogInv'
  BY <1>0, <1>5 DEF Submit
<1>6. ASSUME NEW clOrdId, NEW id \in ExchangeIds, VenueAccepts(clOrdId, id) PROVE LogInv'
  <2>1. id \in Nat /\ Session!OnOrderAccepted(id)
    BY <1>6, ExchangeIdsAssumption DEF VenueAccepts
  <2> QED  BY <2>1, AcceptLogs
<1>7. ASSUME NEW id, VenueFills(id) \/ VenueCancels(id) \/ CancelRequested(id) PROVE LogInv'
  <2>1. \/ Session!RequestCancel(id) \/ Session!AcknowledgeCancel(id)
        \/ Session!RejectCancel(id) \/ Session!OnOrderFilled(id)
    BY <1>7 DEF VenueFills, VenueCancels, CancelRequested
  <2> QED  BY <2>1, OrderLogs
<1>8. CASE UNCHANGED attachedVars
  BY <1>0, <1>8 DEF attachedVars
<1> QED  BY <1>1, <1>2, <1>3, <1>4, <1>5, <1>6, <1>7, <1>8 DEF Next

\* "A lifecycle is a reproducible artifact": whatever the session is told, its
\* connection, orders and counters can be read off the event log, and every event
\* fits what was said before it of its order or of the connection.
THEOREM LogAlwaysTells == Spec => []LogTellsAll
<1>1. LogInv => LogTellsAll
  BY DEF LogInv
<1> QED  BY <1>1, LogStarts, LogKeepsTelling, PTL DEF Spec

-------------------------------------------------------------------------------
(* The gateway in front of the engine: what reports make of its orders.    *)

\* Client order ids of the engine's orders: one each, none of them 0.
Names(own) ==
  /\ \A i, j \in DOMAIN own : own[i] = own[j] => i = j
  /\ \A i \in DOMAIN own : own[i] # 0 /\ i # 0

IsOrder(order) == order = [field \in OrderFields |-> order[field]]

\* The gateway tracks the orders of a view, each as the view has it, under its
\* exchange order id.
Sees(w, own, view) ==
  /\ Kept(w) /\ BindingsMatch(w) /\ Names(own) /\ DOMAIN view \subseteq DOMAIN own
  /\ DOMAIN w.orders = {own[i] : i \in DOMAIN view}
  /\ IsMap(w.orders)
  /\ \A i \in DOMAIN view :
       w.orders[own[i]] = view[i] /\ view[i].exchange = i /\ IsOrder(view[i])

AtMost(w, bound) == \A s \in DOMAIN w.total : w.total[s] <= bound

\* No order has more left than the sum of its symbol.
LEMMA SumCovers ==
  ASSUME NEW w, Kept(w), NEW c \in DOMAIN w.orders
  PROVE  /\ w.orders[c].symbol \in DOMAIN w.total /\ w.orders[c].quantity \in Nat \ {0}
         /\ w.total[w.orders[c].symbol] \in Nat
         /\ w.orders[c].quantity <= w.total[w.orders[c].symbol]
<1> DEFINE s == w.orders[c].symbol
           amounts == Amounts(w.orders)
           those == Under(SymbolsOf(w.orders), s)
           own == UnitsLeft({c}, amounts)
           all == UnitsLeft(those, amounts)
<1>1. /\ s \in DOMAIN w.total /\ w.total[s] = Cardinality(all)
      /\ w.orders[c].quantity \in Nat \ {0} /\ amounts[c] = w.orders[c].quantity
      /\ \A d \in DOMAIN w.orders : amounts[d] \in Nat
      /\ IsFiniteSet(DOMAIN w.orders)
  BY DEF Kept, TotalsMatch, AddsUp, SymbolsOf, SoundOrders, SoundOrder, Amounts
<1>2. c \in those /\ those \subseteq DOMAIN w.orders
  BY DEF Under, SymbolsOf
<1>3. IsFiniteSet(all) /\ Cardinality(own) = amounts[c] /\ own \subseteq all
  <2>1. IsFiniteSet(those) /\ \A d \in those : amounts[d] \in Nat
    BY <1>1, <1>2, FS_Subset
  <2>2. IsFiniteSet(all)
    BY <2>1, UnitsLeftFinite
  <2>3. own = {c} \X (1 .. amounts[c])
    BY DEF UnitsLeft
  <2>4. own \subseteq all
    BY <1>2, <2>3 DEF UnitsLeft
  <2>5. Cardinality(own) = amounts[c]
    <3>1. IsFiniteSet({c}) /\ Cardinality({c}) = 1
      BY FS_Singleton
    <3>2. IsFiniteSet(1 .. amounts[c]) /\ Cardinality(1 .. amounts[c]) = amounts[c]
      BY <1>1, IntervalUpTo
    <3> HIDE DEF amounts, own
    <3>3. Cardinality({c} \X (1 .. amounts[c])) =
            Cardinality({c}) * Cardinality(1 .. amounts[c])
      BY <3>1, <3>2, FS_Product, Zenon
    <3> QED  BY <1>1, <2>3, <3>1, <3>2, <3>3
  <2> QED  BY <2>2, <2>4, <2>5
<1>4. Cardinality(all) \in Nat /\ amounts[c] <= Cardinality(all)
  BY <1>3, FS_Subset, FS_CardinalityType
<1> QED  BY <1>1, <1>4

\* An order at a new price and quantity.
LEMMA ResizeSees ==
  ASSUME NEW w, NEW own, NEW view, Sees(w, own, view), NEW i \in DOMAIN view,
         NEW price, NEW quantity \in Nat \ {0}, NEW stp, Preventing => stp
  PROVE  Sees(Resize(w, own[i], price, quantity, stp), own,
              With(view, i, Repriced(view[i], price, quantity)))
<1> DEFINE c == own[i]
           after == Resize(w, c, price, quantity, stp)
           order == Repriced(view[i], price, quantity)
<1>1. /\ Kept(w) /\ BindingsMatch(w) /\ Names(own) /\ c \in DOMAIN w.orders
      /\ DOMAIN w = Fields /\ w.orders[c] = view[i] /\ DOMAIN view[i] = OrderFields
      /\ i \in DOMAIN own
  BY DEF Sees, Kept, SoundOrders, SoundOrder
<1>2. Kept(after) /\ BindingsMatch(after)
  BY <1>1, ResizeKeeps, ResizeExchanges, SameExchangesBind
<1>3. after.orders = [w.orders EXCEPT ![c] = order]
  BY <1>1, ResizeFields
<1>4. order.exchange = i /\ IsOrder(order)
  BY <1>1 DEF Repriced, OrderFields, Sees, IsOrder
<1> HIDE DEF after, order
<1>5. \A j \in DOMAIN view : own[j] = c <=> j = i
  BY <1>1 DEF Sees, Names
<1>6. Sees(after, own, With(view, i, order))
  <2>1. DOMAIN With(view, i, order) = DOMAIN view
    BY DEF With
  <2>2. \A j \in DOMAIN view : With(view, i, order)[j] = IF j = i THEN order ELSE view[j]
    BY DEF With
  <2>3. DOMAIN after.orders = {own[j] : j \in DOMAIN view}
    BY <1>3 DEF Sees
  <2>4. \A j \in DOMAIN view : after.orders[own[j]] = IF j = i THEN order ELSE view[j]
    BY <1>1, <1>3, <1>5 DEF Sees
  <2>5. IsMap(after.orders)
    BY <1>1, <1>3 DEF IsMap
  <2> QED  BY <1>1, <1>2, <1>4, <2>1, <2>2, <2>3, <2>4, <2>5 DEF Sees
<1> QED  BY <1>6 DEF after, order

\* The sums when it does.
LEMMA ResizeTotal ==
  ASSUME NEW w, DOMAIN w = Fields, NEW c \in DOMAIN w.orders, NEW price,
         NEW quantity, NEW stp
  PROVE  Resize(w, c, price, quantity, stp).total =
           Raised(Lowered(w.total, w.orders[c].symbol, w.orders[c].quantity),
                  Repriced(w.orders[c], price, quantity).symbol,
                  Repriced(w.orders[c], price, quantity).quantity)
<1> DEFINE old == w.orders[c]
           order == Repriced(old, price, quantity)
           after == Resize(w, c, price, quantity, stp)
<1> HIDE DEF old, order, after
<1>1. /\ DOMAIN after = Fields /\ after.boundTo = w.boundTo
      /\ after.orders = [w.orders EXCEPT ![c] = order]
      /\ after.total = Raised(Lowered(w.total, old.symbol, old.quantity),
                              order.symbol, order.quantity)
  BY ResizeFields DEF old, order, after
<1> QED  BY <1>1 DEF old, order, after

\* The sums stay within a bound that the new quantity keeps to.
LEMMA ResizeAtMost ==
  ASSUME NEW w, Kept(w), NEW c \in DOMAIN w.orders, NEW price,
         NEW quantity \in Nat \ {0}, NEW stp, NEW bound \in Int, AtMost(w, bound),
         \/ quantity <= w.orders[c].quantity
         \/ w.total[w.orders[c].symbol] - w.orders[c].quantity + quantity <= bound
  PROVE  AtMost(Resize(w, c, price, quantity, stp), bound)
<1> DEFINE old == w.orders[c]
           order == Repriced(old, price, quantity)
           after == Resize(w, c, price, quantity, stp)
           s == old.symbol
           q == old.quantity
<1>1. /\ DOMAIN w = Fields /\ order.symbol = s /\ order.quantity = quantity
  BY DEF Kept, SoundOrders, SoundOrder, Repriced, OrderFields
<1>2. /\ s \in DOMAIN w.total /\ q \in Nat \ {0} /\ w.total[s] \in Nat
      /\ q <= w.total[s]
  BY SumCovers
<1>3. after.total = Raised(Lowered(w.total, s, q), s, quantity)
  <2>1. after.total = Raised(Lowered(w.total, old.symbol, old.quantity),
                             order.symbol, order.quantity)
    BY <1>1, ResizeTotal
  <2> QED  BY <1>1, <2>1
<1>4. w.total[s] <= bound
  BY <1>2 DEF AtMost
<1>5. quantity <= q \/ w.total[s] - q + quantity <= bound
  OBVIOUS
<1> HIDE DEF after, order, old, s, q
<1>6. \A t \in DOMAIN after.total :
        \/ t \in DOMAIN w.total /\ after.total[t] = w.total[t]
        \/ t = s /\ after.total[t] = quantity /\ w.total[s] <= q
        \/ t = s /\ after.total[t] = quantity + (w.total[s] - q)
  <2> DEFINE low == Lowered(w.total, s, q)
  <2>1. /\ DOMAIN low \cup {s} = DOMAIN w.total
        /\ \A t \in DOMAIN low \ {s} : low[t] = w.total[t]
        /\ s \in DOMAIN low => low[s] = w.total[s] - q
        /\ s \notin DOMAIN low => w.total[s] <= q
    BY <1>2 DEF Lowered, With, Without
  <2> HIDE DEF low
  <2>2. after.total = With(low, s, quantity + IF s \in DOMAIN low THEN low[s] ELSE 0)
    BY <1>3 DEF Raised, low
  <2>3. \A t \in DOMAIN after.total : t # s => t \in DOMAIN w.total /\ after.total[t] = w.total[t]
    BY <2>1, <2>2 DEF With
  <2>4. after.total[s] = quantity + IF s \in DOMAIN low THEN low[s] ELSE 0
    BY <2>2 DEF With
  <2> QED  BY <1>2, <2>1, <2>3, <2>4
<1>7. \A t \in DOMAIN after.total : after.total[t] <= bound
  BY <1>2, <1>4, <1>5, <1>6 DEF AtMost
<1> QED  BY <1>7 DEF AtMost, after

\* The sums when an order goes.
LEMMA ReleaseAtMost ==
  ASSUME NEW w, Kept(w), NEW c \in DOMAIN w.orders, NEW bound \in Int, AtMost(w, bound)
  PROVE  AtMost(ReleaseOrder(w, c), bound)
<1> DEFINE s == w.orders[c].symbol
           q == w.orders[c].quantity
           after == ReleaseOrder(w, c)
<1>1. DOMAIN w = Fields /\ q \in Nat \ {0} /\ w.total[s] \in Nat /\ s \in DOMAIN w.total
  BY SumCovers DEF Kept
<1>2. after.total = Lowered(w.total, s, q)
  BY <1>1, ReleaseFields
<1> HIDE DEF after, s, q
<1>3. \A t \in DOMAIN after.total :
        t \in DOMAIN w.total /\ (after.total[t] = w.total[t] \/
                                 (t = s /\ after.total[t] = w.total[s] - q))
  BY <1>1, <1>2 DEF Lowered, With, Without
<1>4. \A t \in DOMAIN after.total : after.total[t] <= bound
  BY <1>1, <1>3 DEF AtMost
<1> QED  BY <1>4 DEF AtMost, after

\* A report is about the order tracked under its client order id and its exchange
\* order id alike, or about none.
LEMMA SubjectIs ==
  ASSUME NEW w, NEW own, NEW view, Sees(w, own, view), NEW i \in DOMAIN own,
         NEW h, h.clOrdId = own[i], h.exchange = i
  PROVE  Subject(w, h) = IF i \in DOMAIN view THEN {own[i]} ELSE {}
<1>1. CASE i \in DOMAIN view
  BY <1>1 DEF Sees, Subject
<1>2. CASE i \notin DOMAIN view
  <2>1. own[i] \notin DOMAIN w.orders
    BY <1>2 DEF Sees, Names
  <2>2. i \notin DOMAIN w.boundTo
    <3>1. SUFFICES ASSUME i \in DOMAIN w.boundTo PROVE FALSE
      OBVIOUS
    <3>2. PICK j \in DOMAIN view : own[j] = w.boundTo[i] /\ w.orders[own[j]].exchange = i
      BY <3>1 DEF Sees, BindingsMatch
    <3>3. view[j].exchange = i /\ view[j].exchange = j
      BY <3>2 DEF Sees
    <3> QED  BY <1>2, <3>3
  <2> QED  BY <1>2, <2>1, <2>2 DEF Subject
<1> QED  BY <1>1, <1>2

\* A report about an order the gateway does not track.
LEMMA HearsOther ==
  ASSUME NEW w, NEW own, NEW view, Sees(w, own, view), NEW i \in DOMAIN own,
         NEW h, h.clOrdId = own[i], h.exchange = i, i \notin DOMAIN view, NEW stp
  PROVE  OnReport(w, h, stp) = w
  BY SubjectIs DEF OnReport

\* A report that ends its order.
LEMMA HearsEnd ==
  ASSUME NEW w, NEW own, NEW view, Sees(w, own, view), NEW i \in DOMAIN view,
         NEW h, h.clOrdId = own[i], h.exchange = i, Ends(h), NEW stp,
         NEW bound \in Int
  PROVE  /\ Sees(OnReport(w, h, stp), own, Without(view, i))
         /\ AtMost(w, bound) => AtMost(OnReport(w, h, stp), bound)
<1> DEFINE c == own[i]
           after == ReleaseOrder(w, c)
<1>1. OnReport(w, h, stp) = after
  <2>1. i \in DOMAIN own /\ own[i] # 0
    BY DEF Sees, Names
  <2>2. Subject(w, h) = {own[i]}
    BY <2>1, SubjectIs
  <2> QED  BY <2>1, <2>2 DEF OnReport
<1>2. /\ Kept(w) /\ BindingsMatch(w) /\ Names(own) /\ c \in DOMAIN w.orders
      /\ DOMAIN w = Fields /\ i \in DOMAIN own
  BY DEF Sees, Kept
<1>3. Kept(after) /\ BindingsMatch(after)
  BY <1>2, ReleaseKeeps, ReleaseBinds
<1>4. after.orders = Without(w.orders, c)
  BY <1>2, ReleaseFields
<1>5. AtMost(w, bound) => AtMost(after, bound)
  BY <1>2, ReleaseAtMost
<1> HIDE DEF after
<1>6. Sees(after, own, Without(view, i))
  <2>1. \A j \in DOMAIN view : own[j] = c <=> j = i
    BY <1>2 DEF Sees, Names
  <2>2. DOMAIN Without(view, i) = DOMAIN view \ {i}
    BY DEF Without
  <2>3. \A j \in DOMAIN view \ {i} : Without(view, i)[j] = view[j]
    BY DEF Without
  <2>4. DOMAIN after.orders = {own[j] : j \in DOMAIN view \ {i}}
    BY <1>4, <2>1 DEF Sees, Without
  <2>5. \A j \in DOMAIN view \ {i} : after.orders[own[j]] = view[j]
    BY <1>4, <2>1, <2>4 DEF Sees, Without
  <2>6. IsMap(after.orders)
    BY <1>4 DEF IsMap, Without
  <2> QED  BY <1>2, <1>3, <2>2, <2>3, <2>4, <2>5, <2>6 DEF Sees
<1> QED  BY <1>1, <1>5, <1>6

\* A report about a tracked order that is not over gives it a new price and
\* quantity.
LEMMA HearsChange ==
  ASSUME NEW w, NEW own, NEW view, Sees(w, own, view), NEW i \in DOMAIN view,
         NEW h, h.clOrdId = own[i], h.exchange = i, ~ Ends(h), h.remaining \in Int,
         h.restingPrice > 0, h.remaining <= view[i].quantity,
         NEW stp, Preventing => stp, NEW bound \in Int
  PROVE  /\ Sees(OnReport(w, h, stp), own,
                  With(view, i, Repriced(view[i], h.restingPrice, h.remaining)))
         /\ AtMost(w, bound) => AtMost(OnReport(w, h, stp), bound)
<1> DEFINE c == own[i]
           order == Repriced(view[i], h.restingPrice, h.remaining)
<1>1. /\ Kept(w) /\ c \in DOMAIN w.orders /\ w.orders[c] = view[i]
      /\ view[i].exchange = i /\ i \in DOMAIN own /\ own[i] # 0
      /\ DOMAIN view[i] = OrderFields
      /\ h.remaining \in Nat \ {0}
  BY DEF Sees, Names, Ends, Kept, SoundOrders, SoundOrder
<1>2. Subject(w, h) = {c} /\ (CHOOSE d \in {c} : TRUE) = c
  BY <1>1, SubjectIs
<1>3. Bind(w, c, h.exchange) = w
  BY <1>1 DEF Bind
<1>4. OnReport(w, h, stp) =
        IF view[i].quantity = h.remaining /\ view[i].price = h.restingPrice THEN w
        ELSE Resize(w, c, h.restingPrice, h.remaining, stp)
  BY <1>1, <1>2, <1>3 DEF OnReport
<1>5. CASE view[i].quantity = h.remaining /\ view[i].price = h.restingPrice
  <2>1. order = view[i]
    <3>1. IsOrder(view[i])
      BY DEF Sees
    <3> QED  BY <1>1, <1>5, <3>1 DEF Repriced, IsOrder
  <2> HIDE DEF order
  <2>2. DOMAIN With(view, i, order) = DOMAIN view
        /\ \A j \in DOMAIN view : With(view, i, order)[j] = view[j]
    BY <2>1 DEF With
  <2>3. Sees(w, own, With(view, i, order))
    BY <2>2 DEF Sees
  <2> QED  BY <1>4, <1>5, <2>3 DEF order
<1>6. CASE ~ (view[i].quantity = h.remaining /\ view[i].price = h.restingPrice)
  <2>1. OnReport(w, h, stp) = Resize(w, c, h.restingPrice, h.remaining, stp)
    BY <1>4, <1>6
  <2>2. Sees(Resize(w, c, h.restingPrice, h.remaining, stp), own, With(view, i, order))
    BY <1>1, ResizeSees
  <2>3. AtMost(w, bound) => AtMost(Resize(w, c, h.restingPrice, h.remaining, stp), bound)
    BY <1>1, ResizeAtMost
  <2> QED  BY <2>1, <2>2, <2>3
<1> QED  BY <1>5, <1>6
\* An order the engine accepts takes a place among the owners.
LEMMA OwnersGrow ==
  ASSUME NEW w, NEW own, NEW view, Sees(w, own, view), NEW i, i \notin DOMAIN own, i # 0,
         NEW c, c # 0, \A j \in DOMAIN own : own[j] # c
  PROVE  Sees(w, With(own, i, c), view)
<1> DEFINE grown == With(own, i, c)
<1>1. /\ DOMAIN grown = DOMAIN own \cup {i} /\ grown[i] = c
      /\ \A j \in DOMAIN own : grown[j] = own[j]
  BY DEF With
<1> HIDE DEF grown
<1>2. Names(grown)
  BY <1>1 DEF Sees, Names
<1>3. {grown[j] : j \in DOMAIN view} = {own[j] : j \in DOMAIN view}
  BY <1>1 DEF Sees
<1>4. Sees(w, grown, view)
  BY <1>1, <1>2, <1>3 DEF Sees
<1> QED  BY <1>4 DEF grown

\* The order a request registers.
Registered(r) ==
  [client |-> r.client, symbol |-> r.symbol, side |-> r.side, price |-> r.price,
   quantity |-> r.quantity, exchange |-> 0]

\* Its registration, by field.
LEMMA RegisterIs ==
  ASSUME NEW w, DOMAIN w = Fields, NEW r, r.type = "Limit" /\ r.tif = "Gtc",
         NEW c, NEW stp
  PROVE  /\ DOMAIN Register(w, r, c, stp) = Fields
         /\ Register(w, r, c, stp).orders = With(w.orders, c, Registered(r))
         /\ Register(w, r, c, stp).boundTo = w.boundTo
         /\ Register(w, r, c, stp).total = Raised(w.total, r.symbol, r.quantity)
<1> DEFINE order == Registered(r)
           with == [w EXCEPT !.orders = With(w.orders, c, order)]
<1>1. Register(w, r, c, stp) = AddQuantity(with, order, stp)
  BY DEF Register, Registered
<1>2. /\ DOMAIN with = Fields /\ with.orders = With(w.orders, c, order)
      /\ with.boundTo = w.boundTo /\ with.total = w.total
  BY DEF Fields
<1>3. order.symbol = r.symbol /\ order.quantity = r.quantity
  BY DEF Registered
<1> HIDE DEF order, with
<1>4. /\ DOMAIN AddQuantity(with, order, stp) = Fields
      /\ AddQuantity(with, order, stp).orders = with.orders
      /\ AddQuantity(with, order, stp).boundTo = with.boundTo
      /\ AddQuantity(with, order, stp).total =
           Raised(with.total, order.symbol, order.quantity)
  BY <1>2, QuantityFields
<1> QED  BY <1>1, <1>2, <1>3, <1>4 DEF order

\* The sums with a registered order stay within a bound that the check saw kept.
LEMMA RegisterAtMost ==
  ASSUME NEW w, DOMAIN w = Fields, NEW r, NEW c, NEW stp, NEW bound \in Int, AtMost(w, bound),
         r.type = "Limit" /\ r.tif = "Gtc" =>
           r.quantity + (IF r.symbol \in DOMAIN w.total THEN w.total[r.symbol] ELSE 0)
             <= bound
  PROVE  AtMost(Register(w, r, c, stp), bound)
<1>1. CASE r.type = "Limit" /\ r.tif = "Gtc"
  <2>1. Register(w, r, c, stp).total = Raised(w.total, r.symbol, r.quantity)
    BY <1>1, RegisterIs
  <2> QED  BY <1>1, <2>1 DEF AtMost, Raised, With
<1>2. CASE ~ (r.type = "Limit" /\ r.tif = "Gtc")
  BY <1>2 DEF Register
<1> QED  BY <1>1, <1>2

\* A request that is refused leaves nothing behind.
LEMMA HearsReject ==
  ASSUME NEW w, NEW own, NEW view, Sees(w, own, view), NEW r, r.quantity \in Nat \ {0},
         NEW c, c # 0, \A j \in DOMAIN own : own[j] # c, NEW stp, Preventing => stp,
         NEW h, h.clOrdId = c, h.exchange = 0, Ends(h), NEW bound \in Int
  PROVE  LET after == OnReport(Register(w, r, c, stp), h, stp)
         IN  /\ Sees(after, own, view)
             /\ AtMost(Register(w, r, c, stp), bound) => AtMost(after, bound)
<1> DEFINE taken == Register(w, r, c, stp)
           after == OnReport(taken, h, stp)
<1>1. /\ Kept(w) /\ DOMAIN w = Fields /\ BindingsMatch(w) /\ Names(own)
      /\ c \notin DOMAIN w.orders /\ 0 \notin DOMAIN w.boundTo
  <2>1. c \notin DOMAIN w.orders
    BY DEF Sees
  <2>2. 0 \notin DOMAIN w.boundTo
    <3>1. SUFFICES ASSUME 0 \in DOMAIN w.boundTo PROVE FALSE
      OBVIOUS
    <3>2. PICK j \in DOMAIN view : own[j] = w.boundTo[0] /\ w.orders[own[j]].exchange = 0
      BY <3>1 DEF Sees, BindingsMatch
    <3>3. view[j].exchange = 0 /\ view[j].exchange = j /\ j \in DOMAIN own
      BY <3>2 DEF Sees
    <3> QED  BY <3>3 DEF Sees, Names
  <2> QED  BY <2>1, <2>2 DEF Sees, Kept
<1>2. CASE r.type = "Limit" /\ r.tif = "Gtc"
  <2>1. Kept(taken) /\ BindingsMatch(taken)
    BY <1>1, RegisterKeeps, RegisterBinds
  <2>2. /\ DOMAIN taken = Fields
        /\ taken.orders = With(w.orders, c, Registered(r)) /\ taken.boundTo = w.boundTo
    BY <1>1, <1>2, RegisterIs
  <2>3. c \in DOMAIN taken.orders
    BY <2>2 DEF With
  <2> HIDE DEF taken
  <2>4. after = ReleaseOrder(taken, c)
    BY <2>3 DEF OnReport, Subject
  <2>5. Kept(after) /\ BindingsMatch(after)
    BY <2>1, <2>4, ReleaseKeeps, ReleaseBinds
  <2>6. after.orders = Without(taken.orders, c)
    BY <2>2, <2>3, <2>4, ReleaseFields
  <2>7. AtMost(taken, bound) => AtMost(after, bound)
    BY <2>1, <2>3, <2>4, ReleaseAtMost
  <2>8. DOMAIN after.orders = DOMAIN w.orders
    BY <1>1, <2>2, <2>6 DEF With, Without
  <2>9. \A d \in DOMAIN w.orders : after.orders[d] = w.orders[d]
    BY <1>1, <2>2, <2>6 DEF With, Without
  <2> HIDE DEF after
  <2>10. IsMap(after.orders)
    BY <2>6 DEF IsMap, Without
  <2>11. Sees(after, own, view)
    BY <1>1, <2>5, <2>8, <2>9, <2>10 DEF Sees
  <2> QED  BY <2>7, <2>11 DEF taken, after
<1>3. CASE ~ (r.type = "Limit" /\ r.tif = "Gtc")
  <2>1. taken = w
    BY <1>3 DEF Register
  <2>2. Subject(w, h) = {}
    BY <1>1 DEF Subject
  <2>3. after = w
    BY <2>1, <2>2 DEF OnReport
  <2> QED  BY <2>1, <2>3
<1> QED  BY <1>2, <1>3

\* The first report about an order that was let through binds it.
LEMMA HearsNew ==
  ASSUME NEW w, NEW own, NEW view, Sees(w, own, view), NEW r, r.quantity \in Nat \ {0},
         r.type = "Limit" /\ r.tif = "Gtc", r.price > 0,
         NEW c, c # 0, \A j \in DOMAIN own : own[j] # c, NEW stp, Preventing => stp,
         NEW i, i \notin DOMAIN own, i # 0,
         NEW h, h.clOrdId = c, h.exchange = i, ~ Ends(h), h.remaining = r.quantity,
         h.restingPrice = r.price, NEW bound \in Int
  PROVE  LET after == OnReport(Register(w, r, c, stp), h, stp)
         IN  /\ Sees(after, With(own, i, c),
                     With(view, i, [Registered(r) EXCEPT !.exchange = i]))
             /\ AtMost(Register(w, r, c, stp), bound) => AtMost(after, bound)
<1> DEFINE taken == Register(w, r, c, stp)
           after == OnReport(taken, h, stp)
           bind == Bind(taken, c, i)
           order == [Registered(r) EXCEPT !.exchange = i]
           grown == With(own, i, c)
           more == With(view, i, order)
<1>1. /\ Kept(w) /\ DOMAIN w = Fields /\ BindingsMatch(w)
      /\ c \notin DOMAIN w.orders
  BY DEF Sees, Kept
<1>2. Kept(taken) /\ BindingsMatch(taken)
  BY <1>1, RegisterKeeps, RegisterBinds
<1>3. /\ DOMAIN taken = Fields
      /\ taken.orders = With(w.orders, c, Registered(r)) /\ taken.boundTo = w.boundTo
  BY <1>1, RegisterIs
<1>4. c \in DOMAIN taken.orders /\ taken.orders[c] = Registered(r)
  BY <1>3 DEF With
<1>5. /\ Registered(r).exchange = 0 /\ Registered(r).quantity = r.quantity
      /\ Registered(r).price = r.price
      /\ order.exchange = i /\ order.quantity = r.quantity /\ order.price = r.price
      /\ IsOrder(order)
  BY DEF Registered, IsOrder, OrderFields
<1> HIDE DEF taken, order
<1>6. NowBound(bind, taken, c, i)
  BY <1>3, <1>4, <1>5, BindFields
<1>7. i \notin DOMAIN w.boundTo
  <2>1. SUFFICES ASSUME i \in DOMAIN w.boundTo PROVE FALSE
    OBVIOUS
  <2>2. PICK j \in DOMAIN view : own[j] = w.boundTo[i] /\ w.orders[own[j]].exchange = i
    BY <2>1 DEF Sees, BindingsMatch
  <2>3. view[j].exchange = i /\ view[j].exchange = j /\ j \in DOMAIN own
    BY <2>2 DEF Sees
  <2> QED  BY <2>3
<1>8. Kept(bind) /\ BindingsMatch(bind)
  BY <1>2, <1>3, <1>4, <1>7, BindKeeps, BindBinds
<1> HIDE DEF bind
<1>9. /\ DOMAIN bind.orders = DOMAIN taken.orders /\ bind.total = taken.total
      /\ \A d \in DOMAIN taken.orders \ {c} : bind.orders[d] = taken.orders[d]
      /\ bind.orders[c] = order
  BY <1>4, <1>6 DEF NowBound, order
<1>10. after = bind
  <2>1. Subject(taken, h) = {c} /\ (CHOOSE d \in {c} : TRUE) = c
    BY <1>4 DEF Subject
  <2> QED  BY <1>5, <1>9, <2>1 DEF OnReport, bind
<1>11. /\ DOMAIN grown = DOMAIN own \cup {i} /\ grown[i] = c
       /\ \A j \in DOMAIN own : grown[j] = own[j]
       /\ DOMAIN more = DOMAIN view \cup {i} /\ more[i] = order
       /\ \A j \in DOMAIN view \ {i} : more[j] = view[j]
  BY DEF With
<1> HIDE DEF grown, more, after
<1>12. Names(grown)
  BY <1>11 DEF Sees, Names
<1>13. /\ DOMAIN bind.orders = DOMAIN w.orders \cup {c}
       /\ \A d \in DOMAIN w.orders : bind.orders[d] = w.orders[d]
  BY <1>1, <1>3, <1>9 DEF With
<1>14. DOMAIN view \subseteq DOMAIN own /\ DOMAIN w.orders = {own[j] : j \in DOMAIN view}
  BY DEF Sees
<1>15. DOMAIN bind.orders = {grown[j] : j \in DOMAIN more}
  BY <1>11, <1>13, <1>14
<1>16. \A j \in DOMAIN more :
         bind.orders[grown[j]] = more[j] /\ more[j].exchange = j /\ IsOrder(more[j])
  <2> TAKE j \in DOMAIN more
  <2>1. CASE j = i
    BY <1>5, <1>9, <1>11, <2>1
  <2>2. CASE j # i
    BY <1>11, <1>13, <1>14, <2>2 DEF Sees
  <2> QED  BY <2>1, <2>2
<1>17. Sees(bind, grown, more)
  <2>1. IsMap(bind.orders)
    BY <1>6 DEF NowBound
  <2> QED  BY <1>8, <1>11, <1>12, <1>14, <1>15, <1>16, <2>1 DEF Sees
<1>18. AtMost(taken, bound) => AtMost(bind, bound)
  BY <1>9 DEF AtMost
<1> QED  BY <1>10, <1>17, <1>18 DEF taken, after, grown, more, order
-------------------------------------------------------------------------------
(* The reports of a call, one after the other.                             *)

\* The report as the gateway reads it, and what it makes of the working orders
\* with each report of a list.
Heard(report, own, ask) ==
  [clOrdId      |-> IF report.id = 0 THEN ask ELSE own[report.id],
   exchange     |-> report.id,
   exec         |-> report.exec,
   status       |-> report.status,
   remaining    |-> report.remaining,
   restingPrice |-> report.restingPrice]

FoldsUp(base, list, own, ask, stp, f) ==
  f = [k \in 0 .. Len(list) |->
         IF k = 0 THEN base ELSE OnReport(f[k - 1], Heard(list[k], own, ask), stp)]

\* One report.
LEMMA FoldStart ==
  ASSUME NEW base, NEW report, NEW own, NEW ask, NEW stp
  PROVE  \E f : /\ FoldsUp(base, <<report>>, own, ask, stp, f)
                /\ f[Len(<<report>>)] = OnReport(base, Heard(report, own, ask), stp)
<1> DEFINE last == OnReport(base, Heard(report, own, ask), stp)
           f == [k \in 0 .. 1 |-> IF k = 0 THEN base ELSE last]
           list == <<report>>
<1>1. Len(list) = 1 /\ list[1] = report
  OBVIOUS
<1>2. f[0] = base /\ f[1] = last
  OBVIOUS
<1>3. \A k \in 0 .. 1 : k = 0 \/ k = 1
  OBVIOUS
<1>4. 1 - 1 = 0
  OBVIOUS
<1> HIDE DEF list
<1>5. f = [k \in 0 .. Len(list) |->
             IF k = 0 THEN base ELSE OnReport(f[k - 1], Heard(list[k], own, ask), stp)]
  <2>1. \A k \in 0 .. 1 :
          (IF k = 0 THEN base ELSE last) =
          (IF k = 0 THEN base ELSE OnReport(f[k - 1], Heard(list[k], own, ask), stp))
    <3> TAKE k \in 0 .. 1
    <3>1. CASE k = 0
      BY <3>1
    <3>2. CASE k = 1
      BY <1>1, <1>2, <1>4, <3>2
    <3> QED  BY <1>3, <3>1, <3>2
  <2> QED  BY <1>1, <2>1
<1>6. FoldsUp(base, list, own, ask, stp, f) /\ f[Len(list)] = last
  BY <1>1, <1>2, <1>5 DEF FoldsUp
<1> QED  BY <1>6 DEF list

\* And one more.
LEMMA FoldOne ==
  ASSUME NEW S, NEW list \in Seq(S), NEW report \in S, NEW base, NEW own, NEW ask, NEW stp,
         NEW f, FoldsUp(base, list, own, ask, stp, f)
  PROVE  \E g : /\ FoldsUp(base, Append(list, report), own, ask, stp, g)
                /\ g[Len(Append(list, report))] =
                     OnReport(f[Len(list)], Heard(report, own, ask), stp)
<1> DEFINE n == Len(list)
           longer == Append(list, report)
           last == OnReport(f[n], Heard(report, own, ask), stp)
           g == [k \in 0 .. n + 1 |-> IF k = n + 1 THEN last ELSE f[k]]
<1>1. /\ n \in Nat /\ Len(longer) = n + 1 /\ longer[n + 1] = report
      /\ \A k \in 1 .. n : longer[k] = list[k]
  OBVIOUS
<1>2. \A k \in 0 .. n : f[k] = IF k = 0 THEN base
                               ELSE OnReport(f[k - 1], Heard(list[k], own, ask), stp)
  BY DEF FoldsUp
<1> HIDE DEF longer, n, last
<1>3. /\ \A k \in 0 .. n : g[k] = f[k]
      /\ g[n + 1] = last
  BY <1>1
<1>4. ASSUME NEW k \in 0 .. n + 1
      PROVE  g[k] = IF k = 0 THEN base
                    ELSE OnReport(g[k - 1], Heard(longer[k], own, ask), stp)
  <2>1. CASE k = n + 1
    <3>1. k # 0 /\ k - 1 = n /\ n \in 0 .. n
      BY <1>1, <2>1
    <3> HIDE DEF g
    <3> QED  BY <1>1, <1>3, <2>1, <3>1 DEF last
  <2>2. CASE k \in 1 .. n
    <3>1. k # 0 /\ k - 1 \in 0 .. n /\ k \in 0 .. n
      BY <1>1, <2>2
    <3> HIDE DEF g
    <3> QED  BY <1>1, <1>2, <1>3, <2>2, <3>1
  <2>3. CASE k = 0
    <3>1. 0 \in 0 .. n
      BY <1>1
    <3> HIDE DEF g
    <3> QED  BY <1>2, <1>3, <2>3, <3>1
  <2> QED  BY <1>1, <2>1, <2>2, <2>3
<1>5. FoldsUp(base, longer, own, ask, stp, g)
  <2>1. g = [k \in 0 .. n + 1 |-> g[k]]
    OBVIOUS
  <2> HIDE DEF g
  <2>2. g = [k \in 0 .. n + 1 |-> IF k = 0 THEN base
               ELSE OnReport(g[k - 1], Heard(longer[k], own, ask), stp)]
    BY <1>4, <2>1
  <2> QED  BY <1>1, <2>2 DEF FoldsUp
<1>6. g[Len(longer)] = last
  BY <1>1, <1>3
<1> QED  BY <1>5, <1>6 DEF longer, last, n

\* There is one way to fold a list up.
LEMMA FoldOnce ==
  ASSUME NEW list, Len(list) \in Nat, NEW base, NEW own, NEW ask, NEW stp,
         NEW f, FoldsUp(base, list, own, ask, stp, f),
         NEW g, FoldsUp(base, list, own, ask, stp, g)
  PROVE  f[Len(list)] = g[Len(list)]
<1> DEFINE S == {k \in Nat : k <= Len(list) => f[k] = g[k]}
<1>1. \A k \in 0 .. Len(list) :
        /\ f[k] = IF k = 0 THEN base
                  ELSE OnReport(f[k - 1], Heard(list[k], own, ask), stp)
        /\ g[k] = IF k = 0 THEN base
                  ELSE OnReport(g[k - 1], Heard(list[k], own, ask), stp)
  BY DEF FoldsUp
<1>2. 0 \in S
  BY <1>1
<1>3. ASSUME NEW k \in S PROVE k + 1 \in S
  <2>1. CASE k + 1 <= Len(list)
    <3>1. /\ k + 1 \in 0 .. Len(list) /\ k + 1 # 0 /\ (k + 1) - 1 = k /\ k <= Len(list)
          /\ k \in Nat
      BY <2>1
    <3>2. f[k] = g[k]
      BY <3>1
    <3>3. f[k + 1] = g[k + 1]
      BY <1>1, <3>1, <3>2
    <3> QED  BY <3>1, <3>3
  <2>2. CASE ~ (k + 1 <= Len(list))
    BY <2>2
  <2> QED  BY <2>1, <2>2
<1>4. S \in SUBSET Nat
  OBVIOUS
<1> HIDE DEF S
<1>5. S = Nat
  BY <1>2, <1>3, <1>4, Induct
<1>6. Len(list) \in S
  BY <1>5
<1> QED  BY <1>6 DEF S

\* on_execution_reports does that.
LEMMA FoldIs ==
  ASSUME Len(reports) \in Nat, NEW f, FoldsUp(working, reports, owner, asked, limits.stp, f)
  PROVE  OnReports = f[Len(reports)]
<1> DEFINE Folded(g) ==
             g = [k \in 0 .. Len(reports) |->
                    IF k = 0 THEN working
                    ELSE OnReport(g[k - 1], Received(reports[k]), limits.stp)]
           after == CHOOSE g : Folded(g)
<1>1. \A g : Folded(g) <=> FoldsUp(working, reports, owner, asked, limits.stp, g)
  BY DEF FoldsUp, Heard, Received
<1>2. OnReports = after[Len(reports)]
  BY DEF OnReports
<1> HIDE DEF Folded
<1>3. Folded(after)
  BY <1>1
<1> HIDE DEF after
<1>4. FoldsUp(working, reports, owner, asked, limits.stp, after)
  BY <1>1, <1>3
<1> QED  BY <1>2, <1>4, FoldOnce

-------------------------------------------------------------------------------
(* The engine.                                                             *)

\* The engine's own proofs, and that their engine is the one in use here.
EngineProofs == INSTANCE MatchingEngine_proofs WITH
  Prices <- ReplacePrices \ {0}, Quantities <- ReplaceQuantities \ {0},
  ClientOrderIds <- (ClientOrderIds \cup CancelIds) \ {0}

LEMMA SameOpposite ==
  \A side : Engine!Opposite(side) = EngineProofs!Opposite(side)
  BY DEF Engine!Opposite, EngineProofs!Opposite

\* The book's small operators.
LEMMA SameSmall ==
  /\ \A side, p, q : Engine!Better(side, p, q) <=> EngineProofs!Better(side, p, q)
  /\ \A b, i : Engine!Resting(b, i) <=> EngineProofs!Resting(b, i)
  /\ \A S : Engine!Max(S) = EngineProofs!Max(S)
  /\ \A S : Engine!Min(S) = EngineProofs!Min(S)
  /\ \A m, k, v : Engine!Put(m, k, v) = EngineProofs!Put(m, k, v)
  BY DEF Engine!Better, EngineProofs!Better, Engine!Resting, EngineProofs!Resting,
     Engine!Put, EngineProofs!Put, Engine!Max, EngineProofs!Max, Engine!Min,
     EngineProofs!Min

\* What a cancellation, an order and a fill make of the book.
LEMMA SameErase ==
  \A b, i : Engine!CancelOrder(b, i) = EngineProofs!CancelOrder(b, i)
  BY DEF Engine!CancelOrder, EngineProofs!CancelOrder, Engine!Erase, EngineProofs!Erase,
     Engine!RemoveAt, EngineProofs!RemoveAt, Engine!Restrict, EngineProofs!Restrict

LEMMA SameAdd ==
  \A b, i, o : Engine!AddOrder(b, i, o) = EngineProofs!AddOrder(b, i, o)
  BY DEF Engine!AddOrder, EngineProofs!AddOrder, Engine!LevelAt, EngineProofs!LevelAt,
     Engine!Put, EngineProofs!Put

LEMMA SameReduce ==
  ASSUME NEW b, NEW i, NEW n
  PROVE  Engine!ReduceOrder(b, i, n) = EngineProofs!ReduceOrder(b, i, n)
<1>1. Engine!CancelOrder(b, i) = EngineProofs!CancelOrder(b, i)
  BY SameErase
<1> QED  BY <1>1 DEF Engine!ReduceOrder, EngineProofs!ReduceOrder

\* What is best in the book.
LEMMA SameBest ==
  \A b, s : Engine!BestPrice(b, s) = EngineProofs!BestPrice(b, s)
  BY DEF Engine!BestPrice, EngineProofs!BestPrice, Engine!Max, EngineProofs!Max,
     Engine!Min, EngineProofs!Min

LEMMA SameBestOrder ==
  \A b, s : Engine!BestOrder(b, s) = EngineProofs!BestOrder(b, s)
  BY SameBest DEF Engine!BestOrder, EngineProofs!BestOrder

\* The sizes and the view of a side.
LEMMA SameCard ==
  \A S : Engine!Cardinality(S) = EngineProofs!Cardinality(S)
  BY DEF Engine!Cardinality, EngineProofs!Cardinality

LEMMA SameBestFirst ==
  \A S, s : Engine!BestFirst(S, s) = EngineProofs!BestFirst(S, s)
  BY DEF Engine!BestFirst, EngineProofs!BestFirst, Engine!Better, EngineProofs!Better,
     Engine!Cardinality, EngineProofs!Cardinality

LEMMA SameView ==
  \A b, s, n : Engine!L2View(b, s, n) = EngineProofs!L2View(b, s, n)
  BY DEF Engine!L2View, EngineProofs!L2View, Engine!BestFirst, EngineProofs!BestFirst,
     Engine!Better, EngineProofs!Better, Engine!Cardinality, EngineProofs!Cardinality,
     Engine!Min, EngineProofs!Min

\* Reports.
LEMMA SameReport ==
  \A i, s, e, q, p : Engine!Report(i, s, e, q, p) = EngineProofs!Report(i, s, e, q, p)
  BY DEF Engine!Report, EngineProofs!Report, Engine!Terminal, EngineProofs!Terminal,
     Engine!RemainingQuantity, EngineProofs!RemainingQuantity

LEMMA SameTelling ==
  \A l : Engine!Telling(l) <=> EngineProofs!Telling(l)
  BY DEF Engine!Telling, EngineProofs!Telling, Engine!Max, EngineProofs!Max

\* What an order may trade with.
LEMMA SameReaches ==
  /\ \A s, t, l, p : Engine!Reaches(s, t, l, p) <=> EngineProofs!Reaches(s, t, l, p)
  /\ \A s, t, l : Engine!Crosses(s, t, l) <=> EngineProofs!Crosses(s, t, l)
  BY SameBest
     DEF Engine!Reaches, EngineProofs!Reaches, Engine!Better, EngineProofs!Better,
     Engine!Crosses, EngineProofs!Crosses, Engine!Opposite, EngineProofs!Opposite,
     Engine!BestPrice, EngineProofs!BestPrice, Engine!Max, EngineProofs!Max, Engine!Min,
     EngineProofs!Min

LEMMA SameWould ==
  \A s, t, l, c, x :
    Engine!WouldSelfTrade(s, t, l, c, x) <=> EngineProofs!WouldSelfTrade(s, t, l, c, x)
  BY DEF Engine!WouldSelfTrade, EngineProofs!WouldSelfTrade, Engine!Reaches,
     EngineProofs!Reaches, Engine!Better, EngineProofs!Better, Engine!Resting,
     EngineProofs!Resting, Engine!Opposite, EngineProofs!Opposite

LEMMA SameReplaceWould ==
  \A i, p : Engine!ReplaceWouldSelfTrade(i, p) <=> EngineProofs!ReplaceWouldSelfTrade(i, p)
  BY SameWould DEF Engine!ReplaceWouldSelfTrade, EngineProofs!ReplaceWouldSelfTrade

\* Whether it can be filled.
LEMMA SameCan ==
  ASSUME NEW r
  PROVE  Engine!CanFullyFill(r) <=> EngineProofs!CanFullyFill(r)
<1>1. Engine!L2View(book, Engine!Opposite(r.side), Engine!Cardinality(DOMAIN book.nodes)) =
        EngineProofs!L2View(book, EngineProofs!Opposite(r.side),
                            EngineProofs!Cardinality(DOMAIN book.nodes))
  BY SameView, SameCard, SameOpposite
<1>2. \A p : Engine!Reaches(r.side, r.type, r.price, p) <=>
              EngineProofs!Reaches(r.side, r.type, r.price, p)
  BY SameReaches
<1> QED  BY <1>1, <1>2, SameCard DEF Engine!CanFullyFill, EngineProofs!CanFullyFill

\* Why a request is refused.
LEMMA SameBad ==
  \A r : Engine!BadRequest(r) <=> EngineProofs!BadRequest(r)
  BY DEF Engine!BadRequest, EngineProofs!BadRequest, Engine!Sides, EngineProofs!Sides

LEMMA SameNotNow ==
  ASSUME NEW r
  PROVE  Engine!NotNow(r) <=> EngineProofs!NotNow(r)
<1>1. Engine!Crosses(r.side, r.type, r.price) <=> EngineProofs!Crosses(r.side, r.type, r.price)
  BY SameReaches
<1>2. Engine!WouldSelfTrade(r.side, r.type, r.price, r.client, 0) <=>
        EngineProofs!WouldSelfTrade(r.side, r.type, r.price, r.client, 0)
  BY SameWould
<1>3. Engine!CanFullyFill(r) <=> EngineProofs!CanFullyFill(r)
  BY SameCan
<1> QED  BY <1>1, <1>2, <1>3 DEF Engine!NotNow, EngineProofs!NotNow

\* The initial states.
LEMMA SameInit == Engine!Init => EngineProofs!Init
  BY DEF Engine!Init, EngineProofs!Init, Engine!EmptyBook, EngineProofs!EmptyBook,
     Engine!Sides, EngineProofs!Sides, Engine!NoCall, EngineProofs!NoCall

\* A refusal, and the client order ids it uses up.
LEMMA SameRefused == \A ids : Engine!Refused(ids) <=> EngineProofs!Refused(ids)
  BY DEF Engine!Refused, EngineProofs!Refused, Engine!Reject, EngineProofs!Reject

LEMMA SameIds ==
  /\ \A c : Engine!Reservable(c) <=> EngineProofs!Reservable(c)
  /\ \A c : Engine!Reserved(c) = EngineProofs!Reserved(c)
  BY DEF Engine!Reservable, EngineProofs!Reservable, Engine!Reserved, EngineProofs!Reserved

\* The calls.
LEMMA SameSubmit ==
  ASSUME NEW r, NEW c
  PROVE  /\ Engine!SubmitRefused(r, c) <=> EngineProofs!SubmitRefused(r, c)
         /\ Engine!SubmitAccepted(r, c) <=> EngineProofs!SubmitAccepted(r, c)
<1>1. Engine!SubmitRefused(r, c) <=> EngineProofs!SubmitRefused(r, c)
  BY SameBad, SameNotNow, SameRefused, SameIds
     DEF Engine!SubmitRefused, EngineProofs!SubmitRefused
<1>2. Engine!SubmitAccepted(r, c) <=> EngineProofs!SubmitAccepted(r, c)
  BY SameBad, SameNotNow, SameReport, SameTelling, SameIds, SameSmall
     DEF Engine!SubmitAccepted, EngineProofs!SubmitAccepted
<1> QED  BY <1>1, <1>2

LEMMA SameCancel ==
  ASSUME NEW i, NEW c
  PROVE  /\ Engine!CancelRefused(i, c) <=> EngineProofs!CancelRefused(i, c)
         /\ Engine!CancelAccepted(i, c) <=> EngineProofs!CancelAccepted(i, c)
<1>1. Engine!CancelRefused(i, c) <=> EngineProofs!CancelRefused(i, c)
  BY SameRefused, SameIds, SameSmall DEF Engine!CancelRefused, EngineProofs!CancelRefused
<1>2. Engine!CancelAccepted(i, c) <=> EngineProofs!CancelAccepted(i, c)
  BY SameErase, SameReport, SameTelling, SameIds, SameSmall
     DEF Engine!CancelAccepted, EngineProofs!CancelAccepted
<1> QED  BY <1>1, <1>2

LEMMA SameReplace ==
  ASSUME NEW i, NEW p, NEW q, NEW c
  PROVE  /\ Engine!ReplaceRefused(i, p, q, c) <=> EngineProofs!ReplaceRefused(i, p, q, c)
         /\ Engine!ReplaceAccepted(i, p, q, c) <=> EngineProofs!ReplaceAccepted(i, p, q, c)
<1>1. Engine!ReplaceRefused(i, p, q, c) <=> EngineProofs!ReplaceRefused(i, p, q, c)
  BY SameReplaceWould, SameRefused, SameIds, SameSmall
     DEF Engine!ReplaceRefused, EngineProofs!ReplaceRefused
<1>2. Engine!ReplaceAccepted(i, p, q, c) <=> EngineProofs!ReplaceAccepted(i, p, q, c)
  BY SameReplaceWould, SameErase, SameReport, SameTelling, SameIds, SameSmall
     DEF Engine!ReplaceAccepted, EngineProofs!ReplaceAccepted, Engine!Amended,
     EngineProofs!Amended
<1> QED  BY <1>1, <1>2

\* A step of a call under way.
LEMMA SameContinue == Engine!Continue <=> EngineProofs!Continue
<1>1. /\ Engine!Incoming = EngineProofs!Incoming
      /\ Engine!CanTrade <=> EngineProofs!CanTrade
      /\ Engine!RestsRemainder <=> EngineProofs!RestsRemainder
      /\ Engine!CancelsRemainder <=> EngineProofs!CancelsRemainder
      /\ Engine!RestingOrder = EngineProofs!RestingOrder
  BY SameReaches
     DEF Engine!Incoming, EngineProofs!Incoming, Engine!CanTrade, EngineProofs!CanTrade,
     Engine!RestsRemainder, EngineProofs!RestsRemainder, Engine!CancelsRemainder,
     EngineProofs!CancelsRemainder, Engine!RestingOrder, EngineProofs!RestingOrder
<1>2. Engine!Match <=> EngineProofs!Match
  <2>1. \A s, q : Engine!Traded(s, q) = EngineProofs!Traded(s, q)
    BY DEF Engine!Traded, EngineProofs!Traded, Engine!RemainingQuantity,
       EngineProofs!RemainingQuantity
  <2>2. \A m : Engine!FillQuantity(m) = EngineProofs!FillQuantity(m)
    BY SameSmall DEF Engine!FillQuantity, EngineProofs!FillQuantity
  <2> QED  BY <1>1, <2>1, <2>2, SameBestOrder, SameOpposite, SameReduce, SameReport, SameTelling
             DEF Engine!Match, EngineProofs!Match
<1>3. Engine!RestRemainder <=> EngineProofs!RestRemainder
  BY <1>1, SameAdd
     DEF Engine!RestRemainder, EngineProofs!RestRemainder, Engine!NoCall,
     EngineProofs!NoCall
<1>4. Engine!CancelRemainder <=> EngineProofs!CancelRemainder
  BY <1>1, SameReport, SameTelling
     DEF Engine!CancelRemainder, EngineProofs!CancelRemainder, Engine!NoCall,
     EngineProofs!NoCall
<1>5. Engine!NothingRemains <=> EngineProofs!NothingRemains
  BY DEF Engine!NothingRemains, EngineProofs!NothingRemains, Engine!NoCall,
     EngineProofs!NoCall
<1> QED  BY <1>2, <1>3, <1>4, <1>5 DEF Engine!Continue, EngineProofs!Continue

\* What the engine's proofs assume of its parameters.
LEMMA EngineParameters ==
  /\ ReplacePrices \ {0} \subseteq Nat \ {0} /\ ReplaceQuantities \ {0} \subseteq Nat \ {0}
  /\ 0 \notin (ClientOrderIds \cup CancelIds) \ {0} /\ MaxOrders \in Nat
  /\ \A r \in NewRequests :
       /\ r.price \in Int /\ (r.price > 0 => r.price \in ReplacePrices \ {0})
       /\ r.quantity \in Int /\ r.client \in Nat /\ r.postOnly \in BOOLEAN
  BY GatedAssumption

\* The steps of the engine that the two take, and that they keep its invariant.
EngineCalls ==
  \/ \E r \in NewRequests : \E c : EngineProofs!SubmitRefused(r, c) \/ EngineProofs!SubmitAccepted(r, c)
  \/ \E id, c : EngineProofs!CancelRefused(id, c) \/ EngineProofs!CancelAccepted(id, c)
  \/ \E price \in ReplacePrices, quantity \in ReplaceQuantities : \E id, c :
       \/ EngineProofs!ReplaceRefused(id, price, quantity, c)
       \/ EngineProofs!ReplaceAccepted(id, price, quantity, c)
  \/ EngineProofs!Continue
  \/ UNCHANGED engineVars

LEMMA EngineKeeps ==
  ASSUME EngineProofs!Agreed, EngineCalls
  PROVE  EngineProofs!Agreed'
<1> USE EngineParameters
<1>1. ASSUME NEW r \in NewRequests, NEW c, EngineProofs!SubmitRefused(r, c)
      PROVE  EngineProofs!Agreed'
  BY <1>1, EngineProofs!RefusedKeeps DEF EngineProofs!SubmitRefused
<1>2. ASSUME NEW r \in NewRequests, NEW c, EngineProofs!SubmitAccepted(r, c)
      PROVE  EngineProofs!Agreed'
  BY <1>2, EngineProofs!SubmitAcceptedKeeps
<1>3. ASSUME NEW id, NEW c, EngineProofs!CancelRefused(id, c)
      PROVE  EngineProofs!Agreed'
  BY <1>3, EngineProofs!RefusedKeeps DEF EngineProofs!CancelRefused
<1>4. ASSUME NEW id, NEW c, EngineProofs!CancelAccepted(id, c)
      PROVE  EngineProofs!Agreed'
  BY <1>4, EngineProofs!CancelAcceptedKeeps
<1>5. ASSUME NEW id, NEW c, NEW price \in ReplacePrices, NEW quantity \in ReplaceQuantities,
             EngineProofs!ReplaceRefused(id, price, quantity, c)
      PROVE  EngineProofs!Agreed'
  BY <1>5, EngineProofs!RefusedKeeps DEF EngineProofs!ReplaceRefused
<1>6. ASSUME NEW id, NEW c, NEW price \in ReplacePrices, NEW quantity \in ReplaceQuantities,
             EngineProofs!ReplaceAccepted(id, price, quantity, c)
      PROVE  EngineProofs!Agreed'
  <2>1. /\ price \in (ReplacePrices \ {0}) \cup {0}
        /\ quantity \in (ReplaceQuantities \ {0}) \cup {0}
    OBVIOUS
  <2> QED  BY <1>6, <2>1, EngineProofs!ReplaceAcceptedKeeps
<1>7. ASSUME EngineProofs!Continue PROVE EngineProofs!Agreed'
  BY <1>7, EngineProofs!MatchKeeps, EngineProofs!RestRemainderKeeps,
     EngineProofs!CancelRemainderKeeps, EngineProofs!NothingRemainsKeeps
     DEF EngineProofs!Continue
<1>8. ASSUME UNCHANGED engineVars PROVE EngineProofs!Agreed'
  BY <1>8, EngineProofs!StutterKeeps DEF EngineProofs!vars, engineVars
<1> QED  BY <1>1, <1>2, <1>3, <1>4, <1>5, <1>6, <1>7, <1>8 DEF EngineCalls
-------------------------------------------------------------------------------
(* What the gateway sees of the engine.                                    *)

\* The orders that rest, and the one that comes in if it may rest: what the
\* gateway tracks, as it tracks it.
Followed(id) ==
  /\ EngineProofs!Live(id)
  /\ id = call.id => call.tif = "Gtc" /\ states[id].type = "Limit"

Shown(state, id) ==
  [client |-> state.client, symbol |-> Symbol, side |-> state.side,
   price |-> state.limit, quantity |-> state.original - state.filled, exchange |-> id]

Known == {id \in DOMAIN states : Followed(id)}
View == [id \in Known |-> Shown(states[id], id)]

Within(w) == limits.maxOpen > 0 => AtMost(w, limits.maxOpen)

\* The view after a report about an order: one that is over is not tracked.
Updated(view, id, state) ==
  IF id \notin DOMAIN view THEN view
  ELSE IF state.status \in EngineProofs!Terminal THEN Without(view, id)
  ELSE With(view, id, Shown(state, id))

\* A state that may follow the one an order was tracked by.
Follows(order, state, id) ==
  /\ \E before : /\ order = Shown(before, id) /\ before.client = state.client
                 /\ before.side = state.side
                 /\ before.original - before.filled \in Int
                 /\ state.original - state.filled <= before.original - before.filled
  /\ state.type = "Limit" /\ state.limit \in Nat \ {0}

\* An order repriced is shown at its new price and quantity.
LEMMA ShownRepriced ==
  ASSUME NEW before, NEW state, NEW id, before.client = state.client, before.side = state.side
  PROVE  Repriced(Shown(before, id), state.limit, state.original - state.filled) =
           Shown(state, id)
<1> DEFINE order == Shown(before, id)
           priced == [order EXCEPT !.price = state.limit]
           after == [priced EXCEPT !.quantity = state.original - state.filled]
<1>1. priced = [client |-> state.client, symbol |-> Symbol, side |-> state.side,
                price |-> state.limit, quantity |-> order.quantity, exchange |-> id]
  BY DEF Shown
<1> HIDE DEF order, priced
<1>2. after = Shown(state, id)
  BY <1>1 DEF Shown
<1>3. Repriced(order, state.limit, state.original - state.filled) = after
  BY DEF Repriced, priced
<1> QED  BY <1>2, <1>3 DEF order

\* A report about an order the engine knows brings the view up to date.
LEMMA Hears ==
  ASSUME NEW w, NEW own, NEW view, Sees(w, own, view), NEW id \in DOMAIN own,
         NEW state \in EngineProofs!State, state.filled <= state.original,
         state.status \notin EngineProofs!Terminal => state.filled < state.original,
         NEW exec \in {"New", "Trade", "Canceled", "Replaced"}, NEW quantity, NEW price,
         NEW ask, id \in DOMAIN view => Follows(view[id], state, id),
         NEW stp, Preventing => stp, NEW bound \in Int
  PROVE  LET report == EngineProofs!Report(id, state, exec, quantity, price)
             after == OnReport(w, Heard(report, own, ask), stp)
         IN  /\ Sees(after, own, Updated(view, id, state))
             /\ AtMost(w, bound) => AtMost(after, bound)
<1> DEFINE report == EngineProofs!Report(id, state, exec, quantity, price)
           h == Heard(report, own, ask)
           left == state.original - state.filled
<1>1. /\ state.original \in Nat /\ state.filled \in Nat /\ left \in Nat
      /\ EngineProofs!RemainingQuantity(state) = left /\ id # 0
  BY DEF EngineProofs!State, EngineProofs!RemainingQuantity, Sees, Names
<1>2. /\ report.id = id /\ report.status = state.status /\ report.exec = exec
      /\ report.remaining = (IF state.status \in EngineProofs!Terminal THEN 0 ELSE left)
      /\ report.restingPrice = (IF report.remaining > 0 /\ state.type = "Limit"
                                THEN state.limit ELSE 0)
  BY <1>1 DEF EngineProofs!Report
<1> HIDE DEF report
<1>3. /\ h.clOrdId = own[id] /\ h.exchange = id /\ h.status = state.status
      /\ h.exec = exec /\ h.remaining = report.remaining
      /\ h.restingPrice = report.restingPrice
  BY <1>1, <1>2 DEF Heard
<1> HIDE DEF h
<1>4. exec # "Rejected"
  <2>1. /\ "New" # "Rejected" /\ "Trade" # "Rejected" /\ "Canceled" # "Rejected"
        /\ "Replaced" # "Rejected"
    OBVIOUS
  <2> QED  BY <2>1, Zenon
<1>5. Ends(h) <=> state.status \in EngineProofs!Terminal
  BY <1>1, <1>2, <1>3, <1>4 DEF Ends, EngineProofs!Terminal
<1>6. CASE id \notin DOMAIN view
  <2>1. OnReport(w, h, stp) = w
    BY <1>3, <1>6, HearsOther
  <2> QED  BY <1>6, <2>1 DEF Updated, h, report
<1>7. CASE id \in DOMAIN view /\ state.status \in EngineProofs!Terminal
  <2>1. /\ Sees(OnReport(w, h, stp), own, Without(view, id))
        /\ AtMost(w, bound) => AtMost(OnReport(w, h, stp), bound)
    BY <1>3, <1>5, <1>7, HearsEnd
  <2> QED  BY <1>7, <2>1 DEF Updated, h, report
<1>8. CASE id \in DOMAIN view /\ state.status \notin EngineProofs!Terminal
  <2>1. PICK before : /\ view[id] = Shown(before, id) /\ before.client = state.client
                      /\ before.side = state.side
                      /\ before.original - before.filled \in Int
                      /\ left <= before.original - before.filled
    BY <1>8 DEF Follows
  <2>2. h.remaining = left /\ left > 0 /\ h.restingPrice = state.limit /\ state.limit > 0
    BY <1>1, <1>2, <1>3, <1>8 DEF Follows
  <2>3. view[id].quantity = before.original - before.filled
    BY <2>1 DEF Shown
  <2>4. Repriced(view[id], h.restingPrice, h.remaining) = Shown(state, id)
    BY <2>1, <2>2, ShownRepriced
  <2> HIDE DEF left
  <2>5. /\ Sees(OnReport(w, h, stp), own,
                 With(view, id, Repriced(view[id], h.restingPrice, h.remaining)))
        /\ AtMost(w, bound) => AtMost(OnReport(w, h, stp), bound)
    <3>1. h.remaining \in Int /\ h.remaining <= view[id].quantity /\ h.restingPrice > 0
      BY <1>1, <2>1, <2>2, <2>3
    <3> QED  BY <1>3, <1>5, <1>8, <3>1, HearsChange
  <2> QED  BY <1>8, <2>4, <2>5 DEF Updated, h, report
<1> QED  BY <1>6, <1>7, <1>8

\* A call's own conditions on what is followed.
Kind(id) == id = call.id => call.tif = "Gtc" /\ states[id].type = "Limit"

\* One state changes.
LEMMA ViewOne ==
  ASSUME DOMAIN states' = DOMAIN states, NEW id \in DOMAIN states, EngineProofs!Live(id),
         \A other \in DOMAIN states \ {id} : states'[other] = states[other],
         \A other \in DOMAIN states : Kind(other)' <=> Kind(other)
  PROVE  View' = Updated(View, id, states'[id])
<1> DEFINE over == states'[id].status \in EngineProofs!Terminal
<1>1. \A other \in DOMAIN states :
        other \in Known' <=> other \in Known /\ ~ (other = id /\ over)
  BY DEF Known, Followed, Kind, EngineProofs!Live
<1>2. Known' \subseteq DOMAIN states /\ Known \subseteq DOMAIN states
  BY DEF Known
<1>3. View' = [other \in Known' |-> Shown(states'[other], other)]
  BY DEF View
<1>4. /\ DOMAIN View = Known
      /\ \A other \in Known : View[other] = Shown(states[other], other)
  BY DEF View
<1> HIDE DEF over
<1>5. CASE id \notin Known
  <2>1. Known' = Known
    BY <1>1, <1>2, <1>5
  <2>2. \A other \in Known : states'[other] = states[other]
    BY <1>2, <1>5
  <2>3. View' = View
    BY <1>3, <2>1, <2>2 DEF View
  <2> QED  BY <1>4, <1>5, <2>3 DEF Updated
<1>6. CASE id \in Known /\ over
  <2>1. Known' = Known \ {id}
    BY <1>1, <1>2, <1>6
  <2>2. View' = Without(View, id)
    BY <1>2, <1>3, <1>4, <2>1 DEF Without
  <2> QED  BY <1>4, <1>6, <2>2 DEF Updated, over
<1>7. CASE id \in Known /\ ~ over
  <2>1. Known' = Known
    BY <1>1, <1>2, <1>7
  <2>2. Known \cup {id} = Known
    BY <1>7
  <2>3. View' = With(View, id, Shown(states'[id], id))
    BY <1>2, <1>3, <1>4, <2>1, <2>2 DEF With
  <2> QED  BY <1>4, <1>7, <2>3 DEF Updated, over
<1> QED  BY <1>5, <1>6, <1>7

\* None does.
LEMMA ViewSame ==
  ASSUME states' = states, \A id \in DOMAIN states : Followed(id)' <=> Followed(id)
  PROVE  View' = View
<1>1. Known' = Known
  BY DEF Known
<1> QED  BY <1>1 DEF View

\* A refusal changes none.
LEMMA ViewRefused ==
  ASSUME NEW ids, EngineProofs!Refused(ids) PROVE View' = View
<1>1. states' = states /\ call' = call
  BY DEF EngineProofs!Refused
<1> QED  BY <1>1, ViewSame DEF Followed, EngineProofs!Live

\* What the calls find when they start.
LEMMA IdleIs ==
  ASSUME EngineProofs!Agreed, pc = "idle"
  PROVE  /\ call = EngineProofs!NoCall /\ call.id = 0 /\ 0 \notin DOMAIN states
         /\ nextId \in Nat /\ nextId \notin DOMAIN states /\ nextId # 0
         /\ DOMAIN states = 1 .. nextId - 1
         /\ Known = DOMAIN book.nodes
<1> USE EngineParameters
<1>1. /\ call = EngineProofs!NoCall /\ nextId \in 1 .. MaxOrders + 1
      /\ DOMAIN states = 1 .. nextId - 1
  BY DEF EngineProofs!Agreed, EngineProofs!CallSound, EngineProofs!StatesSound
<1>2. call.id = 0
  BY <1>1 DEF EngineProofs!NoCall
<1>3. nextId \in Nat /\ nextId \notin DOMAIN states /\ nextId # 0 /\ 0 \notin DOMAIN states
  BY <1>1
<1>4. /\ \A id \in DOMAIN states : id \in DOMAIN book.nodes <=> EngineProofs!Live(id)
      /\ DOMAIN book.nodes \subseteq DOMAIN states
  <2>1. \A id \in DOMAIN states :
          EngineProofs!Resting(book, id) <=> EngineProofs!Live(id) /\ id # call.id
    BY DEF EngineProofs!Agreed, EngineProofs!BookAgrees
  <2>2. DOMAIN book.nodes \subseteq DOMAIN states
    BY DEF EngineProofs!Agreed, EngineProofs!BookAgrees
  <2> QED  BY <1>2, <1>3, <2>1, <2>2 DEF EngineProofs!Resting
<1>5. Known = DOMAIN book.nodes
  BY <1>2, <1>3, <1>4 DEF Known, Followed
<1> QED  BY <1>1, <1>2, <1>3, <1>5

\* A state is sound, and one that follows it has what it traded less.
LEMMA StateIs ==
  ASSUME EngineProofs!Agreed, NEW id \in DOMAIN states
  PROVE  /\ states[id] \in EngineProofs!State /\ states[id].filled <= states[id].original
         /\ states[id].original \in Nat /\ states[id].filled \in Nat
         /\ states[id].status \notin EngineProofs!Terminal =>
              states[id].filled < states[id].original
         /\ states[id].type = "Limit" => states[id].limit \in Nat \ {0}
         /\ id \in Nat \ {0}
<1> USE EngineParameters
<1>1. /\ states[id] \in EngineProofs!State /\ states[id].filled <= states[id].original
      /\ EngineProofs!Live(id) => states[id].filled < states[id].original
      /\ states[id].type = "Limit" => states[id].limit \in ReplacePrices \ {0}
      /\ DOMAIN states = 1 .. nextId - 1 /\ nextId \in 1 .. MaxOrders + 1
  BY DEF EngineProofs!Agreed, EngineProofs!StatesSound
<1>2. states[id].original \in Nat /\ states[id].filled \in Nat
  BY <1>1 DEF EngineProofs!State
<1>3. id \in Nat \ {0}
  BY <1>1
<1> QED  BY <1>1, <1>2, <1>3 DEF EngineProofs!Live

\* The same of the state after a step.
LEMMA StateIsNext ==
  ASSUME EngineProofs!Agreed', NEW id \in DOMAIN states'
  PROVE  /\ states'[id] \in EngineProofs!State /\ states'[id].filled <= states'[id].original
         /\ states'[id].original \in Nat /\ states'[id].filled \in Nat
         /\ states'[id].status \notin EngineProofs!Terminal =>
              states'[id].filled < states'[id].original
         /\ states'[id].type = "Limit" => states'[id].limit \in Nat \ {0}
<1>1. /\ states'[id] \in EngineProofs!State /\ states'[id].filled <= states'[id].original
      /\ EngineProofs!Live(id)' => states'[id].filled < states'[id].original
      /\ states'[id].type = "Limit" => states'[id].limit \in ReplacePrices \ {0}
  BY DEF EngineProofs!Agreed, EngineProofs!StatesSound
<1>2. states'[id].original \in Nat /\ states'[id].filled \in Nat
  BY <1>1 DEF EngineProofs!State
<1> QED  BY <1>1, <1>2, EngineParameters DEF EngineProofs!Live

\* An order that is accepted joins the view if it may rest.
LEMMA SubmitShows ==
  ASSUME EngineProofs!Agreed, NEW r \in NewRequests, NEW c,
         EngineProofs!SubmitAccepted(r, c)
  PROVE  LET state == states'[nextId]
         IN  /\ DOMAIN states' = DOMAIN states \cup {nextId}
             /\ state.original = r.quantity /\ state.filled = 0 /\ state.status = "New"
             /\ state.type = r.type /\ state.limit = r.price
             /\ r.quantity \in Nat \ {0} /\ (r.type = "Limit" => r.price > 0)
             /\ reports' = <<EngineProofs!Report(nextId, state, "New", 0, 0)>>
             /\ View' = IF r.type = "Limit" /\ r.tif = "Gtc"
                        THEN With(View, nextId, [Registered(r) EXCEPT !.exchange = nextId])
                        ELSE View
<1> DEFINE state == [side |-> r.side, type |-> r.type, limit |-> r.price,
                     original |-> r.quantity, filled |-> 0, client |-> r.client,
                     status |-> "New"]
<1>1. /\ pc = "idle" /\ ~ EngineProofs!BadRequest(r)
      /\ states' = EngineProofs!Put(states, nextId, state)
      /\ reports' = <<EngineProofs!Report(nextId, state, "New", 0, 0)>>
      /\ call' = [id |-> nextId, remaining |-> r.quantity, tif |-> r.tif,
                  postOnly |-> r.postOnly]
  BY DEF EngineProofs!SubmitAccepted
<1>2. /\ r.symbol = Symbol /\ r.quantity \in Nat \ {0} /\ (r.type = "Limit" => r.price > 0)
  <2>1. r.quantity \in Int /\ r.price \in Int
    BY GatedAssumption
  <2> QED  BY <1>1, <2>1 DEF EngineProofs!BadRequest
<1>3. /\ call.id = 0 /\ 0 \notin DOMAIN states /\ nextId \notin DOMAIN states
  BY <1>1, IdleIs
<1>4. /\ DOMAIN states' = DOMAIN states \cup {nextId} /\ states'[nextId] = state
      /\ \A id \in DOMAIN states : states'[id] = states[id]
  BY <1>1, <1>3 DEF EngineProofs!Put
<1>5. state.status \notin EngineProofs!Terminal
  BY DEF EngineProofs!Terminal
<1>6. Shown(state, nextId) = [Registered(r) EXCEPT !.exchange = nextId]
  BY <1>2 DEF Shown, Registered
<1>7. /\ state.original = r.quantity /\ state.filled = 0 /\ state.status = "New"
      /\ state.type = r.type /\ state.limit = r.price
  OBVIOUS
<1> HIDE DEF state
<1>8. call'.id = nextId /\ call'.tif = r.tif
  BY <1>1
<1>9. Known' = IF r.type = "Limit" /\ r.tif = "Gtc" THEN Known \cup {nextId} ELSE Known
  <2>1. \A id \in DOMAIN states : id \in Known' <=> id \in Known
    BY <1>3, <1>4, <1>8 DEF Known, Followed, EngineProofs!Live
  <2>2. nextId \in Known' <=> r.type = "Limit" /\ r.tif = "Gtc"
    BY <1>4, <1>5, <1>7, <1>8 DEF Known, Followed, EngineProofs!Live
  <2>3. Known' \subseteq DOMAIN states' /\ Known \subseteq DOMAIN states
    BY DEF Known
  <2> QED  BY <1>3, <1>4, <2>1, <2>2, <2>3
<1>10. \A id \in Known : states'[id] = states[id] /\ id # nextId
  BY <1>3, <1>4 DEF Known
<1>11. CASE r.type = "Limit" /\ r.tif = "Gtc"
  <2>1. View' = [id \in Known \cup {nextId} |-> Shown(states'[id], id)]
    BY <1>9, <1>11 DEF View
  <2>2. View' = With(View, nextId, Shown(state, nextId))
    BY <1>4, <1>10, <2>1 DEF View, With
  <2> QED  BY <1>1, <1>2, <1>4, <1>6, <1>7, <1>11, <2>2
<1>12. CASE ~ (r.type = "Limit" /\ r.tif = "Gtc")
  <2>1. View' = View
    BY <1>9, <1>10, <1>12 DEF View
  <2> QED  BY <1>1, <1>2, <1>4, <1>7, <1>12, <2>1
<1> QED  BY <1>11, <1>12

\* A cancellation takes its order out of the view.
LEMMA CancelShows ==
  ASSUME EngineProofs!Agreed, NEW id, NEW c, EngineProofs!CancelAccepted(id, c)
  PROVE  LET state == states'[id]
         IN  /\ DOMAIN states' = DOMAIN states /\ id \in DOMAIN states
             /\ state = [states[id] EXCEPT !.status = "Canceled"]
             /\ reports' = <<EngineProofs!Report(id, state, "Canceled", 0, 0)>>
             /\ View' = Updated(View, id, state)
<1> DEFINE state == [states[id] EXCEPT !.status = "Canceled"]
<1>1. /\ pc = "idle" /\ id \in DOMAIN states /\ id \in DOMAIN book.nodes
      /\ states' = [states EXCEPT ![id] = state] /\ call' = call
      /\ reports' = <<EngineProofs!Report(id, state, "Canceled", 0, 0)>>
  BY DEF EngineProofs!CancelAccepted, EngineProofs!Resting
<1>2. EngineProofs!Live(id) /\ call.id = 0 /\ 0 \notin DOMAIN states
  BY <1>1, IdleIs DEF Known, Followed
<1> HIDE DEF state
<1>3. /\ DOMAIN states' = DOMAIN states /\ states'[id] = state
      /\ \A other \in DOMAIN states \ {id} : states'[other] = states[other]
  BY <1>1
<1>4. \A other \in DOMAIN states : Kind(other)' <=> Kind(other)
  BY <1>1, <1>2 DEF Kind
<1>5. View' = Updated(View, id, states'[id])
  BY <1>1, <1>2, <1>3, <1>4, ViewOne
<1> QED  BY <1>1, <1>3, <1>5 DEF state

\* A replacement leaves its order in the view at the new price and quantity.
LEMMA ReplaceShows ==
  ASSUME EngineProofs!Agreed, NEW id, NEW price, NEW quantity \in Nat, NEW c,
         EngineProofs!ReplaceAccepted(id, price, quantity, c)
  PROVE  LET state == states'[id]
         IN  /\ DOMAIN states' = DOMAIN states /\ id \in Known /\ id \in DOMAIN states
             /\ state.client = states[id].client /\ state.side = states[id].side
             /\ state.type = "Limit" /\ state.limit = price
             /\ state.status = "Replaced" /\ state.original - state.filled = quantity
             /\ reports' = <<EngineProofs!Report(id, state, "Replaced", 0, 0)>>
             /\ View' = With(View, id, Shown(state, id))
<1> DEFINE state == EngineProofs!Amended(states[id], price, quantity)
<1>1. /\ pc = "idle" /\ id \in DOMAIN states /\ id \in DOMAIN book.nodes
      /\ states' = [states EXCEPT ![id] = state]
      /\ call' = [id |-> id, remaining |-> quantity, tif |-> "Gtc", postOnly |-> FALSE]
      /\ reports' = <<EngineProofs!Report(id, state, "Replaced", 0, 0)>>
  BY DEF EngineProofs!ReplaceAccepted, EngineProofs!Resting
<1>2. EngineProofs!Live(id) /\ id \in Known /\ call.id = 0 /\ 0 \notin DOMAIN states
  BY <1>1, IdleIs DEF Known, Followed
<1>3. states[id].type = "Limit"
  BY <1>1, EngineParameters, EngineProofs!NodeIs DEF EngineProofs!Agreed
<1>4. /\ state.client = states[id].client /\ state.side = states[id].side
      /\ state.type = "Limit" /\ state.limit = price /\ state.status = "Replaced"
      /\ state.original - state.filled = quantity
  <2>1. states[id] \in EngineProofs!State /\ states[id].filled \in Nat
    BY <1>1, StateIs
  <2>2. /\ state.client = states[id].client /\ state.side = states[id].side
        /\ state.type = states[id].type /\ state.limit = price /\ state.status = "Replaced"
        /\ state.original = states[id].filled + quantity
        /\ state.filled = states[id].filled
    BY <2>1 DEF EngineProofs!Amended, EngineProofs!State
  <2> HIDE DEF state
  <2>3. state.original - state.filled = quantity
    BY <2>1, <2>2
  <2> QED  BY <1>3, <2>2, <2>3
<1>5. state.status \notin EngineProofs!Terminal
  BY <1>4 DEF EngineProofs!Terminal
<1> HIDE DEF state
<1>6. /\ DOMAIN states' = DOMAIN states /\ states'[id] = state
      /\ \A other \in DOMAIN states \ {id} : states'[other] = states[other]
  BY <1>1
<1>7. \A other \in DOMAIN states : Kind(other)' <=> Kind(other)
  <2>1. call'.id = id /\ call'.tif = "Gtc"
    BY <1>1
  <2> QED  BY <1>2, <1>4, <1>6, <2>1 DEF Kind
<1>8. View' = Updated(View, id, states'[id])
  BY <1>1, <1>2, <1>6, <1>7, ViewOne
<1>9. id \in DOMAIN View
  BY <1>2 DEF View
<1> QED  BY <1>1, <1>2, <1>4, <1>5, <1>6, <1>8, <1>9 DEF Updated

\* A trade brings both parties up to date.
LEMMA MatchShows ==
  ASSUME EngineProofs!Agreed, NEW maker, NEW quantity,
         EngineProofs!Bargain(maker, quantity), EngineProofs!Settled(maker, quantity)
  PROVE  /\ maker \in DOMAIN states /\ call.id \in DOMAIN states /\ maker # call.id
         /\ DOMAIN states' = DOMAIN states
         /\ \A id \in {maker, call.id} : id \in DOMAIN View => Follows(View[id], states'[id], id)
         /\ View' = Updated(Updated(View, maker, states'[maker]), call.id, states'[call.id])
<1> DEFINE one == Updated(View, maker, states'[maker])
           two == Updated(one, call.id, states'[call.id])
           Over(id) == states'[id].status \in EngineProofs!Terminal
<1>1. /\ maker \in DOMAIN states /\ maker # call.id /\ quantity \in Nat \ {0}
      /\ EngineProofs!Live(maker) /\ states[maker].type = "Limit"
  BY DEF EngineProofs!Bargain, EngineProofs!Live
<1>2. /\ DOMAIN states' = DOMAIN states /\ pc = "match"
      /\ \A id \in DOMAIN states \ {maker, call.id} : states'[id] = states[id]
      /\ call'.id = call.id /\ call'.tif = call.tif
      /\ EngineProofs!TradedBy(states'[maker], states[maker], quantity)
      /\ EngineProofs!TradedBy(states'[call.id], states[call.id], quantity)
  <2>1. call \in [id : Nat, remaining : Nat, tif : {"Gtc", "Ioc", "Fok"},
                  postOnly : BOOLEAN]
    BY DEF EngineProofs!Settled, EngineProofs!Agreed, EngineProofs!CallSound
  <2>2. call' = [call EXCEPT !.remaining = call.remaining - quantity]
    BY DEF EngineProofs!Settled
  <2>3. call'.id = call.id /\ call'.tif = call.tif
    BY <2>1, <2>2
  <2> QED  BY <2>3 DEF EngineProofs!Settled
<1>3. call.id \in DOMAIN states
  BY <1>2, EngineParameters, EngineProofs!InTheLoop DEF EngineProofs!Matching
<1>4. ASSUME NEW id \in {maker, call.id}, id \in DOMAIN View
      PROVE  Follows(View[id], states'[id], id)
  <2>1. EngineProofs!TradedBy(states'[id], states[id], quantity) /\ id \in DOMAIN states
    BY <1>1, <1>2, <1>3
  <2>2. View[id] = Shown(states[id], id) /\ states[id].type = "Limit"
    BY <1>1, <1>4 DEF View, Known, Followed
  <2>3. /\ states[id].original \in Nat /\ states[id].filled \in Nat
        /\ states[id].limit \in Nat \ {0}
    BY <2>1, <2>2, StateIs
  <2>4. /\ states'[id].client = states[id].client /\ states'[id].side = states[id].side
        /\ states'[id].type = "Limit" /\ states'[id].limit \in Nat \ {0}
        /\ states'[id].original - states'[id].filled <= states[id].original - states[id].filled
        /\ states[id].original - states[id].filled \in Int
    BY <1>1, <2>1, <2>2, <2>3 DEF EngineProofs!TradedBy
  <2> QED  BY <2>2, <2>4 DEF Follows
<1>5. /\ states'[maker].type = states[maker].type
      /\ states'[call.id].type = states[call.id].type
  BY <1>2 DEF EngineProofs!TradedBy
<1>6. EngineProofs!Live(call.id)' => EngineProofs!Live(call.id)
  <2>1. states[call.id].original \in Nat /\ states[call.id].filled \in Nat
        /\ states[call.id].filled + quantity <= states[call.id].original
        /\ call.remaining = states[call.id].original - states[call.id].filled
    <3>1. EngineProofs!Matching
      BY <1>2, EngineParameters, EngineProofs!InTheLoop
    <3> QED  BY <1>2, <1>3, <3>1, StateIs
             DEF EngineProofs!TradedBy, EngineProofs!Matching, EngineProofs!Incoming
  <2>2. call.remaining > 0
    BY <1>1, <2>1
  <2>3. EngineProofs!Matching
    BY <1>2, EngineParameters, EngineProofs!InTheLoop
  <2> QED  BY <2>2, <2>3 DEF EngineProofs!Matching, EngineProofs!Incoming, EngineProofs!Live
<1>7. \A id \in DOMAIN states :
        id \in Known' <=> id \in Known /\ ~ (id \in {maker, call.id} /\ Over(id))
  <2>1. \A id \in DOMAIN states : Kind(id)' <=> Kind(id)
    BY <1>1, <1>2, <1>3, <1>5 DEF Kind
  <2>2. \A id \in DOMAIN states :
          EngineProofs!Live(id)' <=> EngineProofs!Live(id) /\ ~ (id \in {maker, call.id} /\ Over(id))
    BY <1>1, <1>2, <1>6 DEF EngineProofs!Live
  <2>3. Known = {id \in DOMAIN states : EngineProofs!Live(id) /\ Kind(id)}
    BY DEF Known, Followed, Kind
  <2>4. Known' = {id \in DOMAIN states' : EngineProofs!Live(id)' /\ Kind(id)'}
    BY DEF Known, Followed, Kind
  <2> QED  BY <1>2, <2>1, <2>2, <2>3, <2>4
<1>8. /\ DOMAIN View = Known /\ Known \subseteq DOMAIN states
      /\ \A id \in Known : View[id] = Shown(states[id], id)
      /\ Known' \subseteq DOMAIN states
      /\ View' = [id \in Known' |-> Shown(states'[id], id)]
  BY <1>2 DEF View, Known
<1>9. /\ DOMAIN one = Known \ {id \in {maker} : Over(id)}
      /\ \A id \in DOMAIN one :
           one[id] = Shown(IF id = maker THEN states'[id] ELSE states[id], id)
      /\ one = [id \in DOMAIN one |-> one[id]]
  BY <1>8 DEF Updated, Without, With, View
<1> HIDE DEF one
<1>10. /\ DOMAIN two = DOMAIN one \ {id \in {call.id} : Over(id)}
       /\ \A id \in DOMAIN two :
            two[id] = IF id = call.id THEN Shown(states'[id], id) ELSE one[id]
       /\ two = [id \in DOMAIN two |-> two[id]]
  BY <1>9 DEF Updated, Without, With
<1> HIDE DEF two, Over
<1>11. DOMAIN two = Known'
  BY <1>7, <1>8, <1>9, <1>10
<1>12. \A id \in Known' : two[id] = Shown(states'[id], id)
  <2> TAKE id \in Known'
  <2>1. CASE id = call.id
    BY <1>10, <1>11, <2>1
  <2>2. CASE id = maker
    BY <1>1, <1>9, <1>10, <1>11, <2>2
  <2>3. CASE id \notin {maker, call.id}
    BY <1>2, <1>8, <1>9, <1>10, <1>11, <2>3
  <2> QED  BY <2>1, <2>2, <2>3
<1>13. View' = two
  BY <1>8, <1>10, <1>11, <1>12
<1> QED  BY <1>1, <1>2, <1>3, <1>4, <1>13 DEF one, two

\* What ends a call leaves the view alone.
LEMMA EndShows ==
  ASSUME EngineProofs!Agreed,
         \/ EngineProofs!RestRemainder \/ EngineProofs!CancelRemainder
         \/ EngineProofs!NothingRemains
  PROVE  View' = View /\ DOMAIN states' = DOMAIN states
<1>1. /\ pc = "match" /\ call'.id = 0 /\ call' = EngineProofs!NoCall
  BY DEF EngineProofs!RestRemainder, EngineProofs!CancelRemainder,
     EngineProofs!NothingRemains, EngineProofs!NoCall
<1>2. EngineProofs!Matching /\ 0 \notin DOMAIN states
  BY <1>1, EngineParameters, EngineProofs!InTheLoop, StateIs
<1>3. CASE EngineProofs!RestRemainder
  <2>1. /\ states' = states /\ call.tif = "Gtc" /\ states[call.id].type = "Limit"
    BY <1>3 DEF EngineProofs!RestRemainder, EngineProofs!RestsRemainder, EngineProofs!Incoming
  <2> QED  BY <1>1, <1>2, <2>1, ViewSame DEF Followed, EngineProofs!Live
<1>4. CASE EngineProofs!NothingRemains
  <2>1. states' = states /\ ~ EngineProofs!Live(call.id)
    BY <1>2, <1>4 DEF EngineProofs!NothingRemains, EngineProofs!Matching,
       EngineProofs!Incoming, EngineProofs!Live
  <2> QED  BY <1>1, <1>2, <2>1, ViewSame DEF Followed, EngineProofs!Live
<1>5. CASE EngineProofs!CancelRemainder
  <2> DEFINE state == [states[call.id] EXCEPT !.status = "Canceled"]
  <2>1. /\ states' = [states EXCEPT ![call.id] = state]
        /\ ~ (call.tif = "Gtc" /\ states[call.id].type = "Limit")
    BY <1>5 DEF EngineProofs!CancelRemainder, EngineProofs!CancelsRemainder,
       EngineProofs!RestsRemainder, EngineProofs!Incoming
  <2>2. states[call.id] \in EngineProofs!State /\ call.id \in DOMAIN states
    BY <1>2 DEF EngineProofs!Matching, EngineProofs!Incoming
  <2>3. state.status \in EngineProofs!Terminal
    BY <2>2 DEF EngineProofs!State, EngineProofs!Terminal
  <2> HIDE DEF state
  <2>4. /\ DOMAIN states' = DOMAIN states /\ states'[call.id] = state
        /\ \A id \in DOMAIN states \ {call.id} : states'[id] = states[id]
    BY <2>1, <2>2
  <2>5. \A id \in DOMAIN states : id \in Known' <=> id \in Known
    BY <1>1, <1>2, <2>1, <2>3, <2>4 DEF Known, Followed, EngineProofs!Live
  <2>6. Known' = Known /\ call.id \notin Known
    BY <2>1, <2>4, <2>5 DEF Known, Followed
  <2>7. \A id \in Known : states'[id] = states[id]
    BY <2>4, <2>6 DEF Known
  <2> QED  BY <2>4, <2>6, <2>7 DEF View
<1> QED  BY <1>3, <1>4, <1>5

-------------------------------------------------------------------------------
(* The two together.                                                       *)

CallerInv ==
  /\ limits \in LimitSets
  /\ asked = 0 => pc = "idle"
  /\ DOMAIN owner = DOMAIN states /\ Names(owner)
  /\ \A id \in DOMAIN owner : owner[id] \in used
  /\ seen \subseteq used /\ 0 \notin used
  /\ DOMAIN market \subseteq {Symbol}

\* Between calls the gateway sees the engine's orders; during one it will, once it
\* has heard the reports so far.
FollowsEngine ==
  forgotten = {} =>
    \E w : /\ Sees(w, owner, View) /\ Within(w)
           /\ \/ asked = 0 /\ w = working
              \/ asked # 0 /\ \E f : /\ FoldsUp(working, reports, owner, asked, limits.stp, f)
                                    /\ w = f[Len(reports)]

GatedInv == EngineProofs!Agreed /\ CallerInv /\ FollowsEngine

\* A step that neither calls the engine nor delivers anything.
LEMMA StaysQuiet ==
  ASSUME FollowsEngine, asked = 0, asked' = 0, UNCHANGED engineVars, owner' = owner,
         limits' = limits, working' = working, forgotten' = {} => forgotten = {}
  PROVE  FollowsEngine'
<1>1. states' = states /\ call' = call
  BY DEF engineVars
<1>2. View' = View
  BY <1>1, ViewSame DEF Followed, EngineProofs!Live
<1>3. SUFFICES ASSUME forgotten' = {}
               PROVE  Sees(working', owner', View') /\ Within(working)'
  BY DEF FollowsEngine
<1>4. Sees(working, owner, View) /\ Within(working)
  BY <1>3 DEF FollowsEngine
<1> QED  BY <1>2, <1>4 DEF Within

\* A call's first report.
LEMMA StartsCall ==
  ASSUME asked' # 0, NEW report, reports' = <<report>>, limits' = limits,
         NEW w, w = OnReport(working', Heard(report, owner', asked'), limits.stp),
         Sees(w, owner', View'), limits.maxOpen > 0 => AtMost(w, limits.maxOpen)
  PROVE  FollowsEngine'
<1>1. \E f : /\ FoldsUp(working', <<report>>, owner', asked', limits'.stp, f)
             /\ f[Len(<<report>>)] = w
  BY FoldStart
<1> QED  BY <1>1 DEF FollowsEngine, Within

\* What a check makes of the working orders.
LEMMA CheckedNew ==
  ASSUME Preventing, limits \in LimitSets, NEW r, NEW c, CheckNewOrder(r, c)
  PROVE  /\ limits' = limits /\ market' = market
         /\ ~ LetThrough(c) => working' = working
         /\ LetThrough(c) => /\ NewOrderPasses(r, c)
                             /\ working' = Register(working, r, c, limits.stp)
<1> USE DEF controls, inputs, orders
<1>1. limits' = limits /\ market' = market /\ limits.stp = TRUE
  BY DEF CheckNewOrder, Preventing
<1>2. CASE UNCHANGED <<accepted, working>>
  BY <1>1, <1>2 DEF LetThrough
<1>3. CASE NewOrderPasses(r, c) /\ AcceptNew(r, c)
  <2>1. LetThrough(c)
    BY <1>3 DEF LetThrough, NewOrderPasses, AcceptNew
  <2> QED  BY <1>1, <1>3, <2>1 DEF AcceptNew, TracksWorkingOrders
<1> QED  BY <1>2, <1>3 DEF CheckNewOrder, RefuseUncounted, RefuseCounted

\* The same of a replacement.
LEMMA CheckedReplace ==
  ASSUME NEW id, NEW price, NEW quantity, NEW c, CheckReplaceOrder(id, price, quantity, c)
  PROVE  /\ limits' = limits /\ market' = market
         /\ ~ LetThrough(c) => working' = working
         /\ LetThrough(c) =>
              \E target \in Replaceable(id) :
                 /\ WithinLimits(Replacement(working.orders[target], price, quantity),
                                 working.orders[target].quantity)
                 /\ quantity > 0 /\ price > 0
                 /\ working' = Resize(working, target, price, quantity, limits.stp)
<1> USE DEF controls, inputs, orders
<1>1. limits' = limits /\ market' = market
  BY DEF CheckReplaceOrder
<1>2. CASE UNCHANGED <<accepted, working>>
  BY <1>1, <1>2 DEF LetThrough
<1>3. ASSUME quantity > 0, price > 0, c \notin accepted, NEW target \in Replaceable(id),
             WithinLimits(Replacement(working.orders[target], price, quantity),
                          working.orders[target].quantity),
             AcceptReplace(target, price, quantity, c)
      PROVE  /\ LetThrough(c)
             /\ working' = Resize(working, target, price, quantity, limits.stp)
  BY <1>3 DEF LetThrough, AcceptReplace
<1> QED  BY <1>1, <1>2, <1>3 DEF CheckReplaceOrder, RefuseUncounted, RefuseCounted

\* The open quantity a check reads is a number.
LEMMA TotalsAreNumbers ==
  ASSUME NEW w, Kept(w), NEW s \in DOMAIN w.total
  PROVE  w.total[s] \in Nat
<1>1. PICK c \in DOMAIN w.orders : s = w.orders[c].symbol
  BY DEF Kept, TotalsMatch, AddsUp, SymbolsOf
<1> QED  BY <1>1, SumCovers

\* The gateway follows an order it lets through, whether the engine accepts it or
\* not.
LEMMA SubmitFollows ==
  ASSUME Preventing, GatedInv, EngineProofs!Agreed', NEW r \in NewRequests,
         NEW c \in ClientOrderIds, SubmitOrder(r, c)
  PROVE  FollowsEngine'
<1>1. /\ asked = 0 /\ c \notin used /\ forgotten' = forgotten /\ c # 0
      /\ limits' = limits /\ limits \in LimitSets
  BY GatedAssumption, CheckedNew DEF SubmitOrder, Uses, Quiet, GatedInv, CallerInv
<1>2. CASE HeldBack(c)
  <2>1. working' = working
    BY <1>1, <1>2, CheckedNew DEF SubmitOrder, HeldBack
  <2> QED  BY <1>1, <1>2, <2>1, StaysQuiet DEF HeldBack, GatedInv
<1>3. CASE LetThrough(c) /\ asked' = c /\ forgotten = {}
           /\ \/ Engine!SubmitRefused(r, c) /\ owner' = owner
              \/ Engine!SubmitAccepted(r, c) /\ owner' = With(owner, nextId, c)
  <2> DEFINE stp == limits.stp
             bound == limits.maxOpen
  <2>1. Sees(working, owner, View) /\ Within(working)
    BY <1>1, <1>3 DEF GatedInv, FollowsEngine
  <2>2. NewOrderPasses(r, c) /\ working' = Register(working, r, c, stp)
    BY <1>1, <1>3, CheckedNew DEF SubmitOrder
  <2>3. /\ stp /\ bound \in Int /\ r.quantity \in Nat \ {0}
        /\ (r.type = "Limit" => r.price > 0) /\ r.price \in Int
    <3>1. r.quantity \in Int /\ r.price \in Int
      BY GatedAssumption
    <3> QED  BY <1>1, <2>2, <3>1, GatedAssumption DEF Preventing, NewOrderPasses
  <2>4. bound > 0 => AtMost(working', bound)
    <3>1. SUFFICES ASSUME bound > 0 PROVE AtMost(Register(working, r, c, stp), bound)
      BY <2>2
    <3>2. DOMAIN working = Fields /\ Kept(working)
      BY <2>1 DEF Sees, Kept
    <3>3. WorkingQuantity(r.symbol) \in Nat
      BY <3>2, TotalsAreNumbers DEF WorkingQuantity
    <3>4. r.type = "Limit" /\ r.tif = "Gtc" => r.quantity + WorkingQuantity(r.symbol) <= bound
      <4>1. r.type = "Limit" /\ r.tif = "Gtc" => OpenQuantity(r, 0) <= bound
        BY <2>2, <3>1 DEF NewOrderPasses, WithinLimits
      <4>2. OpenQuantity(r, 0) = r.quantity + WorkingQuantity(r.symbol)
        BY <2>3, <3>3 DEF OpenQuantity
      <4> QED  BY <4>1, <4>2
    <3>5. AtMost(working, bound)
      BY <2>1, <3>1 DEF Within
    <3> QED  BY <2>3, <3>2, <3>4, <3>5, RegisterAtMost DEF WorkingQuantity
  <2>5. /\ \A j \in DOMAIN owner : owner[j] # c
        /\ pc = "idle"
    BY <1>1 DEF GatedInv, CallerInv
  <2> HIDE DEF stp, bound
  <2>6. CASE Engine!SubmitRefused(r, c) /\ owner' = owner
    <3>1. EngineProofs!SubmitRefused(r, c)
      BY <2>6, SameSubmit
    <3>2. PICK ids : EngineProofs!Refused(ids)
      BY <3>1 DEF EngineProofs!SubmitRefused
    <3>3. View' = View /\ reports' = <<EngineProofs!Reject>>
      BY <3>2, ViewRefused DEF EngineProofs!Refused
    <3> DEFINE h == Heard(EngineProofs!Reject, owner', asked')
               w == OnReport(working', h, stp)
    <3>4. h.clOrdId = c /\ h.exchange = 0 /\ Ends(h)
      BY <1>3 DEF Heard, EngineProofs!Reject, Ends
    <3> HIDE DEF h
    <3>5. Sees(w, owner', View') /\ (AtMost(working', bound) => AtMost(w, bound))
      BY <1>1, <2>1, <2>2, <2>3, <2>5, <2>6, <3>3, <3>4, HearsReject
    <3>6. w = OnReport(working', Heard(EngineProofs!Reject, owner', asked'), limits.stp)
      BY DEF h, stp
    <3> HIDE DEF w
    <3> QED  BY <1>1, <1>3, <2>4, <3>3, <3>5, <3>6, StartsCall DEF bound
  <2>7. CASE Engine!SubmitAccepted(r, c) /\ owner' = With(owner, nextId, c)
    <3> DEFINE state == states'[nextId]
               report == EngineProofs!Report(nextId, state, "New", 0, 0)
               h == Heard(report, owner', asked')
               w == OnReport(working', h, stp)
    <3>1. EngineProofs!SubmitAccepted(r, c)
      BY <2>7, SameSubmit
    <3>2. /\ DOMAIN states' = DOMAIN states \cup {nextId}
          /\ state.original = r.quantity /\ state.filled = 0 /\ state.status = "New"
          /\ state.type = r.type /\ state.limit = r.price
          /\ reports' = <<report>>
          /\ View' = IF r.type = "Limit" /\ r.tif = "Gtc"
                     THEN With(View, nextId, [Registered(r) EXCEPT !.exchange = nextId])
                     ELSE View
      BY <3>1, SubmitShows DEF GatedInv
    <3>3. nextId \notin DOMAIN owner /\ nextId # 0
      BY <2>5, IdleIs DEF GatedInv, CallerInv
    <3>4. state.status \notin EngineProofs!Terminal
      BY <3>2 DEF EngineProofs!Terminal
    <3> HIDE DEF state
    <3>5. EngineProofs!RemainingQuantity(state) = r.quantity
      BY <2>3, <3>2 DEF EngineProofs!RemainingQuantity
    <3>6. /\ report.id = nextId /\ report.exec = "New" /\ report.status = "New"
          /\ report.remaining = r.quantity
          /\ r.type = "Limit" => report.restingPrice = r.price
      BY <2>3, <3>2, <3>4, <3>5 DEF EngineProofs!Report
    <3>7. owner'[nextId] = c
      BY <2>7 DEF With
    <3> HIDE DEF report
    <3>8. /\ h.clOrdId = c /\ h.exchange = nextId /\ h.remaining = r.quantity /\ ~ Ends(h)
          /\ r.type = "Limit" => h.restingPrice = r.price
      BY <2>3, <3>3, <3>6, <3>7 DEF Heard, Ends
    <3>9. w = OnReport(working', Heard(report, owner', asked'), limits.stp)
      BY DEF stp
    <3> HIDE DEF h
    <3>10. Sees(w, owner', View') /\ (AtMost(working', bound) => AtMost(w, bound))
      <4>1. CASE r.type = "Limit" /\ r.tif = "Gtc"
        <5>1. LET after == OnReport(Register(working, r, c, stp), h, stp)
              IN  /\ Sees(after, With(owner, nextId, c),
                          With(View, nextId, [Registered(r) EXCEPT !.exchange = nextId]))
                  /\ AtMost(Register(working, r, c, stp), bound) => AtMost(after, bound)
          BY <1>1, <2>1, <2>3, <2>5, <3>3, <3>8, <4>1, HearsNew
        <5> QED  BY <2>2, <2>7, <3>2, <4>1, <5>1
      <4>2. CASE ~ (r.type = "Limit" /\ r.tif = "Gtc")
        <5>1. working' = working /\ View' = View
          BY <2>2, <3>2, <4>2 DEF Register
        <5>2. Sees(working, owner', View)
          BY <1>1, <2>1, <2>5, <2>7, <3>3, OwnersGrow
        <5>3. nextId \in DOMAIN owner' /\ owner'[nextId] = c
          BY <2>7 DEF With
        <5>4. nextId \notin DOMAIN View
          BY <2>1, <3>3 DEF Sees
        <5>5. w = working
          BY <3>8, <5>1, <5>2, <5>3, <5>4, HearsOther
        <5> QED  BY <5>1, <5>2, <5>5
      <4> QED  BY <4>1, <4>2
    <3> HIDE DEF w
    <3> QED  BY <1>1, <1>3, <2>4, <3>2, <3>9, <3>10, StartsCall DEF bound
  <2> QED  BY <1>3, <2>6, <2>7
<1>4. CASE forgotten # {}
  BY <1>1, <1>4 DEF FollowsEngine
<1> QED  BY <1>2, <1>3, <1>4 DEF SubmitOrder

\* What the engine would refuse for self trade the gateway does not let through.
LEMMA WouldCross ==
  ASSUME Preventing, EngineProofs!Agreed, pc = "idle", Sees(working, owner, View),
         limits.stp, NEW r, ~ r.postOnly, r.symbol = Symbol, r.side \in {"Buy", "Sell"},
         r.price \in Int, NEW excluded,
         EngineProofs!WouldSelfTrade(r.side, r.type, r.price, r.client, excluded)
  PROVE  CrossesOwn(r)
<1>1. PICK id \in DOMAIN states :
         /\ states[id].client = r.client
         /\ states[id].side = EngineProofs!Opposite(r.side)
         /\ EngineProofs!Resting(book, id)
         /\ EngineProofs!Reaches(r.side, r.type, r.price, states[id].limit)
  BY DEF EngineProofs!WouldSelfTrade
<1>2. id \in Known
  BY <1>1, IdleIs DEF EngineProofs!Resting
<1>3. /\ owner[id] \in DOMAIN working.orders
      /\ working.orders[owner[id]] = Shown(states[id], id)
  BY <1>2 DEF Sees, View
<1> DEFINE key == BookKey(Shown(states[id], id))
<1>4. /\ key.client = r.client /\ key.symbol = r.symbol /\ key.price = states[id].limit
      /\ key.side = Opposing(r.side)
  BY <1>1 DEF BookKey, Shown, Opposing, EngineProofs!Opposite
<1>5. key \in DOMAIN working.books
  <2>1. AddsUp(working.books, PlacesOf(working.orders), Amounts(working.orders))
    BY DEF Sees, Kept, BooksMatch
  <2>2. PlacesOf(working.orders)[owner[id]] = key /\ owner[id] \in DOMAIN PlacesOf(working.orders)
    BY <1>3 DEF PlacesOf
  <2> HIDE DEF key
  <2> QED  BY <2>1, <2>2 DEF AddsUp
<1>6. states[id].limit \in Int
  BY StateIs DEF EngineProofs!State
<1> HIDE DEF key
<1>7. \/ r.type = "Market"
      \/ IF r.side = "Buy" THEN r.price >= key.price ELSE r.price <= key.price
  BY <1>1, <1>4, <1>6 DEF EngineProofs!Reaches, EngineProofs!Better
<1> QED  BY <1>4, <1>5, <1>7 DEF CrossesOwn

\* The order a replacement is for rests, tracked under the client order id it was
\* sent with.
LEMMA ReplaceableIs ==
  ASSUME EngineProofs!Agreed, pc = "idle", Sees(working, owner, View),
         NEW id, NEW target \in Replaceable(id)
  PROVE  /\ id \in DOMAIN View /\ id \in DOMAIN book.nodes /\ id \in DOMAIN states
         /\ target = owner[id] /\ working.orders[target] = Shown(states[id], id)
<1>1. /\ id \in DOMAIN working.boundTo /\ target = working.boundTo[id]
      /\ target \in DOMAIN working.orders
  BY DEF Replaceable
<1>2. working.orders[target].exchange = id
  BY <1>1 DEF Sees, BindingsMatch
<1>3. PICK j \in DOMAIN View : target = owner[j]
  BY <1>1 DEF Sees
<1>4. working.orders[target] = View[j] /\ View[j].exchange = j
  BY <1>3 DEF Sees
<1>5. j = id
  BY <1>2, <1>4
<1>6. DOMAIN View = DOMAIN book.nodes /\ View[id] = Shown(states[id], id) /\ id \in DOMAIN states
  BY <1>3, <1>5, IdleIs DEF View, Known
<1> QED  BY <1>3, <1>4, <1>5, <1>6

\* A replacement let through is not refused.
LEMMA ReplaceAccepts ==
  ASSUME Preventing, GatedInv, forgotten = {}, NEW id, NEW price \in ReplacePrices,
         NEW quantity \in ReplaceQuantities, NEW c \in ClientOrderIds,
         ReplaceOrder(id, price, quantity, c), LetThrough(c)
  PROVE  EngineProofs!ReplaceAccepted(id, price, quantity, c)
<1>1. /\ asked = 0 /\ pc = "idle" /\ c \notin seen /\ c # 0 /\ limits.stp = TRUE
      /\ Sees(working, owner, View)
  BY GatedAssumption DEF ReplaceOrder, Uses, Quiet, GatedInv, CallerInv, FollowsEngine, Preventing
<1>2. PICK target \in Replaceable(id) :
        /\ WithinLimits(Replacement(working.orders[target], price, quantity),
                        working.orders[target].quantity)
        /\ quantity > 0 /\ price > 0
  BY CheckedReplace DEF ReplaceOrder
<1>3. /\ id \in DOMAIN book.nodes /\ id \in DOMAIN states
      /\ working.orders[target] = Shown(states[id], id)
  BY <1>1, ReplaceableIs DEF GatedInv
<1> DEFINE r == Replacement(Shown(states[id], id), price, quantity)
<1>4. /\ r.client = states[id].client /\ r.symbol = Symbol /\ r.side = states[id].side
      /\ r.type = "Limit" /\ r.price = price /\ ~ r.postOnly
  BY DEF Replacement, Shown
<1>5. ~ CrossesOwn(r)
  BY <1>2, <1>3 DEF WithinLimits
<1>6. states[id].type = "Limit" /\ states[id].side \in {"Buy", "Sell"} /\ price \in Int
  <2>1. states[id].type = "Limit"
    BY <1>3, EngineParameters, EngineProofs!NodeIs DEF GatedInv, EngineProofs!Agreed
  <2>2. states[id] \in EngineProofs!State
    BY <1>3, StateIs DEF GatedInv
  <2> QED  BY <2>1, <2>2, GatedAssumption DEF EngineProofs!State, EngineProofs!Sides
<1> HIDE DEF r
<1>7. ~ EngineProofs!ReplaceWouldSelfTrade(id, price)
  BY <1>1, <1>4, <1>5, <1>6, WouldCross DEF GatedInv, EngineProofs!ReplaceWouldSelfTrade
<1>8. ~ Engine!ReplaceRefused(id, price, quantity, c)
  <2>1. EngineProofs!Resting(book, id) /\ EngineProofs!Reservable(c)
    BY <1>1, <1>3 DEF EngineProofs!Resting, EngineProofs!Reservable
  <2>2. price \in Nat /\ quantity \in Nat
    BY GatedAssumption
  <2>3. ~ EngineProofs!ReplaceRefused(id, price, quantity, c)
    BY <1>2, <1>7, <2>1, <2>2 DEF EngineProofs!ReplaceRefused
  <2> QED  BY <2>3, SameReplace
<1>9. Engine!ReplaceAccepted(id, price, quantity, c)
  BY <1>8 DEF ReplaceOrder, HeldBack
<1> QED  BY <1>9, SameReplace

\* The gateway follows a replacement.
LEMMA ReplaceFollows ==
  ASSUME Preventing, GatedInv, EngineProofs!Agreed', NEW id, NEW price \in ReplacePrices,
         NEW quantity \in ReplaceQuantities, NEW c \in ClientOrderIds,
         ReplaceOrder(id, price, quantity, c)
  PROVE  FollowsEngine'
<1>1. /\ asked = 0 /\ forgotten' = forgotten /\ c # 0 /\ pc = "idle"
      /\ limits' = limits /\ limits \in LimitSets /\ limits.stp = TRUE
  BY GatedAssumption, CheckedReplace
     DEF ReplaceOrder, Uses, Quiet, GatedInv, CallerInv, Preventing
<1>2. CASE HeldBack(c)
  <2>1. working' = working
    BY <1>2, CheckedReplace DEF ReplaceOrder, HeldBack
  <2> QED  BY <1>1, <1>2, <2>1, StaysQuiet DEF HeldBack, GatedInv
<1>3. CASE LetThrough(c) /\ asked' = c /\ owner' = owner /\ forgotten = {}
  <2> DEFINE bound == limits.maxOpen
             state == states'[id]
             report == EngineProofs!Report(id, state, "Replaced", 0, 0)
             h == Heard(report, owner, asked')
             w == OnReport(working', h, limits.stp)
  <2>1. Sees(working, owner, View) /\ Within(working) /\ Kept(working)
    BY <1>1, <1>3 DEF GatedInv, FollowsEngine, Sees
  <2>2. PICK target \in Replaceable(id) :
          /\ WithinLimits(Replacement(working.orders[target], price, quantity),
                          working.orders[target].quantity)
          /\ quantity > 0 /\ price > 0
          /\ working' = Resize(working, target, price, quantity, limits.stp)
    BY <1>3, CheckedReplace DEF ReplaceOrder
  <2>3. /\ id \in DOMAIN View /\ id \in DOMAIN states /\ target = owner[id]
        /\ working.orders[target] = Shown(states[id], id)
    BY <1>1, <2>1, ReplaceableIs DEF GatedInv
  <2>4. /\ price \in Nat \ {0} /\ quantity \in Nat \ {0} /\ bound \in Int
        /\ target \in DOMAIN working.orders
    BY <1>1, <2>2, GatedAssumption DEF Replaceable
  <2>5. /\ DOMAIN states' = DOMAIN states
        /\ state.client = states[id].client /\ state.side = states[id].side
        /\ state.type = "Limit" /\ state.limit = price
        /\ state.status = "Replaced" /\ state.original - state.filled = quantity
        /\ reports' = <<report>>
        /\ View' = With(View, id, Shown(state, id))
    BY <1>3, <2>4, ReplaceAccepts, ReplaceShows DEF GatedInv
  <2>6. bound > 0 => AtMost(working', bound)
    <3>1. SUFFICES ASSUME bound > 0 PROVE AtMost(working', bound)
      OBVIOUS
    <3> DEFINE s == working.orders[target].symbol
               q == working.orders[target].quantity
               r == Replacement(working.orders[target], price, quantity)
    <3>2. /\ s \in DOMAIN working.total /\ working.total[s] \in Nat /\ q \in Nat \ {0}
      BY <2>1, <2>4, SumCovers
    <3>3. r.symbol = s /\ r.quantity = quantity /\ r.type = "Limit" /\ r.tif = "Gtc"
      BY DEF Replacement
    <3> HIDE DEF r, q, s
    <3>4. OpenQuantity(r, q) <= bound
      BY <2>2, <3>1, <3>3 DEF WithinLimits, r, q
    <3>5. OpenQuantity(r, q) = working.total[s] - q + quantity
      BY <3>2, <3>3 DEF OpenQuantity, WorkingQuantity
    <3>6. AtMost(working, bound)
      BY <2>1, <3>1 DEF Within
    <3>7. working.total[s] - q + quantity <= bound
      BY <3>4, <3>5
    <3> HIDE DEF bound
    <3> QED  BY <2>1, <2>2, <2>4, <3>6, <3>7, ResizeAtMost DEF s, q
  <2>7. Repriced(View[id], price, quantity) = Shown(state, id)
    <3>1. View[id] = Shown(states[id], id)
      BY <2>3 DEF View
    <3> QED  BY <2>5, <3>1, ShownRepriced
  <2>8. Sees(working', owner, View')
    BY <2>1, <2>2, <2>3, <2>4, <2>5, <2>7, ResizeSees, <1>1
  <2> HIDE DEF bound, state
  <2>9. /\ state \in EngineProofs!State /\ state.filled <= state.original
        /\ state.status \notin EngineProofs!Terminal => state.filled < state.original
        /\ state.original \in Nat /\ state.filled \in Nat /\ state.limit \in Nat \ {0}
    <3>1. id \in DOMAIN states'
      BY <2>3, <2>5
    <3> QED  BY <2>5, <3>1, StateIsNext DEF state
  <2>10. id \in DOMAIN View' /\ View'[id] = Shown(state, id) /\ id \in DOMAIN owner
    BY <2>1, <2>3, <2>5 DEF With, Sees
  <2>11. Follows(View'[id], state, id)
    BY <2>5, <2>9, <2>10 DEF Follows
  <2>12. Updated(View', id, state) = View'
    <3>1. state.status \notin EngineProofs!Terminal
      BY <2>5 DEF EngineProofs!Terminal
    <3>2. Updated(View', id, state) = With(View', id, Shown(state, id))
      BY <2>10, <3>1 DEF Updated
    <3> QED  BY <2>5, <3>2 DEF With
  <2>13. Sees(w, owner, View') /\ (AtMost(working', bound) => AtMost(w, bound))
    <3>1. /\ Sees(w, owner, Updated(View', id, state))
          /\ AtMost(working', bound) => AtMost(w, bound)
      <4>1. bound \in Int /\ (Preventing => limits.stp)
        BY <1>1, <2>4
      <4> QED  BY <2>8, <2>9, <2>10, <2>11, <4>1, Hears
    <3> QED  BY <2>12, <3>1
  <2>14. w = OnReport(working', Heard(report, owner', asked'), limits.stp)
    BY <1>3
  <2> HIDE DEF w, report
  <2> QED  BY <1>1, <1>3, <2>5, <2>6, <2>13, <2>14, StartsCall DEF bound
<1>4. CASE forgotten # {}
  BY <1>1, <1>4 DEF FollowsEngine
<1> QED  BY <1>2, <1>3, <1>4 DEF ReplaceOrder

\* A report with a client order id the gateway does not know, and no exchange order
\* id, is about nothing.
LEMMA HearsNobody ==
  ASSUME NEW w, NEW own, NEW view, Sees(w, own, view), NEW h, h.exchange = 0,
         \A j \in DOMAIN own : own[j] # h.clOrdId, NEW stp
  PROVE  OnReport(w, h, stp) = w
<1>1. h.clOrdId \notin DOMAIN w.orders
  BY DEF Sees
<1>2. 0 \notin DOMAIN w.boundTo
  <2>1. SUFFICES ASSUME 0 \in DOMAIN w.boundTo PROVE FALSE
    OBVIOUS
  <2>2. PICK j \in DOMAIN view : own[j] = w.boundTo[0] /\ w.orders[own[j]].exchange = 0
    BY <2>1 DEF Sees, BindingsMatch
  <2>3. view[j].exchange = 0 /\ view[j].exchange = j /\ j \in DOMAIN own
    BY <2>2 DEF Sees
  <2> QED  BY <2>3 DEF Sees, Names
<1>3. Subject(w, h) = {}
  BY <1>1, <1>2 DEF Subject
<1> QED  BY <1>3 DEF OnReport

\* A cancellation, refused or not.
LEMMA CancelFollows ==
  ASSUME Preventing, GatedInv, EngineProofs!Agreed', NEW id, NEW c \in CancelIds,
         CancelOrder(id, c)
  PROVE  FollowsEngine'
<1>1. /\ asked = 0 /\ c \notin used /\ forgotten' = forgotten /\ c # 0 /\ asked' = c
      /\ limits' = limits /\ working' = working /\ owner' = owner
      /\ limits \in LimitSets /\ limits.stp = TRUE
  BY GatedAssumption DEF CancelOrder, Uses, Quiet, GatedInv, CallerInv, Preventing,
     gatewayVars, controls, orders
<1>2. CASE forgotten # {}
  BY <1>1, <1>2 DEF FollowsEngine
<1>3. CASE forgotten = {}
  <2> DEFINE bound == limits.maxOpen
  <2>1. Sees(working, owner, View) /\ Within(working)
    BY <1>1, <1>3 DEF GatedInv, FollowsEngine
  <2>2. /\ \A j \in DOMAIN owner : owner[j] # c
        /\ DOMAIN owner = DOMAIN states
    BY <1>1 DEF GatedInv, CallerInv
  <2>3. bound \in Int
    BY <1>1, GatedAssumption
  <2>4. bound > 0 => AtMost(working, bound)
    BY <2>1 DEF Within
  <2> HIDE DEF bound
  <2>5. CASE Engine!CancelRefused(id, c)
    <3>1. PICK ids : EngineProofs!Refused(ids)
      BY <2>5, SameCancel DEF EngineProofs!CancelRefused
    <3>2. View' = View /\ reports' = <<EngineProofs!Reject>>
      BY <3>1, ViewRefused DEF EngineProofs!Refused
    <3> DEFINE h == Heard(EngineProofs!Reject, owner', asked')
    <3>3. h.clOrdId = c /\ h.exchange = 0
      BY <1>1 DEF Heard, EngineProofs!Reject
    <3> HIDE DEF h
    <3>4. working' = OnReport(working', h, limits.stp)
      BY <1>1, <2>1, <2>2, <3>3, HearsNobody
    <3> QED  BY <1>1, <2>1, <2>4, <3>2, <3>4, StartsCall DEF h, bound
  <2>6. CASE Engine!CancelAccepted(id, c)
    <3> DEFINE state == states'[id]
               report == EngineProofs!Report(id, state, "Canceled", 0, 0)
               w == OnReport(working, Heard(report, owner, asked'), limits.stp)
    <3>1. EngineProofs!CancelAccepted(id, c)
      BY <2>6, SameCancel
    <3>2. /\ DOMAIN states' = DOMAIN states /\ id \in DOMAIN states
          /\ state = [states[id] EXCEPT !.status = "Canceled"]
          /\ reports' = <<report>> /\ View' = Updated(View, id, state)
      BY <3>1, CancelShows DEF GatedInv
    <3>3. /\ state \in EngineProofs!State /\ state.filled <= state.original
          /\ state.status \notin EngineProofs!Terminal => state.filled < state.original
      BY <3>2, StateIsNext
    <3>4. id \in DOMAIN View => Follows(View[id], state, id)
      <4>1. SUFFICES ASSUME id \in DOMAIN View PROVE Follows(View[id], state, id)
        OBVIOUS
      <4>2. View[id] = Shown(states[id], id) /\ states[id].type = "Limit"
        <5>1. Followed(id) /\ View[id] = Shown(states[id], id)
          BY <4>1 DEF View, Known
        <5>2. call.id = 0 /\ pc = "idle"
          BY <3>1, IdleIs DEF GatedInv, EngineProofs!CancelAccepted
        <5>3. id \in DOMAIN book.nodes
          BY <4>1, <5>2, IdleIs DEF GatedInv, View
        <5> QED  BY <5>1, <5>3, EngineParameters, EngineProofs!NodeIs
                 DEF GatedInv, EngineProofs!Agreed
      <4>3. /\ states[id] \in EngineProofs!State /\ states[id].original \in Nat
            /\ states[id].filled \in Nat /\ states[id].limit \in Nat \ {0}
        BY <3>2, <4>2, StateIs DEF GatedInv
      <4>4. /\ state.client = states[id].client /\ state.side = states[id].side
            /\ state.type = states[id].type /\ state.limit = states[id].limit
            /\ state.original = states[id].original /\ state.filled = states[id].filled
        BY <3>2, <4>3 DEF EngineProofs!State
      <4> HIDE DEF state
      <4>5. state.original - state.filled <= states[id].original - states[id].filled
            /\ states[id].original - states[id].filled \in Int
        BY <4>3, <4>4
      <4> QED  BY <4>2, <4>3, <4>4, <4>5 DEF Follows
    <3> HIDE DEF state
    <3>5. /\ Sees(w, owner, Updated(View, id, state))
          /\ AtMost(working, bound) => AtMost(w, bound)
      <4>1. (Preventing => limits.stp) /\ id \in DOMAIN owner /\ Sees(working, owner, View)
        BY <1>1, <2>1, <2>2, <3>2
      <4> QED  BY <2>3, <3>3, <3>4, <4>1, Hears
    <3>6. w = OnReport(working', Heard(report, owner', asked'), limits.stp)
      BY <1>1
    <3> HIDE DEF w, report
    <3> QED  BY <1>1, <2>4, <3>2, <3>5, <3>6, StartsCall DEF bound
  <2> QED  BY <2>5, <2>6 DEF CancelOrder
<1> QED  BY <1>2, <1>3

\* A report more about an order the engine knows.
LEMMA HearsMore ==
  ASSUME Preventing, NEW list \in Seq(EngineProofs!ReportType), NEW f,
         FoldsUp(working, list, owner, asked, limits.stp, f),
         NEW view, Sees(f[Len(list)], owner, view), Within(f[Len(list)]),
         limits \in LimitSets,
         NEW id \in DOMAIN owner, NEW state \in EngineProofs!State,
         state.filled <= state.original,
         state.status \notin EngineProofs!Terminal => state.filled < state.original,
         NEW exec \in {"Trade", "Canceled"}, NEW quantity, NEW price,
         id \in DOMAIN view => Follows(view[id], state, id),
         EngineProofs!Report(id, state, exec, quantity, price) \in EngineProofs!ReportType
  PROVE  LET longer == Append(list, EngineProofs!Report(id, state, exec, quantity, price))
         IN  \E g : /\ FoldsUp(working, longer, owner, asked, limits.stp, g)
                    /\ Sees(g[Len(longer)], owner, Updated(view, id, state))
                    /\ Within(g[Len(longer)])
<1> DEFINE report == EngineProofs!Report(id, state, exec, quantity, price)
           longer == Append(list, report)
           w == f[Len(list)]
           after == OnReport(w, Heard(report, owner, asked), limits.stp)
           bound == limits.maxOpen
<1>1. PICK g : /\ FoldsUp(working, longer, owner, asked, limits.stp, g)
               /\ g[Len(longer)] = after
  BY FoldOne
<1>2. /\ bound \in Int /\ limits.stp = TRUE /\ exec \in {"New", "Trade", "Canceled", "Replaced"}
  BY GatedAssumption DEF Preventing
<1> HIDE DEF bound, w
<1>3. /\ Sees(after, owner, Updated(view, id, state))
      /\ AtMost(w, bound) => AtMost(after, bound)
  <2>1. Sees(w, owner, view)
    BY DEF w
  <2> QED  BY <1>2, <2>1, Hears
<1>4. Within(after)
  BY <1>3 DEF Within, bound, w
<1> QED  BY <1>1, <1>3, <1>4

\* A step of a call under way.
LEMMA ContinueFollows ==
  ASSUME Preventing, GatedInv, EngineProofs!Agreed', EngineProofs!Continue,
         UNCHANGED <<gatewayVars, callerVars>>
  PROVE  FollowsEngine'
<1>1. /\ asked # 0 /\ asked' = asked /\ owner' = owner /\ forgotten' = forgotten
      /\ working' = working /\ limits' = limits /\ limits \in LimitSets
      /\ limits.stp = TRUE /\ DOMAIN owner = DOMAIN states
  <2>1. pc = "match"
    BY DEF EngineProofs!Continue, EngineProofs!Match, EngineProofs!RestRemainder,
       EngineProofs!CancelRemainder, EngineProofs!NothingRemains
  <2> QED  BY <2>1 DEF GatedInv, CallerInv, Preventing, gatewayVars, callerVars, controls,
           orders
<1>2. CASE forgotten # {}
  BY <1>1, <1>2 DEF FollowsEngine
<1>3. CASE forgotten = {}
  <2> DEFINE SoFar(list, view) ==
        \E f : /\ FoldsUp(working, list, owner, asked, limits.stp, f)
               /\ Sees(f[Len(list)], owner, view) /\ Within(f[Len(list)])
  <2>1. SoFar(reports, View) /\ reports \in Seq(EngineProofs!ReportType)
    BY <1>1, <1>3 DEF GatedInv, FollowsEngine, EngineProofs!Agreed, EngineProofs!ReportsSound
  <2>2. SUFFICES SoFar(reports', View')
    <3>1. ASSUME SoFar(reports', View') PROVE FollowsEngine'
      <4>1. PICK f : /\ FoldsUp(working, reports', owner, asked, limits.stp, f)
                     /\ Sees(f[Len(reports')], owner, View') /\ Within(f[Len(reports')])
        BY <3>1
      <4> QED  BY <1>1, <4>1 DEF FollowsEngine, Within
    <3> QED  BY <3>1
  <2>3. CASE EngineProofs!RestRemainder \/ EngineProofs!NothingRemains
    <3>1. View' = View /\ reports' = reports
      BY <2>3, EndShows DEF GatedInv, EngineProofs!RestRemainder, EngineProofs!NothingRemains
    <3> QED  BY <2>1, <3>1
  <2>4. CASE EngineProofs!CancelRemainder
    <3> DEFINE state == [EngineProofs!Incoming EXCEPT !.status = "Canceled"]
               report == EngineProofs!Report(call.id, state, "Canceled", 0, 0)
    <3>1. /\ states' = [states EXCEPT ![call.id] = state]
          /\ reports' = Append(reports, report)
      BY <2>4 DEF EngineProofs!CancelRemainder
    <3> HIDE DEF state
    <3>2. /\ View' = View /\ call.id \in DOMAIN states /\ call.id \notin DOMAIN View
      <4>1. EngineProofs!Matching
        BY <2>4, EngineParameters, EngineProofs!InTheLoop
           DEF GatedInv, EngineProofs!CancelRemainder
      <4>2. ~ (call.tif = "Gtc" /\ states[call.id].type = "Limit")
        BY <2>4 DEF EngineProofs!CancelRemainder, EngineProofs!CancelsRemainder,
           EngineProofs!RestsRemainder, EngineProofs!Incoming
      <4> QED  BY <2>4, <4>1, <4>2, EndShows DEF GatedInv, EngineProofs!Matching, View, Known,
               Followed
    <3>3. states'[call.id] = state /\ call.id \in DOMAIN states'
      BY <3>1, <3>2
    <3>4. /\ state \in EngineProofs!State /\ state.filled <= state.original
          /\ state.status \notin EngineProofs!Terminal => state.filled < state.original
      BY <3>3, StateIsNext
    <3>5. report \in EngineProofs!ReportType
      <4>1. reports' \in Seq(EngineProofs!ReportType)
        BY DEF EngineProofs!Agreed, EngineProofs!ReportsSound
      <4>2. /\ Len(reports) \in Nat /\ Len(reports') = Len(reports) + 1
            /\ reports'[Len(reports) + 1] = report
        BY <2>1, <3>1
      <4> QED  BY <4>1, <4>2
    <3>6. Updated(View, call.id, state) = View
      BY <3>2 DEF Updated
    <3>7. PICK f : /\ FoldsUp(working, reports, owner, asked, limits.stp, f)
                   /\ Sees(f[Len(reports)], owner, View) /\ Within(f[Len(reports)])
      BY <2>1
    <3>8. \E g : /\ FoldsUp(working, Append(reports, report), owner, asked, limits.stp, g)
                 /\ Sees(g[Len(Append(reports, report))], owner, Updated(View, call.id, state))
                 /\ Within(g[Len(Append(reports, report))])
      BY <1>1, <2>1, <3>2, <3>4, <3>5, <3>7, HearsMore
    <3> QED  BY <3>1, <3>2, <3>6, <3>8
  <2>5. CASE EngineProofs!Match
    <3>1. PICK maker, quantity : /\ EngineProofs!Bargain(maker, quantity)
                                 /\ EngineProofs!Settled(maker, quantity)
                                 /\ EngineProofs!Reported(maker, quantity)
      BY <2>5, EngineParameters, EngineProofs!MatchSettles DEF GatedInv
    <3> DEFINE price == book.nodes[maker].price
               resting == states'[maker]
               taking == states'[call.id]
               first == EngineProofs!Report(maker, resting, "Trade", quantity, price)
               second == EngineProofs!Report(call.id, taking, "Trade", quantity, price)
               once == Append(reports, first)
               twice == Append(once, second)
               view == Updated(View, maker, resting)
    <3>2. /\ maker \in DOMAIN states /\ call.id \in DOMAIN states /\ maker # call.id
          /\ DOMAIN states' = DOMAIN states
          /\ maker \in DOMAIN View => Follows(View[maker], resting, maker)
          /\ call.id \in DOMAIN View => Follows(View[call.id], taking, call.id)
          /\ View' = Updated(view, call.id, taking)
      BY <3>1, MatchShows DEF GatedInv
    <3>3. /\ resting \in EngineProofs!State /\ resting.filled <= resting.original
          /\ resting.status \notin EngineProofs!Terminal => resting.filled < resting.original
          /\ taking \in EngineProofs!State /\ taking.filled <= taking.original
          /\ taking.status \notin EngineProofs!Terminal => taking.filled < taking.original
      BY <3>2, StateIsNext
    <3>4. /\ first \in EngineProofs!ReportType /\ second \in EngineProofs!ReportType
          /\ reports' = reports \o <<first, second>>
      BY <3>1 DEF EngineProofs!Reported
    <3>5. call.id \in DOMAIN view => Follows(view[call.id], taking, call.id)
      BY <3>2 DEF Updated, With, Without
    <3> HIDE DEF resting, taking, view, first, second, price
    <3>6. reports' = twice /\ once \in Seq(EngineProofs!ReportType)
      BY <2>1, <3>4
    <3>7. PICK f : /\ FoldsUp(working, reports, owner, asked, limits.stp, f)
                   /\ Sees(f[Len(reports)], owner, View) /\ Within(f[Len(reports)])
      BY <2>1
    <3>8. PICK g : /\ FoldsUp(working, once, owner, asked, limits.stp, g)
                   /\ Sees(g[Len(once)], owner, view) /\ Within(g[Len(once)])
      <4>1. /\ maker \in DOMAIN owner
            /\ maker \in DOMAIN View => Follows(View[maker], resting, maker)
        BY <1>1, <3>2
      <4> QED  BY <1>1, <2>1, <3>3, <3>4, <3>7, <4>1, HearsMore DEF first, view
    <3> HIDE DEF once
    <3>9. \E k : /\ FoldsUp(working, twice, owner, asked, limits.stp, k)
                 /\ Sees(k[Len(twice)], owner, Updated(view, call.id, taking))
                 /\ Within(k[Len(twice)])
      <4>1. call.id \in DOMAIN owner
        BY <1>1, <3>2
      <4> QED  BY <1>1, <3>3, <3>4, <3>5, <3>6, <3>8, <4>1, HearsMore DEF second
    <3> HIDE DEF twice
    <3> QED  BY <3>2, <3>6, <3>9
  <2> QED  BY <2>3, <2>4, <2>5 DEF EngineProofs!Continue
<1> QED  BY <1>2, <1>3

\* Between calls, once the gateway has its reports.
LEMMA DeliverFollows ==
  ASSUME GatedInv, Deliver
  PROVE  FollowsEngine'
<1>1. /\ asked # 0 /\ asked' = 0 /\ owner' = owner /\ forgotten' = forgotten
      /\ working' = OnReports /\ limits' = limits
      /\ states' = states /\ call' = call
  BY DEF Deliver, Quiet, controls, engineVars
<1>2. View' = View
  BY <1>1, ViewSame DEF Followed, EngineProofs!Live
<1>3. CASE forgotten # {}
  BY <1>1, <1>3 DEF FollowsEngine
<1>4. CASE forgotten = {}
  <2>1. PICK f : /\ FoldsUp(working, reports, owner, asked, limits.stp, f)
                 /\ Sees(f[Len(reports)], owner, View) /\ Within(f[Len(reports)])
    BY <1>1, <1>4 DEF GatedInv, FollowsEngine
  <2>2. Len(reports) \in Nat
    BY DEF GatedInv, EngineProofs!Agreed, EngineProofs!ReportsSound
  <2>3. working' = f[Len(reports)]
    BY <1>1, <2>1, <2>2, FoldIs
  <2>4. Sees(working', owner', View') /\ Within(working)'
    BY <1>1, <1>2, <2>1, <2>3 DEF Within
  <2> QED  BY <1>1, <2>4 DEF FollowsEngine
<1> QED  BY <1>3, <1>4

\* The gateway's own operations: it forgets all its orders, or none.
LEMMA ControlFollows ==
  ASSUME GatedInv, Control
  PROVE  FollowsEngine'
<1>1. /\ asked = 0 /\ asked' = 0 /\ owner' = owner /\ UNCHANGED engineVars
      /\ limits' = limits /\ working' \in {working, NoWorking}
      /\ forgotten' = forgotten \cup (DOMAIN working.orders \ DOMAIN working'.orders)
  BY DEF Control, Quiet, EnableKillSwitch, DisableKillSwitch, OnDisconnect, OnReconnect,
     OnMarketData, CancelAll, controls, orders
<1>2. CASE working' = working
  BY <1>1, <1>2, StaysQuiet DEF GatedInv
<1>3. CASE working' = NoWorking
  <2>1. DOMAIN NoWorking.orders = {} /\ DOMAIN NoWorking.boundTo = {}
        /\ DOMAIN NoWorking.total = {} /\ IsMap(NoWorking.orders)
    BY DEF NoWorking, IsMap
  <2>2. SUFFICES ASSUME forgotten' = {}
                 PROVE  Sees(working', owner', View') /\ Within(working)'
    BY <1>1 DEF FollowsEngine
  <2>3. forgotten = {} /\ DOMAIN working.orders = {}
    BY <1>1, <1>3, <2>1, <2>2
  <2>4. Sees(working, owner, View)
    BY <1>1, <2>3 DEF GatedInv, FollowsEngine
  <2>5. DOMAIN View = {}
    BY <2>3, <2>4 DEF Sees
  <2>6. View' = View
    BY <1>1, ViewSame DEF Followed, EngineProofs!Live, engineVars
  <2>7. Sees(NoWorking, owner, View)
    BY <2>1, <2>4, <2>5, NothingKept DEF Sees, BindingsMatch
  <2>8. Within(working)'
    BY <1>1, <1>3, <2>1 DEF Within, AtMost
  <2> QED  BY <1>1, <1>3, <2>6, <2>7, <2>8
<1> QED  BY <1>1, <1>2, <1>3

\* The caller's own account.
LEMMA CallerKeeps ==
  ASSUME Preventing, GatedInv, GatedNext \/ UNCHANGED gatedVars
  PROVE  CallerInv'
<1>1. ASSUME NEW c, c # 0, Uses(c), limits' = limits, market' = market,
             \/ UNCHANGED <<engineVars, asked, owner>>
             \/ /\ asked' = c /\ seen' \subseteq seen \cup {c}
                /\ \/ owner' = owner /\ DOMAIN states' = DOMAIN states
                   \/ /\ owner' = With(owner, nextId, c)
                      /\ DOMAIN states' = DOMAIN states \cup {nextId}
                      /\ nextId \notin DOMAIN states /\ nextId # 0
      PROVE  CallerInv'
  <2>1. used' = used \cup {c} /\ c \notin used
    BY <1>1 DEF Uses
  <2>2. CASE UNCHANGED <<engineVars, asked, owner>>
    BY <1>1, <2>1, <2>2 DEF GatedInv, CallerInv, engineVars
  <2>3. CASE asked' = c /\ seen' \subseteq seen \cup {c} /\ owner' = owner
             /\ DOMAIN states' = DOMAIN states
    BY <1>1, <2>1, <2>3 DEF GatedInv, CallerInv
  <2>4. CASE /\ asked' = c /\ seen' \subseteq seen \cup {c}
             /\ owner' = With(owner, nextId, c)
             /\ DOMAIN states' = DOMAIN states \cup {nextId}
             /\ nextId \notin DOMAIN states /\ nextId # 0
    <3>1. /\ DOMAIN owner' = DOMAIN states' /\ owner'[nextId] = c
          /\ \A j \in DOMAIN owner : owner'[j] = owner[j] /\ owner[j] # c
          /\ DOMAIN owner' = DOMAIN owner \cup {nextId}
      BY <2>1, <2>4 DEF GatedInv, CallerInv, With
    <3>2. Names(owner')
      BY <1>1, <3>1, <2>4 DEF GatedInv, CallerInv, Names
    <3>3. \A j \in DOMAIN owner' : owner'[j] \in used'
      BY <2>1, <3>1 DEF GatedInv, CallerInv
    <3> QED  BY <1>1, <2>1, <2>4, <3>1, <3>2, <3>3 DEF GatedInv, CallerInv
  <2> QED  BY <1>1, <2>2, <2>3, <2>4
<1>2. ASSUME NEW c \in ClientOrderIds, NEW r \in NewRequests, SubmitOrder(r, c)
      PROVE  CallerInv'
  <2>1. /\ c # 0 /\ Uses(c) /\ limits' = limits /\ market' = market /\ asked = 0
        /\ pc = "idle"
    BY <1>2, GatedAssumption, CheckedNew
       DEF SubmitOrder, Uses, Quiet, GatedInv, CallerInv
  <2>2. CASE HeldBack(c)
    BY <1>1, <2>1, <2>2 DEF HeldBack
  <2>3. CASE asked' = c /\ EngineProofs!SubmitRefused(r, c) /\ owner' = owner
    <3>1. seen' \subseteq seen \cup {c} /\ states' = states
      BY <2>3 DEF EngineProofs!SubmitRefused, EngineProofs!Refused, EngineProofs!Reserved
    <3> QED  BY <1>1, <2>1, <2>3, <3>1
  <2>4. CASE asked' = c /\ EngineProofs!SubmitAccepted(r, c) /\ owner' = With(owner, nextId, c)
    <3>1. seen' \subseteq seen \cup {c} /\ DOMAIN states' = DOMAIN states \cup {nextId}
      BY <2>4, SubmitShows DEF GatedInv, EngineProofs!SubmitAccepted, EngineProofs!Reserved
    <3>2. nextId \notin DOMAIN states /\ nextId # 0
      BY <2>1, IdleIs DEF GatedInv
    <3> QED  BY <1>1, <2>1, <2>4, <3>1, <3>2
  <2> QED  BY <1>2, <2>2, <2>3, <2>4, SameSubmit DEF SubmitOrder
<1>3. ASSUME NEW c \in ClientOrderIds, NEW id, NEW price \in ReplacePrices,
             NEW quantity \in ReplaceQuantities, ReplaceOrder(id, price, quantity, c)
      PROVE  CallerInv'
  <2>1. c # 0 /\ Uses(c) /\ limits' = limits /\ market' = market
    BY <1>3, GatedAssumption, CheckedReplace DEF ReplaceOrder
  <2>2. CASE HeldBack(c)
    BY <1>1, <2>1, <2>2 DEF HeldBack
  <2>3. CASE asked' = c /\ EngineProofs!ReplaceRefused(id, price, quantity, c) /\ owner' = owner
    <3>1. seen' \subseteq seen \cup {c} /\ states' = states
      BY <2>3 DEF EngineProofs!ReplaceRefused, EngineProofs!Refused, EngineProofs!Reserved
    <3> QED  BY <1>1, <2>1, <2>3, <3>1
  <2>4. CASE asked' = c /\ EngineProofs!ReplaceAccepted(id, price, quantity, c)
             /\ owner' = owner
    <3>1. quantity \in Nat
      BY GatedAssumption
    <3>2. seen' \subseteq seen \cup {c} /\ DOMAIN states' = DOMAIN states
      BY <2>4, <3>1, ReplaceShows DEF GatedInv, EngineProofs!ReplaceAccepted, EngineProofs!Reserved
    <3> QED  BY <1>1, <2>1, <2>4, <3>2
  <2> QED  BY <1>3, <2>2, <2>3, <2>4, SameReplace DEF ReplaceOrder
<1>4. ASSUME NEW c \in CancelIds, NEW id, CancelOrder(id, c)
      PROVE  CallerInv'
  <2>1. c # 0 /\ Uses(c) /\ limits' = limits /\ market' = market /\ asked' = c /\ owner' = owner
    BY <1>4, GatedAssumption DEF CancelOrder, gatewayVars, controls, inputs
  <2>2. CASE EngineProofs!CancelRefused(id, c)
    <3>1. seen' \subseteq seen \cup {c} /\ states' = states
      BY <2>2 DEF EngineProofs!CancelRefused, EngineProofs!Refused, EngineProofs!Reserved
    <3> QED  BY <1>1, <2>1, <3>1
  <2>3. CASE EngineProofs!CancelAccepted(id, c)
    <3>1. seen' \subseteq seen \cup {c} /\ DOMAIN states' = DOMAIN states
      BY <2>3, CancelShows DEF GatedInv, EngineProofs!CancelAccepted, EngineProofs!Reserved
    <3> QED  BY <1>1, <2>1, <3>1
  <2> QED  BY <1>4, <2>2, <2>3, SameCancel DEF CancelOrder
<1>5. CASE Continue
  <2>1. EngineProofs!Continue /\ UNCHANGED <<gatewayVars, callerVars>>
    BY <1>5, SameContinue DEF Continue
  <2>2. pc = "match" /\ seen' = seen
    BY <2>1 DEF EngineProofs!Continue, EngineProofs!Match, EngineProofs!RestRemainder,
       EngineProofs!CancelRemainder, EngineProofs!NothingRemains
  <2>3. DOMAIN states' = DOMAIN states
    <3>1. CASE EngineProofs!Match
      BY <3>1, EngineParameters, EngineProofs!MatchSettles DEF GatedInv, EngineProofs!Settled
    <3>2. CASE ~ EngineProofs!Match
      BY <2>1, <3>2, EndShows DEF GatedInv, EngineProofs!Continue
    <3> QED  BY <3>1, <3>2
  <2> QED  BY <2>1, <2>2, <2>3 DEF GatedInv, CallerInv, gatewayVars, callerVars, controls, inputs
<1>6. CASE Deliver
  BY <1>6 DEF Deliver, GatedInv, CallerInv, engineVars, controls, inputs
<1>7. CASE Control
  <2>1. limits' = limits /\ (market' = market \/ \E value : market' = With(market, Symbol, value))
    BY <1>7 DEF Control, EnableKillSwitch, DisableKillSwitch, OnDisconnect, OnReconnect,
       OnMarketData, controls, inputs
  <2>2. DOMAIN market' \subseteq {Symbol}
    BY <2>1 DEF With, GatedInv, CallerInv
  <2> QED  BY <1>7, <2>1, <2>2 DEF Control, GatedInv, CallerInv, engineVars
<1>8. CASE UNCHANGED gatedVars
  BY <1>8 DEF GatedInv, CallerInv, gatedVars, gatewayVars, callerVars, engineVars, controls,
     inputs
<1> QED  BY <1>2, <1>3, <1>4, <1>5, <1>6, <1>7, <1>8 DEF GatedNext

-------------------------------------------------------------------------------
\* The two agree when they start.
LEMMA InitFollows ==
  ASSUME GatedInit
  PROVE  GatedInv
<1>1. EngineProofs!Init
  BY SameInit DEF GatedInit
<1>2. EngineProofs!Agreed
  BY <1>1, EngineParameters, EngineProofs!InitAgrees
<1>3. /\ states = <<>> /\ seen = {} /\ pc = "idle" /\ owner = <<>> /\ asked = 0
      /\ used = {} /\ market = <<>> /\ limits \in LimitSets /\ working = NoWorking
  BY <1>1 DEF GatedInit, GatewayInit, EngineProofs!Init
<1>4. CallerInv
  BY <1>3 DEF CallerInv, Names
<1>5. DOMAIN View = {}
  BY <1>3 DEF View, Known
<1>6. Sees(NoWorking, owner, View) /\ Within(NoWorking)
  <2>1. DOMAIN NoWorking.orders = {} /\ DOMAIN NoWorking.boundTo = {}
        /\ DOMAIN NoWorking.total = {} /\ IsMap(NoWorking.orders)
    BY DEF NoWorking, IsMap
  <2>2. Names(owner)
    BY <1>4 DEF CallerInv
  <2> QED  BY <1>5, <2>1, <2>2, NothingKept DEF Sees, BindingsMatch, Within, AtMost
<1>7. FollowsEngine
  BY <1>3, <1>6 DEF FollowsEngine
<1> QED  BY <1>2, <1>4, <1>7 DEF GatedInv

\* Every step of the two is one of the engine's, or none.
LEMMA CallsTheEngine ==
  ASSUME GatedNext \/ UNCHANGED gatedVars
  PROVE  EngineCalls
<1>1. ASSUME NEW c \in ClientOrderIds, NEW r \in NewRequests, SubmitOrder(r, c)
      PROVE  EngineCalls
  BY <1>1, SameSubmit DEF SubmitOrder, HeldBack, EngineCalls
<1>2. ASSUME NEW c \in ClientOrderIds, NEW id, NEW price \in ReplacePrices,
             NEW quantity \in ReplaceQuantities, ReplaceOrder(id, price, quantity, c)
      PROVE  EngineCalls
  BY <1>2, SameReplace DEF ReplaceOrder, HeldBack, EngineCalls
<1>3. ASSUME NEW c, NEW id, CancelOrder(id, c)
      PROVE  EngineCalls
  BY <1>3, SameCancel DEF CancelOrder, EngineCalls
<1>4. CASE Continue
  BY <1>4, SameContinue DEF Continue, EngineCalls
<1>5. CASE Deliver \/ Control \/ UNCHANGED gatedVars
  BY <1>5 DEF Deliver, Control, gatedVars, EngineCalls
<1> QED  BY <1>1, <1>2, <1>3, <1>4, <1>5 DEF GatedNext

\* Every step keeps the two in agreement.
LEMMA StepFollows ==
  ASSUME Preventing, GatedInv, GatedNext \/ UNCHANGED gatedVars
  PROVE  GatedInv'
<1>1. EngineProofs!Agreed'
  BY CallsTheEngine, EngineKeeps DEF GatedInv
<1>2. CallerInv'
  BY CallerKeeps
<1>3. FollowsEngine'
  <2>1. ASSUME NEW c \in ClientOrderIds, NEW r \in NewRequests, SubmitOrder(r, c)
        PROVE  FollowsEngine'
    BY <1>1, <2>1, SubmitFollows
  <2>2. ASSUME NEW c \in ClientOrderIds, NEW id, NEW price \in ReplacePrices,
               NEW quantity \in ReplaceQuantities, ReplaceOrder(id, price, quantity, c)
        PROVE  FollowsEngine'
    BY <1>1, <2>2, ReplaceFollows
  <2>3. ASSUME NEW c \in CancelIds, NEW id, CancelOrder(id, c)
        PROVE  FollowsEngine'
    BY <1>1, <2>3, CancelFollows
  <2>4. CASE Continue
    BY <1>1, <2>4, SameContinue, ContinueFollows DEF Continue
  <2>5. CASE Deliver
    BY <2>5, DeliverFollows
  <2>6. CASE Control
    BY <2>6, ControlFollows
  <2>7. CASE UNCHANGED gatedVars
    <3>1. /\ states' = states /\ call' = call /\ reports' = reports /\ owner' = owner
          /\ asked' = asked /\ limits' = limits /\ working' = working
          /\ forgotten' = forgotten
      BY <2>7 DEF gatedVars, gatewayVars, engineVars, callerVars, controls, orders
    <3>2. View' = View
      BY <3>1, ViewSame DEF Followed, EngineProofs!Live
    <3>3. FollowsEngine
      BY DEF GatedInv
    <3> QED  BY <3>1, <3>2, <3>3 DEF FollowsEngine, Within
  <2> QED  BY <2>1, <2>2, <2>3, <2>4, <2>5, <2>6, <2>7 DEF GatedNext
<1> QED  BY <1>1, <1>2, <1>3 DEF GatedInv

\* The inductive invariant: whatever the client asks for, and wherever the engine is
\* in a call, the gateway's working orders are the engine's live orders that may
\* rest once it has heard the reports so far.
THEOREM GatewayFollowsEngine == ASSUME Preventing PROVE GatedSpec => []GatedInv
<1>1. GatedInit => GatedInv
  BY InitFollows
<1>2. GatedInv /\ [GatedNext]_gatedVars => GatedInv'
  BY StepFollows
<1> QED  BY <1>1, <1>2, PTL DEF GatedSpec

\* Between calls the gateway sees the engine's resting orders.
LEMMA QuietSees ==
  ASSUME GatedInv, Quiet, forgotten = {}
  PROVE  /\ Sees(working, owner, View) /\ Within(working)
         /\ DOMAIN View = DOMAIN book.nodes
         /\ \A id \in DOMAIN View : /\ View[id] = Shown(states[id], id)
                                    /\ book.nodes[id].side = states[id].side
                                    /\ book.nodes[id].price = states[id].limit
                                    /\ book.nodes[id].quantity =
                                         states[id].original - states[id].filled
<1>1. asked = 0 /\ pc = "idle"
  BY DEF Quiet, GatedInv, CallerInv
<1>2. Sees(working, owner, View) /\ Within(working)
  BY <1>1 DEF GatedInv, FollowsEngine
<1>3. DOMAIN View = DOMAIN book.nodes
  BY <1>1, IdleIs DEF GatedInv, View
<1>4. ASSUME NEW id \in DOMAIN View
      PROVE  /\ View[id] = Shown(states[id], id)
             /\ book.nodes[id].side = states[id].side
             /\ book.nodes[id].price = states[id].limit
             /\ book.nodes[id].quantity = states[id].original - states[id].filled
  <2>1. View[id] = Shown(states[id], id)
    BY <1>4 DEF View
  <2> QED  BY <1>3, <1>4, <2>1, EngineParameters, EngineProofs!NodeIs
           DEF GatedInv, EngineProofs!Agreed
<1> QED  BY <1>2, <1>3, <1>4

\* So its working orders are those.
LEMMA InvGivesWorkingOrders ==
  ASSUME GatedInv
  PROVE  WorkingOrdersRest
<1>1. SUFFICES ASSUME Quiet, forgotten = {}
               PROVE  working.orders =
                        [c \in {owner[id] : id \in DOMAIN book.nodes} |->
                           LET id == CHOOSE i \in DOMAIN book.nodes : owner[i] = c
                           IN  [client |-> states[id].client, symbol |-> Symbol,
                                side |-> book.nodes[id].side, price |-> book.nodes[id].price,
                                quantity |-> Quantity(id), exchange |-> id]]
  BY DEF WorkingOrdersRest
<1>2. /\ Sees(working, owner, View) /\ DOMAIN View = DOMAIN book.nodes
      /\ \A id \in DOMAIN View : /\ View[id] = Shown(states[id], id)
                                 /\ book.nodes[id].side = states[id].side
                                 /\ book.nodes[id].price = states[id].limit
                                 /\ book.nodes[id].quantity =
                                      states[id].original - states[id].filled
  BY <1>1, QuietSees
<1> DEFINE names == {owner[id] : id \in DOMAIN book.nodes}
           Of(c) == CHOOSE i \in DOMAIN book.nodes : owner[i] = c
           Line(id) == [client |-> states[id].client, symbol |-> Symbol,
                         side |-> book.nodes[id].side, price |-> book.nodes[id].price,
                         quantity |-> Quantity(id), exchange |-> id]
<1>3. DOMAIN working.orders = names /\ IsMap(working.orders)
  BY <1>2 DEF Sees
<1>4. ASSUME NEW c \in names PROVE working.orders[c] = Line(Of(c))
  <2>1. Of(c) \in DOMAIN book.nodes /\ owner[Of(c)] = c
    BY <1>4
  <2> HIDE DEF Of
  <2>2. working.orders[c] = Shown(states[Of(c)], Of(c))
    BY <1>2, <2>1 DEF Sees
  <2> QED  BY <1>2, <2>1, <2>2 DEF Shown, Quantity
<1>5. working.orders = [c \in names |-> Line(Of(c))]
  <2> HIDE DEF names, Line, Of
  <2> QED  BY <1>3, <1>4 DEF IsMap
<1> QED  BY <1>5

\* As many units rest in the book as the gateway counts for its symbol.
LEMMA RestsAsCounted ==
  ASSUME GatedInv, Quiet, forgotten = {}, limits.maxOpen > 0
  PROVE  Engine!QuantityOf(book, DOMAIN book.nodes) <= limits.maxOpen
<1> DEFINE units == Engine!Units(book, DOMAIN book.nodes)
           those == Under(SymbolsOf(working.orders), Symbol)
           counted == UnitsLeft(those, Amounts(working.orders))
<1>1. /\ Sees(working, owner, View) /\ Within(working) /\ DOMAIN View = DOMAIN book.nodes
      /\ \A id \in DOMAIN View : /\ View[id] = Shown(states[id], id)
                                 /\ book.nodes[id].quantity =
                                      states[id].original - states[id].filled
  BY QuietSees
<1>2. Engine!QuantityOf(book, DOMAIN book.nodes) = Cardinality(units)
  BY DEF Engine!QuantityOf, Engine!Cardinality, Cardinality
<1>3. limits.maxOpen \in Int
  BY GatedAssumption DEF GatedInv, CallerInv
<1>4. \A id \in DOMAIN book.nodes :
        /\ owner[id] \in those
        /\ Amounts(working.orders)[owner[id]] = book.nodes[id].quantity
  <2> TAKE id \in DOMAIN book.nodes
  <2>1. /\ owner[id] \in DOMAIN working.orders /\ working.orders[owner[id]] = View[id]
        /\ View[id] = Shown(states[id], id)
    BY <1>1 DEF Sees
  <2>2. View[id].symbol = Symbol /\ View[id].quantity = book.nodes[id].quantity
    BY <1>1, <2>1 DEF Shown
  <2> QED  BY <2>1, <2>2 DEF Under, SymbolsOf, Amounts
<1>5. CASE DOMAIN book.nodes = {}
  <2>1. units = {}
    BY <1>5 DEF Engine!Units
  <2> HIDE DEF units
  <2>2. Cardinality(units) = 0
    BY <2>1, FS_EmptySet
  <2> QED  BY <1>2, <1>3, <2>2
<1>6. CASE DOMAIN book.nodes # {}
  <2>1. /\ IsFiniteSet(counted) /\ Cardinality(counted) <= limits.maxOpen
        /\ Cardinality(counted) \in Nat
    <3>1. /\ IsFiniteSet(those)
          /\ \A c \in those : Amounts(working.orders)[c] \in Nat
      <4>1. Kept(working)
        BY <1>1 DEF Sees
      <4>2. those \subseteq DOMAIN working.orders
        BY DEF Under, SymbolsOf
      <4>3. IsFiniteSet(DOMAIN working.orders)
        BY <4>1 DEF Kept, SoundOrders
      <4> QED  BY <4>1, <4>2, <4>3, FS_Subset DEF Kept, SoundOrders, SoundOrder, Amounts
    <3>2. IsFiniteSet(counted) /\ Cardinality(counted) \in Nat
      BY <3>1, UnitsLeftFinite
    <3>3. Symbol \in DOMAIN working.total /\ working.total[Symbol] = Cardinality(counted)
      <4>1. PICK c : c \in those
        BY <1>4, <1>6
      <4>2. c \in DOMAIN SymbolsOf(working.orders) /\ SymbolsOf(working.orders)[c] = Symbol
        BY <4>1 DEF Under
      <4>3. AddsUp(working.total, SymbolsOf(working.orders), Amounts(working.orders))
        BY <1>1 DEF Sees, Kept, TotalsMatch
      <4> QED  BY <4>2, <4>3 DEF AddsUp
    <3>4. working.total[Symbol] <= limits.maxOpen
      BY <1>1, <3>3 DEF Within, AtMost
    <3> QED  BY <3>2, <3>3, <3>4
  <2> DEFINE f == [u \in units |-> <<owner[u[1]], u[2]>>]
  <2>2. \A u \in units : /\ u = <<u[1], u[2]>> /\ u[1] \in DOMAIN book.nodes
                         /\ u[2] \in 1 .. book.nodes[u[1]].quantity
    BY DEF Engine!Units
  <2> HIDE DEF units
  <2>3. f \in Injection(units, counted)
    <3>1. \A u \in units : f[u] \in counted
      <4> TAKE u \in units
      <4>1. f[u] \in {owner[u[1]]} \X (1 .. Amounts(working.orders)[owner[u[1]]])
        BY <1>4, <2>2
      <4> QED  BY <1>4, <2>2, <4>1 DEF UnitsLeft
    <3>2. \A u, v \in units : f[u] = f[v] => u = v
      <4> TAKE u, v \in units
      <4>1. SUFFICES ASSUME f[u] = f[v] PROVE u = v
        OBVIOUS
      <4>2. owner[u[1]] = owner[v[1]] /\ u[2] = v[2]
        BY <4>1
      <4>3. u[1] \in DOMAIN owner /\ v[1] \in DOMAIN owner
        BY <1>1, <2>2 DEF Sees
      <4>4. u[1] = v[1]
        BY <1>1, <4>2, <4>3 DEF Sees, Names
      <4>5. u = <<u[1], u[2]>> /\ v = <<v[1], v[2]>>
        BY <2>2
      <4> QED  BY <4>2, <4>4, <4>5
    <3> QED  BY <3>1, <3>2 DEF Injection, IsInjective
  <2> HIDE DEF f, counted
  <2>4. Cardinality(units) <= Cardinality(counted) /\ IsFiniteSet(units)
    BY <2>1, <2>3, FS_Injection
  <2>5. Cardinality(units) \in Nat
    BY <2>4, FS_CardinalityType
  <2> QED  BY <1>2, <1>3, <2>1, <2>4, <2>5
<1> QED  BY <1>5, <1>6

\* The engine has no reason to refuse an order the gateway lets through.
LEMMA SubmitTaken ==
  ASSUME Preventing, GatedInv, forgotten = {}, NEW r \in Taking, NEW c \in ClientOrderIds,
         SubmitOrder(r, c), LetThrough(c)
  PROVE  pc' = "match"
<1>1. /\ r \in NewRequests /\ ~ r.postOnly /\ r.tif # "Fok"
      /\ r.type \in {"Limit", "Market"} /\ r.side \in {"Buy", "Sell"}
      /\ r.tif \in {"Gtc", "Ioc", "Fok"} /\ r.price \in Int /\ r.quantity \in Int
  BY GatedAssumption DEF Taking
<1>2. /\ asked = 0 /\ pc = "idle" /\ c \notin seen /\ c # 0 /\ limits.stp = TRUE
      /\ Sees(working, owner, View) /\ DOMAIN market \subseteq {Symbol}
      /\ limits \in LimitSets
  BY GatedAssumption
     DEF SubmitOrder, Uses, Quiet, GatedInv, CallerInv, FollowsEngine, Preventing
<1>3. NewOrderPasses(r, c)
  BY <1>2, CheckedNew DEF SubmitOrder
<1>4. /\ r.quantity > 0 /\ (r.type = "Limit" => r.price > 0) /\ ~ CrossesOwn(r)
      /\ r.symbol = Symbol
  BY <1>2, <1>3 DEF NewOrderPasses, WithinLimits, IsFresh
<1>5. ~ EngineProofs!BadRequest(r)
  BY <1>1, <1>4 DEF EngineProofs!BadRequest, EngineProofs!Sides
<1>6. ~ EngineProofs!NotNow(r)
  BY <1>1, <1>2, <1>4, WouldCross DEF GatedInv, EngineProofs!NotNow
<1>7. EngineProofs!Reservable(c)
  BY <1>2 DEF EngineProofs!Reservable
<1>8. ~ Engine!SubmitRefused(r, c)
  BY <1>5, <1>6, <1>7, SameSubmit DEF EngineProofs!SubmitRefused
<1>9. EngineProofs!SubmitAccepted(r, c)
  BY <1>8, SameSubmit DEF SubmitOrder, HeldBack
<1> QED  BY <1>9 DEF EngineProofs!SubmitAccepted

\* Nor a replacement.
LEMMA InvPreventsSelfTrade ==
  ASSUME Preventing, GatedInv
  PROVE  \A clOrdId \in ClientOrderIds :
           LetThrough(clOrdId) /\ limits.stp /\ forgotten = {} =>
             /\ \A r \in Taking : SubmitOrder(r, clOrdId) => pc' = "match"
             /\ \A id \in ExchangeIds, price \in ReplacePrices, quantity \in ReplaceQuantities :
                  ReplaceOrder(id, price, quantity, clOrdId) => pc' = "match"
<1> SUFFICES ASSUME NEW clOrdId \in ClientOrderIds, LetThrough(clOrdId), forgotten = {}
             PROVE  /\ \A r \in Taking : SubmitOrder(r, clOrdId) => pc' = "match"
                    /\ \A id \in ExchangeIds, price \in ReplacePrices,
                          quantity \in ReplaceQuantities :
                         ReplaceOrder(id, price, quantity, clOrdId) => pc' = "match"
  OBVIOUS
<1>1. \A r \in Taking : SubmitOrder(r, clOrdId) => pc' = "match"
  BY SubmitTaken
<1>2. ASSUME NEW id, NEW price \in ReplacePrices, NEW quantity \in ReplaceQuantities,
             ReplaceOrder(id, price, quantity, clOrdId)
      PROVE  pc' = "match"
  BY <1>2, ReplaceAccepts DEF EngineProofs!ReplaceAccepted
<1> QED  BY <1>1, <1>2

\* "track every accepted Gtc limit order" and "reconcile the working order from the
\* execution reports": between calls, while no kill switch or disconnect has made the
\* gateway forget one, its working orders are the orders at rest in the engine, one
\* by one, under the client order ids they were sent with.
THEOREM WorkingOrdersAlwaysRest ==
  ASSUME Preventing PROVE GatedSpec => []WorkingOrdersRest
<1>1. GatedInv => WorkingOrdersRest
  BY InvGivesWorkingOrders
<1> QED  BY <1>1, GatewayFollowsEngine, PTL

\* max_open_quantity_per_symbol bounds what rests in the engine, not only what the
\* gateway counts.
THEOREM RestingStaysWithin ==
  ASSUME Preventing PROVE GatedSpec => []RestingWithinMaximum
<1>1. GatedInv => RestingWithinMaximum
  BY RestsAsCounted DEF RestingWithinMaximum
<1> QED  BY <1>1, GatewayFollowsEngine, PTL

\* The gateway's self-trade prevention, which sees prices only, is at least as strict
\* as the engine's, which sees orders: the engine never has to use its own.
THEOREM GatewayAlwaysPrevents ==
  ASSUME Preventing PROVE GatedSpec => GatewayPreventsSelfTrade
<1>1. GatedInv =>
        \A clOrdId \in ClientOrderIds :
          LetThrough(clOrdId) /\ limits.stp /\ forgotten = {} =>
            /\ \A r \in Taking : SubmitOrder(r, clOrdId) => pc' = "match"
            /\ \A id \in ExchangeIds, price \in ReplacePrices,
                  quantity \in ReplaceQuantities :
                 ReplaceOrder(id, price, quantity, clOrdId) => pc' = "match"
  BY InvPreventsSelfTrade
<1> QED  BY <1>1, GatewayFollowsEngine, PTL DEF GatewayPreventsSelfTrade
===============================================================================
