----------------------- MODULE MatchingEngine_proofs --------------------------
(***************************************************************************)
(* What MatchingEngine keeps, for every set of requests, prices and client *)
(* order ids: the agreement of order states, book and reports, the absence *)
(* of self trades, the finality of what is over, and price-time matching.  *)
(***************************************************************************)
EXTENDS MatchingEngine, BookLevels_proofs

Left(id) == states[id].original - states[id].filled
Live(id) == states[id].status \notin Terminal

\* The states: those of the orders accepted so far, none of them overfilled.
StatesSound ==
  /\ nextId \in 1 .. MaxOrders + 1
  /\ DOMAIN states = 1 .. nextId - 1
  /\ \A id \in DOMAIN states :
        /\ states[id] \in State
        /\ states[id].type = "Limit" => states[id].limit \in Prices
        /\ states[id].filled <= states[id].original
        /\ Live(id) => states[id].filled < states[id].original

\* The call under way: about an accepted order, which is live while some of it
\* remains.
CallSound ==
  /\ pc \in {"idle", "match"}
  /\ pc = "idle" => call = NoCall
  /\ pc = "match" =>
       /\ call.id \in DOMAIN states
       /\ call \in [id : Nat, remaining : Nat, tif : {"Gtc", "Ioc", "Fok"},
                    postOnly : BOOLEAN]
       /\ call.remaining = Left(call.id)
       /\ call.remaining > 0 <=> Live(call.id)
       /\ call.postOnly => Incoming.type = "Limit" /\ call.tif = "Gtc"

\* The book: the live orders no call is matching, at their limits, each for
\* what it has left.
BookAgrees ==
  /\ SoundBook(book, OrderIds, Prices)
  /\ \A id \in DOMAIN states : Resting(book, id) <=> Live(id) /\ id # call.id
  /\ \A id \in DOMAIN book.nodes :
        /\ id \in DOMAIN states
        /\ states[id].type = "Limit"
        /\ book.nodes[id] = [side |-> states[id].side, price |-> states[id].limit,
                             quantity |-> Left(id)]

\* The last report about each order tells what it has left and where.
Tells(report, state) ==
  /\ report.remaining = (IF state.status \in Terminal THEN 0
                         ELSE state.original - state.filled)
  /\ report.remaining > 0 /\ state.type = "Limit" => report.restingPrice = state.limit

ToldAgrees ==
  /\ DOMAIN told = DOMAIN states
  /\ \A id \in DOMAIN states : Tells(told[id], states[id])

\* The orders that an order may trade with, and those that the one coming in may.
ReachedBy(side, type, limit) ==
  {id \in DOMAIN book.nodes : /\ book.nodes[id].side = Opposite(side)
                             /\ Reaches(side, type, limit, book.nodes[id].price)}
Reached == ReachedBy(Incoming.side, Incoming.type, Incoming.limit)

SelfSafe ==
  pc = "match" =>
    /\ call.postOnly => Reached = {}
    /\ \A id \in Reached :
         states[id].client = Incoming.client => Incoming.client = 0

ReportType ==
  [id : Nat, status : Terminal \cup {"New", "PartiallyFilled", "Replaced"},
   exec : {"New", "Trade", "Canceled", "Replaced", "Rejected"}, filled : Nat,
   remaining : Nat, lastQuantity : Nat, lastPrice : Int, restingPrice : Int]

\* The reports: an odd number while a call matches, all about accepted orders,
\* and no trade between two orders of one client.
ReportsSound ==
  /\ reports \in Seq(ReportType)
  /\ pc = "match" => \E n \in 0 .. Len(reports) : Len(reports) = 2 * n + 1
  /\ \A k \in DOMAIN Tape :
        /\ Tape[k].maker \in DOMAIN states
        /\ Tape[k].taker \in DOMAIN states
        /\ states[Tape[k].maker].client = states[Tape[k].taker].client =>
             states[Tape[k].maker].client = 0

\* A fill-or-kill order can be filled: what it may trade with offers as much as
\* remains of it.
Fillable ==
  pc = "match" /\ call.tif = "Fok" => QuantityOf(book, Reached) >= call.remaining

Agreed ==
  /\ StatesSound /\ CallSound /\ BookAgrees /\ ToldAgrees /\ SelfSafe
  /\ ReportsSound /\ Fillable

-------------------------------------------------------------------------------
(* Reports.                                                                *)

LEMMA PricesArePositive == Prices \in SUBSET Nat /\ 0 \notin Prices
  BY PricesAssumption

\* What one report, or a trade's two, make of the history.
Knows(one, report) ==
  told' = [id \in DOMAIN told \cup {one} |-> IF id = one THEN report ELSE told[id]]

KnowsBoth(one, first, two, second) ==
  told' = [id \in DOMAIN told \cup {one, two} |->
             IF id = one THEN first ELSE IF id = two THEN second ELSE told[id]]

LEMMA TellingOne ==
  ASSUME NEW report, Telling(<<report>>)
  PROVE  Knows(report.id, report)
<1> DEFINE list == <<report>>
<1>1. DOMAIN list = {1} /\ list[1] = report
  OBVIOUS
<1>2. {list[k].id : k \in DOMAIN list} = {report.id}
  BY <1>1
<1>3. \A id : (\E k \in DOMAIN list : list[k].id = id) <=> id = report.id
  BY <1>1
<1>4. Max({1}) = 1
  BY DEF Max
<1>5. \A id : id = report.id => {k \in DOMAIN list : list[k].id = id} = {1}
  BY <1>1
<1>6. told' = [id \in DOMAIN told \cup {list[k].id : k \in DOMAIN list} |->
                 IF \E k \in DOMAIN list : list[k].id = id
                 THEN list[Max({k \in DOMAIN list : list[k].id = id})]
                 ELSE told[id]]
  BY DEF Telling
<1> HIDE DEF list
<1>7. \A id : (IF \E k \in DOMAIN list : list[k].id = id
               THEN list[Max({k \in DOMAIN list : list[k].id = id})]
               ELSE told[id]) = (IF id = report.id THEN report ELSE told[id])
  BY <1>1, <1>3, <1>4, <1>5
<1> QED  BY <1>2, <1>6, <1>7 DEF Knows

LEMMA TellingTwo ==
  ASSUME NEW first, NEW second, first.id # second.id, Telling(<<first, second>>)
  PROVE  KnowsBoth(first.id, first, second.id, second)
<1> DEFINE list == <<first, second>>
<1>1. DOMAIN list = {1, 2} /\ list[1] = first /\ list[2] = second
  OBVIOUS
<1>2. {list[k].id : k \in DOMAIN list} = {first.id, second.id}
  BY <1>1
<1>3. \A id : (\E k \in DOMAIN list : list[k].id = id) <=> id \in {first.id, second.id}
  BY <1>1
<1>4. Max({1}) = 1 /\ Max({2}) = 2
  BY DEF Max
<1>5. /\ \A id : id = first.id => {k \in DOMAIN list : list[k].id = id} = {1}
      /\ \A id : id = second.id => {k \in DOMAIN list : list[k].id = id} = {2}
  BY <1>1
<1>6. told' = [id \in DOMAIN told \cup {list[k].id : k \in DOMAIN list} |->
                 IF \E k \in DOMAIN list : list[k].id = id
                 THEN list[Max({k \in DOMAIN list : list[k].id = id})]
                 ELSE told[id]]
  BY DEF Telling
<1> HIDE DEF list
<1>7. \A id : (IF \E k \in DOMAIN list : list[k].id = id
               THEN list[Max({k \in DOMAIN list : list[k].id = id})]
               ELSE told[id]) =
              (IF id = first.id THEN first ELSE IF id = second.id THEN second ELSE told[id])
  BY <1>1, <1>3, <1>4, <1>5
<1> QED  BY <1>2, <1>6, <1>7 DEF KnowsBoth

\* A report tells what is left of the state it is made from.
LEMMA ReportTells ==
  ASSUME NEW id, NEW state \in State, state.filled <= state.original,
         NEW exec, NEW quantity, NEW price
  PROVE  /\ Tells(Report(id, state, exec, quantity, price), state)
         /\ Report(id, state, exec, quantity, price).id = id
<1>1. state.original \in Nat /\ state.filled \in Nat
  BY DEF State
<1>2. RemainingQuantity(state) = state.original - state.filled
  BY <1>1 DEF RemainingQuantity
<1> QED  BY <1>1, <1>2 DEF Tells, Report

LEMMA ReportIsTyped ==
  ASSUME NEW id \in Nat, NEW state \in State,
         NEW exec \in {"New", "Trade", "Canceled", "Replaced"},
         NEW quantity \in Nat, NEW price \in Int
  PROVE  Report(id, state, exec, quantity, price) \in ReportType
<1>1. state.original \in Nat /\ state.filled \in Nat /\ state.limit \in Int
  BY DEF State
<1>2. RemainingQuantity(state) \in Nat
  BY <1>1 DEF RemainingQuantity
<1> QED  BY <1>1, <1>2 DEF Report, ReportType, State

LEMMA RejectIsTyped == Reject \in ReportType
  BY DEF Reject, ReportType, Terminal

\* The history after a report about the order whose state changed.
LEMMA ToldOne ==
  ASSUME ToldAgrees, NEW one, NEW state, NEW report, Knows(one, report),
         Tells(report, state),
         states' = Put(states, one, state) \/
           (one \in DOMAIN states /\ states' = [states EXCEPT ![one] = state])
  PROVE  ToldAgrees'
<1>1. /\ DOMAIN states' = DOMAIN states \cup {one}
      /\ states'[one] = state
      /\ \A id \in DOMAIN states \ {one} : states'[id] = states[id]
  BY DEF Put
<1>2. /\ DOMAIN told' = DOMAIN states \cup {one}
      /\ told'[one] = report
      /\ \A id \in DOMAIN states \ {one} : told'[id] = told[id]
  BY DEF Knows, ToldAgrees
<1>3. \A id \in DOMAIN states : Tells(told[id], states[id])
  BY DEF ToldAgrees
<1>4. ASSUME NEW id \in DOMAIN states' PROVE Tells(told'[id], states'[id])
  BY <1>1, <1>2, <1>3, <1>4
<1> QED  BY <1>1, <1>2, <1>4 DEF ToldAgrees

-------------------------------------------------------------------------------
(* Every step keeps the agreement.                                         *)

LEMMA InitAgrees == Init => Agreed
<1> SUFFICES ASSUME Init PROVE Agreed
  OBVIOUS
<1>1. /\ DOMAIN states = {} /\ DOMAIN told = {} /\ nextId = 1 /\ pc = "idle"
      /\ call = NoCall /\ reports = <<>> /\ DOMAIN book.nodes = {}
  BY DEF Init, EmptyBook
<1>2. StatesSound
  BY <1>1, MaxOrdersAssumption DEF StatesSound
<1>3. CallSound
  BY <1>1 DEF CallSound
<1>4. BookAgrees
  BY <1>1, EmptyBookSound DEF BookAgrees, Init
<1>5. ToldAgrees
  BY <1>1 DEF ToldAgrees
<1>6. SelfSafe /\ Fillable
  BY <1>1 DEF SelfSafe, Fillable
<1>7. ReportsSound
  <2>1. DOMAIN Tape = {}
    BY <1>1 DEF Tape
  <2> QED  BY <1>1, <2>1 DEF ReportsSound
<1> QED  BY <1>2, <1>3, <1>4, <1>5, <1>6, <1>7 DEF Agreed

\* A call's first report and no trade yet.
LEMMA FirstReport ==
  ASSUME NEW report \in ReportType, reports' = <<report>>
  PROVE  ReportsSound'
<1>1. /\ reports' \in Seq(ReportType) /\ Len(reports') = 1 /\ (Tape)' = <<>>
  BY DEF Tape
<1>2. \E n \in 0 .. Len(reports') : Len(reports') = 2 * n + 1
  <2>1. 0 \in 0 .. 1 /\ 1 = 2 * 0 + 1
    OBVIOUS
  <2> QED  BY <1>1, <2>1
<1> QED  BY <1>1, <1>2 DEF ReportsSound

LEMMA RefusedKeeps ==
  ASSUME Agreed, NEW ids, Refused(ids)
  PROVE  Agreed'
<1> USE DEF Refused
<1>1. StatesSound'
  BY DEF Agreed, StatesSound, Live
<1>2. CallSound'
  BY DEF Agreed, CallSound, Left, Live, Incoming
<1>3. BookAgrees'
  BY DEF Agreed, BookAgrees, Left, Live
<1>4. ToldAgrees'
  BY DEF Agreed, ToldAgrees
<1>5. SelfSafe' /\ Fillable'
  BY DEF SelfSafe, Fillable
<1>6. ReportsSound'
  BY FirstReport, RejectIsTyped
<1> QED  BY <1>1, <1>2, <1>3, <1>4, <1>5, <1>6 DEF Agreed

LEMMA StutterKeeps ==
  ASSUME Agreed, UNCHANGED vars
  PROVE  Agreed'
<1> USE DEF vars
<1>1. StatesSound'
  BY DEF Agreed, StatesSound, Live
<1>2. CallSound'
  BY DEF Agreed, CallSound, Left, Live, Incoming
<1>3. BookAgrees'
  BY DEF Agreed, BookAgrees, Left, Live
<1>4. ToldAgrees'
  BY DEF Agreed, ToldAgrees
<1>5. SelfSafe'
  BY DEF Agreed, SelfSafe, Reached, ReachedBy, Incoming
<1>6. Fillable'
  BY DEF Agreed, Fillable, Reached, ReachedBy, Incoming
<1>7. ReportsSound'
  BY DEF Agreed, ReportsSound, Tape
<1> QED  BY <1>1, <1>2, <1>3, <1>4, <1>5, <1>6, <1>7 DEF Agreed

LEMMA NothingRemainsKeeps ==
  ASSUME Agreed, NothingRemains
  PROVE  Agreed'
<1> USE DEF NothingRemains
<1>1. StatesSound'
  BY DEF Agreed, StatesSound, Live
<1>2. CallSound'
  BY DEF CallSound
<1>3. BookAgrees'
  <2>1. /\ ~ Live(call.id) /\ DOMAIN states = 1 .. nextId - 1
        /\ \A id \in DOMAIN states : Resting(book, id) <=> Live(id) /\ id # call.id
    BY DEF Agreed, CallSound, BookAgrees, StatesSound
  <2>2. \A id \in DOMAIN states : Resting(book, id) <=> Live(id) /\ id # NoCall.id
    BY <2>1 DEF NoCall, Agreed, StatesSound
  <2>3. (\A id \in DOMAIN states : Resting(book, id) <=> Live(id) /\ id # call.id)'
    BY <2>2 DEF Live
  <2>4. SoundBook(book, OrderIds, Prices)'
    BY DEF Agreed, BookAgrees
  <2>5. (\A id \in DOMAIN book.nodes :
           /\ id \in DOMAIN states
           /\ states[id].type = "Limit"
           /\ book.nodes[id] = [side |-> states[id].side, price |-> states[id].limit,
                                quantity |-> Left(id)])'
    BY DEF Agreed, BookAgrees, Left
  <2> QED  BY <2>3, <2>4, <2>5 DEF BookAgrees
<1>4. ToldAgrees'
  BY DEF Agreed, ToldAgrees
<1>5. SelfSafe' /\ Fillable'
  BY DEF SelfSafe, Fillable
<1>6. ReportsSound'
  BY DEF Agreed, ReportsSound, Tape
<1> QED  BY <1>1, <1>2, <1>3, <1>4, <1>5, <1>6 DEF Agreed

-------------------------------------------------------------------------------
(* What an order may trade with.                                           *)

\* A resting order and its state.
LEMMA NodeIs ==
  ASSUME BookAgrees, NEW id \in DOMAIN book.nodes
  PROVE  /\ id \in DOMAIN states
         /\ states[id].type = "Limit" /\ states[id].status \notin Terminal
         /\ id # call.id
         /\ book.nodes[id].side = states[id].side
         /\ book.nodes[id].price = states[id].limit
         /\ book.nodes[id].quantity = states[id].original - states[id].filled
<1>1. /\ id \in DOMAIN states /\ states[id].type = "Limit"
      /\ book.nodes[id] = [side |-> states[id].side, price |-> states[id].limit,
                           quantity |-> Left(id)]
  BY DEF BookAgrees
<1>2. Live(id) /\ id # call.id
  BY <1>1 DEF BookAgrees, Resting
<1> QED  BY <1>1, <1>2 DEF Left, Live

\* An order crosses the book exactly if there is an order it may trade with.
LEMMA CrossesReached ==
  ASSUME BookAgrees, NEW side \in Sides, NEW type, NEW limit \in Int
  PROVE  Crosses(side, type, limit) <=> ReachedBy(side, type, limit) # {}
<1> DEFINE opp == Opposite(side)
<1>1. SoundBook(book, OrderIds, Prices) /\ opp \in Sides /\ Prices \in SUBSET Nat
  BY PricesArePositive DEF BookAgrees, Opposite, Sides
<1>2. ASSUME Crosses(side, type, limit)
      PROVE  BestOrder(book, opp) \in ReachedBy(side, type, limit)
  <2>1. DOMAIN book.levels[opp] # {} /\ Reaches(side, type, limit, BestPrice(book, opp))
    BY <1>2 DEF Crosses
  <2>2. LET price == BestPrice(book, opp)
            id    == BestOrder(book, opp)
        IN  /\ id \in DOMAIN book.nodes
            /\ book.nodes[id].side = opp /\ book.nodes[id].price = price
    BY <1>1, <2>1, BestOrderIsBest
  <2> QED  BY <2>1, <2>2 DEF ReachedBy
<1>3. ASSUME NEW id \in ReachedBy(side, type, limit)
      PROVE  Crosses(side, type, limit)
  <2> DEFINE price == book.nodes[id].price
             best == BestPrice(book, opp)
  <2>1. id \in DOMAIN book.nodes /\ book.nodes[id].side = opp
        /\ Reaches(side, type, limit, price)
    BY DEF ReachedBy
  <2>2. price \in DOMAIN book.levels[opp] /\ price \in Nat
    <3>1. book.nodes[id].price \in DOMAIN book.levels[book.nodes[id].side]
      BY <1>1, <2>1 DEF SoundBook, QueuesMatchIndex
    <3>2. DOMAIN book.levels[opp] \subseteq Prices
      BY <1>1 DEF SoundBook, IsBook
    <3> QED  BY <1>1, <2>1, <3>1, <3>2
  <2>3. best \in Nat /\ ~ Better(opp, price, best)
    BY <1>1, <2>2, BestOrderIsBest
  <2> HIDE DEF price, best
  <2>4. Reaches(side, type, limit, best)
    BY <2>1, <2>2, <2>3 DEF Reaches, Better, Opposite, Sides
  <2> QED  BY <2>2, <2>4 DEF Crosses, best
<1> QED  BY <1>2, <1>3

\* What can_fully_fill finds in the view, the orders in reach offer.
LEMMA FullyFilled ==
  ASSUME BookAgrees, NEW r, r.side \in Sides, r.quantity \in Nat, CanFullyFill(r)
  PROVE  QuantityOf(book, ReachedBy(r.side, r.type, r.price)) >= r.quantity
<1> DEFINE opp == Opposite(r.side)
           depth == Cardinality(DOMAIN book.nodes)
           view == L2View(book, opp, depth)
           executable == {k \in DOMAIN view :
                            Reaches(r.side, r.type, r.price, view[k].price)}
           offered == OfferedAt(book, opp, view, executable)
           reached == ReachedBy(r.side, r.type, r.price)
<1>1. /\ SoundBook(book, OrderIds, Prices) /\ opp \in Sides /\ Prices \in SUBSET Nat
      /\ IsFiniteSet(DOMAIN book.nodes)
      /\ \A id \in DOMAIN book.nodes : book.nodes[id].quantity \in Nat
  BY PricesArePositive DEF BookAgrees, Opposite, Sides, SoundBook, IsBook, Offer
<1>2. depth \in Nat
  BY <1>1, FS_CardinalityType
<1>3. executable \in SUBSET DOMAIN view
  OBVIOUS
<1>4. Cardinality(ShownUnits(view, executable)) >= r.quantity
  BY DEF CanFullyFill, ShownUnits
<1>5. /\ Cardinality(ShownUnits(view, executable)) \in Nat
      /\ Cardinality(ShownUnits(view, executable)) <= QuantityOf(book, offered)
  <2> HIDE DEF executable, depth, opp
  <2> QED  BY <1>1, <1>2, <1>3, ViewAddsUp
<1> HIDE DEF view, depth
<1>6. offered \subseteq reached /\ reached \subseteq DOMAIN book.nodes
  BY DEF OfferedAt, ReachedBy
<1>7. IsFiniteSet(offered) /\ IsFiniteSet(reached)
  BY <1>1, <1>6, FS_Subset
<1>8. /\ IsFiniteSet(Units(book, reached)) /\ QuantityOf(book, reached) \in Nat
      /\ QuantityOf(book, offered) \in Nat
  BY <1>1, <1>6, <1>7, UnitsFinite
<1>9. Units(book, offered) \subseteq Units(book, reached)
  BY <1>6 DEF Units
<1>10. QuantityOf(book, offered) <= QuantityOf(book, reached)
  BY <1>8, <1>9, FS_Subset DEF QuantityOf
<1> QED  BY <1>4, <1>5, <1>8, <1>10

-------------------------------------------------------------------------------
(* Calls.                                                                  *)

LEMMA SubmitAcceptedKeeps ==
  ASSUME Agreed, NEW r \in NewRequests, NEW clOrdId, SubmitAccepted(r, clOrdId)
  PROVE  Agreed'
<1> DEFINE state == [side |-> r.side, type |-> r.type, limit |-> r.price,
                     original |-> r.quantity, filled |-> 0, client |-> r.client,
                     status |-> "New"]
           report == Report(nextId, state, "New", 0, 0)
<1>1. /\ r.side \in Sides /\ r.type \in {"Limit", "Market"} /\ r.quantity \in Nat \ {0}
      /\ r.price \in Int /\ (r.type = "Limit" => r.price \in Prices)
      /\ r.tif \in {"Gtc", "Ioc", "Fok"} /\ r.client \in Nat /\ r.postOnly \in BOOLEAN
      /\ r.postOnly => r.type = "Limit" /\ r.tif = "Gtc"
  <2>1. ~ BadRequest(r)
    BY DEF SubmitAccepted
  <2> QED  BY <2>1, NewRequestsAssumption DEF BadRequest
<1>2. /\ pc = "idle" /\ pc' = "match" /\ call = NoCall /\ book' = book
      /\ nextId <= MaxOrders /\ nextId' = nextId + 1 /\ reports' = <<report>>
      /\ call' = [id |-> nextId, remaining |-> r.quantity, tif |-> r.tif,
                  postOnly |-> r.postOnly]
      /\ states' = Put(states, nextId, state)
  BY DEF SubmitAccepted, Agreed, CallSound
<1>3. /\ nextId \in 1 .. MaxOrders /\ nextId \in Nat /\ nextId # 0
      /\ DOMAIN states = 1 .. nextId - 1
      /\ nextId \notin DOMAIN states /\ 0 \notin DOMAIN states
  BY <1>2, MaxOrdersAssumption DEF Agreed, StatesSound
<1>4. /\ DOMAIN states' = 1 .. nextId
      /\ DOMAIN states' = DOMAIN states \cup {nextId}
      /\ states'[nextId] = state
      /\ \A id \in DOMAIN states : states'[id] = states[id]
  BY <1>2, <1>3 DEF Put
<1>5. state \in State
  BY <1>1 DEF State
<1>6. /\ state.side = r.side /\ state.type = r.type /\ state.limit = r.price
      /\ state.original = r.quantity /\ state.filled = 0 /\ state.client = r.client
      /\ state.status = "New" /\ state.status \notin Terminal
  BY DEF Terminal
<1>7. Knows(nextId, report) /\ Tells(report, state) /\ report \in ReportType
  <2>1. /\ report.id = nextId /\ Tells(report, state) /\ report \in ReportType
    BY <1>1, <1>3, <1>5, <1>6, ReportTells, ReportIsTyped
  <2>2. Telling(<<report>>)
    BY DEF SubmitAccepted
  <2> HIDE DEF report
  <2> QED  BY <2>1, <2>2, TellingOne
<1> HIDE DEF state, report
<1>8. StatesSound'
  <2>1. nextId' \in 1 .. MaxOrders + 1 /\ DOMAIN states' = 1 .. nextId' - 1
    BY <1>2, <1>3, <1>4, MaxOrdersAssumption
  <2>2. ASSUME NEW id \in DOMAIN states'
        PROVE  /\ states'[id] \in State
               /\ states'[id].type = "Limit" => states'[id].limit \in Prices
               /\ states'[id].filled <= states'[id].original
               /\ states'[id].status \notin Terminal =>
                    states'[id].filled < states'[id].original
    <3>1. CASE id = nextId
      BY <1>1, <1>4, <1>5, <1>6, <3>1
    <3>2. CASE id \in DOMAIN states
      BY <1>4, <3>2 DEF Agreed, StatesSound, Live
    <3> QED  BY <1>4, <2>2, <3>1, <3>2
  <2> QED  BY <2>1, <2>2 DEF StatesSound, Live
<1>9. CallSound'
  BY <1>1, <1>2, <1>3, <1>4, <1>6 DEF CallSound, Left, Live, Incoming
<1>10. BookAgrees'
  <2>1. /\ SoundBook(book, OrderIds, Prices)
        /\ \A id \in DOMAIN states : Resting(book, id) <=> Live(id)
        /\ ~ Resting(book, nextId)
    BY <1>2, <1>3 DEF Agreed, BookAgrees, NoCall, Resting
  <2>2. (\A id \in DOMAIN states : Resting(book, id) <=> Live(id) /\ id # call.id)'
    BY <1>2, <1>3, <1>4, <2>1 DEF Live
  <2>3. (\A id \in DOMAIN book.nodes :
           /\ id \in DOMAIN states
           /\ states[id].type = "Limit"
           /\ book.nodes[id] = [side |-> states[id].side, price |-> states[id].limit,
                                quantity |-> Left(id)])'
    BY <1>2, <1>4 DEF Agreed, BookAgrees, Left
  <2> QED  BY <1>2, <2>1, <2>2, <2>3 DEF BookAgrees
<1>11. ToldAgrees'
  BY <1>2, <1>7, ToldOne DEF Agreed
<1>12. Reached' = ReachedBy(r.side, r.type, r.price)
  BY <1>2, <1>4, <1>6 DEF Reached, ReachedBy, Incoming
<1>13. SelfSafe'
  <2>1. call'.postOnly => Reached' = {}
    <3>1. r.postOnly => ~ Crosses(r.side, r.type, r.price)
      BY DEF SubmitAccepted, NotNow
    <3> QED  BY <1>1, <1>2, <1>12, <3>1, CrossesReached DEF Agreed
  <2>2. ASSUME NEW id \in Reached', states'[id].client = r.client, r.client # 0
        PROVE  FALSE
    <3>1. ~ r.postOnly
      BY <1>2, <2>1, <2>2
    <3>2. ~ WouldSelfTrade(r.side, r.type, r.price, r.client, 0)
      BY <3>1 DEF SubmitAccepted, NotNow
    <3>3. /\ id \in DOMAIN book.nodes /\ id \in DOMAIN states
          /\ book.nodes[id].side = Opposite(r.side)
          /\ Reaches(r.side, r.type, r.price, book.nodes[id].price)
          /\ book.nodes[id].side = states[id].side
          /\ book.nodes[id].price = states[id].limit
      <4>1. id \in ReachedBy(r.side, r.type, r.price)
        BY <1>12
      <4>2. /\ id \in DOMAIN book.nodes
            /\ book.nodes[id].side = Opposite(r.side)
            /\ Reaches(r.side, r.type, r.price, book.nodes[id].price)
        BY <4>1 DEF ReachedBy
      <4> QED  BY <4>2, NodeIs DEF Agreed
    <3> QED  BY <1>3, <1>4, <2>2, <3>2, <3>3 DEF WouldSelfTrade, Resting
  <2>3. Incoming'.client = r.client
    BY <1>2, <1>4, <1>6 DEF Incoming
  <2> QED  BY <2>1, <2>2, <2>3 DEF SelfSafe
<1>14. Fillable'
  <2>1. r.tif = "Fok" => CanFullyFill(r)
    BY DEF SubmitAccepted, NotNow
  <2>2. r.tif = "Fok" =>
          QuantityOf(book, ReachedBy(r.side, r.type, r.price)) >= r.quantity
    BY <1>1, <2>1, FullyFilled DEF Agreed
  <2> QED  BY <1>2, <1>12, <2>2 DEF Fillable
<1>15. ReportsSound'
  BY <1>2, <1>7, FirstReport
<1> QED  BY <1>8, <1>9, <1>10, <1>11, <1>13, <1>14, <1>15 DEF Agreed

\* An order leaves the book and its state changes.
LEMMA OrderLeaves ==
  ASSUME BookAgrees, NEW one \in DOMAIN book.nodes, book' = CancelOrder(book, one),
         NEW state, states' = [states EXCEPT ![one] = state],
         state.status \in Terminal \/ one = call'.id,
         \A id \in DOMAIN states \ {one} : id # call.id <=> id # call'.id
  PROVE  /\ BookAgrees' /\ DOMAIN book'.nodes = DOMAIN book.nodes \ {one}
         /\ \A id \in DOMAIN book'.nodes : book'.nodes[id] = book.nodes[id]
<1>1. SoundBook(book, OrderIds, Prices) /\ SoundBook(book', OrderIds, Prices)
  BY CancelOrderSound DEF BookAgrees
<1>2. NodesWithout(book', book, one)
  BY <1>1, CancelOrderNodes
<1>3. /\ DOMAIN book'.nodes = DOMAIN book.nodes \ {one}
      /\ \A id \in DOMAIN book'.nodes : book'.nodes[id] = book.nodes[id]
  BY <1>2 DEF NodesWithout
<1>4. /\ one \in DOMAIN states
      /\ DOMAIN states' = DOMAIN states /\ states'[one] = state
      /\ \A id \in DOMAIN states \ {one} : states'[id] = states[id]
  BY DEF BookAgrees
<1>5. (\A id \in DOMAIN states : Resting(book, id) <=> Live(id) /\ id # call.id)'
  BY <1>3, <1>4 DEF BookAgrees, Resting, Live
<1>6. (\A id \in DOMAIN book.nodes :
         /\ id \in DOMAIN states
         /\ states[id].type = "Limit"
         /\ book.nodes[id] = [side |-> states[id].side, price |-> states[id].limit,
                              quantity |-> Left(id)])'
  <2>1. ASSUME NEW id \in DOMAIN book'.nodes
        PROVE  /\ id \in DOMAIN states'
               /\ states'[id].type = "Limit"
               /\ book'.nodes[id] = [side |-> states'[id].side, price |-> states'[id].limit,
                                     quantity |-> states'[id].original - states'[id].filled]
    BY <1>3, <1>4 DEF BookAgrees, Left
  <2> QED  BY <2>1 DEF Left
<1> QED  BY <1>1, <1>3, <1>5, <1>6 DEF BookAgrees

LEMMA CancelAcceptedKeeps ==
  ASSUME Agreed, NEW id, NEW clOrdId, CancelAccepted(id, clOrdId)
  PROVE  Agreed'
<1> DEFINE state == [states[id] EXCEPT !.status = "Canceled"]
           report == Report(id, state, "Canceled", 0, 0)
<1>1. /\ pc = "idle" /\ pc' = "idle" /\ call = NoCall /\ call' = NoCall
      /\ nextId' = nextId /\ reports' = <<report>>
      /\ id \in DOMAIN states /\ id \in DOMAIN book.nodes
      /\ book' = CancelOrder(book, id)
      /\ states' = [states EXCEPT ![id] = state]
  BY DEF CancelAccepted, Agreed, CallSound, Resting
<1>2. /\ DOMAIN states = 1 .. nextId - 1 /\ nextId \in Nat /\ id \in Nat
      /\ states[id] \in State /\ states[id].filled <= states[id].original
  BY <1>1, MaxOrdersAssumption DEF Agreed, StatesSound
<1>3. /\ state \in State /\ state.status = "Canceled" /\ state.status \in Terminal
      /\ state.type = states[id].type /\ state.limit = states[id].limit
      /\ state.original = states[id].original /\ state.filled = states[id].filled
      /\ state.client = states[id].client
  BY <1>2 DEF State, Terminal
<1>4. /\ DOMAIN states' = DOMAIN states /\ states'[id] = state
      /\ \A other \in DOMAIN states \ {id} : states'[other] = states[other]
  BY <1>1
<1> HIDE DEF state
<1>5. Knows(id, report) /\ Tells(report, state) /\ report \in ReportType
  <2>1. report.id = id /\ Tells(report, state)
    BY <1>2, <1>3, ReportTells
  <2>3. report \in ReportType
    BY <1>2, <1>3, ReportIsTyped
  <2>2. Telling(<<report>>)
    BY DEF CancelAccepted, state
  <2> HIDE DEF report
  <2> QED  BY <2>1, <2>2, <2>3, TellingOne
<1> HIDE DEF report
<1>6. StatesSound'
  <2>1. ASSUME NEW other \in DOMAIN states'
        PROVE  /\ states'[other] \in State
               /\ states'[other].type = "Limit" => states'[other].limit \in Prices
               /\ states'[other].filled <= states'[other].original
               /\ states'[other].status \notin Terminal =>
                    states'[other].filled < states'[other].original
    BY <1>1, <1>2, <1>3, <1>4 DEF Agreed, StatesSound, Live
  <2> QED  BY <1>1, <1>4, <2>1 DEF StatesSound, Live, Agreed
<1>7. CallSound'
  BY <1>1 DEF CallSound
<1>8. BookAgrees'
  BY <1>1, <1>3, OrderLeaves DEF Agreed
<1>9. ToldAgrees'
  BY <1>1, <1>5, ToldOne DEF Agreed
<1>10. SelfSafe' /\ Fillable'
  BY <1>1 DEF SelfSafe, Fillable
<1>11. ReportsSound'
  BY <1>1, <1>5, FirstReport
<1> QED  BY <1>6, <1>7, <1>8, <1>9, <1>10, <1>11 DEF Agreed

LEMMA ReplaceAcceptedKeeps ==
  ASSUME Agreed, NEW id, NEW price \in Prices \cup {0}, NEW quantity \in Quantities \cup {0},
         NEW clOrdId, ReplaceAccepted(id, price, quantity, clOrdId)
  PROVE  Agreed'
<1> DEFINE state == Amended(states[id], price, quantity)
           report == Report(id, state, "Replaced", 0, 0)
<1>1. /\ pc = "idle" /\ pc' = "match" /\ call = NoCall
      /\ call' = [id |-> id, remaining |-> quantity, tif |-> "Gtc", postOnly |-> FALSE]
      /\ nextId' = nextId /\ reports' = <<report>>
      /\ id \in DOMAIN states /\ id \in DOMAIN book.nodes
      /\ book' = CancelOrder(book, id)
      /\ states' = [states EXCEPT ![id] = state]
  BY DEF ReplaceAccepted, Agreed, CallSound, Resting
<1>2. price \in Prices /\ price \in Nat /\ quantity \in Nat \ {0}
  <2>1. quantity > 0 /\ price > 0
    BY DEF ReplaceAccepted
  <2>2. price # 0 /\ quantity # 0
    BY <2>1
  <2> QED  BY <2>2, PricesAssumption, QuantitiesAssumption
<1>3. /\ DOMAIN states = 1 .. nextId - 1 /\ nextId \in Nat /\ id \in Nat
      /\ states[id] \in State /\ states[id].type = "Limit"
  BY <1>1, MaxOrdersAssumption, NodeIs DEF Agreed, StatesSound
<1>4. /\ state \in State /\ state.status = "Replaced" /\ state.status \notin Terminal
      /\ state.type = "Limit" /\ state.limit = price /\ state.side = states[id].side
      /\ state.original = states[id].filled + quantity /\ state.filled = states[id].filled
      /\ state.client = states[id].client
      /\ state.filled \in Nat /\ state.filled < state.original
      /\ state.filled <= state.original
      /\ state.original - state.filled = quantity
  <2>1. /\ price \in Int /\ states[id].filled \in Nat
        /\ states[id].filled + quantity \in Nat \ {0}
    BY <1>2, <1>3 DEF State
  <2>2. /\ state.status = "Replaced" /\ state.type = "Limit" /\ state.limit = price
        /\ state.side = states[id].side /\ state.original = states[id].filled + quantity
        /\ state.filled = states[id].filled /\ state.client = states[id].client
    BY <1>3 DEF State, Amended
  <2>3. state \in State
    BY <1>3, <2>1 DEF State, Amended
  <2> HIDE DEF state
  <2> QED  BY <1>2, <2>1, <2>2, <2>3 DEF Terminal
<1>5. /\ DOMAIN states' = DOMAIN states /\ states'[id] = state
      /\ \A other \in DOMAIN states \ {id} : states'[other] = states[other]
  BY <1>1
<1> HIDE DEF state
<1>6. Knows(id, report) /\ Tells(report, state) /\ report \in ReportType
  <2>1. report.id = id /\ Tells(report, state)
    BY <1>3, <1>4, ReportTells
  <2>3. report \in ReportType
    BY <1>3, <1>4, ReportIsTyped
  <2>2. Telling(<<report>>)
    BY DEF ReplaceAccepted, state
  <2> HIDE DEF report
  <2> QED  BY <2>1, <2>2, <2>3, TellingOne
<1> HIDE DEF report
<1>7. StatesSound'
  <2>1. ASSUME NEW other \in DOMAIN states'
        PROVE  /\ states'[other] \in State
               /\ states'[other].type = "Limit" => states'[other].limit \in Prices
               /\ states'[other].filled <= states'[other].original
               /\ states'[other].status \notin Terminal =>
                    states'[other].filled < states'[other].original
    BY <1>1, <1>2, <1>3, <1>4, <1>5 DEF Agreed, StatesSound, Live
  <2> QED  BY <1>1, <1>5, <2>1 DEF StatesSound, Live, Agreed
<1>8. CallSound'
  BY <1>1, <1>2, <1>3, <1>4, <1>5 DEF CallSound, Left, Live, Incoming
<1>9. /\ BookAgrees' /\ DOMAIN book'.nodes = DOMAIN book.nodes \ {id}
      /\ \A other \in DOMAIN book'.nodes : book'.nodes[other] = book.nodes[other]
  <2>1. \A other \in DOMAIN states \ {id} : other # call.id <=> other # call'.id
    BY <1>1, <1>3 DEF NoCall
  <2>2. id = call'.id
    BY <1>1
  <2> QED  BY <1>1, <2>1, <2>2, OrderLeaves DEF Agreed
<1>10. ToldAgrees'
  BY <1>1, <1>6, ToldOne DEF Agreed
<1>11. SelfSafe'
  <2>1. Incoming' = state /\ ~ call'.postOnly
    BY <1>1, <1>5 DEF Incoming
  <2>2. ASSUME NEW other \in Reached', states'[other].client = state.client, state.client # 0
        PROVE  FALSE
    <3>1. ~ WouldSelfTrade(states[id].side, states[id].type, price, states[id].client, id)
      BY DEF ReplaceAccepted, ReplaceWouldSelfTrade
    <3>2. /\ other \in DOMAIN book'.nodes
          /\ book'.nodes[other].side = Opposite(state.side)
          /\ Reaches(state.side, state.type, state.limit, book'.nodes[other].price)
      BY <2>1 DEF Reached, ReachedBy
    <3>3. /\ other \in DOMAIN book.nodes /\ other # id /\ other \in DOMAIN states
          /\ book.nodes[other].side = states[other].side
          /\ book.nodes[other].price = states[other].limit
          /\ book'.nodes[other] = book.nodes[other]
      BY <1>9, <3>2, NodeIs DEF Agreed
    <3> QED
      BY <1>3, <1>4, <1>5, <2>2, <3>1, <3>2, <3>3 DEF WouldSelfTrade, Resting
  <2> QED  BY <2>1, <2>2 DEF SelfSafe
<1>12. Fillable'
  BY <1>1 DEF Fillable
<1>13. ReportsSound'
  BY <1>1, <1>6, FirstReport
<1> QED  BY <1>7, <1>8, <1>9, <1>10, <1>11, <1>12, <1>13 DEF Agreed

-------------------------------------------------------------------------------
(* The tape.                                                               *)

\* The tape of an odd number of reports.
LEMMA TapeIs ==
  ASSUME reports \in Seq(ReportType), NEW n \in Nat, Len(reports) = 2 * n + 1
  PROVE  /\ Len(Tape) = n /\ DOMAIN Tape = 1 .. n
         /\ Tape = [k \in 1 .. n |->
                      [maker    |-> reports[2 * k].id,
                       taker    |-> reports[2 * k + 1].id,
                       price    |-> reports[2 * k + 1].lastPrice,
                       quantity |-> reports[2 * k + 1].lastQuantity]]
<1>1. (Len(reports) - 1) \div 2 = n
  OBVIOUS
<1> QED  BY <1>1 DEF Tape

\* A report about a canceled remainder is no trade.
LEMMA TapeStays ==
  ASSUME reports \in Seq(ReportType), NEW n \in Nat, Len(reports) = 2 * n + 1,
         NEW report \in ReportType, reports' = Append(reports, report)
  PROVE  reports' \in Seq(ReportType) /\ Tape' = Tape
<1>1. /\ reports' \in Seq(ReportType) /\ Len(reports') = 2 * n + 2
      /\ \A k \in 1 .. 2 * n + 1 : reports'[k] = reports[k]
  OBVIOUS
<1>2. (Len(reports') - 1) \div 2 = n
  BY <1>1
<1>3. Tape' = [k \in 1 .. n |->
                 [maker    |-> reports'[2 * k].id,
                  taker    |-> reports'[2 * k + 1].id,
                  price    |-> reports'[2 * k + 1].lastPrice,
                  quantity |-> reports'[2 * k + 1].lastQuantity]]
  BY <1>2 DEF Tape
<1>4. \A k \in 1 .. n : reports'[2 * k] = reports[2 * k]
                        /\ reports'[2 * k + 1] = reports[2 * k + 1]
  BY <1>1
<1> QED  BY <1>1, <1>3, <1>4, TapeIs

\* The two reports of a trade extend the tape by it.
Entry(maker, taker) ==
  [maker |-> maker.id, taker |-> taker.id,
   price |-> taker.lastPrice, quantity |-> taker.lastQuantity]

Grows(maker, taker) ==
  /\ DOMAIN Tape' = DOMAIN Tape \cup {Len(Tape) + 1}
  /\ \A k \in DOMAIN Tape : Tape'[k] = Tape[k]
  /\ Tape'[Len(Tape) + 1] = Entry(maker, taker)
  /\ Tape' = Append(Tape, Entry(maker, taker))

LEMMA TapeGrows ==
  ASSUME reports \in Seq(ReportType), NEW n \in Nat, Len(reports) = 2 * n + 1,
         NEW maker \in ReportType, NEW taker \in ReportType,
         reports' = reports \o <<maker, taker>>
  PROVE  /\ reports' \in Seq(ReportType) /\ Len(reports') = 2 * (n + 1) + 1
         /\ Grows(maker, taker)
<1>1. /\ <<maker, taker>> \in Seq(ReportType) /\ Len(<<maker, taker>>) = 2
      /\ <<maker, taker>>[1] = maker /\ <<maker, taker>>[2] = taker
  OBVIOUS
<1>2. /\ reports' \in Seq(ReportType) /\ Len(reports') = 2 * (n + 1) + 1
      /\ \A k \in 1 .. 2 * n + 1 : reports'[k] = reports[k]
      /\ reports'[2 * (n + 1)] = maker /\ reports'[2 * (n + 1) + 1] = taker
  <2> DEFINE two == <<maker, taker>>
             m == Len(reports)
  <2>1. /\ reports \o two \in Seq(ReportType) /\ Len(reports \o two) = m + Len(two)
        /\ \A i \in 1 .. m + Len(two) :
              (reports \o two)[i] = IF i <= m THEN reports[i] ELSE two[i - m]
    <3> HIDE DEF two
    <3> QED  BY <1>1, ConcatProperties DEF two
  <2>2. m \in Nat /\ m = 2 * n + 1 /\ Len(two) = 2 /\ two[1] = maker /\ two[2] = taker
    BY <1>1
  <2> HIDE DEF two, m
  <2>3. /\ reports' \in Seq(ReportType) /\ Len(reports') = m + 2
        /\ \A i \in 1 .. m + 2 : reports'[i] = IF i <= m THEN reports[i] ELSE two[i - m]
    BY <2>1, <2>2 DEF two
  <2>4. /\ \A i \in 1 .. m : reports'[i] = reports[i]
        /\ reports'[m + 1] = maker /\ reports'[m + 2] = taker
    <3>1. /\ m + 1 \in 1 .. m + 2 /\ ~ m + 1 <= m /\ m + 1 - m = 1
          /\ m + 2 \in 1 .. m + 2 /\ ~ m + 2 <= m /\ m + 2 - m = 2
      BY <2>2
    <3> QED  BY <2>2, <2>3, <3>1
  <2>5. m + 1 = 2 * (n + 1) /\ m + 2 = 2 * (n + 1) + 1
    BY <2>2
  <2> QED  BY <2>2, <2>3, <2>4, <2>5
<1>3. (Len(reports') - 1) \div 2 = n + 1
  <2>1. Len(reports') - 1 = 2 * (n + 1)
    BY <1>2
  <2> QED  BY <2>1
<1>4. Tape' = [k \in 1 .. n + 1 |->
                 [maker    |-> reports'[2 * k].id,
                  taker    |-> reports'[2 * k + 1].id,
                  price    |-> reports'[2 * k + 1].lastPrice,
                  quantity |-> reports'[2 * k + 1].lastQuantity]]
  BY <1>3 DEF Tape
<1>5. \A k \in 1 .. n : reports'[2 * k] = reports[2 * k]
                        /\ reports'[2 * k + 1] = reports[2 * k + 1]
  BY <1>2
<1>6. /\ Len(Tape) = n /\ DOMAIN Tape = 1 .. n
      /\ Tape = [k \in 1 .. n |->
                      [maker    |-> reports[2 * k].id,
                       taker    |-> reports[2 * k + 1].id,
                       price    |-> reports[2 * k + 1].lastPrice,
                       quantity |-> reports[2 * k + 1].lastQuantity]]
  BY TapeIs
<1>7. /\ DOMAIN Tape' = 1 .. n + 1
      /\ \A k \in 1 .. n : Tape'[k] = Tape[k]
      /\ Tape'[n + 1] = Entry(maker, taker)
  <2>1. n + 1 \in 1 .. n + 1 /\ \A k \in 1 .. n : k \in 1 .. n + 1
    OBVIOUS
  <2>2. \A k \in 1 .. n : Tape'[k] = Tape[k]
    BY <1>4, <1>5, <1>6, <2>1
  <2>3. Tape'[n + 1] = Entry(maker, taker)
    BY <1>2, <1>4, <2>1 DEF Entry
  <2> QED  BY <1>4, <2>2, <2>3
<1>8. Append(Tape, Entry(maker, taker)) =
        [k \in 1 .. n + 1 |-> IF k = n + 1 THEN Entry(maker, taker) ELSE Tape[k]]
  BY <1>6
<1>9. Tape' = Append(Tape, Entry(maker, taker))
  <2>1. Tape' = [k \in 1 .. n + 1 |-> Tape'[k]]
    BY <1>4
  <2>2. \A k \in 1 .. n + 1 :
          Tape'[k] = IF k = n + 1 THEN Entry(maker, taker) ELSE Tape[k]
    BY <1>7
  <2> QED  BY <1>8, <2>1, <2>2
<1> QED  BY <1>2, <1>6, <1>7, <1>9 DEF Grows

-------------------------------------------------------------------------------
(* What follows a trade or ends a call.                                    *)

\* The call under way and its order, between two steps of the loop.
Matching ==
  /\ call.id \in DOMAIN states /\ call.id \in Nat
  /\ Incoming \in State /\ Incoming.filled <= Incoming.original
  /\ Incoming.type = "Limit" => Incoming.limit \in Prices
  /\ call.remaining \in Nat /\ call.remaining = Incoming.original - Incoming.filled
  /\ call.remaining > 0 <=> Incoming.status \notin Terminal
  /\ call.id \notin DOMAIN book.nodes
  /\ DOMAIN states = 1 .. nextId - 1

LEMMA InTheLoop ==
  ASSUME Agreed, pc = "match"
  PROVE  Matching
<1>1. /\ call.id \in DOMAIN states /\ call.id \in Nat
      /\ call.remaining \in Nat /\ call.remaining = Incoming.original - Incoming.filled
      /\ call.remaining > 0 <=> Incoming.status \notin Terminal
  BY DEF Agreed, CallSound, Incoming, Left, Live
<1>2. /\ Incoming \in State /\ Incoming.filled <= Incoming.original
      /\ Incoming.type = "Limit" => Incoming.limit \in Prices
      /\ DOMAIN states = 1 .. nextId - 1
  BY <1>1 DEF Agreed, StatesSound, Incoming
<1>3. call.id \notin DOMAIN book.nodes
  BY <1>1 DEF Agreed, BookAgrees, Resting
<1> QED  BY <1>1, <1>2, <1>3 DEF Matching

LEMMA RestRemainderKeeps ==
  ASSUME Agreed, RestRemainder
  PROVE  Agreed'
<1> DEFINE one == call.id
           order == RestingOrder
<1>1. /\ pc = "match" /\ pc' = "idle" /\ call' = NoCall
      /\ states' = states /\ nextId' = nextId /\ reports' = reports /\ told' = told
      /\ book' = AddOrder(book, one, order)
      /\ call.remaining > 0 /\ Incoming.type = "Limit"
  BY DEF RestRemainder, RestsRemainder
<1>2. Matching
  BY <1>1, InTheLoop
<1>3. /\ order \in Offer(Prices) /\ order.side = Incoming.side
      /\ order.price = Incoming.limit /\ order.quantity = call.remaining
  BY <1>1, <1>2 DEF RestingOrder, Offer, Matching, State
<1>4. /\ SoundBook(book, OrderIds, Prices) /\ one \in OrderIds /\ ~ Resting(book, one)
  BY <1>2, MaxOrdersAssumption
  DEF Agreed, BookAgrees, StatesSound, Matching, OrderIds, Resting
<1>5. SoundBook(book', OrderIds, Prices)
  BY <1>1, <1>3, <1>4, AddOrderSound
<1>6. NodesWith(book', book, one, order)
  BY <1>1, <1>3, <1>4, AddOrderNodes DEF SoundBook
<1> HIDE DEF order
<1>7. StatesSound'
  BY <1>1 DEF Agreed, StatesSound, Live
<1>8. CallSound'
  BY <1>1 DEF CallSound
<1>9. BookAgrees'
  <2>1. ASSUME NEW id \in DOMAIN states'
        PROVE  Resting(book', id) <=> states'[id].status \notin Terminal /\ id # call'.id
    <3>1. id # NoCall.id
      BY <1>1, <1>2 DEF Matching, NoCall
    <3>2. Resting(book', id) <=> Resting(book, id) \/ id = one
      BY <1>6 DEF NodesWith, Resting
    <3>3. states[one].status \notin Terminal
      BY <1>1, <1>2 DEF Matching, Incoming
    <3> QED  BY <1>1, <3>1, <3>2, <3>3 DEF Agreed, BookAgrees, Live
  <2>2. ASSUME NEW id \in DOMAIN book'.nodes
        PROVE  /\ id \in DOMAIN states'
               /\ states'[id].type = "Limit"
               /\ book'.nodes[id] = [side |-> states'[id].side, price |-> states'[id].limit,
                                     quantity |-> states'[id].original - states'[id].filled]
    <3>1. CASE id = one
      <4>1. book'.nodes[id] = order
        BY <1>6, <3>1 DEF NodesWith
      <4>2. /\ order = [side |-> Incoming.side, price |-> Incoming.limit,
                        quantity |-> Incoming.original - Incoming.filled]
        BY <1>2 DEF order, RestingOrder, Matching
      <4> QED  BY <1>1, <1>2, <3>1, <4>1, <4>2 DEF Matching, Incoming
    <3>2. CASE id # one
      <4>1. id \in DOMAIN book.nodes /\ book'.nodes[id] = book.nodes[id]
        BY <1>6, <3>2, <2>2 DEF NodesWith
      <4> QED  BY <1>1, <4>1 DEF Agreed, BookAgrees, Left
    <3> QED  BY <3>1, <3>2
  <2> QED  BY <1>5, <2>1, <2>2 DEF BookAgrees, Left, Live
<1>10. ToldAgrees'
  BY <1>1 DEF Agreed, ToldAgrees
<1>11. SelfSafe' /\ Fillable'
  BY <1>1 DEF SelfSafe, Fillable
<1>12. ReportsSound'
  BY <1>1 DEF Agreed, ReportsSound, Tape
<1> QED  BY <1>7, <1>8, <1>9, <1>10, <1>11, <1>12 DEF Agreed

LEMMA CancelRemainderKeeps ==
  ASSUME Agreed, CancelRemainder
  PROVE  Agreed'
<1> DEFINE one == call.id
           state == [Incoming EXCEPT !.status = "Canceled"]
           report == Report(one, state, "Canceled", 0, 0)
<1>1. /\ pc = "match" /\ pc' = "idle" /\ call' = NoCall
      /\ states' = [states EXCEPT ![one] = state]
      /\ reports' = Append(reports, report)
      /\ book' = book /\ nextId' = nextId /\ call.remaining > 0
  BY DEF CancelRemainder, CancelsRemainder
<1>2. Matching
  BY <1>1, InTheLoop
<1>3. /\ state \in State /\ state.status = "Canceled" /\ state.status \in Terminal
      /\ state.type = Incoming.type /\ state.limit = Incoming.limit
      /\ state.original = Incoming.original /\ state.filled = Incoming.filled
      /\ state.client = Incoming.client /\ state.filled <= state.original
  BY <1>2 DEF State, Terminal, Matching
<1>4. /\ DOMAIN states' = DOMAIN states /\ states'[one] = state
      /\ \A other \in DOMAIN states \ {one} : states'[other] = states[other]
      /\ states[one] = Incoming
  BY <1>1, <1>2 DEF Matching, Incoming
<1> HIDE DEF state
<1>5. Knows(one, report) /\ Tells(report, state) /\ report \in ReportType
  <2>1. report.id = one /\ Tells(report, state)
    BY <1>2, <1>3, ReportTells
  <2>2. report \in ReportType
    BY <1>2, <1>3, ReportIsTyped DEF Matching
  <2>3. Telling(<<report>>)
    BY DEF CancelRemainder, state
  <2> HIDE DEF report, one
  <2> QED  BY <2>1, <2>2, <2>3, TellingOne
<1> HIDE DEF report
<1>6. StatesSound'
  <2>1. ASSUME NEW other \in DOMAIN states'
        PROVE  /\ states'[other] \in State
               /\ states'[other].type = "Limit" => states'[other].limit \in Prices
               /\ states'[other].filled <= states'[other].original
               /\ states'[other].status \notin Terminal =>
                    states'[other].filled < states'[other].original
    BY <1>2, <1>3, <1>4 DEF Agreed, StatesSound, Live, Matching
  <2> QED  BY <1>1, <1>4, <2>1 DEF StatesSound, Live, Agreed
<1>7. CallSound'
  BY <1>1 DEF CallSound
<1>8. BookAgrees'
  <2>1. ASSUME NEW id \in DOMAIN states'
        PROVE  Resting(book', id) <=> states'[id].status \notin Terminal /\ id # call'.id
    <3>1. id # NoCall.id /\ ~ Resting(book, one)
      BY <1>1, <1>2, <1>4 DEF Matching, NoCall, Resting
    <3> QED  BY <1>1, <1>3, <1>4, <3>1 DEF Agreed, BookAgrees, Live
  <2>2. ASSUME NEW id \in DOMAIN book'.nodes
        PROVE  /\ id \in DOMAIN states'
               /\ states'[id].type = "Limit"
               /\ book'.nodes[id] = [side |-> states'[id].side, price |-> states'[id].limit,
                                     quantity |-> states'[id].original - states'[id].filled]
    <3>1. id # one
      BY <1>1, <1>2 DEF Matching
    <3> QED  BY <1>1, <1>4, <3>1 DEF Agreed, BookAgrees, Left
  <2>3. SoundBook(book', OrderIds, Prices)
    BY <1>1 DEF Agreed, BookAgrees
  <2> QED  BY <2>1, <2>2, <2>3 DEF BookAgrees, Left, Live
<1>9. ToldAgrees'
  BY <1>1, <1>2, <1>5, ToldOne DEF Agreed, Matching
<1>10. SelfSafe' /\ Fillable'
  BY <1>1 DEF SelfSafe, Fillable
<1>11. ReportsSound'
  <2>1. PICK n \in 0 .. Len(reports) : Len(reports) = 2 * n + 1
    BY <1>1 DEF Agreed, ReportsSound
  <2>2. reports' \in Seq(ReportType) /\ Tape' = Tape
    <3>1. reports \in Seq(ReportType)
      BY DEF Agreed, ReportsSound
    <3>2. n \in Nat
      BY <3>1
    <3> QED  BY <1>1, <1>5, <2>1, <3>1, <3>2, TapeStays
  <2>3. \A id \in DOMAIN states : states'[id].client = states[id].client
    BY <1>3, <1>4
  <2> QED  BY <1>1, <1>4, <2>2, <2>3 DEF Agreed, ReportsSound
<1> QED  BY <1>6, <1>7, <1>8, <1>9, <1>10, <1>11 DEF Agreed

-------------------------------------------------------------------------------
(* A trade.                                                                *)

\* What a trade makes of a state.
TradedBy(after, state, quantity) ==
  /\ after \in State
  /\ after.side = state.side /\ after.type = state.type /\ after.limit = state.limit
  /\ after.client = state.client /\ after.original = state.original
  /\ after.filled = state.filled + quantity /\ after.filled <= after.original
  /\ after.status \in Terminal <=> after.filled = after.original

LEMMA TradedTrades ==
  ASSUME NEW state \in State, NEW quantity \in Nat \ {0},
         state.filled + quantity <= state.original
  PROVE  TradedBy(Traded(state, quantity), state, quantity)
<1> DEFINE filled == [state EXCEPT !.filled = @ + quantity]
           after  == Traded(state, quantity)
<1>1. /\ state.filled \in Nat /\ state.original \in Nat \ {0}
      /\ state.filled + quantity \in Nat
  BY DEF State
<1>2. /\ filled \in State
      /\ filled.side = state.side /\ filled.type = state.type /\ filled.limit = state.limit
      /\ filled.client = state.client /\ filled.original = state.original
      /\ filled.filled = state.filled + quantity
  BY <1>1 DEF State
<1>3. after = [filled EXCEPT !.status = IF RemainingQuantity(filled) = 0
                                        THEN "Filled" ELSE "PartiallyFilled"]
  BY DEF Traded
<1> HIDE DEF filled, after
<1>4. RemainingQuantity(filled) = 0 <=> filled.filled = filled.original
  BY <1>1, <1>2 DEF RemainingQuantity
<1>5. /\ after \in State
      /\ after.side = filled.side /\ after.type = filled.type /\ after.limit = filled.limit
      /\ after.client = filled.client /\ after.original = filled.original
      /\ after.filled = filled.filled
      /\ after.status = IF RemainingQuantity(filled) = 0 THEN "Filled" ELSE "PartiallyFilled"
  BY <1>2, <1>3 DEF State, Terminal
<1>6. after.status \in Terminal <=> after.filled = after.original
  BY <1>4, <1>5 DEF Terminal
<1> QED  BY <1>2, <1>5, <1>6 DEF TradedBy, after

\* The parties and the quantity of a trade.
Bargain(maker, quantity) ==
  /\ maker \in DOMAIN book.nodes /\ maker \in Reached
  /\ maker \in DOMAIN states /\ maker \in Nat /\ maker # call.id
  /\ states[maker] \in State /\ states[maker].status \notin Terminal
  /\ states[maker].type = "Limit" /\ states[maker].limit \in Prices
  /\ book.nodes[maker].price = states[maker].limit
  /\ book.nodes[maker].side = Opposite(Incoming.side)
  /\ book.nodes[maker].price = BestPrice(book, Opposite(Incoming.side))
  /\ book.nodes[maker].quantity = states[maker].original - states[maker].filled
  /\ book.nodes[maker].quantity \in Nat \ {0}
  /\ quantity \in Nat \ {0}
  /\ quantity = IF call.remaining <= book.nodes[maker].quantity
                THEN call.remaining ELSE book.nodes[maker].quantity
  /\ ~ call.postOnly

LEMMA TradeIsBargain ==
  ASSUME Agreed, pc = "match", CanTrade
  PROVE  LET maker == BestOrder(book, Opposite(Incoming.side))
         IN  Bargain(maker, FillQuantity(maker))
<1> DEFINE opp == Opposite(Incoming.side)
           maker == BestOrder(book, opp)
           quantity == FillQuantity(maker)
<1>1. Matching
  BY InTheLoop
<1>2. /\ SoundBook(book, OrderIds, Prices) /\ Prices \in SUBSET Nat
      /\ opp \in Sides /\ Incoming.limit \in Int
  BY <1>1, PricesArePositive DEF Agreed, BookAgrees, Opposite, Sides, Matching, State
<1>3. /\ call.remaining > 0 /\ DOMAIN book.levels[opp] # {}
      /\ Reaches(Incoming.side, Incoming.type, Incoming.limit, BestPrice(book, opp))
  BY DEF CanTrade, Crosses
<1>4. /\ maker \in DOMAIN book.nodes
      /\ book.nodes[maker].side = opp
      /\ book.nodes[maker].price = BestPrice(book, opp)
  <2> HIDE DEF opp
  <2>1. LET price == BestPrice(book, opp)
            id    == BestOrder(book, opp)
        IN  /\ id \in DOMAIN book.nodes
            /\ book.nodes[id].side = opp /\ book.nodes[id].price = price
    BY <1>2, <1>3, BestOrderIsBest
  <2> QED  BY <2>1
<1> HIDE DEF maker, quantity
<1>5. maker \in Reached
  BY <1>3, <1>4 DEF Reached, ReachedBy
<1>6. /\ maker \in DOMAIN states /\ maker # call.id
      /\ states[maker].type = "Limit" /\ states[maker].status \notin Terminal
      /\ book.nodes[maker].price = states[maker].limit
      /\ book.nodes[maker].quantity = states[maker].original - states[maker].filled
  BY <1>4, NodeIs DEF Agreed
<1>7. /\ maker \in Nat /\ states[maker] \in State /\ states[maker].limit \in Prices
  BY <1>6, MaxOrdersAssumption DEF Agreed, StatesSound
<1>8. book.nodes[maker].quantity \in Nat \ {0}
  BY <1>2, <1>4 DEF SoundBook, IsBook, Offer
<1>9. quantity = IF call.remaining <= book.nodes[maker].quantity
                 THEN call.remaining ELSE book.nodes[maker].quantity
  BY <1>1, <1>8, MinOfTwo DEF FillQuantity, Matching, quantity
<1>10. quantity \in Nat \ {0}
  BY <1>1, <1>3, <1>8, <1>9 DEF Matching
<1>11. ~ call.postOnly
  BY <1>5 DEF Agreed, SelfSafe
<1> QED
  BY <1>4, <1>5, <1>6, <1>7, <1>8, <1>9, <1>10, <1>11 DEF Bargain, maker, quantity

\* What a trade changes: the states of both parties, the book and the call.
Settled(maker, quantity) ==
  /\ DOMAIN states' = DOMAIN states
  /\ TradedBy(states'[maker], states[maker], quantity)
  /\ TradedBy(states'[call.id], states[call.id], quantity)
  /\ \A id \in DOMAIN states \ {maker, call.id} : states'[id] = states[id]
  /\ nextId' = nextId /\ pc' = "match" /\ pc = "match"
  /\ call' = [call EXCEPT !.remaining = call.remaining - quantity]
  /\ SoundBook(book', OrderIds, Prices)
  /\ NodesLess(book', book, maker, quantity)

Reported(maker, quantity) ==
  LET first  == Report(maker, states'[maker], "Trade", quantity, book.nodes[maker].price)
      second == Report(call.id, states'[call.id], "Trade", quantity, book.nodes[maker].price)
  IN  /\ reports' = reports \o <<first, second>>
      /\ first \in ReportType /\ second \in ReportType
      /\ first.id = maker /\ second.id = call.id
      /\ second.lastPrice = book.nodes[maker].price /\ second.lastQuantity = quantity
      /\ Tells(first, states'[maker]) /\ Tells(second, states'[call.id])
      /\ KnowsBoth(maker, first, call.id, second)

LEMMA MatchSettles ==
  ASSUME Agreed, Match
  PROVE  LET maker == BestOrder(book, Opposite(Incoming.side))
             quantity == FillQuantity(maker)
         IN  Bargain(maker, quantity) /\ Settled(maker, quantity) /\ Reported(maker, quantity)
<1> DEFINE maker    == BestOrder(book, Opposite(Incoming.side))
           price    == book.nodes[maker].price
           quantity == FillQuantity(maker)
           resting  == Traded(states[maker], quantity)
           taking   == Traded(Incoming, quantity)
           first    == Report(maker, resting, "Trade", quantity, price)
           second   == Report(call.id, taking, "Trade", quantity, price)
<1>1. /\ pc = "match" /\ pc' = pc /\ nextId' = nextId /\ CanTrade
      /\ states' = [states EXCEPT ![maker] = resting, ![call.id] = taking]
      /\ book' = ReduceOrder(book, maker, quantity)
      /\ call' = [call EXCEPT !.remaining = call.remaining - quantity]
      /\ reports' = reports \o <<first, second>> /\ Telling(<<first, second>>)
  BY DEF Match
<1>2. Matching
  BY <1>1, InTheLoop
<1>3. Bargain(maker, quantity)
  BY <1>1, TradeIsBargain
<1> HIDE DEF maker, quantity
<1>4. /\ states[maker] \in State /\ quantity \in Nat \ {0}
      /\ states[maker].filled + quantity <= states[maker].original
      /\ states[maker].filled \in Nat /\ states[maker].original \in Nat
  <2>1. /\ states[maker] \in State /\ quantity \in Nat \ {0}
        /\ book.nodes[maker].quantity = states[maker].original - states[maker].filled
        /\ book.nodes[maker].quantity \in Nat \ {0} /\ call.remaining \in Nat
        /\ quantity = IF call.remaining <= book.nodes[maker].quantity
                      THEN call.remaining ELSE book.nodes[maker].quantity
    BY <1>2, <1>3 DEF Bargain, Matching
  <2>2. states[maker].filled \in Nat /\ states[maker].original \in Nat
    BY <2>1 DEF State
  <2> QED  BY <2>1, <2>2
<1>5. /\ Incoming.filled + quantity <= Incoming.original
      /\ Incoming.filled \in Nat /\ Incoming.original \in Nat
  <2>1. /\ call.remaining \in Nat /\ call.remaining = Incoming.original - Incoming.filled
        /\ Incoming.filled \in Nat /\ Incoming.original \in Nat
    BY <1>2 DEF Matching, State
  <2>2. /\ quantity = IF call.remaining <= book.nodes[maker].quantity
                     THEN call.remaining ELSE book.nodes[maker].quantity
        /\ book.nodes[maker].quantity \in Nat \ {0}
    BY <1>3 DEF Bargain
  <2>3. quantity <= call.remaining
    BY <2>1, <2>2
  <2> QED  BY <1>4, <2>1, <2>3
<1>6. TradedBy(resting, states[maker], quantity)
  BY <1>4, TradedTrades
<1>7. TradedBy(taking, Incoming, quantity)
  BY <1>2, <1>4, <1>5, TradedTrades DEF Matching
<1>8. maker # call.id /\ maker \in DOMAIN states /\ call.id \in DOMAIN states
      /\ maker \in DOMAIN book.nodes /\ maker \in Nat /\ call.id \in Nat
  BY <1>2, <1>3 DEF Bargain, Matching
<1> HIDE DEF resting, taking
<1>9. /\ DOMAIN states' = DOMAIN states
      /\ states'[maker] = resting /\ states'[call.id] = taking
      /\ \A id \in DOMAIN states \ {maker, call.id} : states'[id] = states[id]
  BY <1>1, <1>8
<1>10. SoundBook(book, OrderIds, Prices)
  BY DEF Agreed, BookAgrees
<1>11. SoundBook(book', OrderIds, Prices) /\ NodesLess(book', book, maker, quantity)
  BY <1>1, <1>4, <1>8, <1>10, ReduceOrderSound, ReduceOrderNodes
<1>12. Settled(maker, quantity)
  BY <1>1, <1>6, <1>7, <1>9, <1>11 DEF Settled, Incoming
<1>13. /\ first \in ReportType /\ Tells(first, resting) /\ first.id = maker
       /\ second \in ReportType /\ Tells(second, taking) /\ second.id = call.id
       /\ second.lastPrice = price /\ second.lastQuantity = quantity
  <2>1. /\ resting \in State /\ resting.filled <= resting.original
        /\ taking \in State /\ taking.filled <= taking.original
    BY <1>6, <1>7 DEF TradedBy
  <2>2. price \in Int /\ quantity \in Nat
    <3>1. price \in Prices
      BY <1>3 DEF Bargain
    <3>2. \A p \in Prices : p \in Int
      BY PricesAssumption
    <3> QED  BY <1>4, <3>1, <3>2
  <2> HIDE DEF price
  <2>3. first \in ReportType /\ second \in ReportType
    BY <1>8, <2>1, <2>2, ReportIsTyped
  <2>4. /\ Tells(first, resting) /\ first.id = maker
        /\ Tells(second, taking) /\ second.id = call.id
    BY <2>1, ReportTells
  <2>5. second.lastPrice = price /\ second.lastQuantity = quantity
    BY DEF Report
  <2> QED  BY <2>3, <2>4, <2>5
<1> HIDE DEF first, second, price
<1>14. KnowsBoth(maker, first, call.id, second)
  BY <1>1, <1>8, <1>13, TellingTwo
<1>15. Reported(maker, quantity)
  BY <1>1, <1>9, <1>13, <1>14 DEF Reported, first, second, price
<1> QED  BY <1>3, <1>12, <1>15 DEF maker, quantity

LEMMA MatchKeeps ==
  ASSUME Agreed, Match
  PROVE  Agreed'
<1> DEFINE maker    == BestOrder(book, Opposite(Incoming.side))
           quantity == FillQuantity(maker)
           first    == Report(maker, states'[maker], "Trade", quantity,
                              book.nodes[maker].price)
           second   == Report(call.id, states'[call.id], "Trade", quantity,
                              book.nodes[maker].price)
<1>1. Bargain(maker, quantity) /\ Settled(maker, quantity) /\ Reported(maker, quantity)
  BY MatchSettles
<1> HIDE DEF maker, quantity
<1>2. Matching /\ pc = "match" /\ pc' = "match" /\ nextId' = nextId
  BY <1>1, InTheLoop DEF Settled
<1>3. /\ maker \in DOMAIN states /\ maker # call.id /\ call.id \in DOMAIN states
      /\ call'.id = call.id /\ call'.tif = call.tif /\ call'.postOnly = call.postOnly
      /\ call'.remaining = call.remaining - quantity
      /\ DOMAIN states' = DOMAIN states /\ Incoming' = states'[call.id]
  <2>1. call \in [id : Nat, remaining : Nat, tif : {"Gtc", "Ioc", "Fok"}, postOnly : BOOLEAN]
    BY <1>2 DEF Agreed, CallSound
  <2>2. call' = [call EXCEPT !.remaining = call.remaining - quantity]
    BY <1>1 DEF Settled
  <2>3. /\ call'.id = call.id /\ call'.tif = call.tif /\ call'.postOnly = call.postOnly
        /\ call'.remaining = call.remaining - quantity
    BY <2>1, <2>2
  <2> QED  BY <1>1, <1>2, <2>3 DEF Bargain, Settled, Matching, Incoming
<1>4. /\ TradedBy(states'[maker], states[maker], quantity)
      /\ TradedBy(states'[call.id], Incoming, quantity)
      /\ \A id \in DOMAIN states \ {maker, call.id} : states'[id] = states[id]
  BY <1>1 DEF Settled, Incoming
<1>5. \A id \in DOMAIN states : /\ states'[id].side = states[id].side
                                /\ states'[id].type = states[id].type
                                /\ states'[id].limit = states[id].limit
                                /\ states'[id].client = states[id].client
  BY <1>4 DEF TradedBy, Incoming
<1>6. /\ quantity \in Nat \ {0} /\ call.remaining \in Nat
      /\ book.nodes[maker].quantity \in Nat \ {0}
      /\ book.nodes[maker].quantity = states[maker].original - states[maker].filled
      /\ call.remaining = Incoming.original - Incoming.filled
      /\ quantity = IF call.remaining <= book.nodes[maker].quantity
                    THEN call.remaining ELSE book.nodes[maker].quantity
      /\ maker \in DOMAIN book.nodes /\ call.id \notin DOMAIN book.nodes
      /\ maker \in Reached /\ call.remaining - quantity \in Nat
      /\ states[maker].filled \in Nat /\ states[maker].original \in Nat
      /\ Incoming.filled \in Nat /\ Incoming.original \in Nat
      /\ states[maker].type = "Limit"
  <2>1. /\ quantity \in Nat \ {0} /\ book.nodes[maker].quantity \in Nat \ {0}
        /\ book.nodes[maker].quantity = states[maker].original - states[maker].filled
        /\ quantity = IF call.remaining <= book.nodes[maker].quantity
                      THEN call.remaining ELSE book.nodes[maker].quantity
        /\ maker \in DOMAIN book.nodes /\ maker \in Reached
        /\ states[maker] \in State /\ states[maker].type = "Limit"
    BY <1>1 DEF Bargain
  <2>2. /\ call.remaining \in Nat /\ call.remaining = Incoming.original - Incoming.filled
        /\ call.id \notin DOMAIN book.nodes /\ Incoming \in State
    BY <1>2 DEF Matching
  <2>3. call.remaining - quantity \in Nat
    BY <2>1, <2>2
  <2>4. /\ states[maker].filled \in Nat /\ states[maker].original \in Nat
        /\ Incoming.filled \in Nat /\ Incoming.original \in Nat
    BY <2>1, <2>2 DEF State
  <2> QED  BY <2>1, <2>2, <2>3, <2>4
<1>7. StatesSound'
  <2>1. ASSUME NEW id \in DOMAIN states'
        PROVE  /\ states'[id] \in State
               /\ states'[id].type = "Limit" => states'[id].limit \in Prices
               /\ states'[id].filled <= states'[id].original
               /\ states'[id].status \notin Terminal =>
                    states'[id].filled < states'[id].original
    <3>1. CASE id \in {maker, call.id}
      <4>1. /\ states'[id] \in State /\ states'[id].filled <= states'[id].original
            /\ states'[id].status \notin Terminal =>
                  states'[id].filled # states'[id].original
        BY <1>4, <3>1 DEF TradedBy
      <4>2. states'[id].filled \in Nat /\ states'[id].original \in Nat
        BY <4>1 DEF State
      <4>3. states'[id].type = "Limit" => states'[id].limit \in Prices
        BY <1>3, <1>5 DEF Agreed, StatesSound
      <4> QED  BY <4>1, <4>2, <4>3
    <3>2. CASE id \notin {maker, call.id}
      BY <1>3, <1>4, <3>2 DEF Agreed, StatesSound, Live
    <3> QED  BY <3>1, <3>2
  <2> QED  BY <1>2, <1>3, <2>1 DEF StatesSound, Live, Agreed
<1>8. CallSound'
  <2>1. call'.remaining = states'[call.id].original - states'[call.id].filled
    BY <1>3, <1>4, <1>6 DEF TradedBy
  <2>2. call'.remaining > 0 <=> states'[call.id].status \notin Terminal
    <3>1. call'.remaining = 0 <=> states'[call.id].filled = states'[call.id].original
      BY <1>3, <1>4, <1>6 DEF TradedBy
    <3> QED  BY <1>3, <1>4, <1>6, <3>1 DEF TradedBy
  <2>3. call' \in [id : Nat, remaining : Nat, tif : {"Gtc", "Ioc", "Fok"}, postOnly : BOOLEAN]
    <3>1. call \in [id : Nat, remaining : Nat, tif : {"Gtc", "Ioc", "Fok"}, postOnly : BOOLEAN]
      BY <1>2 DEF Agreed, CallSound
    <3> QED  BY <1>1, <1>6, <3>1 DEF Settled
  <2>4. call.postOnly => Incoming.type = "Limit" /\ call.tif = "Gtc"
    BY <1>2 DEF Agreed, CallSound
  <2>5. Incoming'.type = Incoming.type
    BY <1>3, <1>5 DEF Incoming
  <2> QED  BY <1>2, <1>3, <2>1, <2>2, <2>3, <2>4, <2>5 DEF CallSound, Left, Live
<1>9. NodesLess(book', book, maker, quantity) /\ SoundBook(book', OrderIds, Prices)
  BY <1>1 DEF Settled
<1>10. /\ \A id \in DOMAIN book.nodes \ {maker} :
             id \in DOMAIN book'.nodes /\ book'.nodes[id] = book.nodes[id]
       /\ DOMAIN book'.nodes \subseteq DOMAIN book.nodes
       /\ maker \in DOMAIN book'.nodes <=> quantity < book.nodes[maker].quantity
       /\ maker \in DOMAIN book'.nodes =>
            book'.nodes[maker] = Less(book.nodes[maker], quantity)
  BY <1>6, <1>9 DEF NodesLess, NodesWith, NodesWithout
<1>11. BookAgrees'
  <2>1. ASSUME NEW id \in DOMAIN states'
        PROVE  Resting(book', id) <=> states'[id].status \notin Terminal /\ id # call'.id
    <3>1. CASE id = maker
      <4>1. states'[maker].status \in Terminal <=> quantity = book.nodes[maker].quantity
        BY <1>4, <1>6 DEF TradedBy
      <4> QED  BY <1>3, <1>6, <1>10, <3>1, <4>1 DEF Resting
    <3>2. CASE id = call.id
      BY <1>3, <1>6, <1>10, <3>2 DEF Resting
    <3>3. CASE id \notin {maker, call.id}
      <4>1. Resting(book', id) <=> Resting(book, id)
        BY <1>10, <3>3 DEF Resting
      <4> QED  BY <1>3, <1>4, <3>3, <4>1 DEF Agreed, BookAgrees, Live
    <3> QED  BY <3>1, <3>2, <3>3
  <2>2. ASSUME NEW id \in DOMAIN book'.nodes
        PROVE  /\ id \in DOMAIN states'
               /\ states'[id].type = "Limit"
               /\ book'.nodes[id] = [side |-> states'[id].side, price |-> states'[id].limit,
                                     quantity |-> states'[id].original - states'[id].filled]
    <3>1. /\ id \in DOMAIN book.nodes /\ id \in DOMAIN states /\ id # call.id
          /\ states[id].type = "Limit"
          /\ book.nodes[id] = [side |-> states[id].side, price |-> states[id].limit,
                               quantity |-> states[id].original - states[id].filled]
      BY <1>6, <1>10 DEF Agreed, BookAgrees, Left
    <3>2. CASE id = maker
      <4>1. book'.nodes[id] = Less(book.nodes[id], quantity)
        BY <1>10, <3>2, <2>2
      <4>2. states'[id].original - states'[id].filled =
              (states[id].original - states[id].filled) - quantity
        BY <1>4, <1>6, <3>2 DEF TradedBy
      <4>3. book'.nodes[id] = [side |-> states[id].side, price |-> states[id].limit,
                  quantity |-> (states[id].original - states[id].filled) - quantity]
        BY <3>1, <4>1 DEF Less
      <4> QED  BY <1>3, <1>5, <3>1, <4>2, <4>3
    <3>3. CASE id # maker
      BY <1>3, <1>4, <1>10, <3>1, <3>3
    <3> QED  BY <3>2, <3>3
  <2> QED  BY <1>9, <2>1, <2>2 DEF BookAgrees, Left, Live
<1>12. ToldAgrees'
  <2>1. /\ KnowsBoth(maker, first, call.id, second)
        /\ Tells(first, states'[maker]) /\ Tells(second, states'[call.id])
    BY <1>1 DEF Reported
  <2> HIDE DEF first, second
  <2>2. /\ DOMAIN told' = DOMAIN states'
        /\ told'[maker] = first /\ told'[call.id] = second
        /\ \A id \in DOMAIN states \ {maker, call.id} : told'[id] = told[id]
    BY <1>3, <2>1 DEF KnowsBoth, Agreed, ToldAgrees
  <2>3. \A id \in DOMAIN states : Tells(told[id], states[id])
    BY DEF Agreed, ToldAgrees
  <2>4. ASSUME NEW id \in DOMAIN states' PROVE Tells(told'[id], states'[id])
    BY <1>3, <1>4, <2>1, <2>2, <2>3
  <2> QED  BY <2>2, <2>4 DEF ToldAgrees
<1>13. Reached' = Reached \cap DOMAIN book'.nodes
  <2>1. /\ Incoming'.side = Incoming.side /\ Incoming'.type = Incoming.type
        /\ Incoming'.limit = Incoming.limit
    BY <1>3, <1>5 DEF Incoming
  <2>2. \A id \in DOMAIN book'.nodes : /\ id \in DOMAIN book.nodes
                                       /\ book'.nodes[id].side = book.nodes[id].side
                                       /\ book'.nodes[id].price = book.nodes[id].price
    <3>1. book.nodes[maker] \in Offer(Prices)
      BY <1>6 DEF Agreed, BookAgrees, SoundBook, IsBook
    <3>2. /\ Less(book.nodes[maker], quantity).side = book.nodes[maker].side
          /\ Less(book.nodes[maker], quantity).price = book.nodes[maker].price
      BY <3>1 DEF Less, Offer
    <3> QED  BY <1>10, <3>2
  <2>3. Reached' = {id \in DOMAIN book'.nodes :
                      /\ book'.nodes[id].side = Opposite(Incoming.side)
                      /\ Reaches(Incoming.side, Incoming.type, Incoming.limit,
                                 book'.nodes[id].price)}
    BY <2>1 DEF Reached, ReachedBy
  <2>4. Reached = {id \in DOMAIN book.nodes :
                      /\ book.nodes[id].side = Opposite(Incoming.side)
                      /\ Reaches(Incoming.side, Incoming.type, Incoming.limit,
                                 book.nodes[id].price)}
    BY DEF Reached, ReachedBy
  <2> QED  BY <2>2, <2>3, <2>4
<1>14. SelfSafe'
  <2>1. /\ ~ call.postOnly
        /\ \A id \in Reached : states[id].client = Incoming.client => Incoming.client = 0
    BY <1>1, <1>2 DEF Agreed, SelfSafe, Bargain
  <2>2. Incoming'.client = Incoming.client
    BY <1>3, <1>5 DEF Incoming
  <2>3. \A id \in Reached : states'[id].client = states[id].client
    <3>1. \A id \in Reached : id \in DOMAIN states
      BY NodeIs DEF Reached, ReachedBy, Agreed
    <3> QED  BY <1>5, <3>1
  <2> QED  BY <1>3, <1>13, <2>1, <2>2, <2>3 DEF SelfSafe
<1>15. ReportsSound'
  <2>1. /\ reports' = reports \o <<first, second>>
        /\ first \in ReportType /\ second \in ReportType
        /\ first.id = maker /\ second.id = call.id
    BY <1>1 DEF Reported
  <2> HIDE DEF first, second
  <2>2. reports \in Seq(ReportType)
    BY DEF Agreed, ReportsSound
  <2>3. PICK n \in 0 .. Len(reports) : Len(reports) = 2 * n + 1
    BY <1>2 DEF Agreed, ReportsSound
  <2>4. n \in Nat
    BY <2>2
  <2>5. /\ reports' \in Seq(ReportType) /\ Len(reports') = 2 * (n + 1) + 1
        /\ Grows(first, second)
    BY <2>1, <2>2, <2>3, <2>4, TapeGrows
  <2>6. \E m \in 0 .. Len(reports') : Len(reports') = 2 * m + 1
    <3>1. n + 1 \in 0 .. Len(reports')
      BY <2>4, <2>5
    <3> QED  BY <2>5, <3>1
  <2>7. states[maker].client = Incoming.client => Incoming.client = 0
    BY <1>2, <1>6 DEF Agreed, SelfSafe
  <2>8. ASSUME NEW k \in DOMAIN Tape'
        PROVE  /\ Tape'[k].maker \in DOMAIN states'
               /\ Tape'[k].taker \in DOMAIN states'
               /\ states'[Tape'[k].maker].client = states'[Tape'[k].taker].client =>
                    states'[Tape'[k].maker].client = 0
    <3>1. CASE k \in DOMAIN Tape
      <4>1. /\ Tape'[k] = Tape[k]
            /\ Tape[k].maker \in DOMAIN states /\ Tape[k].taker \in DOMAIN states
            /\ states[Tape[k].maker].client = states[Tape[k].taker].client =>
                 states[Tape[k].maker].client = 0
        BY <2>5, <3>1 DEF Grows, Agreed, ReportsSound
      <4> QED  BY <1>3, <1>5, <4>1
    <3>2. CASE k = Len(Tape) + 1
      <4>1. Tape'[k].maker = maker /\ Tape'[k].taker = call.id
        BY <2>1, <2>5, <3>2 DEF Grows, Entry
      <4> QED  BY <1>3, <1>5, <2>7, <4>1 DEF Incoming
    <3> QED  BY <2>5, <2>8, <3>1, <3>2 DEF Grows
  <2> QED  BY <2>5, <2>6, <2>8 DEF ReportsSound
<1>16. Fillable'
  <2> DEFINE others == Reached \ {maker}
             offered == book.nodes[maker].quantity
  <2>1. /\ IsFiniteSet(DOMAIN book.nodes)
        /\ \A id \in DOMAIN book.nodes : book.nodes[id].quantity \in Nat
        /\ \A id \in DOMAIN book'.nodes : book'.nodes[id].quantity \in Nat
    BY <1>9 DEF Agreed, BookAgrees, SoundBook, IsBook, Offer
  <2>2. /\ others \subseteq DOMAIN book.nodes /\ IsFiniteSet(others) /\ maker \notin others
        /\ others \cup {maker} = Reached /\ Reached \subseteq DOMAIN book.nodes
    BY <1>6, <2>1, FS_Subset DEF Reached, ReachedBy
  <2> HIDE DEF others
  <2>3. /\ QuantityOf(book, others) \in Nat
        /\ QuantityOf(book, others \cup {maker}) = QuantityOf(book, others) + offered
    BY <1>6, <2>1, <2>2, QuantityAdds
  <2>4. QuantityOf(book', others) = QuantityOf(book, others)
    BY <1>10, <2>2, QuantitySame
  <2>5. QuantityOf(book', Reached') = QuantityOf(book, others) + (offered - quantity)
    <3>1. CASE quantity < offered
      <4>1. Reached' = others \cup {maker} /\ maker \in DOMAIN book'.nodes
        BY <1>10, <1>13, <2>2, <3>1
      <4>2. \A id \in others \cup {maker} : book'.nodes[id].quantity \in Nat
        BY <1>10, <2>1, <2>2, <4>1
      <4>3. QuantityOf(book', others \cup {maker}) =
              QuantityOf(book', others) + book'.nodes[maker].quantity
        BY <2>2, <4>2, QuantityAdds
      <4>4. book'.nodes[maker].quantity = offered - quantity
        <5>1. book.nodes[maker] \in Offer(Prices)
          BY <1>6 DEF Agreed, BookAgrees, SoundBook, IsBook
        <5> QED  BY <1>10, <4>1, <5>1 DEF Less, Offer
      <4> QED  BY <2>4, <4>1, <4>3, <4>4
    <3>2. CASE ~ quantity < offered
      <4>1. Reached' = others
        BY <1>10, <1>13, <2>2, <3>2
      <4>2. quantity = offered
        BY <1>6, <3>2
      <4> QED  BY <1>6, <2>3, <2>4, <4>1, <4>2
    <3> QED  BY <3>1, <3>2
  <2>6. ASSUME call.tif = "Fok"
        PROVE  QuantityOf(book', Reached') >= call'.remaining
    <3>1. QuantityOf(book, others \cup {maker}) >= call.remaining
      BY <1>2, <2>2, <2>6 DEF Agreed, Fillable
    <3> HIDE DEF offered
    <3>2. offered \in Nat
      BY <1>6 DEF offered
    <3> QED  BY <1>3, <1>6, <2>3, <2>5, <3>1, <3>2
  <2> QED  BY <1>3, <2>6 DEF Fillable
<1> QED
  BY <1>7, <1>8, <1>11, <1>12, <1>14, <1>15, <1>16 DEF Agreed

-------------------------------------------------------------------------------
(* The theorems.                                                           *)

LEMMA NextKeeps ==
  ASSUME Agreed, [Next]_vars
  PROVE  Agreed'
<1>1. CASE \E clOrdId \in ClientOrderIds \cup {0}, r \in NewRequests :
              SubmitRefused(r, clOrdId) \/ SubmitAccepted(r, clOrdId)
  BY <1>1, RefusedKeeps, SubmitAcceptedKeeps DEF SubmitRefused
<1>2. CASE \E clOrdId \in ClientOrderIds \cup {0}, id \in OrderIds :
              CancelRefused(id, clOrdId) \/ CancelAccepted(id, clOrdId)
  BY <1>2, RefusedKeeps, CancelAcceptedKeeps DEF CancelRefused
<1>3. CASE \E clOrdId \in ClientOrderIds \cup {0}, id \in OrderIds,
              price \in Prices \cup {0}, quantity \in Quantities \cup {0} :
                 \/ ReplaceRefused(id, price, quantity, clOrdId)
                 \/ ReplaceAccepted(id, price, quantity, clOrdId)
  BY <1>3, RefusedKeeps, ReplaceAcceptedKeeps DEF ReplaceRefused
<1>4. CASE Continue
  BY <1>4, MatchKeeps, RestRemainderKeeps, CancelRemainderKeeps, NothingRemainsKeeps
  DEF Continue
<1>5. CASE UNCHANGED vars
  BY <1>5, StutterKeeps
<1> QED  BY <1>1, <1>2, <1>3, <1>4, <1>5 DEF Next

\* Every behaviour keeps the agreement.
LEMMA Agreement == Spec => []Agreed
<1>1. Init => Agreed
  BY InitAgrees
<1>2. Agreed /\ [Next]_vars => Agreed'
  BY NextKeeps
<1> QED  BY <1>1, <1>2, PTL DEF Spec

\* The engine and its book agree between and within calls, and none of the
\* branches that report InternalError is taken (submit_order, cancel_order,
\* replace_order, match_against_book, rest_limit_order).
THEOREM BookAlwaysMatchesStates == Spec => []BookMatchesStates
<1>1. ASSUME Agreed PROVE BookMatchesStates
  <2>1. /\ BookAgrees /\ QueuesMatchIndex(book) /\ TotalsMatchOrders(book)
    BY <1>1 DEF Agreed, BookAgrees, SoundBook
  <2>2. \A id \in DOMAIN states :
          Resting(book, id) <=> states[id].status \notin Terminal /\ id # call.id
    BY <2>1 DEF BookAgrees, Live
  <2>3. \A id \in DOMAIN book.nodes :
          /\ id \in DOMAIN states
          /\ book.nodes[id] = [side     |-> states[id].side,
                               price    |-> states[id].limit,
                               quantity |-> states[id].original - states[id].filled]
    BY <2>1 DEF BookAgrees, Left
  <2>4. NoInternalError
    <3>1. ASSUME pc = "match", CanTrade
          PROVE  LET maker == BestOrder(book, Opposite(Incoming.side))
                 IN  maker \in DOMAIN states /\ maker # call.id
      BY <1>1, <3>1, TradeIsBargain DEF Bargain
    <3>2. ASSUME pc = "match", RestsRemainder
          PROVE  /\ ~ Resting(book, call.id)
                 /\ RestingOrder.price > 0 /\ RestingOrder.quantity > 0
      <4>1. Matching /\ call.remaining > 0 /\ Incoming.type = "Limit"
        BY <1>1, <3>2, InTheLoop DEF RestsRemainder
      <4>2. \A p \in Prices : p > 0
        BY PricesAssumption
      <4> QED  BY <4>1, <4>2 DEF Matching, Resting, RestingOrder
    <3> QED  BY <3>1, <3>2 DEF NoInternalError
  <2> QED  BY <2>1, <2>2, <2>3, <2>4 DEF BookMatchesStates
<1> QED  BY <1>1, Agreement, PTL

\* Two orders of one client never trade with each other: what would_self_trade
\* checks when a call is accepted still holds at every iteration of its loop.
THEOREM NoSelfTradeEver == Spec => []NoSelfTrade
<1>1. Agreed => NoSelfTrade
  BY DEF Agreed, ReportsSound, NoSelfTrade
<1> QED  BY <1>1, Agreement, PTL

\* The last report about an order tells whether, where and with what quantity
\* it rests (make_report, make_trade_report).
THEOREM ReportsAlwaysDescribeBook == Spec => []ReportsDescribeBook
<1>1. ASSUME Agreed PROVE ReportsDescribeBook
  <2>1. ASSUME pc = "idle", NEW id \in DOMAIN states
        PROVE  /\ id \in DOMAIN told
               /\ Resting(book, id) <=> told[id].remaining > 0
               /\ Resting(book, id) => /\ told[id].remaining = book.nodes[id].quantity
                                       /\ told[id].restingPrice = book.nodes[id].price
    <3>1. /\ states[id].filled \in Nat /\ states[id].original \in Nat
          /\ states[id].status \notin Terminal => states[id].filled < states[id].original
          /\ id # NoCall.id
      BY <1>1, MaxOrdersAssumption DEF Agreed, StatesSound, State, Live, NoCall
    <3>2. id \in DOMAIN told /\ Tells(told[id], states[id])
      BY <1>1 DEF Agreed, ToldAgrees
    <3>3. Resting(book, id) <=> states[id].status \notin Terminal
      BY <1>1, <2>1, <3>1 DEF Agreed, BookAgrees, CallSound, Live
    <3>4. Resting(book, id) =>
            /\ states[id].type = "Limit"
            /\ book.nodes[id].price = states[id].limit
            /\ book.nodes[id].quantity = states[id].original - states[id].filled
      BY <1>1, NodeIs DEF Agreed, Resting
    <3> QED  BY <3>1, <3>2, <3>3, <3>4 DEF Tells
  <2> QED  BY <2>1 DEF ReportsDescribeBook
<1> QED  BY <1>1, Agreement, PTL

\* No call changes an order that is over.
THEOREM WhatIsOverStaysOver == Spec => TerminalIsFinal
<1> DEFINE Final == \A id \in DOMAIN states :
                      states[id].status \in Terminal => states'[id] = states[id]
<1>1. ASSUME Agreed, [Next]_vars PROVE Final
  <2>1. CASE states' = states
    BY <2>1
  <2>2. ASSUME NEW r \in NewRequests, NEW clOrdId, SubmitAccepted(r, clOrdId) PROVE Final
    <3>1. nextId \notin DOMAIN states
      BY <1>1, MaxOrdersAssumption DEF Agreed, StatesSound
    <3> QED  BY <2>2, <3>1 DEF SubmitAccepted, Put
  <2>3. ASSUME NEW one \in DOMAIN states, states[one].status \notin Terminal,
               NEW state, states' = [states EXCEPT ![one] = state]
        PROVE  Final
    BY <2>3
  <2>4. ASSUME NEW one, NEW clOrdId, CancelAccepted(one, clOrdId) PROVE Final
    <3>1. one \in DOMAIN states /\ states[one].status \notin Terminal
      BY <1>1, <2>4, NodeIs DEF CancelAccepted, Resting, Agreed
    <3> QED  BY <2>3, <2>4, <3>1 DEF CancelAccepted
  <2>5. ASSUME NEW one, NEW price, NEW quantity, NEW clOrdId,
               ReplaceAccepted(one, price, quantity, clOrdId)
        PROVE  Final
    <3>1. one \in DOMAIN states /\ states[one].status \notin Terminal
      BY <1>1, <2>5, NodeIs DEF ReplaceAccepted, Resting, Agreed
    <3> QED  BY <2>3, <2>5, <3>1 DEF ReplaceAccepted
  <2>6. CASE Match
    <3> DEFINE maker == BestOrder(book, Opposite(Incoming.side))
               quantity == FillQuantity(maker)
    <3>1. Bargain(maker, quantity) /\ Settled(maker, quantity) /\ Matching
      BY <1>1, <2>6, MatchSettles, InTheLoop DEF Match
    <3> HIDE DEF maker, quantity
    <3>2. call.remaining > 0
      BY <2>6 DEF Match, CanTrade
    <3>3. /\ states[maker].status \notin Terminal
          /\ states[call.id].status \notin Terminal
          /\ \A id \in DOMAIN states \ {maker, call.id} : states'[id] = states[id]
      BY <3>1, <3>2 DEF Bargain, Settled, Matching, Incoming
    <3> QED  BY <3>3
  <2>7. CASE CancelRemainder
    <3>1. Matching /\ call.remaining > 0
      BY <1>1, <2>7, InTheLoop DEF CancelRemainder, CancelsRemainder
    <3>2. call.id \in DOMAIN states /\ states[call.id].status \notin Terminal
      BY <3>1 DEF Matching, Incoming
    <3> QED  BY <2>3, <2>7, <3>2 DEF CancelRemainder
  <2>8. CASE RestRemainder \/ NothingRemains \/ UNCHANGED vars
    BY <2>1, <2>8 DEF RestRemainder, NothingRemains, vars
  <2>9. ASSUME NEW ids, Refused(ids) PROVE Final
    BY <2>1, <2>9 DEF Refused
  <2> HIDE DEF Final
  <2> QED
    BY <1>1, <2>2, <2>4, <2>5, <2>6, <2>7, <2>8, <2>9
    DEF Next, Continue, SubmitRefused, CancelRefused, ReplaceRefused
<1>2. Agreed /\ [Next]_vars => [Final]_vars
  BY <1>1
<1> QED  BY <1>2, Agreement, PTL DEF Spec, TerminalIsFinal

-------------------------------------------------------------------------------
(* Price-time matching.                                                    *)

\* The order coming in, as price-time matching sees it.
Entrant == [id |-> call.id, side |-> Incoming.side,
            limit |-> IF Incoming.type = "Market" THEN {} ELSE {Incoming.limit},
            left |-> call.remaining, policy |-> Policy]

LEMMA InitQueues == Init => PriceTime!Init
<1> SUFFICES ASSUME Init PROVE PriceTime!Init
  OBVIOUS
<1>1. Queues(book, Prices) = [side \in Sides |-> [price \in Prices |-> <<>>]]
  BY EmptyQueues DEF Init
<1>2. Tape = <<>> /\ pc = "idle"
  BY DEF Tape, Init
<1> QED  BY <1>1, <1>2 DEF PriceTime!Init, PriceTime!BookSides, Sides

\* The prices that the entrant may trade at.
LEMMA ExecutableAre ==
  ASSUME Agreed, pc = "match"
  PROVE  /\ PriceTime!Executable(Entrant) =
              {p \in DOMAIN book.levels[Opposite(Incoming.side)] :
                 Reaches(Incoming.side, Incoming.type, Incoming.limit, p)}
         /\ PriceTime!Other(Entrant.side) = Opposite(Incoming.side)
         /\ Opposite(Incoming.side) \in Sides
<1> DEFINE opp == Opposite(Incoming.side)
<1>1. Matching
  BY InTheLoop
<1>2. /\ SoundBook(book, OrderIds, Prices) /\ opp \in Sides
      /\ DOMAIN book.levels[opp] \subseteq Prices
      /\ Incoming.type \in {"Limit", "Market"}
  BY <1>1 DEF Agreed, BookAgrees, Opposite, Sides, SoundBook, IsBook, Matching, State
<1>3. PriceTime!Other(Entrant.side) = opp
  BY DEF PriceTime!Other, Opposite, Entrant
<1>4. \A p \in Prices : Queues(book, Prices)[opp][p] # <<>> <=> p \in DOMAIN book.levels[opp]
  <2>1. \A p \in Prices : Queues(book, Prices)[opp][p] = Queued(book, opp, p)
    BY <1>2 DEF Queues
  <2> HIDE DEF opp
  <2>2. \A p : Queued(book, opp, p) # <<>> <=> p \in DOMAIN book.levels[opp]
    BY <1>2, OldestQueued
  <2> QED  BY <2>1, <2>2
<1>5. \A p \in Prices : PriceTime!Within(Entrant, p) <=>
                          Reaches(Incoming.side, Incoming.type, Incoming.limit, p)
  BY <1>2 DEF PriceTime!Within, PriceTime!NoLimit, PriceTime!Improves, Reaches, Better, Entrant
<1>6. PriceTime!Executable(Entrant) =
        {p \in Prices : Queues(book, Prices)[PriceTime!Other(Entrant.side)][p] # <<>>
                        /\ PriceTime!Within(Entrant, p)}
  BY DEF PriceTime!Executable
<1> HIDE DEF opp
<1> QED  BY <1>2, <1>3, <1>4, <1>5, <1>6 DEF opp

\* A first report starts a new tape.
LEMMA NewTape ==
  ASSUME NEW report, reports' = <<report>>
  PROVE  Tape' = <<>>
<1>1. Len(reports') = 1
  OBVIOUS
<1> QED  BY <1>1 DEF Tape

LEMMA RefusedQueues ==
  ASSUME Agreed, NEW ids, Refused(ids)
  PROVE  PriceTime!Next
<1>1. Tape' = <<>>
  BY NewTape DEF Refused
<1>2. /\ pc = "idle" /\ pc' = "idle" /\ book' = book
  BY DEF Refused
<1>3. PriceTime!Refuse
  BY <1>1, <1>2 DEF PriceTime!Refuse
<1> QED  BY <1>3 DEF PriceTime!Next

LEMMA SubmitQueues ==
  ASSUME Agreed, NEW r \in NewRequests, NEW clOrdId, SubmitAccepted(r, clOrdId)
  PROVE  PriceTime!Next
<1> DEFINE limit == IF r.type = "Market" THEN {} ELSE {r.price}
           policy == IF r.postOnly THEN "make"
                     ELSE IF r.tif = "Fok" THEN "all"
                     ELSE IF r.type = "Limit" /\ r.tif = "Gtc" THEN "rest"
                     ELSE "drop"
<1>1. /\ r.side \in Sides /\ r.type \in {"Limit", "Market"} /\ r.quantity \in Nat \ {0}
      /\ r.type = "Limit" => r.price \in Prices
      /\ r.postOnly => r.type = "Limit"
  <2>1. ~ BadRequest(r)
    BY DEF SubmitAccepted
  <2> QED  BY <2>1, NewRequestsAssumption DEF BadRequest
<1>2. /\ pc = "idle" /\ pc' = "match" /\ book' = book
      /\ nextId \in OrderIds /\ nextId \notin DOMAIN states /\ nextId \in Nat
  BY MaxOrdersAssumption DEF SubmitAccepted, Agreed, StatesSound, OrderIds
<1>3. Tape' = <<>>
  BY NewTape DEF SubmitAccepted
<1>4. /\ Incoming'.side = r.side /\ Incoming'.type = r.type /\ Incoming'.limit = r.price
      /\ call'.id = nextId /\ call'.remaining = r.quantity
      /\ call'.tif = r.tif /\ call'.postOnly = r.postOnly
  BY DEF SubmitAccepted, Incoming, Put
<1>5. Policy' = policy
  BY <1>4 DEF Policy
<1>6. Entrant' = [id |-> nextId, side |-> r.side, limit |-> limit, left |-> r.quantity,
                  policy |-> policy]
  BY <1>4, <1>5 DEF Entrant
<1>7. ~ PriceTime!Rests(nextId)
  <2>1. SoundBook(book, OrderIds, Prices) /\ ~ Resting(book, nextId)
    BY <1>2 DEF Agreed, BookAgrees, Resting
  <2>2. \A side \in Sides, price \in Prices :
          \A k \in DOMAIN Queued(book, side, price) : Queued(book, side, price)[k].id # nextId
    BY <2>1, NotQueued
  <2> QED  BY <2>2 DEF PriceTime!Rests, PriceTime!BookSides, Sides, Queues
<1> HIDE DEF limit, policy
<1>8. PriceTime!Enter(nextId, r.side, limit, r.quantity, policy)
  BY <1>2, <1>3, <1>6, <1>7 DEF PriceTime!Enter, Entrant
<1>9. r.quantity \in Quantities \cup {q.quantity : q \in NewRequests}
  OBVIOUS
<1>10. CASE r.type = "Market"
  <2>1. limit = PriceTime!NoLimit /\ policy \in {"drop", "all"}
    BY <1>1, <1>10 DEF PriceTime!NoLimit, limit, policy
  <2> QED  BY <1>1, <1>2, <1>8, <1>9, <2>1 DEF PriceTime!Next, PriceTime!BookSides, Sides
<1>11. CASE r.type = "Limit"
  <2>1. limit = {r.price} /\ r.price \in Prices /\ policy \in {"rest", "drop", "all", "make"}
    BY <1>1, <1>11 DEF limit, policy
  <2>2. PriceTime!Enter(nextId, r.side, {r.price}, r.quantity, policy)
    BY <1>8, <2>1
  <2>3. r.side \in PriceTime!BookSides
    BY <1>1 DEF PriceTime!BookSides, Sides
  <2>4. \E price \in Prices, how \in {"rest", "drop", "all", "make"} :
          PriceTime!Enter(nextId, r.side, {price}, r.quantity, how)
    BY <2>1, <2>2
  <2>5. \E one \in OrderIds, side \in PriceTime!BookSides,
           quantity \in Quantities \cup {q.quantity : q \in NewRequests} :
              \E price \in Prices, how \in {"rest", "drop", "all", "make"} :
                PriceTime!Enter(one, side, {price}, quantity, how)
    BY <1>2, <1>9, <2>3, <2>4, Zenon
  <2> QED  BY <2>5, Zenon DEF PriceTime!Next
<1> QED  BY <1>1, <1>10, <1>11

LEMMA CancelQueues ==
  ASSUME Agreed, NEW id, NEW clOrdId, CancelAccepted(id, clOrdId)
  PROVE  PriceTime!Next
<1> DEFINE side == book.nodes[id].side
           price == book.nodes[id].price
<1>1. /\ pc = "idle" /\ pc' = "idle" /\ id \in DOMAIN book.nodes
      /\ book' = CancelOrder(book, id) /\ SoundBook(book, OrderIds, Prices)
  BY DEF CancelAccepted, Agreed, BookAgrees, Resting
<1>2. Tape' = <<>>
  BY NewTape DEF CancelAccepted
<1>3. /\ side \in Sides /\ price \in Prices
      /\ \E k \in DOMAIN Queued(book, side, price) :
            /\ k \in 1 .. Len(LevelAt(book, side, price).queue)
            /\ LevelAt(book, side, price).queue[k] = id
  BY <1>1, PlaceOf
<1>4. PICK k \in DOMAIN Queued(book, side, price) :
            /\ k \in 1 .. Len(LevelAt(book, side, price).queue)
            /\ LevelAt(book, side, price).queue[k] = id
  BY <1>3
<1>5. k \in DOMAIN Queues(book, Prices)[side][price]
  BY <1>3, <1>4 DEF Queues
<1>6. Removes(book', book, Prices, id, k)
  BY <1>1, <1>4, CancelOrderQueues
<1>7. PriceTime!Withdraw(side, price, k)
  BY <1>1, <1>2, <1>6 DEF PriceTime!Withdraw, PriceTime!RemoveAt, RemoveAt, Removes
<1> HIDE DEF side, price
<1> QED  BY <1>3, <1>5, <1>7 DEF PriceTime!Next, PriceTime!BookSides, Sides

LEMMA ReplaceQueues ==
  ASSUME Agreed, NEW id, NEW newPrice \in Prices \cup {0},
         NEW newQuantity \in Quantities \cup {0},
         NEW clOrdId, ReplaceAccepted(id, newPrice, newQuantity, clOrdId)
  PROVE  PriceTime!Next
<1> DEFINE side == book.nodes[id].side
           price == book.nodes[id].price
<1>1. /\ pc = "idle" /\ pc' = "match" /\ id \in DOMAIN book.nodes
      /\ book' = CancelOrder(book, id) /\ SoundBook(book, OrderIds, Prices)
      /\ id \in DOMAIN states
  BY DEF ReplaceAccepted, Agreed, BookAgrees, Resting
<1>2. Tape' = <<>>
  BY NewTape DEF ReplaceAccepted
<1>3. /\ side \in Sides /\ price \in Prices
      /\ \E k \in DOMAIN Queued(book, side, price) :
            /\ k \in 1 .. Len(LevelAt(book, side, price).queue)
            /\ LevelAt(book, side, price).queue[k] = id
            /\ Queued(book, side, price)[k].id = id
  BY <1>1, PlaceOf
<1>4. PICK k \in DOMAIN Queued(book, side, price) :
            /\ k \in 1 .. Len(LevelAt(book, side, price).queue)
            /\ LevelAt(book, side, price).queue[k] = id
            /\ Queued(book, side, price)[k].id = id
  BY <1>3
<1>5. /\ k \in DOMAIN Queues(book, Prices)[side][price]
      /\ Queues(book, Prices)[side][price][k].id = id
  BY <1>3, <1>4 DEF Queues
<1>6. Removes(book', book, Prices, id, k)
  BY <1>1, <1>4, CancelOrderQueues
<1>7. newPrice \in Prices /\ newQuantity \in Quantities
  <2>1. newPrice # 0 /\ newQuantity # 0
    BY DEF ReplaceAccepted
  <2> QED  BY <2>1
<1>8. side = states[id].side /\ states[id].type = "Limit" /\ states[id] \in State
  BY <1>1, NodeIs DEF Agreed, StatesSound
<1>9. /\ call'.id = id /\ call'.remaining = newQuantity /\ call'.tif = "Gtc"
      /\ ~ call'.postOnly /\ states'[id] = Amended(states[id], newPrice, newQuantity)
  BY <1>1 DEF ReplaceAccepted
<1>10. /\ Incoming'.side = side /\ Incoming'.type = "Limit" /\ Incoming'.limit = newPrice
  <2>1. Incoming' = Amended(states[id], newPrice, newQuantity)
    BY <1>9 DEF Incoming
  <2> HIDE DEF side
  <2> QED  BY <1>8, <2>1 DEF Amended, State
<1>11. Entrant' = [id |-> id, side |-> side, limit |-> {newPrice}, left |-> newQuantity,
                   policy |-> "rest"]
  <2>1. Policy' = "rest"
    BY <1>9, <1>10 DEF Policy
  <2> QED  BY <1>9, <1>10, <2>1 DEF Entrant
<1>12. Queues(book, Prices)' =
         [Queues(book, Prices) EXCEPT ![side][price] = RemoveAt(@, k)]
  BY <1>6 DEF Removes
<1> HIDE DEF side, price
<1>13. PriceTime!Amend(side, price, k, newPrice, newQuantity)
  BY <1>1, <1>2, <1>5, <1>11, <1>12
  DEF PriceTime!Amend, PriceTime!RemoveAt, RemoveAt, Entrant
<1> QED  BY <1>3, <1>5, <1>7, <1>13 DEF PriceTime!Next, PriceTime!BookSides, Sides

LEMMA MatchQueues ==
  ASSUME Agreed, Match
  PROVE  PriceTime!Next
<1> DEFINE opp      == Opposite(Incoming.side)
           maker    == BestOrder(book, opp)
           price    == BestPrice(book, opp)
           quantity == FillQuantity(maker)
           offered  == book.nodes[maker].quantity
           s        == Queued(book, opp, price)
           trade    == [maker |-> maker, taker |-> call.id, price |-> price,
                        quantity |-> quantity]
<1>1. Bargain(maker, quantity) /\ Settled(maker, quantity) /\ Reported(maker, quantity)
  BY MatchSettles
<1>2. /\ pc = "match" /\ pc' = "match" /\ Matching /\ opp \in Sides
      /\ SoundBook(book, OrderIds, Prices)
      /\ book' = ReduceOrder(book, maker, quantity)
      /\ call.remaining > 0 /\ Crosses(Incoming.side, Incoming.type, Incoming.limit)
  BY InTheLoop, ExecutableAre DEF Match, CanTrade, Agreed, BookAgrees
<1>3. /\ price \in DOMAIN book.levels[opp] /\ price \in Prices
      /\ \A p \in DOMAIN book.levels[opp] : ~ Better(opp, p, price)
      /\ Reaches(Incoming.side, Incoming.type, Incoming.limit, price)
      /\ maker = Head(book.levels[opp][price].queue)
  <2>1. DOMAIN book.levels[opp] # {} /\ Prices \in SUBSET Nat
    BY <1>2, PricesArePositive DEF Crosses
  <2>2. /\ price \in DOMAIN book.levels[opp] /\ price \in Prices
        /\ \A p \in DOMAIN book.levels[opp] : ~ Better(opp, p, price)
    <3> HIDE DEF opp
    <3> QED  BY <1>2, <2>1, BestOrderIsBest
  <2> QED  BY <1>2, <2>2 DEF Crosses, BestOrder
<1>4. /\ maker \in DOMAIN book.nodes /\ quantity \in Nat \ {0} /\ offered \in Nat \ {0}
      /\ book.nodes[maker].side = opp /\ book.nodes[maker].price = price
      /\ ~ call.postOnly /\ call.remaining \in Nat
      /\ quantity = Min({call.remaining, offered})
  BY <1>1, <1>2 DEF Bargain, Matching, FillQuantity
<1> HIDE DEF price, quantity
<1>5. /\ 1 \in 1 .. Len(LevelAt(book, opp, price).queue)
      /\ LevelAt(book, opp, price).queue[1] = maker
      /\ Len(s) \in Nat \ {0} /\ s \in Seq(Pair(OrderIds))
      /\ s[1] = [id |-> maker, quantity |-> offered]
  <2> HIDE DEF opp
  <2>1. IsOldest(Head(book.levels[opp][price].queue), book, OrderIds, opp, price)
    BY <1>2, <1>3, OldestQueued
  <2> HIDE DEF maker
  <2>2. IsOldest(maker, book, OrderIds, opp, price)
    BY <1>3, <2>1
  <2> QED  BY <2>2 DEF IsOldest, offered, s
<1> HIDE DEF maker, offered, s
<1>6. PriceTime!Executable(Entrant) =
        {p \in DOMAIN book.levels[opp] :
           Reaches(Incoming.side, Incoming.type, Incoming.limit, p)}
  BY <1>2, ExecutableAre
<1>7. PriceTime!Other(Entrant.side) = opp
  BY <1>2, ExecutableAre
<1>8. /\ price \in PriceTime!Executable(Entrant)
      /\ \A p \in PriceTime!Executable(Entrant) : ~ PriceTime!Improves(opp, p, price)
  BY <1>3, <1>6 DEF PriceTime!Improves, Better
<1>9. Queues(book, Prices)[opp][price] = s
  BY <1>2, <1>3 DEF Queues, s
<1>10. /\ Head(s) = [id |-> maker, quantity |-> offered]
       /\ Head(s).id = maker /\ Head(s).quantity = offered
  <2>1. Head(s) = s[1]
    BY <1>5
  <2> QED  BY <1>5, <2>1
<1>11. PriceTime!Min({Entrant.left, Head(s).quantity}) = quantity
  BY <1>4, <1>10 DEF PriceTime!Min, Min, Entrant
<1>12. Queues(book, Prices)' =
         [Queues(book, Prices) EXCEPT ![opp][price] = PriceTime!TakenFirst(s, quantity)]
  <2>1. Takes(ReduceOrder(book, maker, quantity), book, Prices, maker, 1, quantity)
    <3> HIDE DEF opp
    <3> QED  BY <1>2, <1>4, <1>5, ReduceOrderQueues
  <2>2. Queues(book', Prices) =
          [Queues(book, Prices) EXCEPT ![opp][price] = LessAt(@, 1, quantity)]
    BY <1>2, <1>4, <2>1 DEF Takes
  <2>3. Queues(book', Prices) =
          [Queues(book, Prices) EXCEPT ![opp][price] = LessAt(s, 1, quantity)]
    BY <1>9, <2>2
  <2>4. RemoveAt(s, 1) = Tail(s)
    BY <1>5, RemoveOldest
  <2>5. LessAt(s, 1, quantity) = PriceTime!TakenFirst(s, quantity)
    BY <2>4 DEF LessAt, PriceTime!TakenFirst
  <2> QED  BY <2>3, <2>5
<1>13. Entrant' = [Entrant EXCEPT !.left = Entrant.left - quantity]
  <2>1. /\ Incoming'.side = Incoming.side /\ Incoming'.type = Incoming.type
        /\ Incoming'.limit = Incoming.limit
        /\ call'.id = call.id /\ call'.tif = call.tif /\ call'.postOnly = call.postOnly
        /\ call'.remaining = call.remaining - quantity
    <3>1. call \in [id : Nat, remaining : Nat, tif : {"Gtc", "Ioc", "Fok"},
                    postOnly : BOOLEAN]
      BY <1>2 DEF Agreed, CallSound
    <3>2. call' = [call EXCEPT !.remaining = call.remaining - quantity]
      BY <1>1 DEF Settled
    <3>3. /\ call'.id = call.id /\ call'.tif = call.tif /\ call'.postOnly = call.postOnly
          /\ call'.remaining = call.remaining - quantity
      BY <3>1, <3>2
    <3> QED  BY <1>1, <3>3 DEF Settled, TradedBy, Incoming
  <2>2. Policy' = Policy
    BY <2>1 DEF Policy
  <2> QED  BY <2>1, <2>2 DEF Entrant
<1>14. Tape' = Append(Tape, trade)
  <2> DEFINE first  == Report(maker, states'[maker], "Trade", quantity,
                              book.nodes[maker].price)
             second == Report(call.id, states'[call.id], "Trade", quantity,
                              book.nodes[maker].price)
  <2>1. /\ reports' = reports \o <<first, second>>
        /\ first \in ReportType /\ second \in ReportType
        /\ first.id = maker /\ second.id = call.id
        /\ second.lastPrice = price /\ second.lastQuantity = quantity
    BY <1>1, <1>4 DEF Reported
  <2> HIDE DEF first, second
  <2>2. reports \in Seq(ReportType)
    BY DEF Agreed, ReportsSound
  <2>3. PICK n \in 0 .. Len(reports) : Len(reports) = 2 * n + 1
    BY <1>2 DEF Agreed, ReportsSound
  <2>4. n \in Nat
    BY <2>2
  <2>5. Grows(first, second)
    BY <2>1, <2>2, <2>3, <2>4, TapeGrows
  <2>6. Entry(first, second) = trade
    BY <2>1 DEF Entry
  <2> QED  BY <2>5, <2>6 DEF Grows
<1>15. Entrant.left > 0 /\ Entrant.policy # "make" /\ Entrant.id = call.id
  BY <1>2, <1>4 DEF Entrant, Policy
<1> HIDE DEF opp
<1>16. PriceTime!Trade(Entrant)
  <2>1. {Entrant}' = {[Entrant EXCEPT !.left = @ - quantity]}
    BY <1>13
  <2>2. /\ \A p \in PriceTime!Executable(Entrant) :
              ~ PriceTime!Improves(PriceTime!Other(Entrant.side), p, price)
        /\ Queues(book, Prices)' =
             [Queues(book, Prices) EXCEPT ![PriceTime!Other(Entrant.side)][price] =
                PriceTime!TakenFirst(@, quantity)]
    BY <1>7, <1>8, <1>9, <1>12
  <2>3. /\ PriceTime!Min({Entrant.left,
             Head(Queues(book, Prices)[PriceTime!Other(Entrant.side)][price]).quantity}) = quantity
        /\ Head(Queues(book, Prices)[PriceTime!Other(Entrant.side)][price]).id = maker
    BY <1>7, <1>9, <1>10, <1>11
  <2>4. Tape' = Append(Tape, [maker |-> maker, taker |-> Entrant.id, price |-> price,
                              quantity |-> quantity])
    BY <1>14, <1>15
  <2>5. (IF pc = "idle" THEN {} ELSE {Entrant})' = {Entrant'}
    BY <1>2
  <2> QED  BY <1>8, <1>15, <2>1, <2>2, <2>3, <2>4, <2>5 DEF PriceTime!Trade, Entrant
<1> QED  BY <1>2, <1>16 DEF PriceTime!Next, Entrant

\* Nothing is executable once the loop is over and something remains.
LEMMA NothingExecutable ==
  ASSUME Agreed, pc = "match", ~ CanTrade, call.remaining > 0
  PROVE  /\ PriceTime!Executable(Entrant) = {}
         /\ ReachedBy(Incoming.side, Incoming.type, Incoming.limit) = {}
<1> DEFINE opp == Opposite(Incoming.side)
<1>1. /\ Matching /\ BookAgrees /\ SoundBook(book, OrderIds, Prices)
      /\ Incoming.side \in Sides /\ Incoming.limit \in Int /\ opp \in Sides
  BY InTheLoop, ExecutableAre DEF Agreed, BookAgrees, Matching, State
<1>2. ~ Crosses(Incoming.side, Incoming.type, Incoming.limit)
  BY DEF CanTrade
<1>3. ReachedBy(Incoming.side, Incoming.type, Incoming.limit) = {}
  BY <1>1, <1>2, CrossesReached
<1>4. \A p \in DOMAIN book.levels[opp] :
        ~ Reaches(Incoming.side, Incoming.type, Incoming.limit, p)
  <2> SUFFICES ASSUME NEW p \in DOMAIN book.levels[opp]
               PROVE  ~ Reaches(Incoming.side, Incoming.type, Incoming.limit, p)
    OBVIOUS
  <2> HIDE DEF opp
  <2>1. /\ book.levels[opp][p].queue # <<>>
        /\ SoundLevel(book.levels[opp][p], book, OrderIds, opp, p)
    BY <1>1, LevelHolds
  <2>2. 1 \in 1 .. Len(book.levels[opp][p].queue)
    <3>1. Len(book.levels[opp][p].queue) \in Nat
          /\ Len(book.levels[opp][p].queue) # 0
      BY <2>1, EmptySeq DEF SoundLevel
    <3> QED  BY <3>1
  <2>3. PICK first : /\ first \in DOMAIN book.nodes
                     /\ book.nodes[first].side = opp /\ book.nodes[first].price = p
    BY <2>1, <2>2 DEF SoundLevel
  <2> QED  BY <1>3, <2>3 DEF ReachedBy, opp
<1>5. PriceTime!Executable(Entrant) =
        {p \in DOMAIN book.levels[opp] :
           Reaches(Incoming.side, Incoming.type, Incoming.limit, p)}
  BY ExecutableAre
<1> HIDE DEF opp
<1> QED  BY <1>3, <1>4, <1>5

\* What is left rests at the end of the queue at its limit.
LEMMA RestQueues ==
  ASSUME Agreed, RestRemainder
  PROVE  PriceTime!Next
<1> DEFINE one == call.id
           order == RestingOrder
           pair == [id |-> one, quantity |-> call.remaining]
<1>1. /\ pc = "match" /\ pc' = "idle" /\ reports' = reports
      /\ book' = AddOrder(book, one, order) /\ ~ CanTrade
      /\ call.remaining > 0 /\ Incoming.type = "Limit" /\ call.tif = "Gtc"
  BY DEF RestRemainder, RestsRemainder
<1>2. Matching
  BY <1>1, InTheLoop
<1>3. /\ order \in Offer(Prices) /\ order.side = Incoming.side
      /\ order.price = Incoming.limit /\ order.quantity = call.remaining
  BY <1>1, <1>2 DEF RestingOrder, Offer, Matching, State
<1>4. /\ SoundBook(book, OrderIds, Prices) /\ one \in OrderIds /\ ~ Resting(book, one)
  BY <1>2, MaxOrdersAssumption
  DEF Agreed, BookAgrees, StatesSound, Matching, OrderIds, Resting
<1>5. Appends(book', book, Prices, one, order)
  BY <1>1, <1>3, <1>4, AddOrderQueues
<1> HIDE DEF order
<1>6. Queues(book, Prices)' =
        [Queues(book, Prices) EXCEPT ![Incoming.side][Incoming.limit] = Append(@, pair)]
  BY <1>3, <1>5 DEF Appends
<1>7. PriceTime!Executable(Entrant) = {}
  BY <1>1, NothingExecutable
<1>8. /\ Entrant.policy \in {"rest", "make"} /\ Entrant.policy # "all"
      /\ Entrant.left > 0 /\ Entrant.limit = {Incoming.limit}
      /\ Entrant.side = Incoming.side /\ Entrant.id = one
      /\ Entrant.left = call.remaining
  BY <1>1 DEF Entrant, Policy
<1>9. Tape' = Tape
  BY <1>1 DEF Tape
<1>10. \E price \in Entrant.limit :
         Queues(book, Prices)' =
           [Queues(book, Prices) EXCEPT ![Entrant.side][price] =
              Append(@, [id |-> Entrant.id, quantity |-> Entrant.left])]
  BY <1>6, <1>8
<1>11. PriceTime!Finish(Entrant)
  BY <1>1, <1>7, <1>8, <1>9, <1>10 DEF PriceTime!Finish
<1> QED  BY <1>1, <1>11 DEF PriceTime!Next, Entrant

\* What is left is dropped: not of a fill-or-kill order, of which nothing is left.
LEMMA CancelRemainderQueues ==
  ASSUME Agreed, CancelRemainder
  PROVE  PriceTime!Next
<1> DEFINE state == [Incoming EXCEPT !.status = "Canceled"]
           report == Report(call.id, state, "Canceled", 0, 0)
<1>1. /\ pc = "match" /\ pc' = "idle" /\ reports' = Append(reports, report)
      /\ book' = book /\ ~ CanTrade /\ call.remaining > 0 /\ ~ RestsRemainder
  BY DEF CancelRemainder, CancelsRemainder
<1>2. Matching
  BY <1>1, InTheLoop
<1>3. /\ PriceTime!Executable(Entrant) = {}
      /\ ReachedBy(Incoming.side, Incoming.type, Incoming.limit) = {}
  BY <1>1, NothingExecutable
<1>4. Entrant.policy = "drop"
  <2>1. call.tif # "Fok"
    <3>1. QuantityOf(book, {}) = 0
      BY QuantityOfNone
    <3>2. Reached = {}
      BY <1>3 DEF Reached
    <3>3. call.tif = "Fok" => QuantityOf(book, Reached) >= call.remaining
      BY <1>1 DEF Agreed, Fillable
    <3> QED  BY <1>1, <1>2, <3>1, <3>2, <3>3 DEF Matching
  <2>2. ~ (Incoming.type = "Limit" /\ call.tif = "Gtc")
    BY <1>1 DEF RestsRemainder
  <2>3. ~ call.postOnly
    BY <1>1, <2>2 DEF Agreed, CallSound
  <2> QED  BY <2>1, <2>2, <2>3 DEF Entrant, Policy
<1>5. Tape' = Tape
  <2>1. state \in State
    BY <1>2 DEF State, Terminal, Matching
  <2> HIDE DEF state
  <2>2. report \in ReportType
    BY <1>2, <2>1, ReportIsTyped DEF Matching
  <2> HIDE DEF report
  <2>3. reports \in Seq(ReportType)
    BY DEF Agreed, ReportsSound
  <2>4. PICK n \in 0 .. Len(reports) : Len(reports) = 2 * n + 1
    BY <1>1 DEF Agreed, ReportsSound
  <2>5. n \in Nat
    BY <2>3
  <2> QED  BY <1>1, <2>2, <2>3, <2>4, <2>5, TapeStays
<1>6. PriceTime!Finish(Entrant)
  BY <1>1, <1>3, <1>4, <1>5 DEF PriceTime!Finish
<1> QED  BY <1>1, <1>6 DEF PriceTime!Next, Entrant

LEMMA NothingRemainsQueues ==
  ASSUME Agreed, NothingRemains
  PROVE  PriceTime!Next
<1>1. /\ pc = "match" /\ pc' = "idle" /\ reports' = reports
      /\ book' = book /\ call.remaining = 0
  BY DEF NothingRemains
<1>2. Tape' = Tape
  BY <1>1 DEF Tape
<1>3. Entrant.left = 0
  BY <1>1 DEF Entrant
<1>4. PriceTime!Finish(Entrant)
  BY <1>1, <1>2, <1>3 DEF PriceTime!Finish
<1> QED  BY <1>1, <1>4 DEF PriceTime!Next, Entrant

LEMMA NextQueues == Agreed /\ [Next]_vars => [PriceTime!Next]_(PriceTime!vars)
<1> SUFFICES ASSUME Agreed, [Next]_vars PROVE [PriceTime!Next]_(PriceTime!vars)
  OBVIOUS
<1>1. CASE UNCHANGED vars
  BY <1>1 DEF vars, PriceTime!vars, Tape, Incoming, Policy
<1>2. ASSUME Next PROVE PriceTime!Next
  <2>1. ASSUME NEW clOrdId, NEW r \in NewRequests,
               SubmitRefused(r, clOrdId) \/ SubmitAccepted(r, clOrdId)
        PROVE  PriceTime!Next
    BY <2>1, RefusedQueues, SubmitQueues DEF SubmitRefused
  <2>2. ASSUME NEW clOrdId, NEW id, CancelRefused(id, clOrdId) \/ CancelAccepted(id, clOrdId)
        PROVE  PriceTime!Next
    BY <2>2, RefusedQueues, CancelQueues DEF CancelRefused
  <2>3. ASSUME NEW clOrdId, NEW id,
               NEW price \in Prices \cup {0}, NEW quantity \in Quantities \cup {0},
               ReplaceRefused(id, price, quantity, clOrdId)
                 \/ ReplaceAccepted(id, price, quantity, clOrdId)
        PROVE  PriceTime!Next
    BY <2>3, RefusedQueues, ReplaceQueues DEF ReplaceRefused
  <2>4. CASE Continue
    BY <2>4, MatchQueues, RestQueues, CancelRemainderQueues, NothingRemainsQueues
    DEF Continue
  <2> QED  BY <1>2, <2>1, <2>2, <2>3, <2>4 DEF Next
<1> QED  BY <1>1, <1>2

\* The engine implements price-time matching: who trades with whom, at which
\* price and in which order, what rests and what may be left over.
THEOREM EngineIsPriceTime == Spec => PriceTimeSpec
<1> QED  BY Agreement, InitQueues, NextQueues, PTL DEF Spec, PriceTimeSpec, PriceTime!Spec
===============================================================================
