---------------------------- MODULE MatchingEngine ----------------------------
(***************************************************************************)
(* MatchingEngine: price-time matching for one symbol.  submit_order,      *)
(* cancel_order and replace_order are called one at a time; a call that    *)
(* matches runs its loop one iteration per step, so that pc is "match"     *)
(* from the moment the order is accepted until the call returns.           *)
(*                                                                         *)
(* Left out: timestamps, notional and average price, reject reasons and    *)
(* the client order id stored in an order's state, which only reach the    *)
(* reports; client_to_exchange_, which is never read; and the branches     *)
(* that report InternalError, which BookMatchesStates shows are not taken.   *)
(***************************************************************************)
EXTENDS BookLevels

CONSTANTS
  Symbol,          \* symbol_id_
  NewRequests,     \* arguments of submit_order, less the client order id
  Prices,          \* prices of replace_order besides the invalid 0
  Quantities,      \* quantities of replace_order besides the invalid 0
  ClientOrderIds,  \* client order ids other than kInvalidClientOrderId
  MaxOrders        \* bound: exchange order ids handed out

ASSUME PricesAssumption == Prices \subseteq Nat \ {0}
ASSUME QuantitiesAssumption == Quantities \subseteq Nat \ {0}
ASSUME ClientOrderIdsAssumption == 0 \notin ClientOrderIds
ASSUME MaxOrdersAssumption == MaxOrders \in Nat
ASSUME NewRequestsAssumption ==
  \A r \in NewRequests :
     /\ r.price \in Int /\ (r.price > 0 => r.price \in Prices)
     /\ r.quantity \in Int /\ r.client \in Nat /\ r.postOnly \in BOOLEAN

VARIABLES
  book,      \* book_
  states,    \* states_: exchange order id to order state
  nextId,    \* next_exchange_order_id_
  seen,      \* seen_client_order_ids_
  reports,   \* the reports of the call under way or last made
  pc,        \* "idle", or "match" inside match_against_book
  call,      \* the call's locals: incoming order, remaining, tif, postOnly
  told       \* history: the last report about each accepted order

vars == <<book, states, nextId, seen, reports, pc, call, told>>

OrderIds == 1 .. MaxOrders
Terminal == {"Filled", "Canceled", "Rejected"}
NoCall   == [id |-> 0, remaining |-> 0, tif |-> "Gtc", postOnly |-> FALSE]

State == [side     : Sides,
          type     : {"Limit", "Market"},
          limit    : Int,
          original : Nat \ {0},
          filled   : Nat,
          client   : Nat,
          status   : Terminal \cup {"New", "PartiallyFilled", "Replaced"}]

Init ==
  /\ book = EmptyBook
  /\ states = <<>>
  /\ nextId = 1
  /\ seen = {}
  /\ reports = <<>>
  /\ pc = "idle"
  /\ call = NoCall
  /\ told = <<>>

-------------------------------------------------------------------------------
(* Reports.                                                                *)

RemainingQuantity(state) ==
  IF state.original > state.filled THEN state.original - state.filled ELSE 0

Report(id, state, exec, quantity, price) ==
  LET remaining == IF state.status \in Terminal THEN 0
                                                ELSE RemainingQuantity(state)
  IN  [id           |-> id,
       status       |-> state.status,
       exec         |-> exec,
       filled       |-> state.filled,
       remaining    |-> remaining,
       lastQuantity |-> quantity,
       lastPrice    |-> price,
       restingPrice |-> IF remaining > 0 /\ state.type = "Limit"
                        THEN state.limit ELSE 0]

\* make_reject, about no accepted order.
Reject ==
  [id |-> 0, status |-> "Rejected", exec |-> "Rejected", filled |-> 0,
   remaining |-> 0, lastQuantity |-> 0, lastPrice |-> 0, restingPrice |-> 0]

\* The effect of a list of reports about accepted orders on the history.
Telling(list) ==
  told' = [id \in DOMAIN told \cup {list[k].id : k \in DOMAIN list} |->
             IF \E k \in DOMAIN list : list[k].id = id
             THEN list[Max({k \in DOMAIN list : list[k].id = id})]
             ELSE told[id]]

-------------------------------------------------------------------------------
(* Checks.                                                                 *)

\* reserve_client_order_id
Reservable(clOrdId) == clOrdId # 0 /\ clOrdId \notin seen
Reserved(clOrdId)   == seen \cup ({clOrdId} \ {0})

\* A price of the other side is within the order's limit.
Reaches(side, type, limit, price) == type = "Market" \/ ~ Better(side, price, limit)

Crosses(side, type, limit) ==
  LET opposite == Opposite(side)
  IN  /\ DOMAIN book.levels[opposite] # {}
      /\ Reaches(side, type, limit, BestPrice(book, opposite))

\* would_self_trade: the owner rests an order at a price within the limit.
ForgetsMarket(side, type, limit, client, excluded) ==   \* mutation: limits only
  /\ client # 0
  /\ \E id \in DOMAIN states \ {excluded} :
        /\ states[id].client = client
        /\ states[id].side = Opposite(side)
        /\ Resting(book, id)
        /\ type = "Limit" /\ ~ Better(side, states[id].limit, limit)
WouldSelfTrade(side, type, limit, client, excluded) ==
  /\ client # 0
  /\ \E id \in DOMAIN states \ {excluded} :
        /\ states[id].client = client
        /\ states[id].side = Opposite(side)
        /\ Resting(book, id)
        /\ Reaches(side, type, limit, states[id].limit)

ReplaceWouldSelfTrade(id, price) ==
  WouldSelfTrade(states[id].side, states[id].type, price, states[id].client, id)

\* can_fully_fill: what the executable levels hold covers the quantity.
CanFullyFill(r) ==
  LET view == L2View(book, Opposite(r.side), Cardinality(DOMAIN book.nodes))
      executable == {k \in DOMAIN view :
                       Reaches(r.side, r.type, r.price, view[k].price)}
  IN  Cardinality(UNION {{k} \X (1 .. view[k].quantity) : k \in executable})
        >= r.quantity

\* submit_order's checks: those that come before the client order id is
\* reserved, and those that come after.
BadRequest(r) ==
  \/ r.symbol # Symbol \/ r.side \notin Sides \/ r.type \notin {"Limit", "Market"}
  \/ r.quantity <= 0
  \/ r.type = "Limit" /\ r.price <= 0
  \/ r.tif \notin {"Gtc", "Ioc", "Fok"}
  \/ r.postOnly /\ (r.type # "Limit" \/ r.tif # "Gtc")

NotNow(r) ==
  \/ r.postOnly /\ Crosses(r.side, r.type, r.price)
  \/ ~ r.postOnly /\ WouldSelfTrade(r.side, r.type, r.price, r.client, 0)
  \/ r.tif = "Fok" /\ ~ CanFullyFill(r)

-------------------------------------------------------------------------------
(* Calls.                                                                  *)

\* A call that is refused: one report, and perhaps a client order id used up.
Refused(ids) ==
  /\ pc = "idle"
  /\ reports' = <<Reject>>
  /\ seen' = ids
  /\ UNCHANGED <<book, states, nextId, pc, call, told>>

SubmitRefused(r, clOrdId) ==
  \/ BadRequest(r) /\ Refused(seen)
  \/ ~ BadRequest(r) /\ ~ Reservable(clOrdId) /\ Refused(seen)
  \/ /\ ~ BadRequest(r) /\ Reservable(clOrdId) /\ NotNow(r)
     /\ Refused(Reserved(clOrdId))

SubmitAccepted(r, clOrdId) ==
  LET state == [side |-> r.side, type |-> r.type, limit |-> r.price,
                original |-> r.quantity, filled |-> 0, client |-> r.client,
                status |-> "New"]
      report == Report(nextId, state, "New", 0, 0)
  IN  /\ pc = "idle" /\ nextId <= MaxOrders
      /\ ~ BadRequest(r) /\ Reservable(clOrdId) /\ ~ NotNow(r)
      /\ states' = Put(states, nextId, state)
      /\ nextId' = nextId + 1
      /\ seen' = Reserved(clOrdId)
      /\ reports' = <<report>> /\ Telling(<<report>>)
      /\ call' = [id |-> nextId, remaining |-> r.quantity, tif |-> r.tif,
                  postOnly |-> r.postOnly]
      /\ pc' = "match"
      /\ UNCHANGED book

CancelRefused(id, clOrdId) ==
  \/ ~ Reservable(clOrdId) /\ Refused(seen)
  \/ Reservable(clOrdId) /\ ~ Resting(book, id) /\ Refused(Reserved(clOrdId))

CancelAccepted(id, clOrdId) ==
  LET state == [states[id] EXCEPT !.status = "Canceled"]
      report == Report(id, state, "Canceled", 0, 0)
  IN  /\ pc = "idle"
      /\ Reservable(clOrdId) /\ id \in DOMAIN states /\ Resting(book, id)
      /\ book' = CancelOrder(book, id)
      /\ states' = [states EXCEPT ![id] = state]
      /\ seen' = Reserved(clOrdId)
      /\ reports' = <<report>> /\ Telling(<<report>>)
      /\ UNCHANGED <<nextId, pc, call>>

ReplaceRefused(id, price, quantity, clOrdId) ==
  \/ (quantity <= 0 \/ price <= 0) /\ Refused(seen)
  \/ /\ quantity > 0 /\ price > 0
     /\ \/ ~ Reservable(clOrdId) /\ Refused(seen)
        \/ /\ Reservable(clOrdId)
           /\ Resting(book, id) => ReplaceWouldSelfTrade(id, price)
           /\ Refused(Reserved(clOrdId))

\* The state a replacement leaves, before it matches.
ForgetsFills(state, price, quantity) ==   \* mutation: fills not added back
  [state EXCEPT !.limit = price, !.original = quantity, !.status = "Replaced"]
Amended(state, price, quantity) ==
  [state EXCEPT !.limit = price,
                !.original = state.filled + quantity,
                !.status = "Replaced"]

ReplaceAccepted(id, price, quantity, clOrdId) ==
  LET state == Amended(states[id], price, quantity)
      report == Report(id, state, "Replaced", 0, 0)
  IN  /\ pc = "idle"
      /\ quantity > 0 /\ price > 0 /\ Reservable(clOrdId)
      /\ id \in DOMAIN states /\ Resting(book, id)
      /\ ~ ReplaceWouldSelfTrade(id, price)
      /\ book' = CancelOrder(book, id)
      /\ states' = [states EXCEPT ![id] = state]
      /\ seen' = Reserved(clOrdId)
      /\ reports' = <<report>> /\ Telling(<<report>>)
      /\ call' = [id |-> id, remaining |-> quantity, tif |-> "Gtc",
                  postOnly |-> FALSE]
      /\ pc' = "match"
      /\ UNCHANGED nextId

-------------------------------------------------------------------------------
(* match_against_book and what follows it.                                 *)

Incoming == states[call.id]

CanTrade ==
  call.remaining > 0 /\ Crosses(Incoming.side, Incoming.type, Incoming.limit)

\* A state that has traded.
Traded(state, quantity) ==
  LET after == [state EXCEPT !.filled = @ + quantity]
  IN  [after EXCEPT !.status = IF RemainingQuantity(after) = 0
                               THEN "Filled" ELSE "PartiallyFilled"]

\* fill_quantity
FillQuantity(maker) == Min({call.remaining, book.nodes[maker].quantity})

\* One iteration: the incoming order trades with mutable_best_order.
Match ==
  LET maker    == BestOrder(book, Opposite(Incoming.side))
      price    == book.nodes[maker].price
      quantity == FillQuantity(maker)
      resting  == Traded(states[maker], quantity)
      taking   == Traded(Incoming, quantity)
      trade    == <<Report(maker, resting, "Trade", quantity, price),
                    Report(call.id, taking, "Trade", quantity, price)>>
  IN  /\ pc = "match" /\ CanTrade
      /\ states' = [states EXCEPT ![maker] = resting, ![call.id] = taking]
      /\ book' = ReduceOrder(book, maker, quantity)
      /\ call' = [call EXCEPT !.remaining = @ - quantity]
      /\ reports' = reports \o trade /\ Telling(trade)
      /\ UNCHANGED <<nextId, seen, pc>>

\* rest_limit_order: what rests is the call's remaining quantity.
RestsOriginal == [side |-> Incoming.side, price |-> Incoming.limit,
                  quantity |-> Incoming.original]   \* mutation: not what is left
RestingOrder == [side |-> Incoming.side, price |-> Incoming.limit,
                 quantity |-> call.remaining]

RestsRemainder ==
  call.remaining > 0 /\ Incoming.type = "Limit" /\ call.tif = "Gtc"

CancelsFilled    == ~ RestsRemainder   \* mutation: even when nothing remains
CancelsRemainder == call.remaining > 0 /\ ~ RestsRemainder

RestRemainder ==
  /\ pc = "match" /\ ~ CanTrade /\ RestsRemainder
  /\ book' = AddOrder(book, call.id, RestingOrder)
  /\ pc' = "idle" /\ call' = NoCall
  /\ UNCHANGED <<states, nextId, seen, reports, told>>

CancelRemainder ==
  LET state == [Incoming EXCEPT !.status = "Canceled"]
      report == Report(call.id, state, "Canceled", 0, 0)
  IN  /\ pc = "match" /\ ~ CanTrade /\ CancelsRemainder
      /\ states' = [states EXCEPT ![call.id] = state]
      /\ reports' = Append(reports, report) /\ Telling(<<report>>)
      /\ pc' = "idle" /\ call' = NoCall
      /\ UNCHANGED <<book, nextId, seen>>

NothingRemains ==
  /\ pc = "match" /\ call.remaining = 0
  /\ pc' = "idle" /\ call' = NoCall
  /\ UNCHANGED <<book, states, nextId, seen, reports, told>>

Continue == Match \/ RestRemainder \/ CancelRemainder \/ NothingRemains

Next ==
  \/ \E clOrdId \in ClientOrderIds \cup {0} :
        \/ \E r \in NewRequests :
              SubmitRefused(r, clOrdId) \/ SubmitAccepted(r, clOrdId)
        \/ \E id \in OrderIds :
              \/ CancelRefused(id, clOrdId) \/ CancelAccepted(id, clOrdId)
              \/ \E price \in Prices \cup {0}, quantity \in Quantities \cup {0} :
                    \/ ReplaceRefused(id, price, quantity, clOrdId)
                    \/ ReplaceAccepted(id, price, quantity, clOrdId)
  \/ Continue

Spec == Init /\ [][Next]_vars

-------------------------------------------------------------------------------
(* Properties.                                                             *)

\* The trades that a call's reports tell of: the first report is about the
\* order that comes in, two follow for each trade, the maker's and the taker's,
\* and one may follow about a remainder that is canceled.
Tape ==
  [k \in 1 .. (Len(reports) - 1) \div 2 |->
     [maker    |-> reports[2 * k].id,
      taker    |-> reports[2 * k + 1].id,
      price    |-> reports[2 * k + 1].lastPrice,
      quantity |-> reports[2 * k + 1].lastQuantity]]

\* The branches that report InternalError are not taken: the best resting order
\* always has a state, and what is put to rest is always acceptable.
NoInternalError ==
  pc = "match" =>
    /\ CanTrade =>
         LET maker == BestOrder(book, Opposite(Incoming.side))
         IN  maker \in DOMAIN states /\ maker # call.id
    /\ ~ CanTrade /\ RestsRemainder =>
         /\ ~ Resting(book, call.id)
         /\ RestingOrder.price > 0 /\ RestingOrder.quantity > 0

\* The engine and its book agree: an order rests if and only if its state is
\* live and no call is still matching it, and it rests at its limit for the
\* quantity it has left to trade.  The book is consistent throughout.
BookMatchesStates ==
  /\ QueuesMatchIndex(book) /\ TotalsMatchOrders(book)
  /\ \A id \in DOMAIN states :
        Resting(book, id) <=> states[id].status \notin Terminal /\ id # call.id
  /\ \A id \in DOMAIN book.nodes :
        /\ id \in DOMAIN states
        /\ book.nodes[id] = [side     |-> states[id].side,
                             price    |-> states[id].limit,
                             quantity |-> states[id].original - states[id].filled]
  /\ NoInternalError

\* Two orders of the same client never trade with each other.
NoSelfTrade ==
  \A k \in DOMAIN Tape :
     LET maker == states[Tape[k].maker].client
         taker == states[Tape[k].taker].client
     IN  maker = taker => maker = 0

\* Whoever only reads reports knows the book: an accepted order rests between
\* calls exactly if the last report about it says something remains, and then
\* at that quantity and price (the reconstruction tests and the risk gateway do).
ReportsDescribeBook ==
  pc = "idle" =>
    \A id \in DOMAIN states :
       /\ id \in DOMAIN told
       /\ Resting(book, id) <=> told[id].remaining > 0
       /\ Resting(book, id) => /\ told[id].remaining = book.nodes[id].quantity
                               /\ told[id].restingPrice = book.nodes[id].price

\* What is over stays over: no later call changes an order that was filled,
\* canceled or rejected.
TerminalIsFinal ==
  [][\A id \in DOMAIN states :
       states[id].status \in Terminal => states'[id] = states[id]]_vars

\* Price-time matching: who trades with whom, at which price and in which
\* order, what rests, what a fill-or-kill and a post-only order may do.
Policy ==
  IF call.postOnly THEN "make"
  ELSE IF call.tif = "Fok" THEN "all"
  ELSE IF Incoming.type = "Limit" /\ call.tif = "Gtc" THEN "rest"
  ELSE "drop"

PriceTime == INSTANCE PriceTimeMatching WITH
  Ids <- OrderIds,
  Quantities <- Quantities \cup {r.quantity : r \in NewRequests},
  queue <- Queues(book, Prices),
  incoming <- IF pc = "idle" THEN {}
              ELSE {[id |-> call.id, side |-> Incoming.side,
                     limit |-> IF Incoming.type = "Market" THEN {}
                               ELSE {Incoming.limit},
                     left |-> call.remaining, policy |-> Policy]},
  tape <- Tape
PriceTimeSpec == PriceTime!Spec
===============================================================================
