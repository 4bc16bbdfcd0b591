------------------------------ MODULE GatewayState -----------------------------
(***************************************************************************)
(* Two parts of the risk gateway's state, and the operations on each: what *)
(* it remembers of the orders it let through, as operators on a record     *)
(*                                                                         *)
(*   w.orders   working_orders_: client order id to the working order      *)
(*   w.total    working_quantity_: symbol to quantity                      *)
(*   w.books    client_books_: [client, symbol, side, price] to quantity   *)
(*   w.boundTo  exchange_to_client_order_ids_                              *)
(*                                                                         *)
(* and the message rate of one client, of which rate_limit_allows keeps    *)
(*                                                                         *)
(*   state.active, start, count   the fixed window                         *)
(*   state.stamps                 the sliding window: times, oldest first  *)
(*                                                                         *)
(* The order of prices in a client's book is not kept, nor is the entry of *)
(* a client whose book is empty.  Quantities are positive wherever they    *)
(* are added or released: the checks and the reports see to it.            *)
(***************************************************************************)
EXTENDS Integers, Sequences, FiniteSets

-------------------------------------------------------------------------------
(* The working orders.                                                     *)

NoWorking == [orders |-> <<>>, total |-> <<>>, books |-> <<>>, boundTo |-> <<>>]

\* A map with an entry added or overwritten, and without one.
With(map, key, value) ==
  [k \in DOMAIN map \cup {key} |-> IF k = key THEN value ELSE map[k]]
Without(map, key) == [k \in DOMAIN map \ {key} |-> map[k]]

\* An entry raised by a quantity, from 0 if there is none, and one lowered,
\* which is erased when it falls to 0.
Raised(map, key, quantity) ==
  With(map, key, quantity + IF key \in DOMAIN map THEN map[key] ELSE 0)
Lowered(map, key, quantity) ==
  IF key \notin DOMAIN map THEN map
  ELSE IF map[key] <= quantity THEN Without(map, key)
  ELSE With(map, key, map[key] - quantity)

BookKey(order) == [client |-> order.client, symbol |-> order.symbol,
                   side |-> order.side, price |-> order.price]

\* add_working_order_quantity; stp is enable_self_trade_prevention.
AddQuantity(w, order, stp) ==
  [w EXCEPT !.total = Raised(@, order.symbol, order.quantity),
            !.books = IF stp THEN Raised(@, BookKey(order), order.quantity) ELSE @]

\* release_working_order_quantity of all the order has left.
ReleaseQuantity(w, order) ==
  [w EXCEPT !.total = Lowered(@, order.symbol, order.quantity),
            !.books = Lowered(@, BookKey(order), order.quantity)]

\* register_working_order: only what may rest is remembered.
Register(w, r, clOrdId, stp) ==
  LET order == [client |-> r.client, symbol |-> r.symbol, side |-> r.side,
                price |-> r.price, quantity |-> r.quantity, exchange |-> 0]
  IN  IF r.type = "Limit" /\ r.tif = "Gtc"
      THEN AddQuantity([w EXCEPT !.orders = With(@, clOrdId, order)], order, stp)
      ELSE w

\* release_order
KeepsBinding(w, clOrdId) ==   \* mutation: the inverse map is not cleaned
  IF clOrdId \notin DOMAIN w.orders THEN w
  ELSE [ReleaseQuantity(w, w.orders[clOrdId]) EXCEPT
          !.orders = Without(@, clOrdId)]
ReleaseOrder(w, clOrdId) ==
  IF clOrdId \notin DOMAIN w.orders THEN w
  ELSE [ReleaseQuantity(w, w.orders[clOrdId]) EXCEPT
          !.orders = Without(@, clOrdId),
          !.boundTo = Without(@, w.orders[clOrdId].exchange)]

\* A working order takes a new price and quantity.
Resize(w, clOrdId, price, quantity, stp) ==
  LET order == [w.orders[clOrdId] EXCEPT !.price = price, !.quantity = quantity]
      freed == ReleaseQuantity(w, w.orders[clOrdId])
  IN  AddQuantity([freed EXCEPT !.orders[clOrdId] = order], order, stp)

\* bind_exchange_order_id
Bind(w, clOrdId, exchange) ==
  LET old == w.orders[clOrdId].exchange
  IN  IF exchange \in {0, old} THEN w
      ELSE [w EXCEPT !.orders[clOrdId].exchange = exchange,
                     !.boundTo = With(Without(@, old), exchange, clOrdId)]

\* The working order a report is about: by client order id, else by exchange
\* order id.
Subject(w, report) ==
  IF report.clOrdId \in DOMAIN w.orders THEN {report.clOrdId}
  ELSE {w.boundTo[e] : e \in {report.exchange} \cap DOMAIN w.boundTo}
         \cap DOMAIN w.orders

Ends(report) ==
  \/ report.exec = "Rejected"
  \/ report.status \in {"Rejected", "Canceled", "Filled"}
  \/ report.remaining <= 0

\* upsert_working_order_from_report
IgnoresEnd(w, report, stp) ==   \* mutation: an order that is over stays
  IF report.clOrdId = 0 \/ Subject(w, report) = {} \/ Ends(report) THEN w
  ELSE LET clOrdId == CHOOSE c \in Subject(w, report) : TRUE
       IN  Resize(Bind(w, clOrdId, report.exchange), clOrdId,
                  w.orders[clOrdId].price, report.remaining, stp)
OnReport(w, report, stp) ==
  IF report.clOrdId = 0 \/ Subject(w, report) = {} THEN w
  ELSE IF Ends(report) THEN ReleaseOrder(w, report.clOrdId)
  ELSE LET clOrdId == CHOOSE c \in Subject(w, report) : TRUE
           bound == Bind(w, clOrdId, report.exchange)
           order == bound.orders[clOrdId]
           price == IF report.restingPrice > 0 THEN report.restingPrice
                                               ELSE order.price
       IN  IF order.quantity = report.remaining /\ order.price = price THEN bound
           ELSE Resize(bound, clOrdId, price, report.remaining, stp)

-------------------------------------------------------------------------------
(* What the four maps owe each other.                                      *)

\* The orders under a key, and the units some orders have left, one by one.
Under(key, k) == {c \in DOMAIN key : key[c] = k}
UnitsLeft(cs, quantity) == UNION {{c} \X (1 .. quantity[c]) : c \in cs}

\* A map of quantities adds up those of the orders under each key.
AddsUp(map, key, quantity) ==
  /\ DOMAIN map = {key[c] : c \in DOMAIN key}
  /\ \A k \in DOMAIN map : map[k] = Cardinality(UnitsLeft(Under(key, k), quantity))

SymbolsOf(orders) == [c \in DOMAIN orders |-> orders[c].symbol]
PlacesOf(orders) == [c \in DOMAIN orders |-> BookKey(orders[c])]
Amounts(orders) == [c \in DOMAIN orders |-> orders[c].quantity]

TotalsMatch(w) == AddsUp(w.total, SymbolsOf(w.orders), Amounts(w.orders))
BooksMatch(w) == AddsUp(w.books, PlacesOf(w.orders), Amounts(w.orders))

BindingsMatch(w) ==
  /\ \A e \in DOMAIN w.boundTo :
        w.boundTo[e] \in DOMAIN w.orders /\ w.orders[w.boundTo[e]].exchange = e
  /\ \A c \in DOMAIN w.orders :
        LET e == w.orders[c].exchange
        IN  e # 0 => e \in DOMAIN w.boundTo /\ w.boundTo[e] = c

-------------------------------------------------------------------------------
(* The message rate.  limits has maxMessages, window and mode.  A message  *)
(* counts whether or not it is allowed.                                    *)

NoMessages == [active |-> FALSE, start |-> 0, count |-> 0, stamps |-> <<>>]

RateLimited(limits) == limits.maxMessages > 0 /\ limits.window > 0

OldLate(t, now, limits)  == now - t > limits.window        \* mutation: a tick late
OldEarly(t, now, limits) == now - t >= limits.window - 1   \* mutation: a tick early
Old(t, now, limits) == now - t >= limits.window

FixedCount(state, now, limits) ==
  LET restarts == ~ state.active \/ Old(state.start, now, limits)
  IN  [state EXCEPT !.active = TRUE,
                    !.start  = IF restarts THEN now ELSE @,
                    !.count  = IF restarts THEN 1 ELSE @ + 1]

\* How many times pop_front takes away: as many as are old from the front on.
Expired(stamps, now, limits) ==
  CHOOSE n \in 0 .. Len(stamps) :
    /\ \A k \in 1 .. n : Old(stamps[k], now, limits)
    /\ n < Len(stamps) => ~ Old(stamps[n + 1], now, limits)

SlidingCount(state, now, limits) ==
  LET left == SubSeq(state.stamps, Expired(state.stamps, now, limits) + 1, Len(state.stamps))
  IN  [state EXCEPT !.stamps = Append(left, now)]

\* The state after one more message.
Counted(state, now, limits) ==
  IF limits.mode = "SlidingWindow" THEN SlidingCount(state, now, limits)
                                   ELSE FixedCount(state, now, limits)

Observed(state, limits) ==
  IF limits.mode = "SlidingWindow" THEN Len(state.stamps) ELSE state.count

\* rate_limit_allows, of the state after the message.
WithinRate(state, limits) == Observed(state, limits) <= limits.maxMessages
===============================================================================
