------------------------------ MODULE RiskGateway ------------------------------
(***************************************************************************)
(* RiskGateway: pre-trade checks and the working orders they rely on.      *)
(*                                                                         *)
(* A check's answer shows in the state: an order let through has its       *)
(* client order id in accepted from then on.  Left out: the reject reason  *)
(* and with it the order of checks that change nothing, the audit trail    *)
(* and log, which only record decisions, and the counters of               *)
(* exposure_snapshot.  Times are those the caller passes; they never       *)
(* decrease.                                                               *)
(***************************************************************************)
EXTENDS GatewayState, SequencesExt

CONSTANTS
  LimitSets,          \* values of RiskLimits
  NewRequests,        \* arguments of check_new_order, less the client order id
  ClientOrderIds,     \* client order ids of requests
  ExchangeIds,        \* exchange order ids of replacements
  ReplacePrices,      \* prices and
  ReplaceQuantities,  \*   quantities of replacements
  Reports,            \* arguments of on_execution_report
  Symbols,
  ReferencePrices,    \* reference prices of on_market_data
  Positions,          \* signed positions of set_position
  Clients,
  MaxClock            \* bound: latest time

ASSUME MaxClockAssumption == MaxClock \in Nat
ASSUME ClientOrderIdsNatAssumption == ClientOrderIds \subseteq Nat
ASSUME ExchangeIdsAssumption == ExchangeIds \subseteq Nat

VARIABLES
  limits,      \* limits_
  killed,      \* kill_switch_
  connected,   \* connected_
  accepted,    \* accepted_client_order_ids_
  market,      \* market_state_: symbol to [price, time]
  positions,   \* positions_
  working,     \* working_orders_ and the maps derived from it
  rates,       \* rate_states_
  clock        \* the time of the next call

controls == <<limits, killed, connected>>
inputs   == <<market, positions, clock>>
orders   == <<accepted, working, rates>>
gatewayVars == <<controls, inputs, orders>>

Abs(n) == IF n < 0 THEN -n ELSE n
Opposing(side) == IF side = "Buy" THEN "Sell" ELSE "Buy"

GatewayInit ==
  /\ limits \in LimitSets
  /\ killed = FALSE
  /\ connected = TRUE
  /\ accepted = {}
  /\ market = <<>>
  /\ positions = <<>>
  /\ working = NoWorking
  /\ rates = [client \in Clients |-> NoMessages]
  /\ clock = 0

-------------------------------------------------------------------------------
(* Checks.                                                                 *)

Open == ~ killed /\ (limits.whenDown = "RejectNewOrders" => connected)

TracksWorkingOrders == limits.maxOpen > 0 \/ limits.stp

IsFresh(symbol) ==
  /\ symbol \in DOMAIN market
  /\ limits.staleAfter > 0 => clock - market[symbol].time <= limits.staleAfter

ReferencePrice(symbol) ==
  IF symbol \in DOMAIN market THEN market[symbol].price ELSE 0

\* notional_for and gross_exposure_with
Notional(r) ==
  Abs((IF r.type = "Market" THEN ReferencePrice(r.symbol) ELSE r.price) * r.quantity)
GrossExposure(r) ==
  FoldSet(LAMBDA s, sum : sum + Abs(positions[s]) * ReferencePrice(s),
          Notional(r), DOMAIN positions)

Position(symbol) == IF symbol \in DOMAIN positions THEN positions[symbol] ELSE 0
Signed(side, quantity) == IF side = "Buy" THEN quantity ELSE -quantity

\* self_trade_check_allows fails: the client has an order at a price the
\* request would reach.
StrictlyReaches(r) ==   \* mutation: an equal price is let through
  /\ limits.stp /\ ~ r.postOnly
  /\ \E key \in DOMAIN working.books :
        /\ key.client = r.client /\ key.symbol = r.symbol
        /\ key.side = Opposing(r.side)
        /\ \/ r.type = "Market"
           \/ IF r.side = "Buy" THEN r.price > key.price ELSE r.price < key.price
CrossesOwn(r) ==
  /\ limits.stp /\ ~ r.postOnly
  /\ \E key \in DOMAIN working.books :
        /\ key.client = r.client /\ key.symbol = r.symbol
        /\ key.side = Opposing(r.side)
        /\ \/ r.type = "Market"
           \/ IF r.side = "Buy" THEN r.price >= key.price ELSE r.price <= key.price

\* working_quantity_ of a symbol, 0 when there is no entry.
WorkingQuantity(symbol) ==
  IF symbol \in DOMAIN working.total THEN working.total[symbol] ELSE 0

\* Open quantity once the request works and what it takes the place of does not.
IgnoresWorking(r, freed) == r.quantity   \* mutation: this order alone
OpenQuantity(r, freed) == WorkingQuantity(r.symbol) - freed + r.quantity

\* The checks from max_order_quantity on, which new orders and replacements
\* share; freed is the quantity of the order a replacement takes the place of.
WithinLimits(r, freed) ==
  /\ r.quantity <= limits.maxOrder
  /\ IsFresh(r.symbol)
  /\ r.type = "Limit" => Abs(r.price - ReferencePrice(r.symbol)) <= limits.band
  /\ Notional(r) <= limits.maxNotional
  /\ ~ CrossesOwn(r)
  /\ limits.maxOpen > 0 /\ r.type = "Limit" /\ r.tif = "Gtc"
       => OpenQuantity(r, freed) <= limits.maxOpen
  /\ Abs(Position(r.symbol) + Signed(r.side, r.quantity)) <= limits.maxPosition
  /\ GrossExposure(r) <= limits.maxGross

NewOrderPasses(r, clOrdId) ==
  /\ r.quantity > 0
  /\ r.type = "Limit" => r.price > 0
  /\ clOrdId \notin accepted
  /\ WithinLimits(r, 0)

\* The working orders an exchange order id is bound to: one or none.
Replaceable(exchange) ==
  {working.boundTo[e] : e \in {exchange} \cap DOMAIN working.boundTo}
    \cap DOMAIN working.orders

\* The request a replacement is checked as.
Replacement(order, price, quantity) ==
  [client |-> order.client, symbol |-> order.symbol, side |-> order.side,
   type |-> "Limit", price |-> price, quantity |-> quantity, tif |-> "Gtc",
   postOnly |-> FALSE]

-------------------------------------------------------------------------------
(* The two checks of an order.                                             *)

\* rate_limit_allows: every message that reaches it counts.
Message(client) ==
  IF RateLimited(limits)
  THEN rates' = [rates EXCEPT ![client] = Counted(@, clock, limits)]
  ELSE UNCHANGED rates
MayMessage(client) ==
  RateLimited(limits) => WithinRate(Counted(rates[client], clock, limits), limits)

\* A request that is refused, before it is counted as a message or after.
RefuseUncounted == UNCHANGED orders
RefuseCounted(client) == Message(client) /\ UNCHANGED <<accepted, working>>

AcceptNew(r, clOrdId) ==
  /\ Message(r.client)
  /\ accepted' = accepted \cup {clOrdId}
  /\ working' = IF TracksWorkingOrders
                THEN Register(working, r, clOrdId, limits.stp) ELSE working

CheckNewOrder(r, clOrdId) ==
  LET passes == MayMessage(r.client) /\ NewOrderPasses(r, clOrdId)
  IN  /\ UNCHANGED <<controls, inputs>>
      /\ \/ ~ Open /\ RefuseUncounted
         \/ Open /\ ~ passes /\ RefuseCounted(r.client)
         \/ Open /\ passes /\ AcceptNew(r, clOrdId)

AcceptReplace(target, price, quantity, clOrdId) ==
  /\ Message(working.orders[target].client)
  /\ accepted' = accepted \cup {clOrdId}
  /\ working' = Resize(working, target, price, quantity, limits.stp)

CheckReplaceOrder(exchange, price, quantity, clOrdId) ==
  LET counts == /\ Open /\ quantity > 0 /\ price > 0
                /\ clOrdId \notin accepted /\ Replaceable(exchange) # {}
  IN  /\ UNCHANGED <<controls, inputs>>
      /\ \/ ~ counts /\ RefuseUncounted
         \/ /\ counts
            /\ \E target \in Replaceable(exchange) :
                 LET order == working.orders[target]
                     passes == /\ MayMessage(order.client)
                               /\ WithinLimits(Replacement(order, price, quantity),
                                               order.quantity)
                 IN  \/ ~ passes /\ RefuseCounted(order.client)
                     \/ passes /\ AcceptReplace(target, price, quantity, clOrdId)

-------------------------------------------------------------------------------
(* The other operations.                                                   *)

OnExecutionReport(report) ==
  /\ working' = OnReport(working, report, limits.stp)
  /\ UNCHANGED <<controls, inputs, accepted, rates>>

CallerReleases(clOrdId) ==
  /\ working' = ReleaseOrder(working, clOrdId)
  /\ UNCHANGED <<controls, inputs, accepted, rates>>

\* enable_kill_switch, with its cancel_all_working_orders
LeavesBooks == [working EXCEPT !.orders = <<>>, !.boundTo = <<>>]   \* mutation
CancelAll   == NoWorking

EnableKillSwitch ==
  /\ killed' = TRUE
  /\ working' = CancelAll
  /\ UNCHANGED <<limits, connected, inputs, accepted, rates>>

DisableKillSwitch ==
  /\ killed' = FALSE
  /\ UNCHANGED <<limits, connected, inputs, orders>>

KeepsOrders ==   \* mutation: on_disconnect cancels nothing
  /\ connected' = FALSE
  /\ UNCHANGED <<limits, killed, inputs, orders>>
OnDisconnect ==
  /\ connected' = FALSE
  /\ working' = IF connected /\ limits.cancelOnDisconnect THEN CancelAll ELSE working
  /\ UNCHANGED <<limits, killed, inputs, accepted, rates>>

OnReconnect ==
  /\ connected' = TRUE
  /\ UNCHANGED <<limits, killed, inputs, orders>>

OnMarketData(symbol, price) ==
  /\ market' = With(market, symbol, [price |-> price, time |-> clock])
  /\ UNCHANGED <<controls, positions, clock, orders>>

SetPosition(symbol, position) ==
  /\ positions' = With(positions, symbol, position)
  /\ UNCHANGED <<controls, market, clock, orders>>

SetLimits(newLimits) ==
  /\ limits' = newLimits
  /\ UNCHANGED <<killed, connected, inputs, orders>>

Tick ==
  /\ clock < MaxClock
  /\ clock' = clock + 1
  /\ UNCHANGED <<controls, market, positions, orders>>

Calls ==
  \/ \E clOrdId \in ClientOrderIds :
        \/ \E r \in NewRequests : CheckNewOrder(r, clOrdId)
        \/ \E exchange \in ExchangeIds, price \in ReplacePrices,
              quantity \in ReplaceQuantities :
              CheckReplaceOrder(exchange, price, quantity, clOrdId)
        \/ CallerReleases(clOrdId)
  \/ \E report \in Reports : OnExecutionReport(report)
  \/ EnableKillSwitch \/ DisableKillSwitch \/ OnDisconnect \/ OnReconnect
  \/ \E symbol \in Symbols :
        \/ \E price \in ReferencePrices : OnMarketData(symbol, price)
        \/ \E position \in Positions : SetPosition(symbol, position)
  \/ \E newLimits \in LimitSets : SetLimits(newLimits)
  \/ Tick

GatewaySpec == GatewayInit /\ [][Calls]_gatewayVars

-------------------------------------------------------------------------------
(* Properties.                                                             *)

\* The working quantity the open-order limit reads is the sum of the orders it
\* stands for, and the exchange order ids lead to the orders that carry them,
\* whatever limits are set on the way.  With self-trade prevention on throughout,
\* the prices it reads are those of the client's working orders, no more and no
\* fewer.
ExposureMatchesOrders == TotalsMatch(working) /\ BindingsMatch(working) /\ BooksMatch(working)

\* After the kill switch, and after a disconnect that cancels, nothing works and
\* nothing is counted, until orders are let through again; late reports about
\* what was canceled do not bring it back.
Stopped ==
  \/ killed
  \/ ~ connected /\ limits.cancelOnDisconnect /\ limits.whenDown = "RejectNewOrders"
StoppedMeansNothingWorks == Stopped => working = NoWorking
===============================================================================
