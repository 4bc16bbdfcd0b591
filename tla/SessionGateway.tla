---------------------------- MODULE SessionGateway ----------------------------
(***************************************************************************)
(* A broker session with a risk gateway attached: the session's disconnect *)
(* and reconnect call on_disconnect and on_reconnect of the gateway; its   *)
(* connect does not.  The caller tells both of what happens to an order.   *)
(***************************************************************************)
EXTENDS RiskGateway

CONSTANT MaxEvents   \* bound: session events

VARIABLES up, orderStates, counts, events   \* the session's

sessionVars == <<up, orderStates, counts, events>>
attachedVars == <<gatewayVars, sessionVars>>

\* The session's flag is a mirror of the gateway's, as its constructor asks.
Session == INSTANCE BrokerSession WITH
  OrderIds <- ExchangeIds, orders <- orderStates,
  cancelOnDisconnect <- \A l \in LimitSets : l.cancelOnDisconnect

Init == GatewayInit /\ Session!Init

Connect ==
  /\ Session!Connect
  /\ UNCHANGED gatewayVars

Disconnect ==
  /\ Session!Disconnect
  /\ OnDisconnect

Reconnect ==
  /\ Session!Reconnect
  /\ OnReconnect

\* An order is checked, accepted by the venue and reported to both.
Submit(r, clOrdId) ==
  /\ CheckNewOrder(r, clOrdId)
  /\ UNCHANGED sessionVars

VenueAccepts(clOrdId, id) ==
  /\ clOrdId \in DOMAIN working.orders /\ working.orders[clOrdId].exchange = 0
  /\ Session!OnOrderAccepted(id)
  /\ OnExecutionReport([clOrdId |-> clOrdId, exchange |-> id, exec |-> "New",
                        status |-> "New",
                        remaining |-> working.orders[clOrdId].quantity,
                        restingPrice |-> working.orders[clOrdId].price])

\* The end of an order, reported under its own client order id.
Told(id, ending) ==
  \/ \E clOrdId \in Replaceable(id) :
        OnExecutionReport([clOrdId |-> clOrdId, exchange |-> id, exec |-> ending,
                           status |-> ending, remaining |-> 0, restingPrice |-> 0])
  \/ Replaceable(id) = {} /\ UNCHANGED gatewayVars

VenueFills(id) == Session!OnOrderFilled(id) /\ Told(id, "Filled")
VenueCancels(id) == Session!AcknowledgeCancel(id) /\ Told(id, "Canceled")

CancelRequested(id) ==
  /\ Session!RequestCancel(id) \/ Session!RejectCancel(id)
  /\ UNCHANGED gatewayVars

MarketData ==
  /\ \E symbol \in Symbols, price \in ReferencePrices : OnMarketData(symbol, price)
  /\ UNCHANGED sessionVars

Next ==
  \/ Connect \/ Disconnect \/ Reconnect \/ MarketData
  \/ \E clOrdId \in ClientOrderIds :
        \/ \E r \in NewRequests : Submit(r, clOrdId)
        \/ \E id \in ExchangeIds : VenueAccepts(clOrdId, id)
  \/ \E id \in ExchangeIds :
        VenueFills(id) \/ VenueCancels(id) \/ CancelRequested(id)

Spec == Init /\ [][Next]_attachedVars

-------------------------------------------------------------------------------
(* Properties.                                                             *)

\* "A disconnect with cancel-on-disconnect requests cancels for every live
\* order and releases the gateway's tracked simulated working exposure": nothing
\* is tracked after it and every order is over or asked to cancel.
DisconnectReleases ==
  [][up /\ ~ up' /\ limits.cancelOnDisconnect =>
       /\ working' = NoWorking
       /\ \A id \in DOMAIN orderStates' : orderStates'[id] # "Accepted"]_attachedVars

\* What the venue accepted and the gateway still tracks is a live order of the
\* session: late fills and cancels leave no exposure behind.
TrackedIsLive ==
  \A clOrdId \in DOMAIN working.orders :
     LET id == working.orders[clOrdId].exchange
     IN  id # 0 => /\ id \in DOMAIN orderStates
                   /\ orderStates[id] \in {"Accepted", "PendingCancel"}

\* The session's own promises, with the gateway attached: connection, orders
\* and counters can be read off the event log, and a canceled or filled order
\* stays so, whatever comes late.
LogTellsAll == Session!LogTellsAll
FinalIsFinal == Session!FinalIsFinal
===============================================================================
