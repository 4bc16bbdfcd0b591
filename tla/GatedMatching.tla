----------------------------- MODULE GatedMatching -----------------------------
(***************************************************************************)
(* A risk gateway in front of a matching engine, used as the tests use the *)
(* two: an order or a replacement the gateway lets through goes to the     *)
(* engine, a cancellation goes there at once, and when the engine's call   *)
(* returns its reports are handed to on_execution_reports.  The client     *)
(* uses a client order id in one request only.                             *)
(***************************************************************************)
EXTENDS RiskGateway

CONSTANTS
  Symbol,      \* symbol_id_ of the engine
  MaxOrders,   \* bound: exchange order ids the engine hands out
  CancelIds    \* client order ids of cancellations

ASSUME GatedAssumption ==
  /\ 0 \notin ClientOrderIds \cup CancelIds /\ MaxOrders \in Nat
  /\ ReplacePrices \subseteq Nat /\ ReplaceQuantities \subseteq Nat
  /\ \A l \in LimitSets : l.maxOpen \in Int
  /\ \A r \in NewRequests :
       /\ r.price \in Int /\ (r.price > 0 => r.price \in ReplacePrices)
       /\ r.quantity \in Int /\ r.client \in Nat /\ r.postOnly \in BOOLEAN
       /\ r.side \in {"Buy", "Sell"} /\ r.type \in {"Limit", "Market"}
       /\ r.tif \in {"Gtc", "Ioc", "Fok"}

VARIABLES
  book, states, nextId, seen, reports, pc, call, told,   \* the engine's
  asked,       \* client order id of the engine call under way, or 0
  owner,       \* client_order_id of the engine's order states
  used,        \* history: client order ids in requests so far
  forgotten    \* history: client order ids of working orders canceled here

engineVars == <<book, states, nextId, seen, reports, pc, call, told>>
callerVars == <<asked, owner, used, forgotten>>
gatedVars  == <<gatewayVars, engineVars, callerVars>>

Engine == INSTANCE MatchingEngine WITH
  Prices <- ReplacePrices \ {0}, Quantities <- ReplaceQuantities \ {0},
  ClientOrderIds <- (ClientOrderIds \cup CancelIds) \ {0}

GatedInit ==
  /\ GatewayInit
  /\ Engine!Init
  /\ asked = 0
  /\ owner = <<>>
  /\ used = {}
  /\ forgotten = {}

Quiet == asked = 0

-------------------------------------------------------------------------------
(* The caller.                                                             *)

Uses(clOrdId) ==
  /\ Quiet
  /\ clOrdId \notin used
  /\ used' = used \cup {clOrdId}
  /\ UNCHANGED forgotten

LetThrough(clOrdId) == clOrdId \in accepted' \ accepted

HeldBack(clOrdId) ==
  ~ LetThrough(clOrdId) /\ UNCHANGED <<engineVars, asked, owner>>

SubmitOrder(r, clOrdId) ==
  /\ Uses(clOrdId)
  /\ CheckNewOrder(r, clOrdId)
  /\ \/ HeldBack(clOrdId)
     \/ /\ LetThrough(clOrdId)
        /\ \/ Engine!SubmitRefused(r, clOrdId) /\ UNCHANGED owner
           \/ /\ Engine!SubmitAccepted(r, clOrdId)
              /\ owner' = With(owner, nextId, clOrdId)
        /\ asked' = clOrdId

ReplaceOrder(id, price, quantity, clOrdId) ==
  /\ Uses(clOrdId)
  /\ CheckReplaceOrder(id, price, quantity, clOrdId)
  /\ \/ HeldBack(clOrdId)
     \/ /\ LetThrough(clOrdId)
        /\ \/ Engine!ReplaceRefused(id, price, quantity, clOrdId)
           \/ Engine!ReplaceAccepted(id, price, quantity, clOrdId)
        /\ asked' = clOrdId
        /\ UNCHANGED owner

CancelOrder(id, clOrdId) ==
  /\ Uses(clOrdId)
  /\ Engine!CancelRefused(id, clOrdId) \/ Engine!CancelAccepted(id, clOrdId)
  /\ asked' = clOrdId
  /\ UNCHANGED <<gatewayVars, owner>>

Continue ==
  /\ Engine!Continue
  /\ UNCHANGED <<gatewayVars, callerVars>>

\* The report as the gateway reads it; a rejection carries the request's
\* client order id, any other report that of the order it is about.
Received(report) ==
  [clOrdId      |-> IF report.id = 0 THEN asked ELSE owner[report.id],
   exchange     |-> report.id,
   exec         |-> report.exec,
   status       |-> report.status,
   remaining    |-> report.remaining,
   restingPrice |-> report.restingPrice]

\* on_execution_reports
OnReportsBackwards ==   \* mutation: the last report first
  FoldRight(LAMBDA report, w : OnReport(w, Received(report), limits.stp),
            reports, working)
OnReports ==
  LET after[k \in 0 .. Len(reports)] ==
        IF k = 0 THEN working
        ELSE OnReport(after[k - 1], Received(reports[k]), limits.stp)
  IN  after[Len(reports)]

Deliver ==
  /\ ~ Quiet /\ pc = "idle"
  /\ working' = OnReports
  /\ asked' = 0
  /\ UNCHANGED <<controls, inputs, accepted, rates, engineVars, owner, used, forgotten>>

\* Between calls: the gateway's own operations.
Control ==
  /\ Quiet
  /\ \/ EnableKillSwitch \/ DisableKillSwitch \/ OnDisconnect \/ OnReconnect
     \/ \E price \in ReferencePrices : OnMarketData(Symbol, price)
  /\ forgotten' = forgotten \cup (DOMAIN working.orders \ DOMAIN working'.orders)
  /\ UNCHANGED <<engineVars, asked, owner, used>>

GatedNext ==
  \/ \E clOrdId \in ClientOrderIds :
        \/ \E r \in NewRequests : SubmitOrder(r, clOrdId)
        \/ \E id \in ExchangeIds, price \in ReplacePrices, quantity \in ReplaceQuantities :
              ReplaceOrder(id, price, quantity, clOrdId)
  \/ \E clOrdId \in CancelIds, id \in ExchangeIds : CancelOrder(id, clOrdId)
  \/ Continue \/ Deliver \/ Control

GatedSpec == GatedInit /\ [][GatedNext]_gatedVars

-------------------------------------------------------------------------------
(* Properties.                                                             *)

Quantity(id) == book.nodes[id].quantity

\* Between calls the gateway's working orders are the engine's resting orders,
\* under the same ids and at the same price and quantity, as long as the gateway
\* has canceled none on its own.
WorkingOrdersRest ==
  Quiet /\ forgotten = {} =>
    working.orders =
      [c \in {owner[id] : id \in DOMAIN book.nodes} |->
         LET id == CHOOSE i \in DOMAIN book.nodes : owner[i] = c
         IN  [client |-> states[id].client, symbol |-> Symbol,
              side |-> book.nodes[id].side, price |-> book.nodes[id].price,
              quantity |-> Quantity(id), exchange |-> id]]

\* "Maximum total resting (working) limit-order quantity per symbol": between
\* calls the orders at rest keep to it, as long as the gateway knows them all.
RestingWithinMaximum ==
  Quiet /\ forgotten = {} /\ limits.maxOpen > 0 =>
    Engine!QuantityOf(book, DOMAIN book.nodes) <= limits.maxOpen

\* With self-trade prevention at the gateway the engine's own never decides: no
\* order or replacement let through is refused there for self trade, unless it
\* meets an order the gateway forgot.
Taking == {r \in NewRequests : ~ r.postOnly /\ r.tif # "Fok"}
GatewayPreventsSelfTrade ==
  [][\A clOrdId \in ClientOrderIds :
       LetThrough(clOrdId) /\ limits.stp /\ forgotten = {} =>
         /\ \A r \in Taking : SubmitOrder(r, clOrdId) => pc' = "match"
         /\ \A id \in ExchangeIds, price \in ReplacePrices, quantity \in ReplaceQuantities :
              ReplaceOrder(id, price, quantity, clOrdId) => pc' = "match"]_gatedVars
===============================================================================
