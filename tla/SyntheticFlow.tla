---------------------------- MODULE SyntheticFlow -----------------------------
(***************************************************************************)
(* SyntheticFlow: generate_synthetic_events, as operators that give, for   *)
(* the index of the event to generate and the orders that are active, the  *)
(* events that may come next.  The random generator is a free choice.      *)
(*                                                                         *)
(* An active order is [id, symbol, side, price, quantity].  An event that  *)
(* was generated is an event of module ReplayEngine with its sequence      *)
(* number and time yet to come.                                            *)
(***************************************************************************)
EXTENDS Integers, SequencesExt

CONSTANTS
  SymbolCount,   \* symbol_count of the MultiSymbol mode
  BurstSize,     \* burst_size of the BurstyFlow mode
  MidPrice,      \* mid_price_ticks
  PriceRange,    \* price_range_ticks
  Quantities     \* the values quantity_distribution may return

ASSUME FlowAssumption ==
  /\ SymbolCount \in Nat
  /\ MidPrice \in Int /\ PriceRange \in Int /\ Quantities \subseteq Int

Event(type, symbol, id, side, price, quantity) ==
  [type |-> type, symbol |-> symbol, id |-> id, side |-> side, price |-> price,
   quantity |-> quantity, begin |-> FALSE, sequence |-> 0, time |-> 0]

\* symbol_for_index, with symbol_id = 1.
SymbolAt(flow, index) ==
  IF flow = "MultiSymbol" THEN 1 + (index % Max({1, SymbolCount})) ELSE 1

\* timestamp_for_index, with first_timestamp_ns = 0.
TimeAt(flow, index) ==
  IF flow = "BurstyFlow" THEN index \div Max({1, BurstSize}) ELSE index

\* random_price
RandomPrices(side) ==
  {Max({1, IF side = "Buy" THEN MidPrice - depth ELSE MidPrice + depth}) :
     depth \in 1 .. Max({1, PriceRange})}

\* The Add of a new order.
Adds(symbol, id) ==
  UNION {{Event("Add", symbol, id, side, price, quantity) :
            price \in RandomPrices(side), quantity \in Quantities} :
           side \in {"Buy", "Sell"}}

\* The Cancel, Replace or Execute of an active order.
Amendments(order) ==
  LET Of(type, price, quantity) ==
        Event(type, order.symbol, order.id, order.side, price, quantity)
  IN  {Of("Cancel", order.price, 0)}
      \cup {Of("Replace", price, quantity) :
              price \in RandomPrices(order.side), quantity \in Quantities}
      \cup {Of("Execute", order.price, done) : done \in 1 .. order.quantity}

\* The active orders after an event, a position keeping its order.
Amended(active, e) ==
  LET order == [id |-> e.id, symbol |-> e.symbol, side |-> e.side,
                price |-> e.price, quantity |-> e.quantity]
      k     == SelectInSeq(active, LAMBDA x : x.id = e.id)
      left  == active[k].quantity - e.quantity
  IN  CASE e.type = "Add"     -> Append(active, order)
        [] e.type = "Replace" -> [active EXCEPT ![k] = order]
        [] e.type \in {"Cancel", "Execute"} ->
             IF e.quantity = 0 \/ left = 0 THEN RemoveAt(active, k)
             ELSE [active EXCEPT ![k].quantity = left]
        [] OTHER -> active

\* The event at an index of generate_adversarial_lifecycle_events: a cycle of
\* 16 takes two orders through everything that may happen to them.
Lifecycle(index) ==
  LET cycle == index \div 16
      away  == 5 + (cycle % 17)
      buy   == 2 * cycle + 1
      sell  == 2 * cycle + 2
      bid   == Max({1, MidPrice - away})
      ask   == MidPrice + away
      lower(ticks) == Max({1, bid - ticks})
      Buy(type, price, quantity)  == Event(type, 1, buy, "Buy", price, quantity)
      Sell(type, price, quantity) == Event(type, 1, sell, "Sell", price, quantity)
  IN  <<Buy("Add", bid, 100), Buy("Cancel", bid, 0), Buy("Add", lower(1), 80),
        Buy("Replace", lower(1), 120), Buy("Replace", lower(1), 60),
        Buy("Replace", lower(2), 70), Buy("Cancel", lower(2), 0),
        Sell("Add", ask, 90), Sell("Execute", ask, 30), Sell("Replace", ask + 1, 50),
        Sell("Execute", ask + 1, 50), Sell("Add", ask, 40), Sell("Cancel", ask, 20),
        Sell("Cancel", ask, 0), Event("Trade", 1, 0, "Buy", bid, 1),
        Event("Heartbeat", 1, 0, "None", 0, 0)>>[1 + (index % 16)]

\* The events one turn of the loop of generate_synthetic_events may append.
Generated(flow, index, active, id) ==
  IF flow = "AdversarialLifecycle" THEN {Lifecycle(index)}
  ELSE Adds(SymbolAt(flow, index), id) \cup UNION {Amendments(active[k]) : k \in DOMAIN active}
===============================================================================
