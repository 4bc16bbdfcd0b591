----------------------------- MODULE PortfolioRisk ----------------------------
(***************************************************************************)
(* PortfolioRisk: PortfolioRiskMonitor, which keeps a signed position and  *)
(* its average cost for every symbol, marks them, and says whether an      *)
(* order would take the whole portfolio over a limit.                      *)
(*                                                                         *)
(* A position is [quantity, average, mark]; its mark is a set of at most   *)
(* one price, empty until has_mark.  limits has the four limits, 0 for a   *)
(* limit that is off.                                                      *)
(***************************************************************************)
EXTENDS AuditTrail, Functions

CONSTANTS
  Symbols,     \* symbol ids
  Quantities,  \* quantities of fills
  Prices,      \* prices of fills and marks, positive
  Seeds,       \* quantities set_position may be given
  Limits,      \* the limits set_limits may be given
  Checked,     \* orders check_order may be asked about
  MaxPosition, \* bound on positions, in absolute value
  MaxChanges   \* bound on the calls that change a position

VARIABLES
  limits,      \* limits_
  positions,   \* positions_: a function of the symbols touched so far
  realised,    \* realised_pnl_
  audit,       \* audit_
  auditing,    \* record_audit_
  cash,        \* what the fills have paid and cost, seeded positions entering
               \* and leaving at their average cost
  rounding,    \* what the truncations of average_cost can have come to
  changes

vars == <<limits, positions, realised, audit, auditing, cash, rounding, changes>>

Side == {"Buy", "Sell"}
NoPosition == [quantity |-> 0, average |-> 0, mark |-> {}]

\* abs_i64, and the division of C++, which truncates toward zero.
Magnitude(x) == IF x < 0 THEN - x ELSE x
Quotient(x, y) == IF x < 0 THEN - ((- x) \div y) ELSE x \div y

\* positions_[symbol_id], which makes the position when it is not there.
PositionOf(held, symbol) ==
  IF symbol \in DOMAIN held THEN held[symbol] ELSE NoPosition

Put(held, symbol, position) ==
  [s \in DOMAIN held \cup {symbol} |-> IF s = symbol THEN position ELSE held[s]]

\* mark_of
MarkOf(position) ==
  IF position.mark = {} THEN position.average ELSE CHOOSE m \in position.mark : TRUE

-------------------------------------------------------------------------------
(* apply_fill_to.                                                          *)

Signed(side, quantity) == IF side = "Buy" THEN quantity ELSE - quantity

\* Whether a fill joins the position, one of no quantity doing nothing.
Extends(quantity, change) == change # 0 /\ quantity * change >= 0

\* The position after a fill.
KeepsCost(position, side, quantity, price) ==   \* mutation: a flip keeps the cost
  LET change == Signed(side, quantity)
      after  == position.quantity + change
      cost   == position.average * Magnitude(position.quantity) + price * quantity
  IN  [position EXCEPT
         !.quantity = after,
         !.average = IF Extends(position.quantity, change)
                     THEN Quotient(cost, Magnitude(after))
                     ELSE IF after = 0 THEN 0 ELSE @]
Filled(position, side, quantity, price) ==
  LET change  == Signed(side, quantity)
      after   == position.quantity + change
      cost    == position.average * Magnitude(position.quantity) + price * quantity
      flipped == position.quantity * after < 0
  IN  IF change = 0 THEN position ELSE [position EXCEPT
         !.quantity = after,
         !.average = IF Extends(position.quantity, change)
                     THEN Quotient(cost, Magnitude(after))
                     ELSE IF after = 0 THEN 0
                     ELSE IF flipped THEN price ELSE @]

\* What the fill adds to realised_pnl.
Realises(position, side, quantity, price) ==
  LET closing == Min({quantity, Magnitude(position.quantity)})
      gain    == IF position.quantity > 0 THEN price - position.average
                                          ELSE position.average - price
  IN  IF Extends(position.quantity, Signed(side, quantity)) THEN 0 ELSE gain * closing

-------------------------------------------------------------------------------
(* evaluate.                                                               *)

Total(terms) == FoldFunction(+, 0, terms)

\* gross_exposure_ticks, net_exposure_ticks and unrealised_pnl_ticks.
Gross(held) ==
  Total([s \in DOMAIN held |-> Magnitude(held[s].quantity) * MarkOf(held[s])])
Worth(held) == Total([s \in DOMAIN held |-> held[s].quantity * MarkOf(held[s])])
Net(held) == Magnitude(Worth(held))
Unrealised(held) ==
  Total([s \in DOMAIN held |-> (MarkOf(held[s]) - held[s].average) * held[s].quantity])

\* A symbol's share of the gross exposure, in hundredths of a percent, and the
\* first symbol with the largest one above none.
ShareOf(held, s) ==
  (Magnitude(held[s].quantity) * MarkOf(held[s]) * 10000) \div Gross(held)
WorstShare(held) == Max({0} \cup {ShareOf(held, s) : s \in DOMAIN held})
WorstSymbol(held) ==
  IF WorstShare(held) = 0 THEN 0
  ELSE Min({s \in DOMAIN held : ShareOf(held, s) = WorstShare(held)})

Accepted == [breach |-> "None", symbol |-> 0, limit |-> 0, observed |-> 0]
Breach(name, symbol, limit, observed) ==
  [breach |-> name, symbol |-> symbol, limit |-> limit, observed |-> observed]

\* The first limit that is broken, in the order of the code.
Evaluate(held, pnl) ==
  LET total == pnl + Unrealised(held)
  IN  IF limits.gross > 0 /\ Gross(held) > limits.gross
      THEN Breach("GrossExposure", 0, limits.gross, Gross(held))
      ELSE IF limits.net > 0 /\ Net(held) > limits.net
      THEN Breach("NetExposure", 0, limits.net, Net(held))
      ELSE IF limits.share > 0 /\ Gross(held) > 0 /\ WorstShare(held) > limits.share
      THEN Breach("Concentration", WorstSymbol(held), limits.share, WorstShare(held))
      ELSE IF limits.loss > 0 /\ total <= - limits.loss
      THEN Breach("Loss", 0, limits.loss, - total)
      ELSE Accepted

\* evaluate_order and evaluate_state.
IgnoresOrder(symbol, side, quantity, price) ==   \* mutation: the state as it is
  Evaluate(positions, realised)
EvaluateOrder(symbol, side, quantity, price) ==
  LET position == PositionOf(positions, symbol)
  IN  Evaluate(Put(positions, symbol, Filled(position, side, quantity, price)),
               realised + Realises(position, side, quantity, price))
EvaluateState == Evaluate(positions, realised)

-------------------------------------------------------------------------------
(* Operations.                                                             *)

Init ==
  /\ limits \in Limits
  /\ positions = <<>> /\ realised = 0
  /\ audit = EmptyTrail /\ auditing \in BOOLEAN
  /\ cash = 0 /\ rounding = 0 /\ changes = 0

\* set_limits
SetLimits ==
  /\ limits' \in Limits
  /\ UNCHANGED <<positions, realised, audit, auditing, cash, rounding, changes>>

SetMark(symbol, price) ==
  /\ positions' = Put(positions, symbol,
                      [PositionOf(positions, symbol) EXCEPT !.mark = {price}])
  /\ UNCHANGED <<limits, realised, audit, auditing, cash, rounding, changes>>

\* set_position: what is realised and the mark are left as they were.
SetPosition(symbol, quantity, average) ==
  LET position == PositionOf(positions, symbol)
  IN  /\ changes < MaxChanges /\ changes' = changes + 1
      /\ positions' = Put(positions, symbol, [position EXCEPT !.quantity = quantity,
                                                              !.average = average])
      /\ cash' = cash + position.quantity * position.average - quantity * average
      /\ UNCHANGED <<limits, realised, audit, auditing, rounding>>

ApplyFill(symbol, side, quantity, price) ==
  LET position == PositionOf(positions, symbol)
      after    == Filled(position, side, quantity, price)
  IN  /\ changes < MaxChanges /\ changes' = changes + 1
      /\ Magnitude(after.quantity) <= MaxPosition
      /\ positions' = Put(positions, symbol, after)
      /\ realised' = realised + Realises(position, side, quantity, price)
      /\ cash' = cash - Signed(side, quantity) * price
      /\ rounding' = rounding + (IF Extends(position.quantity, Signed(side, quantity))
                                 THEN Magnitude(after.quantity) - 1 ELSE 0)
      /\ UNCHANGED <<limits, audit, auditing>>

\* check_order: the verdict is recorded, and nothing else changes.
CheckOrder(o) ==
  LET result == EvaluateOrder(o.symbol, o.side, o.quantity, o.price)
  IN  /\ auditing
      /\ audit' = Recorded(audit, [order |-> o, accepted |-> result = Accepted]
                                  @@ result)
      /\ UNCHANGED <<limits, positions, realised, auditing, cash, rounding, changes>>

\* clear_audit
ClearAudit ==
  /\ audit' = EmptyTrail
  /\ UNCHANGED <<limits, positions, realised, auditing, cash, rounding, changes>>

\* The trail is cleared before the next check, which bounds it.
Next ==
  \/ SetLimits
  \/ ClearAudit
  \/ \E order \in Checked : audit = EmptyTrail /\ CheckOrder(order)
  \/ \E symbol \in Symbols, price \in Prices :
       \/ SetMark(symbol, price)
       \/ \E quantity \in Seeds : SetPosition(symbol, quantity, price)
       \/ \E side \in Side, quantity \in Quantities :
            ApplyFill(symbol, side, quantity, price)

Spec == Init /\ [][Next]_vars

-------------------------------------------------------------------------------
(* Properties.                                                             *)

\* total_pnl_ticks is what closing every position at its mark would leave in
\* cash, but for what the truncations of average_cost, one per fill that extends
\* a position, can have come to: less than one tick for each unit then held.
PnlIsCash ==
  LET total == realised + Unrealised(positions)
      worth == cash + Worth(positions)
  IN  Magnitude(total - worth) <= rounding

\* An order that evaluate_order accepts over a portfolio within its limits may
\* be filled in part: at no part of it does the portfolio go over its gross or
\* net exposure.  Its symbol must have a mark: the average cost that stands in
\* for one moves with every fill.
PartialFillsFit ==
  \A symbol \in Symbols, side \in Side, quantity \in Quantities, price \in Prices :
     LET position == PositionOf(positions, symbol)
         Part(k)  == Put(positions, symbol, Filled(position, side, k, price))
     IN  /\ position.mark # {}
         /\ EvaluateState = Accepted
         /\ EvaluateOrder(symbol, side, quantity, price) = Accepted
         => \A k \in 1 .. quantity :
               /\ limits.gross > 0 => Gross(Part(k)) <= limits.gross
               /\ limits.net > 0 => Net(Part(k)) <= limits.net
===============================================================================
