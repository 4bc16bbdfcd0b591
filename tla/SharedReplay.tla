----------------------------- MODULE SharedReplay -----------------------------
(***************************************************************************)
(* SharedReplay: replay_shared_by_symbol, which applies the events of all  *)
(* symbols in one pass to a MultiSymbolBookSet, as operators on a value    *)
(*                                                                         *)
(*   books   the set's map from symbol to OrderBook                        *)
(*   states  the map from symbol to SharedSymbolState, whose summary's     *)
(*           fields are held directly                                      *)
(*                                                                         *)
(* The code repeats the checks of ReplayEngine instead of calling them, so *)
(* they are translated again here.  Events and configs are those of module *)
(* ReplayEngine.  What a summary tells of the events alone (their log      *)
(* checksum, the first and last sequence number and time) is left out.     *)
(***************************************************************************)
EXTENDS ReplayEngine

NewState ==
  [count |-> 0, expected |-> 0, last |-> {}, failed |-> FALSE, valid |-> TRUE,
   diagnostics |-> <<>>, activity |-> <<>>, error |-> NoReason]

NewShared == [books |-> <<>>, states |-> <<>>]

-------------------------------------------------------------------------------
(* MultiSymbolBookSet.                                                     *)

HasBook(shared, symbol) == symbol \in DOMAIN shared.books

\* book_for: the symbol's book, made on first use.
BookFor(shared, symbol) ==
  IF HasBook(shared, symbol) THEN shared.books[symbol] ELSE EmptyBook

\* find_book followed by find_order, which the null book answers too.
Found(shared, e) == HasBook(shared, e.symbol) /\ Resting(shared.books[e.symbol], e.id)

\* Whether apply returns true.
Applies(book, e) ==
  /\ e.symbol # 0
  /\ e.type = "Add" => ~ Resting(book, e.id)
  /\ e.type \in {"Cancel", "Replace", "Execute"} => Resting(book, e.id)
  /\ Reinstates(e) => e.begin \/ ~ Resting(book, e.id)

\* apply: the book after the event.
Applied(book, e) ==
  LET order   == [side |-> e.side, price |-> e.price, quantity |-> e.quantity]
      cleared == IF e.begin THEN EmptyBook ELSE book
  IN  IF ~ Applies(book, e) THEN IF e.type = "Snapshot" THEN cleared ELSE book
      ELSE CASE e.type = "Add"    -> AddOrder(book, e.id, order)
             [] e.type = "Cancel" -> IF e.quantity > 0
                                     THEN ReduceOrder(book, e.id, e.quantity)
                                     ELSE CancelOrder(book, e.id)
             [] e.type = "Replace"  -> ReplaceOrder(book, e.id, e.price, e.quantity)
             [] e.type = "Execute"  -> ReduceOrder(book, e.id, e.quantity)
             [] e.type = "Snapshot" -> IF e.id = 0 THEN cleared
                                       ELSE AddOrder(cleared, e.id, order)
             [] OTHER -> book   \* Trade and Heartbeat

-------------------------------------------------------------------------------
(* Checks, in the order the shared path makes them.                        *)

\* validate_shared_event_before_apply
SharedObjection(shared, e) ==
  LET found == Found(shared, e)
  IN  FirstReason(<<
        <<e.symbol = 0, "invalid symbol id">>,
        <<NeedsOrder(e) /\ e.id = 0, "invalid order id">>,
        <<e.type \in {"Add", "Replace"} /\ e.side \notin Sides, "invalid side">>,
        <<NeedsPrice(e) /\ e.price <= 0, "invalid price">>,
        <<~ NeedsPrice(e) /\ e.price < 0, "invalid negative price">>,
        <<NeedsQuantity(e) /\ e.quantity <= 0, "invalid quantity">>,
        <<~ NeedsQuantity(e) /\ e.quantity < 0, "invalid negative quantity">>,
        <<e.type = "Add" /\ found, "duplicate order id">>,
        <<Reinstates(e) /\ e.side \notin Sides, "invalid snapshot side">>,
        <<Reinstates(e) /\ e.price <= 0, "invalid snapshot price">>,
        <<Reinstates(e) /\ e.quantity <= 0, "invalid snapshot quantity">>,
        <<Amends(e) /\ ~ found, "unknown order id">>,
        <<Reduces(e) /\ found /\ e.quantity > shared.books[e.symbol].nodes[e.id].quantity,
          "invalid quantity exceeds resting order quantity">> >>)

\* validate_shared_top_of_book
SharedTopReason(book) ==
  IF \A bid \in DOMAIN book.levels["Buy"], ask \in DOMAIN book.levels["Sell"] : bid < ask
  THEN NoReason ELSE <<"crossed book state">>

\* validate_shared_full_book
SharedFullReason(book) ==
  IF ~ QueuesMatchIndex(book) \/ ~ TotalsMatchOrders(book)
  THEN <<"book invariant violation">> ELSE SharedTopReason(book)

\* validate_shared_book_after_apply
SharedBookReason(book, config) ==
  IF ~ config.bookState THEN NoReason
  ELSE IF config.mode = "Light" THEN SharedTopReason(book)
  ELSE SharedFullReason(book)

\* add_shared_diagnostic and mark_shared_failure.
KeepsGoing(state, sequence, reason) ==   \* mutation: failed is not set
  [state EXCEPT !.diagnostics = Append(@, <<state.count - 1, sequence, reason>>),
                !.valid = FALSE, !.error = reason]
Failed(state, sequence, reason) ==
  [state EXCEPT !.diagnostics = Append(@, <<state.count - 1, sequence, reason>>),
                !.valid = FALSE, !.failed = TRUE, !.error = reason]

-------------------------------------------------------------------------------
(* The pass over the events.                                               *)

\* The objection to an event that the book set has not seen yet, from the
\* symbol's own state, and that state once the checks have noted the event.
Noted(state, e, config) ==
  LET expected == IF state.expected = 0 THEN e.sequence ELSE state.expected
      counted  == IF config.sequences
                  THEN [state EXCEPT !.expected = expected + 1] ELSE state
  IN  IF config.sequences /\ e.sequence # expected
      THEN Failed(state, e.sequence, <<"sequence gap", expected, e.sequence>>)
      ELSE IF config.timestamps /\ (\E last \in state.last : e.time < last)
      THEN Failed(counted, e.sequence, <<"timestamp reversal", state.last, e.time>>)
      ELSE IF config.timestamps THEN [counted EXCEPT !.last = {e.time}] ELSE counted

\* One turn of the loop.  A symbol that failed goes on counting its events.
SharedAfter(shared, e, config) ==
  LET symbol  == e.symbol
      start   == [(IF symbol \in DOMAIN shared.states THEN shared.states[symbol]
                                                      ELSE NewState)
                   EXCEPT !.count = @ + 1]
      noted   == Noted(start, e, config)
      reason  == SharedObjection(shared, e)
      book    == Applied(BookFor(shared, symbol), e)
      after   == SharedBookReason(book, config)
      traded  == IF e.type \in {"Execute", "Trade"}
                 THEN [noted EXCEPT !.activity = Append(@, e)] ELSE noted
      With(state) == [shared EXCEPT !.states = Put(@, symbol, state)]
      Into(state) == [books |-> Put(shared.books, symbol, book),
                      states |-> Put(shared.states, symbol, state)]
  IN  IF start.failed THEN With(start)
      ELSE IF noted.failed THEN With(noted)
      ELSE IF reason # NoReason THEN With(Failed(noted, e.sequence, reason))
      ELSE IF ~ Applies(BookFor(shared, symbol), e)
      THEN Into(Failed(noted, e.sequence, <<"failed to apply", e.type>>))
      ELSE IF after # NoReason THEN Into(Failed(noted, e.sequence, after))
      ELSE Into(traded)

\* The state a symbol ends in, with the full check that light mode put off.
Settled(shared, symbol, config) ==
  LET state  == shared.states[symbol]
      reason == SharedFullReason(BookFor(shared, symbol))
  IN  IF /\ HasBook(shared, symbol) /\ ~ state.failed
         /\ config.bookState /\ config.mode = "Light" /\ reason # NoReason
      THEN Failed(state, 0, <<"final">> \o reason)
      ELSE state
===============================================================================
