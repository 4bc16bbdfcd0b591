----------------------------- MODULE ReplayEngine -----------------------------
(***************************************************************************)
(* ReplayEngine: one symbol's market-data events applied to one book, as   *)
(* operators on a stream value, which holds what the engine, its           *)
(* ReplayStreamState and its ReplayResult hold between two calls of        *)
(* replay_step:                                                            *)
(*                                                                         *)
(*   book         book_                                                    *)
(*   expected     expected_sequence, 0 before the first event              *)
(*   last         last_timestamp: empty until has_last_timestamp is set    *)
(*   index        event_index and events_processed, always equal           *)
(*   halted       halted                                                   *)
(*   valid        sequence_valid                                           *)
(*   diagnostics  diagnostics: index, sequence number and reason of each   *)
(*   activity     the events in execution_report_checksum, in order        *)
(*   error        error                                                    *)
(*                                                                         *)
(* An event has a symbol, a type, an order id, a side, a price, a          *)
(* quantity, begin (kSnapshotBeginFlag), a sequence number and a time.  A  *)
(* config has the validate_ switches sequences, timestamps and bookState,  *)
(* and a mode.  A checksum is the sequence of what was appended to it.     *)
(***************************************************************************)
EXTENDS BookLevels

NoReason == <<>>

NewStream ==
  [book |-> EmptyBook, expected |-> 0, last |-> {}, index |-> 0,
   halted |-> FALSE, valid |-> TRUE, diagnostics |-> <<>>, activity |-> <<>>,
   error |-> NoReason]

\* The first reason of a list whose condition holds.
FirstReason(list) ==
  LET holding == {k \in DOMAIN list : list[k][1]}
  IN  IF holding = {} THEN NoReason ELSE <<list[Min(holding)][2]>>

-------------------------------------------------------------------------------
(* Checks on an event.                                                     *)

NeedsOrder(e)    == e.type \in {"Add", "Cancel", "Replace", "Execute"}
NeedsPrice(e)    == e.type \in {"Add", "Replace", "Trade"}
NeedsQuantity(e) == e.type \in {"Add", "Replace", "Execute", "Trade"}
Reinstates(e)    == e.type = "Snapshot" /\ e.id # 0
Reduces(e)       == e.type \in {"Cancel", "Execute"}
Amends(e)        == Reduces(e) \/ e.type = "Replace"

\* validate_event_before_apply: NoReason if the event may be applied.
EventObjection(e, book, symbol) ==
  FirstReason(<<
    <<e.symbol = 0, "invalid symbol id">>,
    <<e.symbol # symbol, "event symbol does not match replay book symbol">>,
    <<NeedsOrder(e) /\ e.id = 0, "invalid order id">>,
    <<e.type \in {"Add", "Replace"} /\ e.side \notin Sides, "invalid side">>,
    <<NeedsPrice(e) /\ e.price <= 0, "invalid price">>,
    <<~ NeedsPrice(e) /\ e.price < 0, "invalid negative price">>,
    <<NeedsQuantity(e) /\ e.quantity <= 0, "invalid quantity">>,
    <<~ NeedsQuantity(e) /\ e.quantity < 0, "invalid negative quantity">>,
    <<e.type = "Add" /\ Resting(book, e.id), "duplicate order id">>,
    <<Reinstates(e) /\ e.side \notin Sides, "invalid snapshot side">>,
    <<Reinstates(e) /\ e.price <= 0, "invalid snapshot price">>,
    <<Reinstates(e) /\ e.quantity <= 0, "invalid snapshot quantity">>,
    <<Amends(e) /\ ~ Resting(book, e.id), "unknown order id">>,
    <<Reduces(e) /\ Resting(book, e.id) /\ e.quantity > book.nodes[e.id].quantity,
      "invalid quantity exceeds resting order quantity">> >>)

-------------------------------------------------------------------------------
(* Checks on the book.                                                     *)

\* validate_top_of_book
CrossedReason(book) ==
  LET both    == \A side \in Sides : DOMAIN book.levels[side] # {}
      crossed == both /\ BestPrice(book, "Buy") >= BestPrice(book, "Sell")
  IN  FirstReason(<< <<crossed, "crossed book state">> >>)

\* validate_full_book
FullBookReason(book) ==
  IF QueuesMatchIndex(book) /\ TotalsMatchOrders(book)
  THEN CrossedReason(book) ELSE <<"book invariant violation">>

\* validate_book_after_apply
NeverLooks(book, config) ==   \* mutation: light validation defers everything
  IF ~ config.bookState \/ config.mode = "Light" THEN NoReason
  ELSE FullBookReason(book)
BookObjection(book, config) ==
  IF ~ config.bookState THEN NoReason
  ELSE IF config.mode = "Light" THEN CrossedReason(book)
  ELSE FullBookReason(book)

-------------------------------------------------------------------------------
(* Steps.                                                                  *)

\* add_diagnostic with severity Error, about the event's place in the stream.
Diagnose(stream, sequence, reason) ==
  [stream EXCEPT !.diagnostics = Append(@, <<stream.index, sequence, reason>>),
                 !.valid = FALSE, !.halted = TRUE, !.error = reason]

\* What the event does to the book, where its member function returns true.
AfterEvent(book, e) ==
  LET order == [side |-> e.side, price |-> e.price, quantity |-> e.quantity]
      start == IF e.type = "Snapshot" /\ e.begin THEN EmptyBook ELSE book
  IN  CASE e.type = "Add" \/ Reinstates(e) -> AddOrder(start, e.id, order)
        [] e.type = "Cancel" /\ e.quantity = 0 -> CancelOrder(book, e.id)
        [] Reduces(e) /\ e.quantity > 0 -> ReduceOrder(book, e.id, e.quantity)
        [] e.type = "Replace" -> ReplaceOrder(book, e.id, e.price, e.quantity)
        [] OTHER -> start

\* Of the events that pass the checks, only a snapshot order that already rests
\* is refused by the book.
Refused(book, e) == Reinstates(e) /\ ~ e.begin /\ Resting(book, e.id)

\* apply_event, and the counting that follows it.  What was traded is noted
\* before the book is looked at.
ApplyEvent(stream, e, config) ==
  IF Refused(stream.book, e)
  THEN Diagnose(stream, e.sequence, <<"failed to apply", e.type>>)
  ELSE LET applied == [stream EXCEPT
                         !.book = AfterEvent(stream.book, e),
                         !.activity = IF e.type \in {"Execute", "Trade"}
                                      THEN Append(@, e) ELSE @]
           reason  == BookObjection(applied.book, config)
       IN  IF reason = NoReason THEN [applied EXCEPT !.index = @ + 1]
                                ELSE Diagnose(applied, e.sequence, reason)

\* replay_step of a stream that has not halted.
UnseededStep(stream, e, symbol, config) ==   \* mutation: sequences never checked
  IF config.timestamps /\ (\E last \in stream.last : e.time < last)
  THEN Diagnose(stream, e.sequence, <<"timestamp reversal", stream.last, e.time>>)
  ELSE LET checked == [stream EXCEPT !.expected = e.sequence + 1,
                                     !.last = IF config.timestamps THEN {e.time} ELSE @]
           reason == EventObjection(e, stream.book, symbol)
       IN  IF reason # NoReason THEN Diagnose(checked, e.sequence, reason)
                                ELSE ApplyEvent(checked, e, config)
ReplayStep(stream, e, symbol, config) ==
  LET expected == IF stream.expected = 0 THEN e.sequence ELSE stream.expected
      counted  == IF config.sequences
                  THEN [stream EXCEPT !.expected = expected + 1] ELSE stream
      timed    == IF config.timestamps
                  THEN [counted EXCEPT !.last = {e.time}] ELSE counted
      reason   == EventObjection(e, stream.book, symbol)
  IN  IF config.sequences /\ e.sequence # expected
      THEN Diagnose(stream, e.sequence, <<"sequence gap", expected, e.sequence>>)
      ELSE IF config.timestamps /\ (\E last \in stream.last : e.time < last)
      THEN Diagnose(counted, e.sequence, <<"timestamp reversal", stream.last, e.time>>)
      ELSE IF reason # NoReason THEN Diagnose(timed, e.sequence, reason)
      ELSE ApplyEvent(timed, e, config)

\* The loop of replay_events stops at the first event that fails.
StreamAfter(stream, e, symbol, config) ==
  IF stream.halted THEN stream ELSE ReplayStep(stream, e, symbol, config)

\* finalize_stream: the full check that light validation put off.
Finalized(stream, config) ==
  LET reason == FullBookReason(stream.book)
  IN  IF config.bookState /\ config.mode = "Light" /\ stream.valid /\ reason # NoReason
      THEN Diagnose(stream, 0, <<"final">> \o reason)
      ELSE stream
===============================================================================
