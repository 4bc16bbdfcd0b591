---------------------------- MODULE AggregateReplay ---------------------------
(***************************************************************************)
(* AggregateReplay: replay_by_symbol (grouped) and                         *)
(* replay_shared_by_symbol (shared) of one stream of events, each in full  *)
(* and in light validation, side by side with what the venue means.        *)
(*                                                                         *)
(* The stream is what generate_synthetic_events makes, or what a venue     *)
(* sends that numbers each symbol by itself and, when it likes, frames a   *)
(* snapshot of a symbol's orders.  On its way an event may be lost,        *)
(* repeated, held back past later ones, or damaged; Faults bounds how many *)
(* are.  Both paths take an array of events: here they take them as they   *)
(* arrive, and what they would return at the end of the stream is defined  *)
(* of every prefix.                                                        *)
(***************************************************************************)
EXTENDS SharedReplay, SyntheticFlow

CONSTANTS
  Scenarios,  \* each a flow (a mode of the generator, or "Venue"), settings of
              \* the validate_ switches, and a bound on the events sent
  MaxFaults   \* bound on what goes wrong on the way

VARIABLES
  scenario,
  active,     \* the orders that live at the venue
  sent,       \* number of events sent
  nextId,     \* next_order_id
  numbers,    \* next sequence number of each symbol
  pending,    \* what is left to send of each symbol's snapshot
  held,       \* the event held back on its way, if one is
  latest,     \* the last event that was delivered
  faults,
  tampered,   \* symbols an event of which changed into another valid event
  synced,     \* symbols whose stream began at the beginning or at a snapshot
  grouped,    \* by mode: symbol to its event count and stream
  shared      \* by mode: a value of SharedReplay

venue == <<scenario, active, sent, nextId, numbers, pending>>
vars == <<scenario, active, sent, nextId, numbers, pending, held, latest, faults,
          tampered, synced, grouped, shared>>

Modes == {"Full", "Light"}
Symbols == 1 .. SymbolCount
flow == scenario.flow
In(mode) ==
  [mode |-> mode, sequences |-> scenario.config.sequences,
   timestamps |-> scenario.config.timestamps, bookState |-> scenario.config.bookState]

Init ==
  /\ scenario \in Scenarios
  /\ active = <<>> /\ sent = 0 /\ nextId = 1
  /\ numbers = [s \in Symbols |-> 1]
  /\ pending = [s \in Symbols |-> <<>>]
  /\ held = {} /\ latest = {} /\ faults = 0 /\ tampered = {} /\ synced = {}
  /\ grouped = [mode \in Modes |-> <<>>]
  /\ shared = [mode \in Modes |-> NewShared]

-------------------------------------------------------------------------------
(* The replays.                                                            *)

\* grouped_events[event.symbol_id].push_back, and the symbol's engine.
Group(groups, e, mode) ==
  LET group == IF e.symbol \in DOMAIN groups THEN groups[e.symbol]
               ELSE [count |-> 0, stream |-> NewStream]
  IN  Put(groups, e.symbol,
          [count  |-> group.count + 1,
           stream |-> StreamAfter(group.stream, e, e.symbol, In(mode))])

Take(e) ==
  /\ grouped' = [mode \in Modes |-> Group(grouped[mode], e, mode)]
  /\ shared' = [mode \in Modes |-> SharedAfter(shared[mode], e, In(mode))]
  /\ latest' = {e}
  /\ synced' = IF e.sequence = 1 \/ e.begin THEN synced \cup {e.symbol} ELSE synced

-------------------------------------------------------------------------------
(* The venue and the way to the replays.                                   *)

\* The orders of a symbol as a snapshot: the first one, or a bare marker,
\* begins it, and a bare marker ends it.
SnapshotOf(symbol) ==
  LET orders == SetToSeq({x \in ToSet(active) : x.symbol = symbol})
      marker == Event("Snapshot", symbol, 0, "None", 0, 0)
      Frame(k) == [Event("Snapshot", symbol, orders[k].id, orders[k].side,
                         orders[k].price, orders[k].quantity) EXCEPT !.begin = (k = 1)]
  IN  IF orders = <<>> THEN <<[marker EXCEPT !.begin = TRUE], marker>>
      ELSE Append([k \in DOMAIN orders |-> Frame(k)], marker)

Quiet == {s \in Symbols : pending[s] = <<>>}

\* What may be sent next, with what the snapshots owe after it.
Upcoming ==
  IF flow # "Venue"
  THEN {<<e, pending>> : e \in Generated(flow, sent, active, nextId)}
  ELSE {<<e, pending>> : e \in UNION {Adds(s, nextId) : s \in Quiet}}
       \cup (UNION {{<<e, pending>> : e \in Amendments(active[k])} :
                      k \in {j \in DOMAIN active : active[j].symbol \in Quiet}})
       \cup {<<Head(SnapshotOf(s)), [pending EXCEPT ![s] = Tail(SnapshotOf(s))]>> :
               s \in Quiet}
       \cup {<<Head(pending[s]), [pending EXCEPT ![s] = Tail(@)]>> :
               s \in Symbols \ Quiet}

\* An event with its sequence number and time, as it leaves the venue.  The
\* generator numbers all symbols together.
Stamped(e) ==
  [e EXCEPT !.sequence = IF flow = "Venue" THEN numbers[e.symbol] ELSE sent + 1,
            !.time = TimeAt(flow, sent)]

Send(e, owed) ==
  /\ sent < scenario.events
  /\ sent' = sent + 1
  /\ numbers' = [numbers EXCEPT ![e.symbol] = @ + 1]
  /\ nextId' = nextId + (IF e.type = "Add" THEN 1 ELSE 0)
  /\ active' = Amended(active, e)
  /\ pending' = owed
  /\ UNCHANGED scenario

Spoil == faults < MaxFaults /\ faults' = faults + 1

Arrive ==
  \E next \in Upcoming :
     /\ Send(next[1], next[2])
     /\ Take(Stamped(next[1]))
     /\ UNCHANGED <<held, faults, tampered>>

Lose ==
  \E next \in Upcoming :
     /\ Spoil
     /\ Send(next[1], next[2])
     /\ UNCHANGED <<held, tampered, grouped, shared, latest, synced>>

HoldBack ==
  \E next \in Upcoming :
     /\ Spoil /\ held = {}
     /\ Send(next[1], next[2])
     /\ held' = {Stamped(next[1])}
     /\ UNCHANGED <<tampered, grouped, shared, latest, synced>>

Release ==
  \E e \in held :
     /\ Take(e)
     /\ held' = {}
     /\ UNCHANGED <<venue, faults, tampered>>

Repeat ==
  \E e \in latest :
     /\ Spoil
     /\ Take(e)
     /\ UNCHANGED <<venue, held, tampered>>

\* What damage may make of an event: a value no event may have, or the other
\* side.
Damages(e) ==
  {[e EXCEPT !.symbol = 0], [e EXCEPT !.price = -1], [e EXCEPT !.quantity = -1],
   [e EXCEPT !.side = "None"]}
  \cup (IF NeedsOrder(e) THEN {[e EXCEPT !.id = 0]} ELSE {})
  \cup (IF e.side \in Sides THEN {[e EXCEPT !.side = Opposite(e.side)]} ELSE {})

Damage ==
  \E next \in Upcoming : \E e \in Damages(Stamped(next[1])) :
     /\ Spoil
     /\ Send(next[1], next[2])
     /\ Take(e)
     /\ tampered' = IF e.side \in Sides /\ e.side # next[1].side
                    THEN tampered \cup {e.symbol} ELSE tampered
     /\ UNCHANGED held

Next == Arrive \/ Lose \/ HoldBack \/ Release \/ Repeat \/ Damage

Spec == Init /\ [][Next]_vars

-------------------------------------------------------------------------------
(* What both paths return for the events they have taken.                  *)

\* The SymbolReplaySummary of each path.
GroupedSummary(mode, symbol) ==
  LET group  == grouped[mode][symbol]
      result == Finalized(group.stream, In(mode))
  IN  [count |-> group.count, valid |-> result.valid, book |-> result.book,
       activity |-> result.activity, diagnostics |-> result.diagnostics,
       error |-> result.error]
SharedSummary(mode, symbol) ==
  LET state == Settled(shared[mode], symbol, In(mode))
  IN  [count |-> state.count, valid |-> state.valid,
       book |-> BookFor(shared[mode], symbol), activity |-> state.activity,
       diagnostics |-> state.diagnostics, error |-> state.error]

\* The AggregateReplaySummary of each path, by symbol.
GroupedAggregate(mode) ==
  [s \in DOMAIN grouped[mode] |-> GroupedSummary(mode, s)]
SharedAggregate(mode) ==
  [s \in DOMAIN shared[mode].states |-> SharedSummary(mode, s)]

-------------------------------------------------------------------------------
(* Properties.                                                             *)

\* compare_replay_parity, over the symbols either path saw: every stream,
\* whatever befell it, is summarised alike by the two paths, in either mode.
\* test_shared_replay_parity.cpp checks it on chosen streams.
Parity ==
  \A mode \in Modes : GroupedAggregate(mode) = SharedAggregate(mode)

\* What lives at the venue for a symbol, as the orders of a book.
Truth(symbol) ==
  LET at(id)  == CHOOSE k \in DOMAIN active : active[k].id = id
      living  == {active[k].id : k \in {j \in DOMAIN active : active[j].symbol = symbol}}
  IN  [id \in living |-> [side |-> active[at(id)].side, price |-> active[at(id)].price,
                          quantity |-> active[at(id)].quantity]]

\* A replay that checks sequence numbers never reports a valid stream over a
\* book that is not the venue's: whatever was lost, repeated, reordered or made
\* invalid is flagged.  It needs a stream that numbers each symbol by itself,
\* that was seen from its beginning or from a snapshot, up to the last event
\* sent and not inside a snapshot.
FaithfulOrFlagged ==
  \A mode \in Modes : \A s \in DOMAIN grouped[mode] \cap (synced \ tampered) :
     LET stream == grouped[mode][s].stream
         next   == IF flow = "Venue" THEN numbers[s] ELSE sent + 1
     IN  /\ flow # "MultiSymbol"
         /\ scenario.config.sequences /\ s # 0 /\ pending[s] = <<>>
         /\ stream.valid /\ stream.expected = next
         => stream.book.nodes = Truth(s)

\* Light validation, which leaves the full check of the book to the end, ends
\* with the summaries of full validation.
ModesAgree == GroupedAggregate("Light") = GroupedAggregate("Full")
===============================================================================
