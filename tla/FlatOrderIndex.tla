---------------------------- MODULE FlatOrderIndex ----------------------------
(***************************************************************************)
(* PooledOrderBook::FlatOrderIndex: a hash table with open addressing,     *)
(* linear probing and deletion marks.  The hash of an id is arbitrary: it  *)
(* is fixed by the initial state and never changes.  Calls that return at  *)
(* once and change nothing (kInvalidOrderId, erasing an id that is not     *)
(* found) are left out.                                                    *)
(***************************************************************************)
EXTENDS Integers, Sequences, FiniteSetsExt

CONSTANTS
  Ids,           \* order ids other than kInvalidOrderId
  Positions,     \* node positions to store
  Hashes,        \* hash values
  MinCapacity,   \* 8 in the code; smaller, the table grows with fewer ids
  MaxReserve     \* bound: arguments of reserve

VARIABLES
  hash,      \* the hash of each id
  entries,   \* entries_; its slots are numbered from 1
  size,      \* size_
  stored     \* history: the map that insert, erase and clear have made

vars == <<hash, entries, size, stored>>

EmptyEntry   == [state |-> "Empty", id |-> 0, position |-> 0]
DeletedEntry == [state |-> "Deleted", id |-> 0, position |-> 0]
Occupied(id, position) == [state |-> "Occupied", id |-> id, position |-> position]

Fresh(capacity) == [slot \in 1 .. capacity |-> EmptyEntry]

\* The k-th slot of an id's probe sequence, from 0.
Probe(table, id, k) == 1 + ((hash[id] + k) % Len(table))
Probes(table) == 0 .. Len(table) - 1

\* The probes at which a search for id stops: at a slot that holds it, or at
\* one that was never used since the last rehash.
StopsAtDeleted(table, id) ==   \* mutation: a deletion mark ends the search
  {k \in Probes(table) : LET entry == table[Probe(table, id, k)]
                         IN  entry.state # "Occupied" \/ entry.id = id}
Stops(table, id) ==
  {k \in Probes(table) : LET entry == table[Probe(table, id, k)]
                         IN  entry.state = "Empty" \/ entry.id = id}

\* The search ends at a slot that holds the id.
Found(table, id) ==
  LET stops == Stops(table, id)
  IN  stops # {} /\ table[Probe(table, id, Min(stops))].id = id

SlotOf(table, id) == Probe(table, id, Min(Stops(table, id)))

\* next_capacity: MinCapacity, doubled until it is at least four times the
\* expected size.
NextCapacity(expected) ==
  LET doubled[k \in 0 .. 4 * expected] == IF k = 0 THEN MinCapacity ELSE 2 * doubled[k - 1]
  IN  doubled[Min({k \in 0 .. 4 * expected : doubled[k] >= 4 * expected})]

\* insert_rehashed: the first slot that is not occupied.
InsertRehashed(table, entry) ==
  LET free == {k \in Probes(table) :
                 table[Probe(table, entry.id, k)].state # "Occupied"}
  IN  [table EXCEPT ![Probe(table, entry.id, Min(free))] = entry]

\* rehash: a fresh table with the occupied entries, in the order of the old.
Rehash(table, capacity) ==
  LET moved[n \in 0 .. Len(table)] ==
        IF n = 0 THEN Fresh(capacity)
        ELSE IF table[n].state = "Occupied" THEN InsertRehashed(moved[n - 1], table[n])
        ELSE moved[n - 1]
  IN  moved[Len(table)]

\* The table insert works on: grown when it would be more than half full.
Roomy(table) ==
  IF table = <<>> \/ (size + 1) * 2 > Len(table)
  THEN Rehash(table, NextCapacity(size + 1))
  ELSE table

\* Where insert puts an id that the table does not hold: the first deletion
\* mark on the way to the slot that ends the search, or else that slot.
Target(table, id) ==
  LET stops   == Stops(table, id)
      stop    == IF stops = {} THEN Len(table) ELSE Min(stops)
      deleted == {k \in 0 .. stop - 1 :
                    table[Probe(table, id, k)].state = "Deleted"}
  IN  Probe(table, id, IF deleted = {} THEN stop ELSE Min(deleted))

Init ==
  /\ hash \in [Ids -> Hashes]
  /\ entries = <<>>
  /\ size = 0
  /\ stored = <<>>

\* The table may grow although the id turns out to be there.
InsertPresent(id) ==
  /\ Found(Roomy(entries), id)
  /\ entries' = Roomy(entries)
  /\ UNCHANGED <<hash, size, stored>>

InsertAbsent(id, position) ==
  LET table == Roomy(entries)
  IN  /\ ~ Found(table, id)
      /\ entries' = [table EXCEPT ![Target(table, id)] = Occupied(id, position)]
      /\ size' = size + 1
      /\ stored' = [other \in DOMAIN stored \cup {id} |->
                      IF other = id THEN position ELSE stored[other]]
      /\ UNCHANGED hash

Erase(id) ==
  /\ Found(entries, id)
  /\ entries' = [entries EXCEPT ![SlotOf(entries, id)] = DeletedEntry]
  /\ size' = size - 1
  /\ stored' = Restrict(stored, DOMAIN stored \ {id})
  /\ UNCHANGED hash

\* clear() keeps the capacity and forgets the deletion marks.
Clear ==
  /\ entries' = Fresh(Len(entries))
  /\ size' = 0
  /\ stored' = <<>>
  /\ UNCHANGED hash

Reserve(expected) ==
  /\ entries' = IF Len(entries) >= NextCapacity(expected)
                THEN entries ELSE Rehash(entries, NextCapacity(expected))
  /\ UNCHANGED <<hash, size, stored>>

Next ==
  \/ \E id \in Ids :
        \/ \E position \in Positions : InsertAbsent(id, position)
        \/ InsertPresent(id) \/ Erase(id)
  \/ Clear
  \/ \E expected \in 0 .. MaxReserve : Reserve(expected)

Spec == Init /\ [][Next]_vars

-------------------------------------------------------------------------------
(* Properties.                                                             *)

\* However ids collide, wrap around the end of the table, leave deletion marks
\* behind and move when it grows, searching finds exactly what was stored, and
\* no slot holds what a search would not come to.  The table is at most half
\* full, so that rehashing always finds room.
FindsWhatWasStored ==
  /\ \A id \in Ids :
       /\ Found(entries, id) <=> id \in DOMAIN stored
       /\ id \in DOMAIN stored =>
            entries[SlotOf(entries, id)].position = stored[id]
  /\ \A slot \in DOMAIN entries :
       entries[slot].state = "Occupied" => slot = SlotOf(entries, entries[slot].id)
  /\ size = Cardinality(DOMAIN stored) /\ 2 * size <= Len(entries)
===============================================================================
