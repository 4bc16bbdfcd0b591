--------------------------- MODULE Components_proofs ---------------------------
(***************************************************************************)
(* Proofs about the components that keep to themselves.  Each is proved    *)
(* about alone; together they behave as each does alone.                   *)
(*                                                                         *)
(*   index   in a table every id is in one slot, and the probes before it  *)
(*           passed no slot that was never used since the last rehash;     *)
(*   rate    the sliding window keeps the times of the last messages, and  *)
(*           what it let go is old; the fixed one counts the messages of   *)
(*           its window, and knows that neither it nor a window's length   *)
(*           before it allowed too many;                                   *)
(*   portfolio  what was realised is the cash and the cost of what is held,*)
(*           but for the rounding; sums do not depend on their order;      *)
(*   log     up to a line that makes reading fail, what is read of a text  *)
(*           is a beginning of what was written but for the flags of its   *)
(*           last event; in a binary each record is its event or none; of  *)
(*           a log that was tampered with, each line or record comes from  *)
(*           one that was written before the next one's, or was put in;    *)
(*   gate    the counter is the length of the run of late signals that the *)
(*           history ends in, or at its maximum with that run as long;     *)
(*   model   a model that was taken with its metadata passed the checks.   *)
(***************************************************************************)
EXTENDS Components, FiniteSetTheorems, WellFoundedInduction, TLAPS

(* Numbers.                                                                *)

\* A set of numbers has a least.
LEMMA Least ==
  ASSUME NEW S \in SUBSET Nat, S # {}
  PROVE  \E n \in S : \A m \in S : n <= m
<1> DEFINE R == OpToRel(<, Nat)
<1>1. IsWellFoundedOn(R, Nat)
  BY NatLessThanWellFounded
<1>2. \A x, y \in Nat : x < y => <<x, y>> \in R
  BY DEF OpToRel
<1> HIDE DEF R
<1>3. PICK n \in S : \A m \in S : ~ <<m, n>> \in R
  BY <1>1, WFMin
<1>4. ASSUME NEW m \in S PROVE n <= m
  <2>1. m \in Nat /\ n \in Nat
    BY <1>3
  <2>2. ~ m < n
    BY <1>2, <1>3, <2>1
  <2> QED  BY <2>1, <2>2
<1> QED  BY <1>3, <1>4

\* One that has 0, and with every number the next, has them all.
LEMMA Induct ==
  ASSUME NEW S \in SUBSET Nat, 0 \in S, \A n \in S : n + 1 \in S
  PROVE  S = Nat
<1> DEFINE T == Nat \ S
<1>1. CASE T = {}
  BY <1>1
<1>2. CASE T # {}
  <2>1. PICK n \in T : \A m \in T : n <= m
    BY <1>2, Least
  <2>2. n - 1 \in Nat /\ n - 1 \in S
    BY <2>1
  <2> QED  BY <2>1, <2>2
<1> QED  BY <1>1, <1>2

\* What a division leaves is unique.
LEMMA DivMod ==
  ASSUME NEW a \in Nat, NEW L \in Nat \ {0}
  PROVE  (a % L) \in 0 .. L - 1 /\ a \div L \in Nat /\ a = L * (a \div L) + (a % L)
OBVIOUS

\* There is one quotient and one rest.
LEMMA UniqueRest ==
  ASSUME NEW L \in Nat \ {0}, NEW q \in Int, NEW p \in Int,
         NEW r \in 0 .. L - 1, NEW s \in 0 .. L - 1, L * q + r = L * p + s
  PROVE  q = p /\ r = s
<1>1. L * (q - p) = s - r
  OBVIOUS
<1>2. ~ q - p >= 1
  <2>1. q - p >= 1 => L * (q - p) >= L
    OBVIOUS
  <2> QED  BY <1>1, <2>1
<1>3. ~ p - q >= 1
  <2>1. p - q >= 1 => L * (p - q) >= L
    OBVIOUS
  <2>2. L * (p - q) = r - s
    OBVIOUS
  <2> QED  BY <2>1, <2>2
<1> QED  BY <1>1, <1>2, <1>3

\* k steps on from a, around the end.
LEMMA Shift ==
  ASSUME NEW a \in Nat, NEW L \in Nat \ {0}, NEW k \in 0 .. L - 1
  PROVE  (a + k) % L = IF (a % L) + k < L THEN (a % L) + k ELSE (a % L) + k - L
<1> DEFINE r == a % L
           q == a \div L
           s == (a + k) % L
           p == (a + k) \div L
<1>1. r \in 0 .. L - 1 /\ q \in Nat /\ a = L * q + r
  BY DivMod
<1>2. s \in 0 .. L - 1 /\ p \in Nat /\ a + k = L * p + s
  <2>1. \A b \in Nat : (b % L) \in 0 .. L - 1 /\ b \div L \in Nat /\ b = L * (b \div L) + (b % L)
    BY DivMod
  <2>2. a + k \in Nat
    OBVIOUS
  <2> QED  BY <2>1, <2>2
<1> HIDE DEF r, q, s, p
<1>3. CASE r + k < L
  <2>1. r + k \in 0 .. L - 1 /\ L * q + (r + k) = L * p + s
    BY <1>1, <1>2, <1>3
  <2>2. s = r + k
    BY <1>1, <1>2, <2>1, UniqueRest
  <2> QED  BY <1>3, <2>2 DEF r, s
<1>4. CASE ~ r + k < L
  <2>0. L * (q + 1) = L * q + L
    BY <1>1
  <2>1. r + k - L \in 0 .. L - 1 /\ L * (q + 1) + (r + k - L) = L * p + s
    BY <1>1, <1>2, <1>4, <2>0
  <2>2. s = r + k - L
    <3>1. q + 1 \in Int /\ p \in Int
      BY <1>1, <1>2
    <3> DEFINE next == q + 1  rest == r + k - L
    <3>2. next \in Int /\ p \in Int /\ rest \in 0 .. L - 1 /\ L * next + rest = L * p + s
      BY <2>1, <3>1
    <3> HIDE DEF next, rest
    <3>3. L \in Nat \ {0} /\ s \in 0 .. L - 1
      BY <1>2
    <3>4. next = p /\ rest = s
      BY <3>2, <3>3, UniqueRest
    <3> QED  BY <3>4 DEF rest
  <2> QED  BY <1>4, <2>2 DEF r, s
<1> QED  BY <1>3, <1>4

\* Turn: a bucket h and k steps on, around the end of a table of L slots.
Turn(h, L, k) == 1 + ((h + k) % L)
Turns(h, L) ==
  /\ \A k \in 0 .. L - 1 : Turn(h, L, k) \in 1 .. L
  /\ \A j, k \in 0 .. L - 1 : Turn(h, L, j) = Turn(h, L, k) => j = k
  /\ \A s \in 1 .. L : \E k \in 0 .. L - 1 : Turn(h, L, k) = s

\* L steps from anywhere in a ring of L slots come to each of them once.
LEMMA TurnsAround ==
  ASSUME NEW h \in Nat, NEW L \in Nat \ {0} PROVE Turns(h, L)
<1> DEFINE r == h % L
<1>1. r \in 0 .. L - 1
  BY DivMod
<1>2. \A k \in 0 .. L - 1 : Turn(h, L, k) = IF r + k < L THEN 1 + (r + k) ELSE 1 + (r + k - L)
  BY Shift DEF Turn
<1> HIDE DEF r
<1>3. \A k \in 0 .. L - 1 : Turn(h, L, k) \in 1 .. L
  BY <1>1, <1>2
<1>4. ASSUME NEW j \in 0 .. L - 1, NEW k \in 0 .. L - 1, Turn(h, L, j) = Turn(h, L, k)
      PROVE  j = k
  BY <1>1, <1>2, <1>4
<1>5. ASSUME NEW s \in 1 .. L PROVE \E k \in 0 .. L - 1 : Turn(h, L, k) = s
  <2>1. CASE s - 1 >= r
    <3>1. s - 1 - r \in 0 .. L - 1 /\ r + (s - 1 - r) < L /\ 1 + (r + (s - 1 - r)) = s
      BY <1>1, <2>1
    <3> QED  BY <1>2, <3>1
  <2>2. CASE s - 1 < r
    <3>1. /\ s - 1 - r + L \in 0 .. L - 1 /\ ~ r + (s - 1 - r + L) < L
          /\ 1 + (r + (s - 1 - r + L) - L) = s
      BY <1>1, <2>2
    <3> QED  BY <1>2, <3>1
  <2> QED  BY <1>1, <2>1, <2>2
<1> QED  BY <1>3, <1>4, <1>5 DEF Turns

-------------------------------------------------------------------------------
(* One table.                                                              *)

Slots == [state : {"Empty", "Deleted", "Occupied"}, id : Ids \cup {0},
          position : Positions \cup {0}]

\* In a table every id is in one slot, and a search for it gets there: it passes
\* no slot that was never used.
Placed(table) ==
  /\ table \in Seq(Slots)
  /\ \A s \in 1 .. Len(table) : table[s].id \in Ids <=> table[s].state = "Occupied"
  /\ \A s, other \in 1 .. Len(table) :
        table[s].id \in Ids /\ table[s].id = table[other].id => s = other
  /\ \A id \in Ids, k \in 0 .. Len(table) - 1 :
        table[Index!Probe(table, id, k)].id = id =>
          \A j \in 0 .. k - 1 : table[Index!Probe(table, id, j)].state # "Empty"

\* A probe sequence comes to every slot, and to none twice.
Probing(table) ==
  \A id \in Ids :
     /\ \A k \in 0 .. Len(table) - 1 : Index!Probe(table, id, k) \in 1 .. Len(table)
     /\ \A j, k \in 0 .. Len(table) - 1 :
           Index!Probe(table, id, j) = Index!Probe(table, id, k) => j = k
     /\ \A s \in 1 .. Len(table) :
           \E k \in 0 .. Len(table) - 1 : Index!Probe(table, id, k) = s

HashesOK == hash \in [Ids -> Nat]

\* The probes of a table do that, whatever the hashes are.
LEMMA ProbesCome ==
  ASSUME HashesOK, NEW table, Len(table) \in Nat PROVE Probing(table)
<1>1. ASSUME NEW id \in Ids, Len(table) # 0 PROVE Turns(hash[id], Len(table))
  <2>1. hash[id] \in Nat /\ Len(table) \in Nat \ {0}
    BY <1>1 DEF HashesOK
  <2> QED  BY <2>1, TurnsAround
<1>2. \A id, k : Index!Probe(table, id, k) = Turn(hash[id], Len(table), k)
  BY DEF Index!Probe, Turn
<1> DEFINE L == Len(table)
<1>3. CASE L # 0
  <2>1. \A id \in Ids : Turns(hash[id], L)
    BY <1>1, <1>3
  <2>2. \A id, k : Index!Probe(table, id, k) = Turn(hash[id], L, k)
    BY <1>2
  <2> HIDE DEF L
  <2>3. ASSUME NEW id \in Ids
        PROVE  /\ \A k \in 0 .. L - 1 : Index!Probe(table, id, k) \in 1 .. L
               /\ \A j, k \in 0 .. L - 1 :
                     Index!Probe(table, id, j) = Index!Probe(table, id, k) => j = k
               /\ \A s \in 1 .. L : \E k \in 0 .. L - 1 : Index!Probe(table, id, k) = s
    <3> DEFINE P(k) == Index!Probe(table, id, k)
               T(k) == Turn(hash[id], L, k)
    <3>1. /\ \A k \in 0 .. L - 1 : T(k) \in 1 .. L
          /\ \A j, k \in 0 .. L - 1 : T(j) = T(k) => j = k
          /\ \A s \in 1 .. L : \E k \in 0 .. L - 1 : T(k) = s
      BY <2>1 DEF Turns
    <3>2. \A k : P(k) = T(k)
      BY <2>2
    <3> HIDE DEF P, T
    <3>3. /\ \A k \in 0 .. L - 1 : P(k) \in 1 .. L
          /\ \A j, k \in 0 .. L - 1 : P(j) = P(k) => j = k
          /\ \A s \in 1 .. L : \E k \in 0 .. L - 1 : P(k) = s
      BY <3>1, <3>2
    <3> QED  BY <3>3 DEF P
  <2> QED  BY <2>3 DEF Probing, L
<1>4. CASE Len(table) = 0
  <2>1. 0 .. Len(table) - 1 = {} /\ 1 .. Len(table) = {}
    BY <1>4
  <2> QED  BY <2>1 DEF Probing
<1> QED  BY <1>3, <1>4

\* The smallest of some probes.
LEMMA SmallestProbe ==
  ASSUME NEW S \in SUBSET Nat, S # {}
  PROVE  Index!Min(S) \in S /\ \A k \in S : Index!Min(S) <= k
<1>1. \E n \in S : \A m \in S : n <= m
  BY Least
<1> QED  BY <1>1 DEF Index!Min

\* A search for an id that is in the table ends where it is, and no other does.
Finds(table, id) ==
  /\ Index!Found(table, id) <=> \E s \in 1 .. Len(table) : table[s].id = id
  /\ \A s \in 1 .. Len(table) : table[s].id = id => Index!SlotOf(table, id) = s

\* The probes before an id passed no empty slot, so the search does not stop short.
LEMMA SearchFinds ==
  ASSUME HashesOK, NEW table, Placed(table), NEW id \in Ids
  PROVE  Finds(table, id)
<1> DEFINE L == Len(table)
           stops == Index!Stops(table, id)
           m == Index!Min(stops)
           P(k) == Index!Probe(table, id, k)
<1>1. L \in Nat /\ Probing(table)
  BY ProbesCome DEF Placed
<1>2. stops = {k \in 0 .. L - 1 : table[P(k)].state = "Empty" \/ table[P(k)].id = id}
  BY DEF Index!Stops, Index!Probes
<1>3. Index!Found(table, id) <=> stops # {} /\ table[P(m)].id = id
  BY DEF Index!Found
<1>4. Index!SlotOf(table, id) = P(m)
  BY DEF Index!SlotOf
<1>5. /\ \A k \in 0 .. L - 1 : P(k) \in 1 .. L
      /\ \A s \in 1 .. L : \E k \in 0 .. L - 1 : P(k) = s
  BY <1>1 DEF Probing
<1>6. /\ \A s, other \in 1 .. L : table[s].id = id /\ table[other].id = id => s = other
      /\ \A k \in 0 .. L - 1 : table[P(k)].id = id =>
            \A j \in 0 .. k - 1 : table[P(j)].state # "Empty"
  BY DEF Placed
<1> HIDE DEF L, stops, m, P
<1>7. stops # {} => m \in stops /\ \A k \in stops : m <= k
  <2>1. stops \in SUBSET Nat
    BY <1>1, <1>2
  <2> QED  BY <2>1, SmallestProbe DEF m
<1>8. ASSUME NEW s \in 1 .. L, table[s].id = id
      PROVE  stops # {} /\ table[P(m)].id = id /\ P(m) = s
  <2>1. PICK k \in 0 .. L - 1 : P(k) = s
    BY <1>5
  <2>2. k \in stops
    BY <1>2, <1>8, <2>1
  <2>3. m \in 0 .. L - 1 /\ m <= k /\ (table[P(m)].state = "Empty" \/ table[P(m)].id = id)
    BY <1>2, <1>7, <2>2
  <2>4. table[P(m)].id = id
    <3>1. CASE m = k
      BY <1>8, <2>1, <3>1
    <3>2. CASE m # k
      <4>1. m \in 0 .. k - 1
        BY <1>1, <2>3, <3>2
      <4>2. table[P(k)].id = id
        BY <1>8, <2>1
      <4> QED  BY <1>6, <2>3, <4>1, <4>2
    <3> QED  BY <3>1, <3>2
  <2>5. P(m) \in 1 .. L
    BY <1>5, <2>3
  <2> QED  BY <1>6, <1>8, <2>2, <2>4, <2>5
<1>9. stops # {} /\ table[P(m)].id = id => \E s \in 1 .. L : table[s].id = id
  BY <1>2, <1>5, <1>7
<1> QED  BY <1>3, <1>4, <1>8, <1>9 DEF Finds, L

\* The slots in use, and that a table holds an id with a position.
InUse(table) == {s \in 1 .. Len(table) : table[s].state = "Occupied"}
Holds(table, id, position) ==
  \E s \in 1 .. Len(table) : table[s].id = id /\ table[s].position = position

\* What it means to put an entry into a table that does not hold its id.
PutsIn(table, after, entry) ==
  /\ Placed(after) /\ Len(after) = Len(table)
  /\ \A id \in Ids : \A position :
       Holds(after, id, position)
         <=> Holds(table, id, position) \/ (id = entry.id /\ position = entry.position)
  /\ Cardinality(InUse(after)) = Cardinality(InUse(table)) + 1

\* A table that has fewer entries than slots has a slot for one more.
LEMMA InUseFinite ==
  ASSUME NEW table, Len(table) \in Nat
  PROVE  /\ IsFiniteSet(InUse(table)) /\ Cardinality(InUse(table)) \in Nat
         /\ Cardinality(InUse(table)) < Len(table) =>
              \E s \in 1 .. Len(table) : table[s].state # "Occupied"
<1>1. /\ IsFiniteSet(1 .. Len(table)) /\ Cardinality(1 .. Len(table)) = Len(table)
      /\ InUse(table) \subseteq 1 .. Len(table)
  <2>1. InUse(table) \subseteq 1 .. Len(table)
    BY DEF InUse
  <2>2. /\ IsFiniteSet(1 .. Len(table))
        /\ Cardinality(1 .. Len(table)) = IF 1 > Len(table) THEN 0 ELSE Len(table) - 1 + 1
    <3>1. 1 \in Int /\ Len(table) \in Int
      OBVIOUS
    <3> QED  BY <3>1, FS_Interval, Zenon
  <2>3. (IF 1 > Len(table) THEN 0 ELSE Len(table) - 1 + 1) = Len(table)
    OBVIOUS
  <2> QED  BY <2>1, <2>2, <2>3
<1>2. IsFiniteSet(InUse(table)) /\ Cardinality(InUse(table)) \in Nat
  BY <1>1, FS_Subset, FS_CardinalityType
<1>3. ASSUME \A s \in 1 .. Len(table) : table[s].state = "Occupied"
      PROVE  Cardinality(InUse(table)) = Len(table)
  <2>1. InUse(table) = 1 .. Len(table)
    BY <1>3 DEF InUse
  <2> QED  BY <1>1, <2>1
<1> QED  BY <1>2, <1>3

\* An entry may go to any slot that is not in use, if its probes have not passed
\* one that was never used.
LEMMA PutsWhereProbed ==
  ASSUME HashesOK, NEW table, Placed(table), NEW entry \in Slots, entry.id \in Ids,
         entry.state = "Occupied", NEW k \in 0 .. Len(table) - 1,
         \A s \in 1 .. Len(table) : table[s].id # entry.id,
         table[Index!Probe(table, entry.id, k)].state # "Occupied",
         \A j \in 0 .. k - 1 : table[Index!Probe(table, entry.id, j)].state # "Empty",
         NEW after, after = [table EXCEPT ![Index!Probe(table, entry.id, k)] = entry]
  PROVE  PutsIn(table, after, entry)
<1> DEFINE L == Len(table)
           target == Index!Probe(table, entry.id, k)
<1>1. table \in Seq(Slots) /\ L \in Nat /\ Probing(table) /\ DOMAIN table = 1 .. L
  BY ProbesCome DEF Placed
<1>2. target \in 1 .. L
  BY <1>1 DEF Probing
<1>3. /\ after \in Seq(Slots) /\ Len(after) = L
      /\ after[target] = entry
      /\ \A s \in 1 .. L : s # target => after[s] = table[s]
  <2> HIDE DEF target
  <2>1. after = [table EXCEPT ![target] = entry]
    BY DEF target
  <2> QED  BY <1>1, <1>2, <2>1
<1>4. \A id, j : Index!Probe(after, id, j) = Index!Probe(table, id, j)
  BY <1>3 DEF Index!Probe
<1>5. /\ \A s \in 1 .. L : table[s].id \in Ids <=> table[s].state = "Occupied"
      /\ \A s, other \in 1 .. L :
           table[s].id \in Ids /\ table[s].id = table[other].id => s = other
      /\ \A id \in Ids, n \in 0 .. L - 1 :
           table[Index!Probe(table, id, n)].id = id =>
             \A j \in 0 .. n - 1 : table[Index!Probe(table, id, j)].state # "Empty"
  BY DEF Placed
<1>6. table[target].state # "Occupied" /\ table[target].id \notin Ids
  BY <1>2, <1>5
<1> HIDE DEF L, target
<1>7. \A s \in 1 .. L : after[s].id \in Ids <=> after[s].state = "Occupied"
  BY <1>3, <1>5
<1>8. ASSUME NEW s \in 1 .. L, NEW other \in 1 .. L, after[s].id \in Ids,
             after[s].id = after[other].id
      PROVE  s = other
  BY <1>3, <1>5, <1>8 DEF L
<1>9. ASSUME NEW id \in Ids, NEW n \in 0 .. L - 1, after[Index!Probe(table, id, n)].id = id,
             NEW j \in 0 .. n - 1
      PROVE  after[Index!Probe(table, id, j)].state # "Empty"
  <2>1. /\ j \in 0 .. L - 1
        /\ Index!Probe(table, id, j) \in 1 .. L /\ Index!Probe(table, id, n) \in 1 .. L
    <3>1. j \in 0 .. L - 1
      BY <1>1
    <3> QED  BY <1>1, <3>1 DEF Probing, L
  <2>2. CASE Index!Probe(table, id, j) = target
    BY <1>3, <2>2
  <2>3. CASE Index!Probe(table, id, j) # target /\ Index!Probe(table, id, n) # target
    BY <1>3, <1>5, <1>9, <2>1, <2>3
  <2>4. CASE Index!Probe(table, id, j) # target /\ Index!Probe(table, id, n) = target
    <3>1. id = entry.id
      BY <1>3, <1>9, <2>4
    <3>2. n = k
      BY <1>1, <2>4, <3>1 DEF Probing, L, target
    <3> QED  BY <1>3, <2>1, <2>4, <3>1, <3>2
  <2> QED  BY <2>2, <2>3, <2>4
<1>10. Placed(after)
  <2>1. \A id \in Ids, n \in 0 .. L - 1 :
           after[Index!Probe(after, id, n)].id = id =>
             \A j \in 0 .. n - 1 : after[Index!Probe(after, id, j)].state # "Empty"
    <3>1. ASSUME NEW id \in Ids, NEW n \in 0 .. L - 1,
                 after[Index!Probe(after, id, n)].id = id, NEW j \in 0 .. n - 1
          PROVE  after[Index!Probe(after, id, j)].state # "Empty"
      <4>1. Index!Probe(after, id, n) = Index!Probe(table, id, n)
            /\ Index!Probe(after, id, j) = Index!Probe(table, id, j)
        BY <1>4
      <4> QED  BY <1>9, <3>1, <4>1
    <3> QED  BY <3>1
  <2> QED  BY <1>3, <1>7, <1>8, <2>1 DEF Placed
<1>11. ASSUME NEW id \in Ids, NEW position
       PROVE  Holds(after, id, position)
                <=> Holds(table, id, position) \/ (id = entry.id /\ position = entry.position)
  <2>1. Holds(after, id, position)
          <=> \E s \in 1 .. L : after[s].id = id /\ after[s].position = position
    BY <1>3 DEF Holds
  <2>2. Holds(table, id, position)
          <=> \E s \in 1 .. L : table[s].id = id /\ table[s].position = position
    BY DEF Holds, L
  <2> QED  BY <1>2, <1>3, <1>6, <2>1, <2>2
<1>12. InUse(after) = InUse(table) \cup {target} /\ target \notin InUse(table)
  <2>1. InUse(after) = {s \in 1 .. L : after[s].state = "Occupied"}
        /\ InUse(table) = {s \in 1 .. L : table[s].state = "Occupied"}
    BY <1>3 DEF InUse, L
  <2>2. \A s \in 1 .. L : after[s].state = "Occupied" <=> s = target \/ table[s].state = "Occupied"
    BY <1>2, <1>3
  <2> QED  BY <1>2, <1>6, <2>1, <2>2
<1>13. Cardinality(InUse(after)) = Cardinality(InUse(table)) + 1
  <2>1. IsFiniteSet(InUse(table))
    BY <1>1, InUseFinite DEF L
  <2> QED  BY <1>12, <2>1, FS_AddElement
<1> QED  BY <1>3, <1>10, <1>11, <1>13 DEF PutsIn, L

\* insert_rehashed finds a slot for an id that is not there, as long as one is free.
LEMMA InsertRehashedPuts ==
  ASSUME HashesOK, NEW table, Placed(table), NEW entry \in Slots, entry.id \in Ids,
         entry.state = "Occupied", \A s \in 1 .. Len(table) : table[s].id # entry.id,
         Cardinality(InUse(table)) < Len(table)
  PROVE  PutsIn(table, Index!InsertRehashed(table, entry), entry)
<1> DEFINE L == Len(table)
           P(k) == Index!Probe(table, entry.id, k)
           free == {k \in 0 .. L - 1 : table[P(k)].state # "Occupied"}
           k0 == Index!Min(free)
<1>1. L \in Nat /\ Probing(table)
  BY ProbesCome DEF Placed
<1>2. free # {} /\ free \in SUBSET Nat
  <2>1. PICK s \in 1 .. L : table[s].state # "Occupied"
    BY <1>1, InUseFinite
  <2>2. PICK k \in 0 .. L - 1 : P(k) = s
    BY <1>1 DEF Probing
  <2>3. k \in free
    BY <2>1, <2>2
  <2>4. free \in SUBSET Nat
    BY <1>1
  <2> QED  BY <2>3, <2>4
<1>3. k0 \in free /\ \A k \in free : k0 <= k
  <2> HIDE DEF free
  <2> QED  BY <1>2, SmallestProbe
<1>4. Index!InsertRehashed(table, entry) = [table EXCEPT ![P(k0)] = entry]
  BY DEF Index!InsertRehashed, Index!Probes
<1> HIDE DEF k0
<1>5. k0 \in 0 .. L - 1 /\ table[P(k0)].state # "Occupied"
  BY <1>3
<1>6. ASSUME NEW j \in 0 .. k0 - 1 PROVE table[P(j)].state # "Empty"
  <2>1. j \in 0 .. L - 1 /\ ~ k0 <= j
    BY <1>1, <1>5
  <2>2. j \notin free
    BY <1>3, <2>1
  <2> QED  BY <2>1, <2>2
<1> QED  BY <1>4, <1>5, <1>6, PutsWhereProbed

\* A fresh table holds nothing.
Unused(table, capacity) ==
  /\ Placed(table) /\ Len(table) = capacity
  /\ \A id \in Ids : \A position : ~ Holds(table, id, position)
  /\ Cardinality(InUse(table)) = 0

\* A new table has no entry, and no slot of it was ever used.
LEMMA FreshHoldsNothing ==
  ASSUME HashesOK, NEW capacity \in Nat PROVE Unused(Index!Fresh(capacity), capacity)
<1> DEFINE table == Index!Fresh(capacity)
<1>1. table = [s \in 1 .. capacity |-> Index!EmptyEntry] /\ Index!EmptyEntry \in Slots
      /\ Index!EmptyEntry.id = 0 /\ Index!EmptyEntry.state = "Empty"
  BY DEF Index!Fresh, Index!EmptyEntry, Slots
<1> HIDE DEF table
<1>2. table \in Seq(Slots) /\ Len(table) = capacity
      /\ \A s \in 1 .. capacity : table[s].id = 0 /\ table[s].state = "Empty"
  BY <1>1
<1>3. \A s \in 1 .. capacity : table[s].id \notin Ids
  BY <1>2, IndexAssumption
<1>4. Placed(table)
  <2>1. Probing(table)
    BY <1>2, ProbesCome
  <2>2. ASSUME NEW id \in Ids, NEW k \in 0 .. capacity - 1
        PROVE  table[Index!Probe(table, id, k)].id # id
    <3>1. Index!Probe(table, id, k) \in 1 .. capacity
      BY <1>2, <2>1 DEF Probing
    <3> QED  BY <1>3, <3>1
  <2> QED  BY <1>2, <1>3, <2>2 DEF Placed
<1>5. InUse(table) = {}
  BY <1>2 DEF InUse
<1>6. \A id \in Ids : \A position : ~ Holds(table, id, position)
  BY <1>2, <1>3 DEF Holds
<1>7. Cardinality(InUse(table)) = 0 /\ Len(table) = capacity
  BY <1>2, <1>5, FS_EmptySet
<1>8. Unused(table, capacity)
  BY <1>4, <1>6, <1>7 DEF Unused
<1> QED  BY <1>8 DEF table

\* rehash moves the entries one by one.
Moved(table, capacity, moved) ==
  moved = [n \in 0 .. Len(table) |->
             IF n = 0 THEN Index!Fresh(capacity)
             ELSE IF table[n].state = "Occupied"
                  THEN Index!InsertRehashed(moved[n - 1], table[n])
                  ELSE moved[n - 1]]

\* Rehashing is a recursion over the slots: its value after the last one.
LEMMA RehashMoves ==
  ASSUME NEW table, Len(table) \in Nat, NEW capacity
  PROVE  \E moved : /\ Moved(table, capacity, moved)
                    /\ Index!Rehash(table, capacity) = moved[Len(table)]
<1> DEFINE L == Len(table)
           Next1(n, before) == IF table[n].state = "Occupied"
                               THEN Index!InsertRehashed(before, table[n]) ELSE before
           Body(f, n) == IF n = 0 THEN Index!Fresh(capacity) ELSE Next1(n, f[n - 1])
           S == {m \in Nat : \E f : f = [n \in 0 .. m |-> Body(f, n)]}
<1>1. 0 \in S
  <2> DEFINE f == [n \in 0 .. 0 |-> Index!Fresh(capacity)]
  <2>1. f = [n \in 0 .. 0 |-> Body(f, n)]
    BY DEF Body
  <2> QED  BY <2>1
<1>2. ASSUME NEW m \in S PROVE m + 1 \in S
  <2>1. m \in Nat
    OBVIOUS
  <2>2. PICK f : f = [n \in 0 .. m |-> Body(f, n)]
    OBVIOUS
  <2> DEFINE g == [n \in 0 .. m + 1 |-> IF n = m + 1 THEN Next1(n, f[m]) ELSE f[n]]
  <2>3. ASSUME NEW n \in 0 .. m + 1 PROVE g[n] = Body(g, n)
    <3>1. CASE n = m + 1
      <4>1. g[n] = Next1(n, f[m]) /\ n # 0 /\ n - 1 = m /\ g[m] = f[m]
        BY <2>1, <3>1
      <4> HIDE DEF g, Next1
      <4> QED  BY <4>1 DEF Body
    <3>2. CASE n # m + 1 /\ n # 0
      <4>1. n \in 0 .. m /\ n - 1 \in 0 .. m /\ n - 1 # m + 1 /\ n - 1 \in 0 .. m + 1
        BY <2>1, <3>2
      <4>2. g[n] = f[n] /\ g[n - 1] = f[n - 1]
        BY <3>2, <4>1
      <4>3. f[n] = Body(f, n)
        BY <2>2, <4>1
      <4> HIDE DEF g, Next1
      <4> QED  BY <3>2, <4>2, <4>3 DEF Body
    <3>3. CASE n # m + 1 /\ n = 0
      <4>1. n \in 0 .. m
        BY <2>1, <3>3
      <4>2. f[n] = Index!Fresh(capacity)
        BY <2>2, <3>3, <4>1
      <4>3. g[n] = f[n]
        BY <3>3
      <4> HIDE DEF g, Next1
      <4> QED  BY <3>3, <4>2, <4>3 DEF Body
    <3> QED  BY <3>1, <3>2, <3>3
  <2>4. g = [n \in 0 .. m + 1 |-> g[n]]
    OBVIOUS
  <2> HIDE DEF g, Next1
  <2>5. g = [n \in 0 .. m + 1 |-> Body(g, n)]
    BY <2>3, <2>4
  <2>6. m + 1 \in Nat
    BY <2>1
  <2> QED  BY <2>5, <2>6
<1>3. S = Nat
  <2> HIDE DEF S
  <2> SUFFICES S \in SUBSET Nat
    BY <1>1, <1>2, Induct
  <2> QED  BY DEF S
<1>4. \E f : f = [n \in 0 .. L |-> Body(f, n)]
  <2>1. L \in S
    BY <1>3
  <2> QED  BY <2>1
<1> DEFINE moved == CHOOSE f : f = [n \in 0 .. L |-> Body(f, n)]
<1>5. moved = [n \in 0 .. L |-> Body(moved, n)]
  BY <1>4
<1>6. Index!Rehash(table, capacity) = moved[L]
  BY DEF Index!Rehash
<1> HIDE DEF moved
<1>7. Moved(table, capacity, moved)
  BY <1>5 DEF Moved
<1> QED  BY <1>6, <1>7

\* What rehash makes of a table: one with the same entries.
SameEntries(table, after) ==
  /\ Placed(after)
  /\ \A id \in Ids : \A position : Holds(after, id, position) <=> Holds(table, id, position)
  /\ Cardinality(InUse(after)) = Cardinality(InUse(table))

\* After n slots: their entries have been moved.
MovedTo(table, n, after) ==
  /\ Placed(after)
  /\ \A id \in Ids : \A position :
       Holds(after, id, position)
         <=> \E s \in 1 .. n : table[s].id = id /\ table[s].position = position
  /\ Cardinality(InUse(after)) = Cardinality({s \in 1 .. n : table[s].state = "Occupied"})

\* One step of it moves the entry of one slot.
LEMMA MovesOne ==
  ASSUME HashesOK, NEW table, Placed(table), NEW n \in 0 .. Len(table) - 1,
         NEW before, MovedTo(table, n, before), Cardinality(InUse(table)) < Len(before),
         NEW after,
         after = IF table[n + 1].state = "Occupied"
                 THEN Index!InsertRehashed(before, table[n + 1]) ELSE before
  PROVE  MovedTo(table, n + 1, after) /\ Len(after) = Len(before)
<1> DEFINE L == Len(table)
           entry == table[n + 1]
           some == {s \in 1 .. n : table[s].state = "Occupied"}
           more == {s \in 1 .. n + 1 : table[s].state = "Occupied"}
<1>1. /\ L \in Nat /\ n \in Nat /\ n + 1 \in 1 .. L /\ 1 .. n \subseteq 1 .. L
      /\ 1 .. n + 1 \subseteq 1 .. L
      /\ \A s \in 1 .. n + 1 : s \in 1 .. n \/ s = n + 1
      /\ n + 1 \notin 1 .. n /\ 1 .. n \subseteq 1 .. n + 1
  BY DEF Placed
<1>2. /\ table \in Seq(Slots)
      /\ \A s \in 1 .. L : table[s].id \in Ids <=> table[s].state = "Occupied"
      /\ \A s, other \in 1 .. L :
           table[s].id \in Ids /\ table[s].id = table[other].id => s = other
  BY DEF Placed
<1>3. entry \in Slots
  BY <1>1, <1>2
<1>4. /\ Placed(before)
      /\ \A id \in Ids : \A position :
           Holds(before, id, position)
             <=> \E s \in 1 .. n : table[s].id = id /\ table[s].position = position
      /\ Cardinality(InUse(before)) = Cardinality(some)
  BY DEF MovedTo
<1>5. /\ IsFiniteSet(some) /\ some \subseteq InUse(table)
      /\ Cardinality(some) <= Cardinality(InUse(table)) /\ Cardinality(some) \in Nat
  <2>1. some \subseteq InUse(table)
    BY <1>1 DEF InUse
  <2> HIDE DEF some
  <2> QED  BY <1>1, <2>1, InUseFinite, FS_Subset, FS_CardinalityType DEF L
<1>6. CASE entry.state # "Occupied"
  <2>1. after = before
    BY <1>6
  <2>2. more = some
    BY <1>1, <1>6
  <2>3. entry.id \notin Ids
    BY <1>1, <1>2, <1>6
  <2>4. ASSUME NEW id \in Ids, NEW position
        PROVE  Holds(after, id, position)
                 <=> \E s \in 1 .. n + 1 : table[s].id = id /\ table[s].position = position
    BY <1>1, <1>4, <2>1, <2>3
  <2> QED  BY <1>4, <2>1, <2>2, <2>4 DEF MovedTo
<1>7. CASE entry.state = "Occupied"
  <2>1. after = Index!InsertRehashed(before, entry) /\ entry.id \in Ids
    BY <1>1, <1>2, <1>7
  <2>2. \A s \in 1 .. Len(before) : before[s].id # entry.id
    <3>1. ASSUME NEW s \in 1 .. Len(before), before[s].id = entry.id PROVE FALSE
      <4>1. Holds(before, entry.id, before[s].position)
        BY <3>1 DEF Holds
      <4>2. PICK t \in 1 .. n : table[t].id = entry.id
        BY <1>4, <2>1, <4>1
      <4>3. t \in 1 .. L /\ t # n + 1
        BY <1>1
      <4> QED  BY <1>1, <1>2, <2>1, <4>2, <4>3
    <3> QED  BY <3>1
  <2>3. Cardinality(InUse(before)) < Len(before)
    <3>1. Len(before) \in Nat /\ Cardinality(InUse(table)) \in Nat
      BY <1>1, <1>4, InUseFinite DEF Placed
    <3> QED  BY <1>4, <1>5, <3>1
  <2>4. PutsIn(before, after, entry)
    <3> HIDE DEF entry
    <3> QED  BY <1>3, <1>4, <1>7, <2>1, <2>2, <2>3, InsertRehashedPuts
  <2>5. /\ Placed(after) /\ Len(after) = Len(before)
        /\ \A id \in Ids : \A position :
             Holds(after, id, position)
               <=> Holds(before, id, position) \/ (id = entry.id /\ position = entry.position)
        /\ Cardinality(InUse(after)) = Cardinality(some) + 1
    BY <1>4, <2>4 DEF PutsIn
  <2>6. ASSUME NEW id \in Ids, NEW position
        PROVE  Holds(after, id, position)
                 <=> \E s \in 1 .. n + 1 : table[s].id = id /\ table[s].position = position
    BY <1>1, <1>4, <2>5
  <2>7. Cardinality(more) = Cardinality(some) + 1
    <3>1. more = some \cup {n + 1} /\ n + 1 \notin some
      BY <1>1, <1>7
    <3> HIDE DEF some, more
    <3> QED  BY <1>5, <3>1, FS_AddElement
  <2> QED  BY <2>5, <2>6, <2>7 DEF MovedTo
<1> QED  BY <1>6, <1>7

\* rehash keeps the entries, if there is room for them.
LEMMA RehashKeeps ==
  ASSUME HashesOK, NEW table, Placed(table), NEW capacity \in Nat,
         Cardinality(InUse(table)) < capacity
  PROVE  /\ SameEntries(table, Index!Rehash(table, capacity))
         /\ Len(Index!Rehash(table, capacity)) = capacity
<1> DEFINE L == Len(table)
<1>1. L \in Nat
  BY DEF Placed
<1>2. PICK moved : Moved(table, capacity, moved) /\ Index!Rehash(table, capacity) = moved[L]
  BY <1>1, RehashMoves
<1>3. /\ moved[0] = Index!Fresh(capacity)
      /\ \A n \in 0 .. L - 1 :
           moved[n + 1] = IF table[n + 1].state = "Occupied"
                          THEN Index!InsertRehashed(moved[n], table[n + 1]) ELSE moved[n]
  <2>1. moved[0] = Index!Fresh(capacity)
    BY <1>1, <1>2 DEF Moved
  <2>2. ASSUME NEW n \in 0 .. L - 1
        PROVE  moved[n + 1] = IF table[n + 1].state = "Occupied"
                              THEN Index!InsertRehashed(moved[n], table[n + 1]) ELSE moved[n]
    <3>1. n + 1 \in 0 .. L /\ n + 1 # 0 /\ (n + 1) - 1 = n
      BY <1>1
    <3> QED  BY <1>2, <3>1 DEF Moved
  <2> QED  BY <2>1, <2>2
<1> DEFINE S == {n \in Nat : n <= L => MovedTo(table, n, moved[n]) /\ Len(moved[n]) = capacity}
<1>4. 0 \in S
  <2>1. /\ Placed(moved[0]) /\ Len(moved[0]) = capacity
        /\ \A id \in Ids : \A position : ~ Holds(moved[0], id, position)
        /\ Cardinality(InUse(moved[0])) = 0
    BY <1>3, FreshHoldsNothing DEF Unused
  <2>2. 1 .. 0 = {} /\ {s \in {} : table[s].state = "Occupied"} = {}
    OBVIOUS
  <2>3. Cardinality({s \in 1 .. 0 : table[s].state = "Occupied"}) = 0
    BY <2>2, FS_EmptySet
  <2>4. MovedTo(table, 0, moved[0])
    BY <2>1, <2>2, <2>3 DEF MovedTo
  <2> QED  BY <2>1, <2>4
<1>5. ASSUME NEW n \in S PROVE n + 1 \in S
  <2>1. n \in Nat
    OBVIOUS
  <2>2. CASE n + 1 <= L
    <3>1. n \in 0 .. L - 1 /\ n <= L
      BY <1>1, <2>1, <2>2
    <3>2. MovedTo(table, n, moved[n]) /\ Len(moved[n]) = capacity
      BY <3>1
    <3>3. MovedTo(table, n + 1, moved[n + 1]) /\ Len(moved[n + 1]) = Len(moved[n])
      <4> DEFINE before == moved[n]
                 after == moved[n + 1]
      <4>1. after = IF table[n + 1].state = "Occupied"
                    THEN Index!InsertRehashed(before, table[n + 1]) ELSE before
        BY <1>3, <3>1
      <4>2. MovedTo(table, n, before) /\ Cardinality(InUse(table)) < Len(before)
        BY <3>2
      <4> HIDE DEF before, after
      <4>3. MovedTo(table, n + 1, after) /\ Len(after) = Len(before)
        BY <3>1, <4>1, <4>2, MovesOne
      <4> QED  BY <4>3 DEF before, after
    <3> QED  BY <2>1, <3>2, <3>3
  <2>3. CASE ~ n + 1 <= L
    BY <2>1, <2>3
  <2> QED  BY <2>2, <2>3
<1>6. L \in S
  <2>1. S \in SUBSET Nat
    OBVIOUS
  <2> HIDE DEF S
  <2> QED  BY <1>1, <1>4, <1>5, <2>1, Induct
<1>7. MovedTo(table, L, moved[L]) /\ Len(moved[L]) = capacity
  BY <1>1, <1>6
<1>8. SameEntries(table, moved[L])
  BY <1>7 DEF MovedTo, SameEntries, Holds, InUse
<1> QED  BY <1>2, <1>7, <1>8

\* next_capacity: enough slots for four times the expected size.
LEMMA CapacityIsEnough ==
  ASSUME NEW expected \in Nat
  PROVE  Index!NextCapacity(expected) \in Nat /\ Index!NextCapacity(expected) >= 4 * expected
<1> DEFINE N == 4 * expected
           Body(f, k) == IF k = 0 THEN MinCapacity ELSE 2 * f[k - 1]
           S == {m \in Nat : \E f : f = [k \in 0 .. m |-> Body(f, k)]}
<1>0. N \in Nat /\ MinCapacity \in Nat /\ MinCapacity > 0
  BY IndexAssumption
<1>1. 0 \in S
  <2> DEFINE f == [k \in 0 .. 0 |-> MinCapacity]
  <2>1. f = [k \in 0 .. 0 |-> Body(f, k)]
    OBVIOUS
  <2> QED  BY <2>1
<1>2. ASSUME NEW m \in S PROVE m + 1 \in S
  <2>1. m \in Nat
    OBVIOUS
  <2>2. PICK f : f = [k \in 0 .. m |-> Body(f, k)]
    OBVIOUS
  <2> DEFINE g == [k \in 0 .. m + 1 |-> IF k = m + 1 THEN 2 * f[m] ELSE f[k]]
  <2>3. ASSUME NEW k \in 0 .. m + 1 PROVE g[k] = Body(g, k)
    <3>1. CASE k = m + 1
      <4>1. g[k] = 2 * f[m] /\ k # 0 /\ k - 1 = m /\ g[m] = f[m]
        BY <2>1, <3>1
      <4> HIDE DEF g
      <4> QED  BY <4>1
    <3>2. CASE k # m + 1 /\ k # 0
      <4>1. k \in 0 .. m /\ k - 1 \in 0 .. m /\ k - 1 # m + 1 /\ k - 1 \in 0 .. m + 1
        BY <2>1, <3>2
      <4>2. g[k] = f[k] /\ g[k - 1] = f[k - 1]
        BY <3>2, <4>1
      <4>3. f[k] = 2 * f[k - 1]
        BY <2>2, <3>2, <4>1
      <4> HIDE DEF g
      <4> QED  BY <3>2, <4>2, <4>3
    <3>3. CASE k # m + 1 /\ k = 0
      <4>1. k \in 0 .. m
        BY <2>1, <3>3
      <4>2. f[k] = MinCapacity
        BY <2>2, <3>3, <4>1
      <4>3. g[k] = f[k]
        BY <3>3
      <4> HIDE DEF g
      <4> QED  BY <3>3, <4>2, <4>3
    <3> QED  BY <3>1, <3>2, <3>3
  <2>4. g = [k \in 0 .. m + 1 |-> g[k]]
    OBVIOUS
  <2> HIDE DEF g
  <2>5. g = [k \in 0 .. m + 1 |-> Body(g, k)]
    BY <2>3, <2>4
  <2>6. m + 1 \in Nat
    BY <2>1
  <2> QED  BY <2>5, <2>6
<1>3. N \in S
  <2>1. S \in SUBSET Nat
    OBVIOUS
  <2> HIDE DEF S
  <2> QED  BY <1>0, <1>1, <1>2, <2>1, Induct
<1> DEFINE doubled == CHOOSE f : f = [k \in 0 .. N |-> Body(f, k)]
           enough == {k \in 0 .. N : doubled[k] >= N}
<1>4. doubled = [k \in 0 .. N |-> Body(doubled, k)]
  <2>1. \E f : f = [k \in 0 .. N |-> Body(f, k)]
    BY <1>3
  <2> QED  BY <2>1
<1>5. Index!NextCapacity(expected) = doubled[Index!Min(enough)]
  BY DEF Index!NextCapacity
<1> HIDE DEF doubled, N
<1>6. ASSUME NEW k \in Nat, k <= N PROVE doubled[k] \in Nat /\ doubled[k] > k
  <2> DEFINE T == {m \in Nat : m <= N => doubled[m] \in Nat /\ doubled[m] > m}
  <2>1. 0 \in T
    <3>1. 0 \in 0 .. N
      BY <1>0
    <3>2. doubled[0] = MinCapacity
      BY <1>4, <3>1
    <3> QED  BY <1>0, <3>2
  <2>2. ASSUME NEW m \in T PROVE m + 1 \in T
    <3>1. m \in Nat
      OBVIOUS
    <3>2. CASE m + 1 <= N
      <4>1. m + 1 \in 0 .. N /\ m + 1 # 0 /\ (m + 1) - 1 = m /\ m <= N
        BY <1>0, <3>1, <3>2
      <4>2. doubled[m + 1] = 2 * doubled[m]
        BY <1>4, <4>1
      <4>3. doubled[m] \in Nat /\ doubled[m] > m
        BY <4>1
      <4>4. 2 * doubled[m] \in Nat /\ 2 * doubled[m] > m + 1
        BY <3>1, <4>3
      <4> QED  BY <3>1, <4>2, <4>4
    <3>3. CASE ~ m + 1 <= N
      BY <3>1, <3>3
    <3> QED  BY <3>2, <3>3
  <2>3. T \in SUBSET Nat
    OBVIOUS
  <2> HIDE DEF T
  <2>4. k \in T
    BY <2>1, <2>2, <2>3, Induct
  <2> QED  BY <1>6, <2>4 DEF T
<1>7. N \in enough /\ enough \in SUBSET Nat
  BY <1>0, <1>6
<1> DEFINE k0 == Index!Min(enough)
<1>8. k0 \in enough
  <2> HIDE DEF enough
  <2> QED  BY <1>7, SmallestProbe
<1> HIDE DEF k0
<1>9. k0 \in Nat /\ k0 <= N /\ doubled[k0] >= N
  BY <1>0, <1>8
<1>10. doubled[k0] \in Nat
  BY <1>6, <1>9
<1> QED  BY <1>5, <1>9, <1>10 DEF k0, N

-------------------------------------------------------------------------------
(* The index.                                                              *)

\* The table holds what is stored, and at least half of it is free.
HoldsStored(table, map) ==
  /\ Placed(table)
  /\ \A id \in Ids : \A position :
       Holds(table, id, position) <=> id \in DOMAIN map /\ position = map[id]
  /\ DOMAIN map \subseteq Ids /\ IsFiniteSet(DOMAIN map)
  /\ Cardinality(InUse(table)) = Cardinality(DOMAIN map)
  /\ 2 * Cardinality(DOMAIN map) <= Len(table)

IndexInv ==
  /\ HashesOK
  /\ HoldsStored(entries, stored)
  /\ size = Cardinality(DOMAIN stored)

\* The empty table holds what is stored at first, nothing.
LEMMA IndexStarts == Index!Init => IndexInv
<1> SUFFICES ASSUME Index!Init PROVE IndexInv
  OBVIOUS
<1>1. HashesOK /\ entries = <<>> /\ stored = <<>> /\ size = 0
  BY IndexAssumption DEF Index!Init, HashesOK
<1>2. DOMAIN stored = {} /\ Len(entries) = 0 /\ entries \in Seq(Slots)
      /\ 1 .. Len(entries) = {} /\ 0 .. Len(entries) - 1 = {}
  BY <1>1
<1>3. InUse(entries) = {} /\ \A id, position : ~ Holds(entries, id, position)
  BY <1>2 DEF InUse, Holds
<1>4. Placed(entries)
  BY <1>2 DEF Placed
<1>5. IsFiniteSet({}) /\ Cardinality({}) = 0
  BY FS_EmptySet
<1>6. HoldsStored(entries, stored)
  BY <1>2, <1>3, <1>4, <1>5 DEF HoldsStored
<1> QED  BY <1>1, <1>2, <1>5, <1>6 DEF IndexInv

\* Moving the entries to a table that is larger than half changes nothing else.
LEMMA GrowsAs ==
  ASSUME HashesOK, NEW table, NEW map, HoldsStored(table, map),
         NEW capacity \in Nat, 2 * Cardinality(DOMAIN map) <= capacity, capacity > 0
  PROVE  HoldsStored(Index!Rehash(table, capacity), map)
         /\ Len(Index!Rehash(table, capacity)) = capacity
<1> DEFINE after == Index!Rehash(table, capacity)
<1>1. Cardinality(DOMAIN map) \in Nat /\ Cardinality(InUse(table)) = Cardinality(DOMAIN map)
      /\ Placed(table)
  BY FS_CardinalityType DEF HoldsStored
<1>2. Cardinality(InUse(table)) < capacity
  BY <1>1
<1>3. SameEntries(table, after) /\ Len(after) = capacity
  BY <1>1, <1>2, RehashKeeps
<1> HIDE DEF after
<1>4. HoldsStored(after, map)
  BY <1>3 DEF SameEntries, HoldsStored
<1> QED  BY <1>3, <1>4 DEF after

\* The table that insert works on.
LEMMA RoomyHolds ==
  ASSUME IndexInv
  PROVE  HoldsStored(Index!Roomy(entries), stored)
         /\ 2 * (size + 1) <= Len(Index!Roomy(entries))
<1> DEFINE capacity == Index!NextCapacity(size + 1)
<1>1. HashesOK /\ HoldsStored(entries, stored) /\ size \in Nat /\ size = Cardinality(DOMAIN stored)
      /\ Len(entries) \in Nat
  BY FS_CardinalityType DEF IndexInv, HoldsStored, Placed
<1>2. capacity \in Nat /\ capacity >= 4 * (size + 1)
  <2>1. size + 1 \in Nat
    BY <1>1
  <2> QED  BY <2>1, CapacityIsEnough
<1> HIDE DEF capacity
<1>3. CASE entries = <<>> \/ (size + 1) * 2 > Len(entries)
  <2>1. Index!Roomy(entries) = Index!Rehash(entries, capacity)
    BY <1>3 DEF Index!Roomy, capacity
  <2>2. 2 * Cardinality(DOMAIN stored) <= capacity /\ capacity > 0 /\ 2 * (size + 1) <= capacity
    BY <1>1, <1>2
  <2> QED  BY <1>1, <1>2, <2>1, <2>2, GrowsAs
<1>4. CASE ~ (entries = <<>> \/ (size + 1) * 2 > Len(entries))
  <2>1. Index!Roomy(entries) = entries
    BY <1>4 DEF Index!Roomy
  <2> QED  BY <1>1, <1>4, <2>1
<1> QED  BY <1>3, <1>4

\* Where insert puts an id that is not there: a free slot that a search for it
\* comes to.  The table is never full, so that there always is one.
LEMMA TargetFits ==
  ASSUME HashesOK, NEW table, Placed(table), NEW id \in Ids,
         \A s \in 1 .. Len(table) : table[s].id # id,
         Cardinality(InUse(table)) < Len(table)
  PROVE  \E k \in 0 .. Len(table) - 1 :
            /\ Index!Target(table, id) = Index!Probe(table, id, k)
            /\ table[Index!Probe(table, id, k)].state # "Occupied"
            /\ \A j \in 0 .. k - 1 : table[Index!Probe(table, id, j)].state # "Empty"
<1> DEFINE L == Len(table)
           P(k) == Index!Probe(table, id, k)
           stops == Index!Stops(table, id)
           first == Index!Min(stops)
           stop == IF stops = {} THEN L ELSE first
           deleted == {k \in 0 .. stop - 1 : table[P(k)].state = "Deleted"}
           reused == Index!Min(deleted)
<1>1. /\ L \in Nat /\ table \in Seq(Slots)
      /\ \A k \in 0 .. L - 1 : P(k) \in 1 .. L
      /\ \A s \in 1 .. L : \E k \in 0 .. L - 1 : P(k) = s
  <2>1. L \in Nat /\ table \in Seq(Slots) /\ Probing(table)
    BY ProbesCome DEF Placed
  <2> QED  BY <2>1 DEF Probing
<1>2. \A k \in 0 .. L - 1 : table[P(k)].state \in {"Empty", "Deleted", "Occupied"}
  <2>1. \A s \in 1 .. L : table[s] \in Slots
    BY <1>1
  <2> QED  BY <1>1, <2>1 DEF Slots
<1>3. stops = {k \in 0 .. L - 1 : table[P(k)].state = "Empty"}
  <2>1. stops = {k \in 0 .. L - 1 : table[P(k)].state = "Empty" \/ table[P(k)].id = id}
    BY DEF Index!Stops, Index!Probes
  <2>2. \A k \in 0 .. L - 1 : table[P(k)].id # id
    BY <1>1
  <2> HIDE DEF stops, P
  <2> QED  BY <2>1, <2>2
<1>4. Index!Target(table, id) = P(IF deleted = {} THEN stop ELSE reused)
  BY DEF Index!Target
<1>5. \E k \in 0 .. L - 1 : table[P(k)].state # "Occupied"
  <2>1. PICK s \in 1 .. L : table[s].state # "Occupied"
    BY <1>1, InUseFinite
  <2> QED  BY <1>1, <2>1
<1> HIDE DEF stops, P, L
<1>6. stops # {} => first \in stops /\ \A k \in stops : first <= k
  <2>1. stops \in SUBSET Nat
    BY <1>1, <1>3
  <2> QED  BY <2>1, SmallestProbe
<1> HIDE DEF first
<1>7. /\ stop \in 0 .. L
      /\ \A j \in 0 .. stop - 1 : j \in 0 .. L - 1 /\ table[P(j)].state # "Empty"
      /\ stop < L => table[P(stop)].state = "Empty"
  <2>1. CASE stops = {}
    <3>1. stop = L
      BY <2>1
    <3>2. \A j \in 0 .. L - 1 : table[P(j)].state # "Empty"
      BY <1>3, <2>1
    <3> HIDE DEF stop
    <3> QED  BY <1>1, <3>1, <3>2
  <2>2. CASE stops # {}
    <3>1. stop = first /\ first \in 0 .. L - 1 /\ table[P(first)].state = "Empty"
      BY <1>3, <1>6, <2>2
    <3>2. ASSUME NEW j \in 0 .. first - 1 PROVE j \in 0 .. L - 1 /\ table[P(j)].state # "Empty"
      <4>1. j \in 0 .. L - 1 /\ ~ first <= j
        BY <1>1, <3>1
      <4>2. j \notin stops
        BY <1>6, <4>1
      <4> QED  BY <1>3, <4>1, <4>2
    <3> HIDE DEF stop
    <3> QED  BY <1>1, <3>1, <3>2
  <2> QED  BY <2>1, <2>2
<1> HIDE DEF stop
<1>8. CASE deleted = {}
  <2>1. \A j \in 0 .. stop - 1 : table[P(j)].state = "Occupied"
    BY <1>2, <1>7, <1>8
  <2>2. stop < L
    <3>1. ASSUME stop = L PROVE FALSE
      BY <1>5, <2>1, <3>1
    <3> QED  BY <1>1, <1>7, <3>1
  <2>3. stop \in 0 .. L - 1
    BY <1>1, <1>7, <2>2
  <2> QED  BY <1>4, <1>7, <1>8, <2>2, <2>3 DEF P, L
<1>9. CASE deleted # {}
  <2>1. deleted \in SUBSET Nat
    BY <1>7
  <2>2. reused \in deleted
    <3> HIDE DEF deleted
    <3> QED  BY <1>9, <2>1, SmallestProbe
  <2> HIDE DEF reused
  <2>3. reused \in 0 .. stop - 1 /\ table[P(reused)].state = "Deleted"
    BY <2>2
  <2>4. reused \in 0 .. L - 1 /\ \A j \in 0 .. reused - 1 : j \in 0 .. stop - 1
    BY <1>1, <1>7, <2>3
  <2>5. Index!Target(table, id) = P(reused)
    BY <1>4, <1>9
  <2>6. \A j \in 0 .. reused - 1 : table[P(j)].state # "Empty"
    BY <1>7, <2>4
  <2> QED  BY <2>3, <2>4, <2>5, <2>6 DEF P, L
<1> QED  BY <1>8, <1>9

\* erase leaves a mark, which does not end a search.
TakesOut(table, after, id) ==
  /\ Placed(after) /\ Len(after) = Len(table)
  /\ \A other \in Ids : \A position :
       Holds(after, other, position) <=> Holds(table, other, position) /\ other # id
  /\ Cardinality(InUse(after)) = Cardinality(InUse(table)) - 1

\* An erased slot is not empty, so the entries probed past it are still found.
LEMMA EraseTakesOut ==
  ASSUME HashesOK, NEW table, Placed(table), NEW target \in 1 .. Len(table),
         table[target].id \in Ids,
         NEW after, after = [table EXCEPT ![target] = Index!DeletedEntry]
  PROVE  TakesOut(table, after, table[target].id)
<1> DEFINE L == Len(table)
<1>1. table \in Seq(Slots) /\ L \in Nat /\ Probing(table) /\ DOMAIN table = 1 .. L
  BY ProbesCome DEF Placed
<1>2. /\ Index!DeletedEntry \in Slots /\ Index!DeletedEntry.id \notin Ids
      /\ Index!DeletedEntry.state = "Deleted"
  BY IndexAssumption DEF Index!DeletedEntry, Slots
<1>3. /\ after \in Seq(Slots) /\ Len(after) = L
      /\ after[target] = Index!DeletedEntry
      /\ \A s \in 1 .. L : s # target => after[s] = table[s]
  BY <1>1, <1>2
<1>4. \A id, j : Index!Probe(after, id, j) = Index!Probe(table, id, j)
  BY <1>3 DEF Index!Probe
<1>5. /\ \A s \in 1 .. L : table[s].id \in Ids <=> table[s].state = "Occupied"
      /\ \A s, other \in 1 .. L :
           table[s].id \in Ids /\ table[s].id = table[other].id => s = other
      /\ \A id \in Ids, n \in 0 .. L - 1 :
           table[Index!Probe(table, id, n)].id = id =>
             \A j \in 0 .. n - 1 : table[Index!Probe(table, id, j)].state # "Empty"
  BY DEF Placed
<1>6. target \in 1 .. L /\ table[target].state = "Occupied"
  BY <1>5
<1> HIDE DEF L
<1>7. \A s \in 1 .. L : after[s].id \in Ids <=> after[s].state = "Occupied"
  BY <1>2, <1>3, <1>5
<1>8. ASSUME NEW s \in 1 .. L, NEW other \in 1 .. L, after[s].id \in Ids,
             after[s].id = after[other].id
      PROVE  s = other
  BY <1>2, <1>3, <1>5, <1>8
<1>9. ASSUME NEW id \in Ids, NEW n \in 0 .. L - 1, after[Index!Probe(after, id, n)].id = id,
             NEW j \in 0 .. n - 1
      PROVE  after[Index!Probe(after, id, j)].state # "Empty"
  <2>1. /\ Index!Probe(table, id, j) \in 1 .. L /\ Index!Probe(table, id, n) \in 1 .. L
    <3>1. j \in 0 .. L - 1
      BY <1>1
    <3> QED  BY <1>1, <3>1 DEF Probing, L
  <2>2. Index!Probe(after, id, n) = Index!Probe(table, id, n)
        /\ Index!Probe(after, id, j) = Index!Probe(table, id, j)
    BY <1>4
  <2>3. Index!Probe(table, id, n) # target
    BY <1>2, <1>3, <1>9, <2>2
  <2>4. table[Index!Probe(table, id, n)].id = id
    BY <1>3, <1>9, <2>1, <2>2, <2>3
  <2>5. table[Index!Probe(table, id, j)].state # "Empty"
    BY <1>5, <2>4
  <2>6. CASE Index!Probe(table, id, j) = target
    BY <1>2, <1>3, <2>2, <2>6
  <2>7. CASE Index!Probe(table, id, j) # target
    BY <1>3, <2>1, <2>2, <2>5, <2>7
  <2> QED  BY <2>6, <2>7
<1>10. Placed(after)
  BY <1>3, <1>7, <1>8, <1>9 DEF Placed
<1>11. ASSUME NEW other \in Ids, NEW position
       PROVE  Holds(after, other, position)
                <=> Holds(table, other, position) /\ other # table[target].id
  <2>1. Holds(after, other, position)
          <=> \E s \in 1 .. L : after[s].id = other /\ after[s].position = position
    BY <1>3 DEF Holds
  <2>2. Holds(table, other, position)
          <=> \E s \in 1 .. L : table[s].id = other /\ table[s].position = position
    BY DEF Holds, L
  <2> QED  BY <1>2, <1>3, <1>5, <1>6, <2>1, <2>2
<1>12. InUse(after) = InUse(table) \ {target} /\ target \in InUse(table)
  <2>1. InUse(after) = {s \in 1 .. L : after[s].state = "Occupied"}
        /\ InUse(table) = {s \in 1 .. L : table[s].state = "Occupied"}
    BY <1>3 DEF InUse, L
  <2>2. \A s \in 1 .. L : after[s].state = "Occupied" <=> s # target /\ table[s].state = "Occupied"
    BY <1>2, <1>3
  <2> QED  BY <1>6, <2>1, <2>2
<1>13. Cardinality(InUse(after)) = Cardinality(InUse(table)) - 1
  <2>1. IsFiniteSet(InUse(table))
    BY <1>1, InUseFinite DEF L
  <2> QED  BY <1>12, <2>1, FS_RemoveElement
<1> QED  BY <1>3, <1>10, <1>11, <1>13 DEF TakesOut, L

\* What is stored is what the table holds, with or without an id.
LEMMA InsertKeepsIndex ==
  ASSUME IndexInv, NEW id \in Ids, NEW position \in Positions, Index!InsertAbsent(id, position)
  PROVE  IndexInv'
<1> DEFINE table == Index!Roomy(entries)
           entry == Index!Occupied(id, position)
           map == [other \in DOMAIN stored \cup {id} |->
                     IF other = id THEN position ELSE stored[other]]
<1>1. /\ HashesOK /\ size = Cardinality(DOMAIN stored) /\ HoldsStored(table, stored)
      /\ 2 * (size + 1) <= Len(table)
  BY RoomyHolds DEF IndexInv
<1>2. /\ ~ Index!Found(table, id)
      /\ entries' = [table EXCEPT ![Index!Target(table, id)] = entry]
      /\ size' = size + 1 /\ stored' = map /\ hash' = hash
  BY DEF Index!InsertAbsent
<1>3. entry \in Slots /\ entry.id = id /\ entry.state = "Occupied" /\ entry.position = position
  BY DEF Index!Occupied, Slots
<1> HIDE DEF table, entry
<1>4. /\ Placed(table) /\ Len(table) \in Nat
      /\ \A other \in Ids : \A place :
           Holds(table, other, place) <=> other \in DOMAIN stored /\ place = stored[other]
      /\ DOMAIN stored \subseteq Ids /\ IsFiniteSet(DOMAIN stored)
      /\ Cardinality(InUse(table)) = Cardinality(DOMAIN stored)
      /\ Cardinality(DOMAIN stored) \in Nat
  <2>1. /\ Placed(table)
        /\ \A other \in Ids : \A place :
             Holds(table, other, place) <=> other \in DOMAIN stored /\ place = stored[other]
        /\ DOMAIN stored \subseteq Ids /\ IsFiniteSet(DOMAIN stored)
        /\ Cardinality(InUse(table)) = Cardinality(DOMAIN stored)
    BY <1>1 DEF HoldsStored
  <2>2. Len(table) \in Nat
    BY <2>1 DEF Placed
  <2>3. Cardinality(DOMAIN stored) \in Nat
    BY <2>1, FS_CardinalityType
  <2> QED  BY <2>1, <2>2, <2>3
<1>5. \A s \in 1 .. Len(table) : table[s].id # id
  BY <1>1, <1>2, <1>4, SearchFinds DEF Finds
<1>6. id \notin DOMAIN stored
  <2>1. ASSUME id \in DOMAIN stored PROVE FALSE
    <3>1. Holds(table, id, stored[id])
      BY <1>4, <2>1
    <3> QED  BY <1>5, <3>1 DEF Holds
  <2> QED  BY <2>1
<1>7. Cardinality(InUse(table)) < Len(table)
  BY <1>1, <1>4
<1>8. PICK k \in 0 .. Len(table) - 1 :
         /\ Index!Target(table, id) = Index!Probe(table, id, k)
         /\ table[Index!Probe(table, id, k)].state # "Occupied"
         /\ \A j \in 0 .. k - 1 : table[Index!Probe(table, id, j)].state # "Empty"
  BY <1>1, <1>4, <1>5, <1>7, TargetFits
<1>9. PutsIn(table, entries', entry)
  <2> DEFINE after == entries'
  <2>1. after = [table EXCEPT ![Index!Probe(table, entry.id, k)] = entry]
    BY <1>2, <1>3, <1>8
  <2> HIDE DEF after
  <2>2. /\ entry.id \in Ids
        /\ \A s \in 1 .. Len(table) : table[s].id # entry.id
        /\ table[Index!Probe(table, entry.id, k)].state # "Occupied"
        /\ \A j \in 0 .. k - 1 : table[Index!Probe(table, entry.id, j)].state # "Empty"
    BY <1>3, <1>5, <1>8
  <2>3. PutsIn(table, after, entry)
    BY <1>1, <1>3, <1>4, <2>1, <2>2, PutsWhereProbed
  <2> QED  BY <2>3 DEF after
<1>10. /\ DOMAIN map = DOMAIN stored \cup {id} /\ map[id] = position
       /\ \A other \in DOMAIN stored : map[other] = stored[other]
  BY <1>6
<1> HIDE DEF map
<1>11. /\ IsFiniteSet(DOMAIN map) /\ DOMAIN map \subseteq Ids
       /\ Cardinality(DOMAIN map) = Cardinality(DOMAIN stored) + 1
  BY <1>4, <1>6, <1>10, FS_AddElement
<1>12. HoldsStored(entries', map)
  <2>1. /\ Placed(entries') /\ Len(entries') = Len(table)
        /\ \A other \in Ids : \A place :
             Holds(entries', other, place)
               <=> Holds(table, other, place) \/ (other = id /\ place = position)
        /\ Cardinality(InUse(entries')) = Cardinality(InUse(table)) + 1
    BY <1>3, <1>9 DEF PutsIn
  <2>2. ASSUME NEW other \in Ids, NEW place
        PROVE  Holds(entries', other, place) <=> other \in DOMAIN map /\ place = map[other]
    BY <1>4, <1>6, <1>10, <2>1
  <2>3. 2 * Cardinality(DOMAIN map) <= Len(entries')
    BY <1>1, <1>11, <2>1
  <2> QED  BY <1>4, <1>11, <2>1, <2>2, <2>3 DEF HoldsStored
<1>13. HoldsStored(entries, stored)' /\ HashesOK'
  BY <1>1, <1>2, <1>12 DEF HoldsStored, Placed, HashesOK, Holds, InUse, Index!Probe
<1>14. (size = Cardinality(DOMAIN stored))'
  BY <1>1, <1>2, <1>11
<1> QED  BY <1>13, <1>14 DEF IndexInv

LEMMA EraseKeepsIndex ==
  ASSUME IndexInv, NEW id \in Ids, Index!Erase(id)
  PROVE  IndexInv'
<1> DEFINE target == Index!SlotOf(entries, id)
           map == [other \in DOMAIN stored \ {id} |-> stored[other]]
<1>1. /\ HashesOK /\ size = Cardinality(DOMAIN stored) /\ HoldsStored(entries, stored)
  BY DEF IndexInv
<1>2. /\ Index!Found(entries, id)
      /\ entries' = [entries EXCEPT ![target] = Index!DeletedEntry]
      /\ size' = size - 1 /\ stored' = map /\ hash' = hash
  BY DEF Index!Erase, Index!Restrict
<1> HIDE DEF target
<1>3. /\ Placed(entries) /\ Len(entries) \in Nat
      /\ \A other \in Ids : \A place :
           Holds(entries, other, place) <=> other \in DOMAIN stored /\ place = stored[other]
      /\ DOMAIN stored \subseteq Ids /\ IsFiniteSet(DOMAIN stored)
      /\ Cardinality(InUse(entries)) = Cardinality(DOMAIN stored)
      /\ Cardinality(DOMAIN stored) \in Nat /\ 2 * Cardinality(DOMAIN stored) <= Len(entries)
  BY <1>1, FS_CardinalityType DEF HoldsStored, Placed
<1>4. target \in 1 .. Len(entries) /\ entries[target].id = id
  <2>1. Finds(entries, id)
    BY <1>1, <1>3, SearchFinds
  <2>2. PICK s \in 1 .. Len(entries) : entries[s].id = id
    BY <1>2, <2>1 DEF Finds
  <2>3. target = s
    BY <2>1, <2>2 DEF Finds, target
  <2> QED  BY <2>2, <2>3
<1>5. id \in DOMAIN stored
  <2>1. Holds(entries, id, entries[target].position)
    BY <1>4 DEF Holds
  <2> QED  BY <1>3, <2>1
<1>6. TakesOut(entries, entries', id)
  <2> DEFINE after == entries'
  <2>1. after = [entries EXCEPT ![target] = Index!DeletedEntry]
    BY <1>2
  <2> HIDE DEF after
  <2>2. entries[target].id \in Ids
    BY <1>4
  <2>3. TakesOut(entries, after, entries[target].id)
    BY <1>1, <1>3, <1>4, <2>1, <2>2, EraseTakesOut
  <2> QED  BY <1>4, <2>3 DEF after
<1>7. DOMAIN map = DOMAIN stored \ {id} /\ \A other \in DOMAIN map : map[other] = stored[other]
  OBVIOUS
<1> HIDE DEF map
<1>8. /\ IsFiniteSet(DOMAIN map) /\ DOMAIN map \subseteq Ids
      /\ Cardinality(DOMAIN map) = Cardinality(DOMAIN stored) - 1
  BY <1>3, <1>5, <1>7, FS_RemoveElement
<1>9. HoldsStored(entries', map)
  <2>1. /\ Placed(entries') /\ Len(entries') = Len(entries)
        /\ \A other \in Ids : \A place :
             Holds(entries', other, place) <=> Holds(entries, other, place) /\ other # id
        /\ Cardinality(InUse(entries')) = Cardinality(InUse(entries)) - 1
    BY <1>6 DEF TakesOut
  <2>2. ASSUME NEW other \in Ids, NEW place
        PROVE  Holds(entries', other, place) <=> other \in DOMAIN map /\ place = map[other]
    BY <1>3, <1>7, <2>1
  <2>3. 2 * Cardinality(DOMAIN map) <= Len(entries')
    BY <1>3, <1>8, <2>1
  <2> QED  BY <1>3, <1>8, <2>1, <2>2, <2>3 DEF HoldsStored
<1>10. HoldsStored(entries, stored)' /\ HashesOK'
  BY <1>1, <1>2, <1>9 DEF HoldsStored, Placed, HashesOK, Holds, InUse, Index!Probe
<1>11. (size = Cardinality(DOMAIN stored))'
  BY <1>1, <1>2, <1>8
<1> QED  BY <1>10, <1>11 DEF IndexInv

\* Every call of the index keeps the invariant.
LEMMA IndexStep == IndexInv /\ [Index!Next]_Index!vars => IndexInv'
<1> SUFFICES ASSUME IndexInv, [Index!Next]_Index!vars PROVE IndexInv'
  OBVIOUS
<1>1. /\ HashesOK /\ size = Cardinality(DOMAIN stored) /\ HoldsStored(entries, stored)
  BY DEF IndexInv
<1>2. Len(entries) \in Nat /\ Cardinality(DOMAIN stored) \in Nat
      /\ 2 * Cardinality(DOMAIN stored) <= Len(entries)
  BY <1>1, FS_CardinalityType DEF HoldsStored, Placed
\* All that is left to show of a step that does not change what is stored.
<1>3. ASSUME HoldsStored(entries', stored), UNCHANGED <<hash, size, stored>>
      PROVE  IndexInv'
  <2>1. HoldsStored(entries, stored)' /\ HashesOK'
    BY <1>1, <1>3 DEF HoldsStored, Placed, HashesOK, Holds, InUse, Index!Probe
  <2> QED  BY <1>1, <1>3, <2>1 DEF IndexInv
<1>4. ASSUME NEW id \in Ids, NEW position \in Positions, Index!InsertAbsent(id, position)
      PROVE  IndexInv'
  BY <1>4, InsertKeepsIndex
<1>5. ASSUME NEW id \in Ids, Index!InsertPresent(id) PROVE IndexInv'
  <2>1. entries' = Index!Roomy(entries) /\ UNCHANGED <<hash, size, stored>>
    BY <1>5 DEF Index!InsertPresent
  <2>2. HoldsStored(entries', stored)
    BY <2>1, RoomyHolds
  <2> QED  BY <1>3, <2>1, <2>2
<1>6. ASSUME NEW id \in Ids, Index!Erase(id) PROVE IndexInv'
  BY <1>6, EraseKeepsIndex
<1>7. CASE Index!Clear
  <2>1. entries' = Index!Fresh(Len(entries)) /\ size' = 0 /\ stored' = <<>> /\ hash' = hash
    BY <1>7 DEF Index!Clear
  <2>2. DOMAIN stored' = {} /\ IsFiniteSet({}) /\ Cardinality({}) = 0
    BY <2>1, FS_EmptySet
  <2>3. Unused(entries', Len(entries))
    BY <1>1, <1>2, <2>1, FreshHoldsNothing
  <2>4. HoldsStored(entries', stored')
    BY <1>2, <2>2, <2>3 DEF Unused, HoldsStored
  <2>5. HoldsStored(entries, stored)' /\ HashesOK'
    BY <1>1, <2>1, <2>4 DEF HoldsStored, Placed, HashesOK, Holds, InUse, Index!Probe
  <2>6. (size = Cardinality(DOMAIN stored))'
    BY <2>1, <2>2
  <2> QED  BY <2>5, <2>6 DEF IndexInv
<1>8. ASSUME NEW expected \in 0 .. MaxReserve, Index!Reserve(expected) PROVE IndexInv'
  <2> DEFINE capacity == Index!NextCapacity(expected)
  <2>1. /\ entries' = IF Len(entries) >= capacity THEN entries ELSE Index!Rehash(entries, capacity)
        /\ UNCHANGED <<hash, size, stored>>
    BY <1>8 DEF Index!Reserve
  <2>2. capacity \in Nat
    BY CapacityIsEnough
  <2> HIDE DEF capacity
  <2>3. HoldsStored(entries', stored)
    <3>1. CASE Len(entries) >= capacity
      BY <1>1, <2>1, <3>1
    <3>2. CASE ~ Len(entries) >= capacity
      <4>1. 2 * Cardinality(DOMAIN stored) <= capacity /\ capacity > 0
        BY <1>2, <2>2, <3>2
      <4> QED  BY <1>1, <2>1, <2>2, <3>2, <4>1, GrowsAs
    <3> QED  BY <3>1, <3>2
  <2> QED  BY <1>3, <2>1, <2>3
<1>9. CASE UNCHANGED Index!vars
  <2>1. entries' = entries /\ UNCHANGED <<hash, size, stored>>
    BY <1>9 DEF Index!vars
  <2> QED  BY <1>1, <1>3, <2>1
<1> QED  BY <1>4, <1>5, <1>6, <1>7, <1>8, <1>9 DEF Index!Next

LEMMA IndexAlways == Index!Spec => []IndexInv
BY IndexStarts, IndexStep, PTL DEF Index!Spec

LEMMA SearchHolds == IndexInv => FindsWhatWasStored
<1> SUFFICES ASSUME IndexInv PROVE FindsWhatWasStored
  OBVIOUS
<1>1. /\ HashesOK /\ size = Cardinality(DOMAIN stored) /\ HoldsStored(entries, stored)
  BY DEF IndexInv
<1>2. /\ Placed(entries)
      /\ \A id \in Ids : \A place :
           Holds(entries, id, place) <=> id \in DOMAIN stored /\ place = stored[id]
      /\ 2 * Cardinality(DOMAIN stored) <= Len(entries)
  BY <1>1 DEF HoldsStored
<1>3. \A id \in Ids : Finds(entries, id)
  BY <1>1, <1>2, SearchFinds
<1>4. ASSUME NEW id \in Ids
      PROVE  /\ Index!Found(entries, id) <=> id \in DOMAIN stored
             /\ id \in DOMAIN stored =>
                  entries[Index!SlotOf(entries, id)].position = stored[id]
  <2>1. ASSUME Index!Found(entries, id) PROVE id \in DOMAIN stored
    <3>1. PICK s \in 1 .. Len(entries) : entries[s].id = id
      BY <1>3, <2>1 DEF Finds
    <3>2. Holds(entries, id, entries[s].position)
      BY <3>1 DEF Holds
    <3> QED  BY <1>2, <3>2
  <2>2. ASSUME id \in DOMAIN stored
        PROVE  /\ Index!Found(entries, id)
               /\ entries[Index!SlotOf(entries, id)].position = stored[id]
    <3>1. PICK s \in 1 .. Len(entries) : entries[s].id = id /\ entries[s].position = stored[id]
      BY <1>2, <2>2 DEF Holds
    <3>2. Index!SlotOf(entries, id) = s /\ Index!Found(entries, id)
      BY <1>3, <3>1 DEF Finds
    <3> QED  BY <3>1, <3>2
  <2> QED  BY <2>1, <2>2
<1>5. ASSUME NEW slot \in DOMAIN entries, entries[slot].state = "Occupied"
      PROVE  slot = Index!SlotOf(entries, entries[slot].id)
  <2>1. slot \in 1 .. Len(entries) /\ entries[slot].id \in Ids
    BY <1>2, <1>5 DEF Placed
  <2> QED  BY <1>3, <2>1 DEF Finds
<1>6. Index!Cardinality(DOMAIN stored) = Cardinality(DOMAIN stored)
  BY DEF Index!Cardinality, Cardinality
<1> QED  BY <1>1, <1>2, <1>4, <1>5, <1>6 DEF FindsWhatWasStored, Index!FindsWhatWasStored

-------------------------------------------------------------------------------
(* The message rate.                                                       *)

\* The instance counts as this module does.
LEMMA RateCounts == \A S : Rate!Cardinality(S) = Cardinality(S)
BY DEF Rate!Cardinality, Cardinality

\* What pop_front takes away: exactly what is old at the front.
ExpiresExactly(n, stamps, now) ==
  /\ n \in 0 .. Len(stamps)
  /\ \A k \in 1 .. n : now - stamps[k] >= Window
  /\ n < Len(stamps) => now - stamps[n + 1] < Window

\* The number of times taken from the front is one only, and exists.
LEMMA ExpiredIsExact ==
  ASSUME NEW stamps \in Seq(Nat), NEW now \in Nat
  PROVE  ExpiresExactly(Rate!Expired(stamps, now, Rate!Limits), stamps, now)
<1>1. Rate!Limits.window = Window /\ Window \in Nat /\ Len(stamps) \in Nat
  BY RateAssumption DEF Rate!Limits
<1>2. \A k \in 1 .. Len(stamps) : stamps[k] \in Nat
  OBVIOUS
<1> DEFINE S == {n \in 0 .. Len(stamps) : n < Len(stamps) => now - stamps[n + 1] < Window}
<1>3. Len(stamps) \in S
  BY <1>1
<1>4. S \in SUBSET Nat
  BY <1>1
<1>5. PICK n \in S : \A m \in S : n <= m
  BY <1>3, <1>4, Least
<1> HIDE DEF S
<1>5a. n \in Nat /\ n <= Len(stamps) /\ (n < Len(stamps) => now - stamps[n + 1] < Window)
  BY <1>1, <1>5 DEF S
<1>6. ASSUME NEW k \in 1 .. n PROVE now - stamps[k] >= Window
  <2>1. k - 1 \in 0 .. Len(stamps) /\ (k - 1) + 1 = k /\ k - 1 \notin S
    <3>1. k - 1 \in 0 .. Len(stamps) /\ (k - 1) + 1 = k /\ ~ n <= k - 1
      BY <1>1, <1>5a
    <3> QED  BY <1>5, <3>1
  <2>2. k - 1 < Len(stamps) /\ k \in 1 .. Len(stamps)
    BY <1>1, <1>5a
  <2>3. ~ now - stamps[k] < Window
    BY <2>1, <2>2 DEF S
  <2> QED  BY <1>1, <1>2, <2>2, <2>3
<1>7. ExpiresExactly(n, stamps, now)
  BY <1>5a, <1>6 DEF ExpiresExactly
<1> DEFINE e == Rate!Expired(stamps, now, Rate!Limits)
<1>8. e = CHOOSE m \in 0 .. Len(stamps) :
            /\ \A k \in 1 .. m : now - stamps[k] >= Window
            /\ m < Len(stamps) => ~ now - stamps[m + 1] >= Window
  BY <1>1 DEF Rate!Expired, Rate!Old
<1> HIDE DEF e
<1>9. /\ n \in 0 .. Len(stamps)
      /\ \A k \in 1 .. n : now - stamps[k] >= Window
      /\ n < Len(stamps) => ~ now - stamps[n + 1] >= Window
  <2>1. n < Len(stamps) => n + 1 \in 1 .. Len(stamps)
    BY <1>1, <1>5a
  <2> QED  BY <1>1, <1>2, <1>7, <2>1 DEF ExpiresExactly
<1>10. /\ e \in 0 .. Len(stamps)
       /\ \A k \in 1 .. e : now - stamps[k] >= Window
       /\ e < Len(stamps) => ~ now - stamps[e + 1] >= Window
  BY <1>8, <1>9
<1>11. e < Len(stamps) => now - stamps[e + 1] < Window
  <2>1. e < Len(stamps) => e + 1 \in 1 .. Len(stamps)
    BY <1>1, <1>10
  <2> QED  BY <1>1, <1>2, <1>10, <2>1
<1> QED  BY <1>10, <1>11 DEF ExpiresExactly, e

\* Which of some messages came from one time on, before another.
Between(these, times, from, to) == {k \in these : from <= times[k] /\ times[k] < to}
Since(these, times, from) == {k \in these : from <= times[k]}

RateStates == [active : BOOLEAN, start : Nat, count : Nat, stamps : Seq(Nat)]
RateTypes ==
  /\ clock \in Nat
  /\ sent \in Seq(Nat)
  /\ \A k \in DOMAIN sent : sent[k] <= clock
  /\ \A j, k \in DOMAIN sent : j <= k => sent[j] <= sent[k]
  /\ allowed \subseteq DOMAIN sent
  /\ state \in RateStates

\* The times kept are the last ones, and those that were let go are old.
KeepsTheLast ==
  LET n == Len(state.stamps)
      m == Len(sent)
  IN  /\ n <= m
      /\ \A k \in 1 .. n : state.stamps[k] = sent[m - n + k]
      /\ \A k \in 1 .. m - n : clock - sent[k] >= Window

\* The count is that of the messages of the window, of which no more than the
\* maximum were allowed, nor of those of a window's length before it.
CountsWindow ==
  /\ state.active \/ sent = <<>>
  /\ state.active => state.start <= clock
  /\ \A k \in DOMAIN sent : sent[k] < state.start + Window
  /\ Cardinality(Since(DOMAIN sent, sent, state.start)) = state.count
  /\ Cardinality(Since(allowed, sent, state.start)) <= MaxMessages
  /\ Cardinality(Between(allowed, sent, state.start - Window + 1, state.start))
       <= MaxMessages

RateInv ==
  /\ RateTypes
  /\ mode = "SlidingWindow" =>
       /\ KeepsTheLast
       /\ \A t \in Nat : Cardinality(Between(allowed, sent, t, t + Window)) <= MaxMessages
  /\ mode # "SlidingWindow" =>
       /\ CountsWindow
       /\ \A t \in Nat : Cardinality(Between(allowed, sent, t, t + Window)) <= 2 * MaxMessages

\* Sets of messages are finite, and a part has no more elements than the whole.
LEMMA MessagesCount ==
  ASSUME NEW times \in Seq(Nat)
  PROVE  \A S \in SUBSET DOMAIN times :
            /\ IsFiniteSet(S) /\ Cardinality(S) \in Nat
            /\ \A T \in SUBSET S : Cardinality(T) <= Cardinality(S)
<1>1. IsFiniteSet(1 .. Len(times)) /\ DOMAIN times = 1 .. Len(times)
  BY FS_Interval
<1> QED  BY <1>1, FS_Subset, FS_CardinalityType

LEMMA SentAreTimes ==
  ASSUME NEW times \in Seq(Nat)
  PROVE  /\ DOMAIN times = 1 .. Len(times) /\ Len(times) \in Nat
         /\ \A k \in 1 .. Len(times) : times[k] \in Nat
OBVIOUS

\* Nothing was sent at first.
LEMMA RateStarts == Rate!Init => RateInv
<1> SUFFICES ASSUME Rate!Init PROVE RateInv
  OBVIOUS
<1>1. /\ clock = 0 /\ sent = <<>> /\ allowed = {}
      /\ state = [active |-> FALSE, start |-> 0, count |-> 0, stamps |-> <<>>]
  BY DEF Rate!Init, Rate!NoMessages
<1>2. RateTypes
  BY <1>1 DEF RateTypes, RateStates
<1>3. Cardinality({}) = 0 /\ 0 <= MaxMessages /\ 0 <= 2 * MaxMessages
  BY FS_EmptySet, RateAssumption
<1>4. \A from, to : Between(allowed, sent, from, to) = {}
  BY <1>1 DEF Between
<1>5. KeepsTheLast
  BY <1>1 DEF KeepsTheLast
<1>6. CountsWindow
  <2>0. DOMAIN sent = {} /\ state.count = 0 /\ ~ state.active
    BY <1>1
  <2>1. \A from : Since(DOMAIN sent, sent, from) = {} /\ Since(allowed, sent, from) = {}
    BY <1>1 DEF Since
  <2> QED  BY <1>1, <1>3, <1>4, <2>0, <2>1 DEF CountsWindow
<1> QED  BY <1>2, <1>3, <1>4, <1>5, <1>6 DEF RateInv

\* Time alone changes nothing but what is old.
LEMMA TickKeepsRate == RateInv /\ Rate!Tick => RateInv'
<1> SUFFICES ASSUME RateInv, Rate!Tick PROVE RateInv'
  OBVIOUS
<1>1. clock' = clock + 1 /\ UNCHANGED <<mode, state, sent, allowed>>
  BY DEF Rate!Tick
<1>2. RateTypes'
  BY <1>1 DEF RateInv, RateTypes, RateStates
<1>3. ASSUME KeepsTheLast PROVE KeepsTheLast'
  <2>1. \A k \in 1 .. Len(sent) : sent[k] \in Nat /\ clock \in Nat /\ Window \in Nat
    BY RateAssumption, SentAreTimes DEF RateInv, RateTypes, RateStates
  <2>2. Len(state.stamps) \in Nat /\ Len(sent) \in Nat
    BY DEF RateInv, RateTypes, RateStates
  <2> DEFINE n == Len(state.stamps)
             m == Len(sent)
  <2>3. /\ n <= m
        /\ \A k \in 1 .. n : state.stamps[k] = sent[m - n + k]
        /\ \A k \in 1 .. m - n : clock - sent[k] >= Window
    BY <1>3 DEF KeepsTheLast
  <2>4. n \in Nat /\ m \in Nat /\ clock \in Nat
    BY <2>2 DEF RateInv, RateTypes
  <2> HIDE DEF n, m
  <2>5. state' = state /\ sent' = sent /\ clock' = clock + 1
    BY <1>1
  <2>6. ASSUME NEW k \in 1 .. m - n PROVE clock' - sent'[k] >= Window
    <3>1. k \in 1 .. m
      BY <2>3, <2>4
    <3>2. sent[k] \in Nat /\ Window \in Nat /\ clock - sent[k] >= Window
      BY <2>1, <2>3, <3>1 DEF m
    <3>3. sent'[k] = sent[k]
      BY <2>5
    <3> QED  BY <2>4, <2>5, <3>2, <3>3
  <2>7. /\ n <= m
        /\ \A k \in 1 .. n : state'.stamps[k] = sent'[m - n + k]
        /\ \A k \in 1 .. m - n : clock' - sent'[k] >= Window
    <3>1. \A k \in 1 .. n : state'.stamps[k] = sent'[m - n + k]
      BY <2>3, <2>5
    <3> QED  BY <2>3, <2>6, <3>1
  <2>8. n = Len(state'.stamps) /\ m = Len(sent')
    BY <2>5 DEF n, m
  <2> QED  BY <2>7, <2>8 DEF KeepsTheLast
<1>4. ASSUME CountsWindow PROVE CountsWindow'
  <2>1. clock \in Nat /\ state.start \in Nat
    BY DEF RateInv, RateTypes, RateStates
  <2> QED  BY <1>1, <1>4, <2>1 DEF CountsWindow
<1> QED  BY <1>1, <1>2, <1>3, <1>4 DEF RateInv

\* A fixed window goes on, or begins with the message.
Counts(after) ==
  /\ after \in RateStates /\ after.active
  /\ IF state.active /\ clock - state.start < Window
     THEN after.start = state.start /\ after.count = state.count + 1
     ELSE after.start = clock /\ after.count = 1

\* The fields of the fixed window after one more message.
LEMMA FixedFields ==
  ASSUME state \in RateStates, clock \in Nat
  PROVE  Counts(Rate!FixedCount(state, clock, Rate!Limits))
<1> DEFINE after == Rate!FixedCount(state, clock, Rate!Limits)
           restarts == ~ state.active \/ clock - state.start >= Window
<1>1. Rate!Limits.window = Window /\ Window \in Nat
  BY RateAssumption DEF Rate!Limits
<1>2. after = [state EXCEPT !.active = TRUE,
                            !.start = IF restarts THEN clock ELSE state.start,
                            !.count = IF restarts THEN 1 ELSE state.count + 1]
  BY <1>1 DEF Rate!FixedCount, Rate!Old, RateStates
<1> HIDE DEF after
<1>3. /\ after \in RateStates /\ after.active
      /\ after.start = (IF restarts THEN clock ELSE state.start)
      /\ after.count = (IF restarts THEN 1 ELSE state.count + 1)
  <2> DEFINE s == IF restarts THEN clock ELSE state.start
             c == IF restarts THEN 1 ELSE state.count + 1
  <2>1. s \in Nat /\ c \in Nat
    BY DEF RateStates
  <2>2. after = [state EXCEPT !.active = TRUE, !.start = s, !.count = c]
    BY <1>2
  <2>3. s = (IF restarts THEN clock ELSE state.start) /\ c = (IF restarts THEN 1 ELSE state.count + 1)
    OBVIOUS
  <2> HIDE DEF s, c
  <2>4. after \in RateStates /\ after.active /\ after.start = s /\ after.count = c
    BY <2>1, <2>2 DEF RateStates
  <2> QED  BY <2>3, <2>4
<1>4. restarts <=> ~ (state.active /\ clock - state.start < Window)
  BY <1>1 DEF RateStates
<1>5. Counts(after)
  BY <1>3, <1>4 DEF Counts
<1> QED  BY <1>5 DEF after

\* A message more, allowed or not.
Comes(n) ==
  /\ n = Len(sent) /\ n \in Nat /\ DOMAIN sent = 1 .. n
  /\ DOMAIN sent' = 1 .. n + 1 /\ sent' \in Seq(Nat) /\ Len(sent') = n + 1
  /\ sent'[n + 1] = clock /\ \A k \in 1 .. n : sent'[k] = sent[k] /\ sent[k] <= clock
  /\ allowed \subseteq 1 .. n
  /\ allowed' = IF Rate!WithinRate(state', Rate!Limits) THEN allowed \cup {n + 1} ELSE allowed
  /\ state' = Rate!Counted(state, clock, Rate!Limits)
  /\ clock' = clock /\ mode' = mode /\ clock \in Nat

\* What every message does to the histories, in both modes.
LEMMA MessageComes ==
  ASSUME RateTypes, Rate!Message PROVE Comes(Len(sent)) /\ RateTypes'
<1>1. /\ sent' = Append(sent, clock) /\ clock' = clock /\ mode' = mode
      /\ state' = Rate!Counted(state, clock, Rate!Limits)
      /\ allowed' = IF Rate!WithinRate(state', Rate!Limits)
                    THEN allowed \cup {Len(sent')} ELSE allowed
  BY DEF Rate!Message
<1>2. /\ sent \in Seq(Nat) /\ clock \in Nat /\ allowed \subseteq DOMAIN sent
      /\ \A k \in DOMAIN sent : sent[k] <= clock
      /\ \A j, k \in DOMAIN sent : j <= k => sent[j] <= sent[k]
      /\ state \in RateStates
  BY DEF RateTypes
<1>3. /\ Len(sent) \in Nat /\ DOMAIN sent = 1 .. Len(sent)
      /\ sent' \in Seq(Nat) /\ Len(sent') = Len(sent) + 1
      /\ DOMAIN sent' = 1 .. Len(sent) + 1 /\ sent'[Len(sent) + 1] = clock
      /\ \A k \in 1 .. Len(sent) : sent'[k] = sent[k]
  BY <1>1, <1>2
<1>4. Comes(Len(sent))
  BY <1>1, <1>2, <1>3 DEF Comes
<1>5. state' \in RateStates
  <2>1. CASE mode = "SlidingWindow"
    <3> DEFINE e == Rate!Expired(state.stamps, clock, Rate!Limits)
               left == SubSeq(state.stamps, e + 1, Len(state.stamps))
    <3>1. ExpiresExactly(e, state.stamps, clock)
      BY <1>2, ExpiredIsExact DEF RateStates
    <3> HIDE DEF e
    <3>2. e \in 0 .. Len(state.stamps) /\ state.stamps \in Seq(Nat)
      BY <1>2, <3>1 DEF ExpiresExactly, RateStates
    <3>3. left \in Seq(Nat)
      BY <3>2
    <3> HIDE DEF left
    <3>4. state' = [state EXCEPT !.stamps = Append(left, clock)]
      BY <1>1, <2>1 DEF Rate!Counted, Rate!SlidingCount, Rate!Limits, left, e
    <3>5. Append(left, clock) \in Seq(Nat)
      BY <1>2, <3>3
    <3> QED  BY <1>2, <3>4, <3>5 DEF RateStates
  <2>2. CASE mode # "SlidingWindow"
    <3>1. state' = Rate!FixedCount(state, clock, Rate!Limits)
      BY <1>1, <2>2 DEF Rate!Counted, Rate!Limits
    <3> QED  BY <1>2, <3>1, FixedFields DEF Counts
  <2> QED  BY <2>1, <2>2
<1>6. /\ allowed' \subseteq DOMAIN sent'
      /\ \A k \in DOMAIN sent' : sent'[k] <= clock
  <2>1. Len(sent) + 1 \in 1 .. Len(sent) + 1 /\ 1 .. Len(sent) \subseteq 1 .. Len(sent) + 1
    BY <1>3
  <2>2. \A k \in 1 .. Len(sent) + 1 : k = Len(sent) + 1 \/ k \in 1 .. Len(sent)
    BY <1>3
  <2>3. allowed' \subseteq DOMAIN sent'
    BY <1>1, <1>2, <1>3, <2>1
  <2>4. ASSUME NEW k \in DOMAIN sent' PROVE sent'[k] <= clock
    BY <1>2, <1>3, <2>2
  <2> QED  BY <2>3, <2>4
<1>7. ASSUME NEW j \in DOMAIN sent', NEW k \in DOMAIN sent', j <= k
      PROVE  sent'[j] <= sent'[k]
  <2>1. CASE k = Len(sent) + 1
    BY <1>3, <1>6, <2>1
  <2>2. CASE k # Len(sent) + 1
    <3>1. j \in 1 .. Len(sent) /\ k \in 1 .. Len(sent)
      BY <1>3, <1>7, <2>2
    <3> QED  BY <1>2, <1>3, <1>7, <3>1
  <2> QED  BY <2>1, <2>2
<1> QED  BY <1>1, <1>2, <1>3, <1>4, <1>5, <1>6, <1>7 DEF RateTypes

\* What was counted stays; the new message is counted where it falls.
LEMMA ComesBetween ==
  ASSUME NEW n, Comes(n), NEW from, NEW to
  PROVE  /\ Between(allowed', sent', from, to) \subseteq
              Between(allowed, sent, from, to) \cup {n + 1}
         /\ ~ (n + 1 \in allowed' /\ from <= clock /\ clock < to) =>
              Between(allowed', sent', from, to) = Between(allowed, sent, from, to)
<1>1. ASSUME NEW k \in allowed'
      PROVE  (k = n + 1 /\ sent'[k] = clock) \/ (k \in allowed /\ sent'[k] = sent[k])
  BY DEF Comes
<1>2. \A k \in allowed : k \in allowed' /\ k # n + 1 /\ sent'[k] = sent[k]
  BY DEF Comes
<1> QED  BY <1>1, <1>2 DEF Between

\* The same of the messages since a time.
LEMMA ComesSince ==
  ASSUME NEW n, Comes(n), NEW from
  PROVE  /\ from <= clock => Since(DOMAIN sent', sent', from)
                               = Since(DOMAIN sent, sent, from) \cup {n + 1}
         /\ n + 1 \notin Since(DOMAIN sent, sent, from)
         /\ n + 1 \notin allowed' =>
              Since(allowed', sent', from) = Since(allowed, sent, from)
         /\ Since(allowed', sent', from) \subseteq Since(DOMAIN sent', sent', from)
<1>1. \A k \in 1 .. n + 1 : k \in 1 .. n \/ k = n + 1
  BY DEF Comes
<1>2. n + 1 \notin 1 .. n /\ n + 1 \in 1 .. n + 1 /\ 1 .. n \subseteq 1 .. n + 1
  BY DEF Comes
<1>3. from <= clock => Since(DOMAIN sent', sent', from)
                         = Since(DOMAIN sent, sent, from) \cup {n + 1}
  BY <1>1, <1>2 DEF Comes, Since
<1>4. n + 1 \notin Since(DOMAIN sent, sent, from)
  BY <1>2 DEF Comes, Since
<1>5. n + 1 \notin allowed' => Since(allowed', sent', from) = Since(allowed, sent, from)
  BY <1>2 DEF Comes, Since
<1>6. Since(allowed', sent', from) \subseteq Since(DOMAIN sent', sent', from)
  BY <1>2 DEF Comes, Since
<1> QED  BY <1>3, <1>4, <1>5, <1>6

\* What is old goes, the new message is last.
Slides(e, kept, left) ==
  /\ ExpiresExactly(e, kept, clock)
  /\ left \in Seq(Nat) /\ Len(left) = Len(kept) - e + 1
  /\ \A k \in 1 .. Len(kept) - e : left[k] = kept[e + k]
  /\ left[Len(kept) - e + 1] = clock

\* The end of a sequence, from one place on.
LEMMA EndOfSequence ==
  ASSUME NEW s \in Seq(Nat), NEW from \in 1 .. Len(s)
  PROVE  /\ SubSeq(s, from, Len(s)) \in Seq(Nat)
         /\ Len(SubSeq(s, from, Len(s))) = Len(s) - from + 1
         /\ \A k \in 1 .. Len(s) - from + 1 : SubSeq(s, from, Len(s))[k] = s[from + k - 1]
<1>1. Len(s) \in Nat /\ from \in Nat
  OBVIOUS
<1>2. Len(SubSeq(s, from, Len(s))) = Len(s) - from + 1
  BY <1>1
<1>3. SubSeq(s, from, Len(s)) \in Seq(Nat)
  BY <1>1
<1>4. \A k \in 1 .. Len(s) - from + 1 : SubSeq(s, from, Len(s))[k] = s[from + k - 1]
  BY <1>1
<1> QED  BY <1>2, <1>3, <1>4

\* The times of the sliding window after one more message.
LEMMA SlidingFields ==
  ASSUME state \in RateStates, clock \in Nat
  PROVE  \E e \in Nat : Slides(e, state.stamps,
                               Rate!SlidingCount(state, clock, Rate!Limits).stamps)
<1> DEFINE kept == state.stamps
           e == Rate!Expired(kept, clock, Rate!Limits)
           left == SubSeq(kept, e + 1, Len(kept))
<1>1. kept \in Seq(Nat) /\ Len(kept) \in Nat
  BY DEF RateStates
<1>2. ExpiresExactly(e, kept, clock)
  BY <1>1, ExpiredIsExact
<1>3. Rate!SlidingCount(state, clock, Rate!Limits).stamps = Append(left, clock)
  BY DEF Rate!SlidingCount, RateStates
<1> HIDE DEF kept, e
<1>4. e \in 0 .. Len(kept) /\ e \in Nat
  BY <1>1, <1>2 DEF ExpiresExactly
<1>5. /\ left \in Seq(Nat) /\ Len(left) = Len(kept) - e
      /\ \A k \in 1 .. Len(kept) - e : left[k] = kept[e + k]
  <2>1. CASE e + 1 <= Len(kept)
    <3>1. /\ left \in Seq(Nat) /\ Len(left) = Len(kept) - (e + 1) + 1
          /\ \A k \in 1 .. Len(kept) - (e + 1) + 1 : left[k] = kept[(e + 1) + k - 1]
      <4>1. e + 1 \in 1 .. Len(kept)
        BY <1>1, <1>4, <2>1
      <4> QED  BY <1>1, <4>1, EndOfSequence
    <3>2. Len(kept) - (e + 1) + 1 = Len(kept) - e
      BY <1>1, <1>4
    <3>3. \A k \in 1 .. Len(kept) - e : (e + 1) + k - 1 = e + k
      BY <1>1, <1>4
    <3> QED  BY <3>1, <3>2, <3>3
  <2>2. CASE e = Len(kept)
    <3>1. left \in Seq(Nat) /\ Len(left) = 0
      BY <1>1, <1>4, <2>2
    <3>2. Len(kept) - e = 0 /\ \A k \in 1 .. Len(kept) - e : FALSE
      BY <1>1, <1>4, <2>2
    <3> HIDE DEF left
    <3> QED  BY <3>1, <3>2
  <2>3. e + 1 <= Len(kept) \/ e = Len(kept)
    BY <1>1, <1>4
  <2> HIDE DEF left
  <2> QED  BY <2>1, <2>2, <2>3
<1> HIDE DEF left
<1>6. /\ Append(left, clock) \in Seq(Nat) /\ Len(Append(left, clock)) = Len(kept) - e + 1
      /\ \A k \in 1 .. Len(kept) - e : Append(left, clock)[k] = left[k]
      /\ Append(left, clock)[Len(kept) - e + 1] = clock
  BY <1>1, <1>4, <1>5
<1>7. Slides(e, kept, Append(left, clock))
  BY <1>2, <1>5, <1>6 DEF Slides
<1> QED  BY <1>3, <1>4, <1>7 DEF kept, e

\* They are again the last ones, and the rest is old.
LEMMA KeptStays ==
  ASSUME RateTypes, KeepsTheLast, NEW n, Comes(n), mode = "SlidingWindow"
  PROVE  KeepsTheLast'
<1> DEFINE kept == state.stamps
           left == state'.stamps
           d == Len(kept)
<1>1. state \in RateStates /\ clock \in Nat /\ kept \in Seq(Nat) /\ d \in Nat
      /\ Window \in Nat /\ n \in Nat
  BY RateAssumption DEF RateTypes, RateStates, Comes
<1>2. state' = Rate!SlidingCount(state, clock, Rate!Limits)
  BY DEF Comes, Rate!Counted, Rate!Limits
<1>3. PICK e \in Nat : Slides(e, kept, left)
  BY <1>1, <1>2, SlidingFields
<1>4. /\ d <= n
      /\ \A k \in 1 .. d : kept[k] = sent[n - d + k]
      /\ \A k \in 1 .. n - d : clock - sent[k] >= Window
  BY DEF KeepsTheLast, Comes
<1>5. /\ n = Len(sent) /\ Len(sent') = n + 1 /\ clock' = clock
      /\ sent'[n + 1] = clock /\ \A k \in 1 .. n : sent'[k] = sent[k]
  BY DEF Comes
<1> HIDE DEF kept, left, d
<1>6. /\ e <= d /\ Len(left) = d - e + 1
      /\ \A k \in 1 .. e : clock - kept[k] >= Window
      /\ \A k \in 1 .. d - e : left[k] = kept[e + k]
      /\ left[d - e + 1] = clock
  BY <1>1, <1>3 DEF Slides, ExpiresExactly, d
<1>7. ASSUME NEW k \in 1 .. d - e + 1 PROVE left[k] = sent'[n + 1 - (d - e + 1) + k]
  <2>1. CASE k = d - e + 1
    <3>1. n + 1 - (d - e + 1) + k = n + 1
      BY <1>1, <1>6, <2>1
    <3> QED  BY <1>5, <1>6, <2>1, <3>1
  <2>2. CASE k # d - e + 1
    <3>1. k \in 1 .. d - e /\ e + k \in 1 .. d /\ n - d + (e + k) \in 1 .. n
          /\ n + 1 - (d - e + 1) + k = n - d + (e + k)
      BY <1>1, <1>4, <1>6, <2>2
    <3> QED  BY <1>4, <1>5, <1>6, <3>1
  <2> QED  BY <2>1, <2>2
<1>8. ASSUME NEW k \in 1 .. n + 1 - (d - e + 1) PROVE clock - sent'[k] >= Window
  <2>1. k \in 1 .. n
    BY <1>1, <1>4, <1>6
  <2>2. CASE k <= n - d
    BY <1>1, <1>4, <1>5, <2>1, <2>2
  <2>3. CASE ~ k <= n - d
    <3>1. k - (n - d) \in 1 .. e /\ k - (n - d) \in 1 .. d /\ n - d + (k - (n - d)) = k
      BY <1>1, <1>4, <1>6, <2>1, <2>3
    <3> QED  BY <1>4, <1>5, <1>6, <2>1, <3>1
  <2> QED  BY <2>2, <2>3
<1>9. Len(left) <= n + 1
  BY <1>1, <1>4, <1>6
<1>10. /\ Len(left) <= Len(sent')
       /\ \A k \in 1 .. Len(left) : left[k] = sent'[Len(sent') - Len(left) + k]
       /\ \A k \in 1 .. Len(sent') - Len(left) : clock' - sent'[k] >= Window
  <2> DEFINE m == d - e + 1
  <2>1. /\ Len(left) = m /\ Len(sent') = n + 1 /\ m <= n + 1 /\ clock' = clock
        /\ \A k \in 1 .. m : left[k] = sent'[n + 1 - m + k]
        /\ \A k \in 1 .. n + 1 - m : clock - sent'[k] >= Window
    BY <1>5, <1>6, <1>7, <1>8, <1>9
  <2> HIDE DEF m
  <2>2. Len(left) <= Len(sent')
    BY <2>1
  <2>3. 1 .. Len(left) = 1 .. m /\ Len(sent') - Len(left) = n + 1 - m
    <3>1. Len(left) = m /\ Len(sent') = n + 1
      BY <2>1
    <3>2. 1 .. Len(left) = 1 .. m
      BY <3>1
    <3>3. n \in Int /\ m \in Int
      BY <1>1, <1>6 DEF m
    <3>4. Len(sent') - Len(left) = n + 1 - m
      BY <3>1, <3>3
    <3> QED  BY <3>2, <3>4
  <2>4. \A k \in 1 .. Len(left) : left[k] = sent'[Len(sent') - Len(left) + k]
    BY <2>1, <2>3
  <2>5. \A k \in 1 .. Len(sent') - Len(left) : clock' - sent'[k] >= Window
    BY <2>1, <2>3
  <2> QED  BY <2>2, <2>4, <2>5
<1> QED  BY <1>10 DEF KeepsTheLast, left

\* What the sliding window allows is within it: it lies among the times kept.
LEMMA SlidingAllows ==
  ASSUME RateTypes, RateTypes', KeepsTheLast', NEW n, Comes(n), mode = "SlidingWindow",
         \A t \in Nat : Cardinality(Between(allowed, sent, t, t + Window)) <= MaxMessages,
         NEW t \in Nat
  PROVE  Cardinality(Between(allowed', sent', t, t + Window)) <= MaxMessages
<1> DEFINE new == Between(allowed', sent', t, t + Window)
           l == Len(state'.stamps)
<1>1. CASE ~ (n + 1 \in allowed' /\ t <= clock /\ clock < t + Window)
  BY <1>1, ComesBetween
<1>2. CASE n + 1 \in allowed' /\ t <= clock /\ clock < t + Window
  <2>1. /\ n \in Nat /\ clock \in Nat /\ clock' = clock /\ Window \in Nat /\ MaxMessages \in Nat
        /\ sent' \in Seq(Nat) /\ DOMAIN sent' = 1 .. n + 1 /\ Len(sent') = n + 1
        /\ allowed' \subseteq 1 .. n + 1
    BY RateAssumption DEF Comes, RateTypes
  <2>2. l <= MaxMessages
    <3>1. n + 1 \notin allowed
      BY DEF Comes
    <3>2. Rate!WithinRate(state', Rate!Limits)
      BY <1>2, <3>1 DEF Comes
    <3> QED  BY <3>2 DEF Rate!WithinRate, Rate!Observed, Rate!Limits
  <2>3. l \in Nat /\ l <= n + 1 /\ \A k \in 1 .. n + 1 - l : clock - sent'[k] >= Window
    BY <2>1 DEF KeepsTheLast, RateTypes, RateStates
  <2> HIDE DEF l
  <2>4. new \subseteq n + 1 - l + 1 .. n + 1
    <3>1. SUFFICES ASSUME NEW k \in new PROVE k \in n + 1 - l + 1 .. n + 1
      OBVIOUS
    <3>2. k \in 1 .. n + 1 /\ t <= sent'[k]
      BY <2>1 DEF Between
    <3>3. sent'[k] \in Nat
      <4> DEFINE times == sent'
      <4>1. times \in Seq(Nat) /\ Len(times) = n + 1
        BY <2>1
      <4> HIDE DEF times
      <4>2. times[k] \in Nat
        BY <3>2, <4>1, SentAreTimes
      <4> QED  BY <4>2 DEF times
    <3>4. ~ clock - sent'[k] >= Window
      <4>1. \A s \in Nat : t <= s => ~ clock - s >= Window
        BY <1>2, <2>1
      <4> QED  BY <3>2, <3>3, <4>1
    <3>5. k \notin 1 .. n + 1 - l
      BY <2>3, <3>4
    <3> QED  BY <2>1, <2>3, <3>2, <3>5
  <2>5. /\ IsFiniteSet(n + 1 - l + 1 .. n + 1)
        /\ Cardinality(n + 1 - l + 1 .. n + 1) = l
    <3>1. n + 1 - l + 1 \in Int /\ n + 1 \in Int
      BY <2>1, <2>3
    <3>2. IsFiniteSet(n + 1 - l + 1 .. n + 1)
          /\ Cardinality(n + 1 - l + 1 .. n + 1)
               = IF n + 1 - l + 1 > n + 1 THEN 0 ELSE (n + 1) - (n + 1 - l + 1) + 1
      BY <3>1, FS_Interval
    <3>3. (IF n + 1 - l + 1 > n + 1 THEN 0 ELSE (n + 1) - (n + 1 - l + 1) + 1) = l
      BY <2>1, <2>3
    <3> QED  BY <3>2, <3>3
  <2> HIDE DEF new
  <2>6. Cardinality(new) <= l /\ Cardinality(new) \in Nat
    BY <2>4, <2>5, FS_Subset, FS_CardinalityType
  <2>7. Cardinality(new) <= MaxMessages
    BY <2>1, <2>2, <2>3, <2>6
  <2> QED  BY <2>7 DEF new
<1> QED  BY <1>1, <1>2

\* The fixed window: it goes on with the message, or begins with it.
LEMMA WindowGoesOn ==
  ASSUME RateTypes, RateTypes', CountsWindow, NEW n, Comes(n), Counts(state'),
         mode # "SlidingWindow", state.active, clock - state.start < Window
  PROVE  CountsWindow'
<1>1. /\ n \in Nat /\ clock \in Nat /\ clock' = clock /\ Window \in Nat /\ MaxMessages \in Nat
      /\ sent' \in Seq(Nat) /\ DOMAIN sent' = 1 .. n + 1 /\ DOMAIN sent = 1 .. n
      /\ sent'[n + 1] = clock /\ (\A k \in 1 .. n : sent'[k] = sent[k])
      /\ allowed' \subseteq 1 .. n + 1 /\ sent \in Seq(Nat)
      /\ state.start \in Nat /\ state.count \in Nat
  BY RateAssumption DEF Comes, RateTypes, RateStates
<1>2. /\ state'.active /\ state'.start = state.start /\ state'.count = state.count + 1
  BY DEF Counts
<1>3. state.start <= clock
  BY DEF CountsWindow
<1>4. ASSUME NEW k \in DOMAIN sent' PROVE sent'[k] < state.start + Window
  <2>1. CASE k = n + 1
    BY <1>1, <2>1
  <2>2. CASE k # n + 1
    <3>1. k \in 1 .. n
      BY <1>1, <2>2
    <3> QED  BY <1>1, <3>1 DEF CountsWindow
  <2> QED  BY <2>1, <2>2
<1> DEFINE old == Since(DOMAIN sent, sent, state.start)
           new == Since(DOMAIN sent', sent', state.start)
<1>5. new = old \cup {n + 1} /\ n + 1 \notin old
  BY <1>3, ComesSince
<1>6. IsFiniteSet(old) /\ IsFiniteSet(new) /\ Cardinality(old) = state.count
  BY <1>1, MessagesCount DEF Since, CountsWindow
<1>7. Cardinality(new) = state.count + 1
  <2> HIDE DEF old, new
  <2>1. Cardinality(old \cup {n + 1}) = Cardinality(old) + 1
    BY <1>5, <1>6, FS_AddElement
  <2> QED  BY <1>5, <1>6, <2>1
<1>8. Cardinality(Since(allowed', sent', state.start)) <= MaxMessages
  <2>1. CASE n + 1 \notin allowed'
    BY <2>1, ComesSince DEF CountsWindow
  <2>2. CASE n + 1 \in allowed'
    <3>1. n + 1 \notin allowed
      BY DEF Comes
    <3>2. Rate!WithinRate(state', Rate!Limits)
      BY <2>2, <3>1 DEF Comes
    <3>3. state.count + 1 <= MaxMessages
      BY <1>2, <3>2 DEF Rate!WithinRate, Rate!Observed, Rate!Limits
    <3>4. Since(allowed', sent', state.start) \subseteq new
      BY ComesSince
    <3> HIDE DEF new
    <3>5. Cardinality(Since(allowed', sent', state.start)) <= Cardinality(new)
          /\ Cardinality(Since(allowed', sent', state.start)) \in Nat
      BY <1>6, <3>4, FS_Subset, FS_CardinalityType
    <3> QED  BY <1>1, <1>7, <3>3, <3>5
  <2> QED  BY <2>1, <2>2
<1>9. Between(allowed', sent', state.start - Window + 1, state.start)
        = Between(allowed, sent, state.start - Window + 1, state.start)
  <2>1. ~ clock < state.start
    BY <1>1, <1>3
  <2> QED  BY <2>1, ComesBetween
<1>10. Cardinality(Between(allowed', sent', state.start - Window + 1, state.start)) <= MaxMessages
  BY <1>9 DEF CountsWindow
<1> QED  BY <1>1, <1>2, <1>3, <1>4, <1>7, <1>8, <1>10 DEF CountsWindow

\* A window that begins with the message has it alone, and the one before it is over.
LEMMA WindowBegins ==
  ASSUME RateTypes, RateTypes', CountsWindow, NEW n, Comes(n), Counts(state'),
         mode # "SlidingWindow", ~ (state.active /\ clock - state.start < Window)
  PROVE  CountsWindow'
<1>1. /\ n \in Nat /\ clock \in Nat /\ clock' = clock /\ Window \in Nat \ {0} /\ MaxMessages \in Nat
      /\ sent' \in Seq(Nat) /\ DOMAIN sent' = 1 .. n + 1 /\ DOMAIN sent = 1 .. n
      /\ sent'[n + 1] = clock /\ (\A k \in 1 .. n : sent'[k] = sent[k])
      /\ allowed' \subseteq 1 .. n + 1 /\ allowed \subseteq 1 .. n /\ sent \in Seq(Nat)
      /\ state.start \in Nat /\ state.count \in Nat
  BY RateAssumption DEF Comes, RateTypes, RateStates
<1>2. /\ state'.active /\ state'.start = clock /\ state'.count = 1
  BY DEF Counts
<1>3. \A k \in 1 .. n : sent[k] \in Nat
  BY <1>1, SentAreTimes
<1>4. state.active \/ 1 .. n = {}
  <2>1. sent = <<>> => DOMAIN sent = {}
    OBVIOUS
  <2> QED  BY <1>1, <2>1 DEF CountsWindow
<1>5. ASSUME NEW k \in 1 .. n
      PROVE  sent[k] < clock /\ sent[k] < state.start + Window /\ state.start + Window <= clock
  <2>1. state.active
    BY <1>4
  <2>2. sent[k] < state.start + Window
    BY <1>1 DEF CountsWindow
  <2>3. ~ clock - state.start < Window
    BY <2>1
  <2>4. state.start + Window <= clock /\ state.start + Window \in Nat
    <3>1. state.start \in Nat /\ Window \in Nat /\ clock \in Nat
      BY <1>1
    <3> QED  BY <2>3, <3>1
  <2>5. sent[k] \in Nat /\ clock \in Nat
    BY <1>1, <1>3
  <2> QED  BY <2>2, <2>4, <2>5
<1>6. ASSUME NEW k \in DOMAIN sent' PROVE sent'[k] < clock + Window
  <2>1. CASE k = n + 1
    BY <1>1, <2>1
  <2>2. CASE k # n + 1
    <3>1. k \in 1 .. n
      BY <1>1, <2>2
    <3> QED  BY <1>1, <1>3, <1>5, <3>1
  <2> QED  BY <2>1, <2>2
<1> DEFINE new == Since(DOMAIN sent', sent', clock)
           newAllowed == Since(allowed', sent', clock)
<1>7. new = {n + 1}
  <2>1. Since(DOMAIN sent, sent, clock) = {}
    <3>1. \A k \in 1 .. n : ~ clock <= sent[k]
      BY <1>1, <1>3, <1>5
    <3> QED  BY <1>1, <3>1 DEF Since
  <2>2. clock <= clock
    BY <1>1
  <2>3. new = Since(DOMAIN sent, sent, clock) \cup {n + 1}
    BY <2>2, ComesSince
  <2> QED  BY <2>1, <2>3
<1>8. IsFiniteSet(new) /\ Cardinality(new) = 1
  BY <1>7, FS_Singleton
<1>9. Cardinality(newAllowed) <= MaxMessages
  <2>1. newAllowed \subseteq {n + 1}
    BY <1>7, ComesSince
  <2>2. CASE n + 1 \in allowed'
    <3>1. n + 1 \notin allowed
      BY DEF Comes
    <3>2. Rate!WithinRate(state', Rate!Limits)
      BY <2>2, <3>1 DEF Comes
    <3>3. 1 <= MaxMessages
      BY <1>2, <3>2 DEF Rate!WithinRate, Rate!Observed, Rate!Limits
    <3> HIDE DEF newAllowed
    <3>4. Cardinality(newAllowed) <= Cardinality({n + 1}) /\ Cardinality(newAllowed) \in Nat
      BY <2>1, FS_Singleton, FS_Subset, FS_CardinalityType
    <3>5. Cardinality({n + 1}) = 1
      BY FS_Singleton
    <3> QED  BY <1>1, <3>3, <3>4, <3>5
  <2>3. CASE n + 1 \notin allowed'
    <3>1. newAllowed = {}
      <4>1. n + 1 \notin newAllowed
        BY <2>3 DEF Since
      <4> HIDE DEF newAllowed
      <4> QED  BY <2>1, <4>1
    <3> HIDE DEF newAllowed
    <3> QED  BY <1>1, <3>1, FS_EmptySet
  <2> QED  BY <2>2, <2>3
<1> DEFINE before == Between(allowed', sent', clock - Window + 1, clock)
<1>10. Cardinality(before) <= MaxMessages
  <2>1. before = Between(allowed, sent, clock - Window + 1, clock)
    <3>1. ~ clock < clock
      BY <1>1
    <3> QED  BY <3>1, ComesBetween
  <2>2. before \subseteq Since(allowed, sent, state.start)
    <3>1. ASSUME NEW k \in before PROVE k \in Since(allowed, sent, state.start)
      <4>1. k \in allowed /\ k \in 1 .. n /\ clock - Window + 1 <= sent[k]
        BY <1>1, <2>1, <3>1 DEF Between
      <4>2. state.start <= sent[k]
        <5>1. sent[k] \in Nat /\ state.start + Window <= clock
          BY <1>3, <1>5, <4>1
        <5>2. state.start \in Nat /\ Window \in Nat /\ clock \in Nat
          BY <1>1
        <5> QED  BY <4>1, <5>1, <5>2
      <4> QED  BY <4>1, <4>2 DEF Since
    <3> HIDE DEF before
    <3> QED  BY <3>1
  <2> DEFINE last == Since(allowed, sent, state.start)
  <2>3. last \subseteq DOMAIN sent /\ Cardinality(last) <= MaxMessages
    BY <1>1 DEF Since, CountsWindow
  <2> HIDE DEF before, last
  <2>4. Cardinality(before) <= Cardinality(last) /\ Cardinality(last) \in Nat
        /\ Cardinality(before) \in Nat
    <3>1. before \subseteq last
      BY <2>2 DEF last
    <3>2. IsFiniteSet(last)
      BY <1>1, <2>3, MessagesCount
    <3> QED  BY <3>1, <3>2, FS_Subset, FS_CardinalityType
  <2> QED  BY <1>1, <2>3, <2>4
<1>11. clock <= clock
  BY <1>1
<1> QED  BY <1>1, <1>2, <1>6, <1>8, <1>9, <1>10, <1>11 DEF CountsWindow

\* An interval of a window's length meets the window and what is a window's
\* length before it, of which each allowed no more than the maximum.
LEMMA FixedAllows ==
  ASSUME RateTypes, RateTypes', CountsWindow', NEW n, Comes(n),
         \A t \in Nat : Cardinality(Between(allowed, sent, t, t + Window)) <= 2 * MaxMessages,
         NEW t \in Nat
  PROVE  Cardinality(Between(allowed', sent', t, t + Window)) <= 2 * MaxMessages
<1> DEFINE new == Between(allowed', sent', t, t + Window)
           start == state'.start
           first == Between(allowed', sent', start - Window + 1, start)
           second == Since(allowed', sent', start)
<1>1. CASE ~ (n + 1 \in allowed' /\ t <= clock /\ clock < t + Window)
  BY <1>1, ComesBetween
<1>2. CASE n + 1 \in allowed' /\ t <= clock /\ clock < t + Window
  <2>1. /\ clock \in Nat /\ clock' = clock /\ Window \in Nat /\ MaxMessages \in Nat
        /\ sent' \in Seq(Nat) /\ allowed' \subseteq DOMAIN sent' /\ start \in Nat
    BY RateAssumption DEF Comes, RateTypes, RateStates
  <2>2. start <= clock
    <3>1. sent' # <<>>
      BY DEF Comes
    <3> QED  BY <2>1, <3>1 DEF CountsWindow
  <2>3. Cardinality(first) <= MaxMessages /\ Cardinality(second) <= MaxMessages
    BY DEF CountsWindow
  <2> HIDE DEF start
  <2>4. new \subseteq first \cup second
    <3>1. ASSUME NEW k \in new PROVE k \in first \cup second
      <4>1. k \in allowed' /\ k \in DOMAIN sent' /\ t <= sent'[k]
        BY <2>1, <3>1 DEF Between
      <4>2. \A times \in Seq(Nat) : \A j \in DOMAIN times : times[j] \in Nat
        OBVIOUS
      <4>3. sent'[k] \in Nat
        BY <2>1, <4>1, <4>2
      <4>4. \A s \in Nat : t <= s => start <= s \/ (start - Window + 1 <= s /\ s < start)
        BY <1>2, <2>1, <2>2
      <4>5. start <= sent'[k] \/ (start - Window + 1 <= sent'[k] /\ sent'[k] < start)
        BY <4>1, <4>3, <4>4
      <4> QED  BY <4>1, <4>5 DEF Between, Since
    <3> HIDE DEF new, first, second
    <3> QED  BY <3>1
  <2>5. first \subseteq DOMAIN sent' /\ second \subseteq DOMAIN sent'
    BY <2>1 DEF Between, Since
  <2> HIDE DEF new, first, second
  <2>6. /\ IsFiniteSet(first) /\ IsFiniteSet(second)
        /\ Cardinality(first) \in Nat /\ Cardinality(second) \in Nat
    BY <2>1, <2>5, MessagesCount
  <2>7. /\ IsFiniteSet(first \cup second)
        /\ Cardinality(first \cup second) <= Cardinality(first) + Cardinality(second)
    <3>1. IsFiniteSet(first \cap second) /\ Cardinality(first \cap second) \in Nat
      BY <2>6, FS_Intersection, FS_CardinalityType
    <3>2. IsFiniteSet(first \cup second)
          /\ Cardinality(first \cup second)
               = Cardinality(first) + Cardinality(second) - Cardinality(first \cap second)
      BY <2>6, FS_Union
    <3> QED  BY <2>6, <3>1, <3>2
  <2>8. Cardinality(new) <= Cardinality(first \cup second) /\ Cardinality(new) \in Nat
        /\ Cardinality(first \cup second) \in Nat
    BY <2>4, <2>7, FS_Subset, FS_CardinalityType
  <2>9. Cardinality(new) <= 2 * MaxMessages
    BY <2>1, <2>3, <2>6, <2>7, <2>8
  <2> QED  BY <2>9 DEF new
<1> QED  BY <1>1, <1>2

\* A message keeps the invariant of either mode.
LEMMA MessageKeepsRate == RateInv /\ Rate!Message => RateInv'
<1> SUFFICES ASSUME RateInv, Rate!Message PROVE RateInv'
  OBVIOUS
<1>1. RateTypes
  BY DEF RateInv
<1> DEFINE n == Len(sent)
<1>2. Comes(n) /\ RateTypes'
  BY <1>1, MessageComes
<1> HIDE DEF n
<1>3. mode' = mode
  BY <1>2 DEF Comes
<1>4. CASE mode = "SlidingWindow"
  <2>1. KeepsTheLast /\ \A t \in Nat : Cardinality(Between(allowed, sent, t, t + Window)) <= MaxMessages
    BY <1>4 DEF RateInv
  <2>2. KeepsTheLast'
    BY <1>1, <1>2, <1>4, <2>1, KeptStays
  <2>3. ASSUME NEW t \in Nat
        PROVE  Cardinality(Between(allowed', sent', t, t + Window)) <= MaxMessages
    BY <1>1, <1>2, <1>4, <2>1, <2>2, SlidingAllows
  <2> QED  BY <1>2, <1>3, <1>4, <2>2, <2>3 DEF RateInv
<1>5. CASE mode # "SlidingWindow"
  <2>1. CountsWindow /\ \A t \in Nat : Cardinality(Between(allowed, sent, t, t + Window)) <= 2 * MaxMessages
    BY <1>5 DEF RateInv
  <2>2. Counts(state')
    <3>1. state' = Rate!FixedCount(state, clock, Rate!Limits)
      BY <1>2, <1>5 DEF Comes, Rate!Counted, Rate!Limits
    <3>2. state \in RateStates /\ clock \in Nat
      BY <1>1 DEF RateTypes
    <3> QED  BY <3>1, <3>2, FixedFields
  <2>3. CountsWindow'
    BY <1>1, <1>2, <1>5, <2>1, <2>2, WindowGoesOn, WindowBegins
  <2>4. ASSUME NEW t \in Nat
        PROVE  Cardinality(Between(allowed', sent', t, t + Window)) <= 2 * MaxMessages
    BY <1>1, <1>2, <2>1, <2>3, FixedAllows
  <2> QED  BY <1>2, <1>3, <1>5, <2>3, <2>4 DEF RateInv
<1> QED  BY <1>4, <1>5

\* The invariant of the message rate.
LEMMA RateAlways == Rate!Spec => []RateInv
<1>1. RateInv /\ UNCHANGED Rate!vars => RateInv'
  BY DEF RateInv, RateTypes, RateStates, KeepsTheLast, CountsWindow, Between, Since, Rate!vars
<1>2. RateInv /\ [Rate!Next]_Rate!vars => RateInv'
  BY <1>1, TickKeepsRate, MessageKeepsRate DEF Rate!Next
<1> QED  BY RateStarts, <1>2, PTL DEF Rate!Spec

\* The maximum is part of the invariant.
LEMMA MaximumHolds == RateInv => AtMostMaximum
<1> SUFFICES ASSUME RateInv, NEW t \in 0 .. clock
             PROVE  Rate!AllowedFrom(t) <= IF mode = "SlidingWindow" THEN MaxMessages
                                                                     ELSE 2 * MaxMessages
  BY DEF AtMostMaximum, Rate!AtMostMaximum
<1>1. /\ t \in Nat /\ sent \in Seq(Nat) /\ allowed \subseteq DOMAIN sent
      /\ Window \in Nat
  BY RateAssumption DEF RateInv, RateTypes
<1>2. {k \in allowed : sent[k] \in t .. t + Window - 1} = Between(allowed, sent, t, t + Window)
  <2>1. \A k \in allowed : sent[k] \in Nat
    BY <1>1
  <2>2. \A k \in allowed : sent[k] \in t .. t + Window - 1 <=> (t <= sent[k] /\ sent[k] < t + Window)
    BY <1>1, <2>1
  <2> QED  BY <2>2 DEF Between
<1>3. Rate!AllowedFrom(t) = Cardinality(Between(allowed, sent, t, t + Window))
  BY <1>2, RateCounts DEF Rate!AllowedFrom
<1>4. CASE mode = "SlidingWindow"
  BY <1>1, <1>3, <1>4 DEF RateInv
<1>5. CASE mode # "SlidingWindow"
  BY <1>1, <1>3, <1>5 DEF RateInv
<1> QED  BY <1>4, <1>5

\* The messages that a message that comes now finds in the window before it.
Recent == {k \in DOMAIN sent : clock - sent[k] < Window}

\* The recent messages are finitely many.
LEMMA RecentCount ==
  ASSUME RateTypes
  PROVE  /\ IsFiniteSet(Recent) /\ Cardinality(Recent) \in Nat
         /\ \A S : S \subseteq Recent => /\ IsFiniteSet(S) /\ Cardinality(S) \in Nat
                                         /\ Cardinality(S) <= Cardinality(Recent)
<1>1. sent \in Seq(Nat) /\ Recent \subseteq DOMAIN sent
  BY DEF RateTypes, Recent
<1>2. IsFiniteSet(Recent) /\ Cardinality(Recent) \in Nat
  BY <1>1, MessagesCount
<1> QED  BY <1>2, FS_Subset, FS_CardinalityType

\* The times kept are all recent once the old ones are gone.
LEMMA SlidingRefuses ==
  ASSUME RateTypes, KeepsTheLast, mode = "SlidingWindow",
         ~ Rate!WithinRate(Rate!Counted(state, clock, Rate!Limits), Rate!Limits)
  PROVE  Cardinality(Recent) >= MaxMessages
<1> DEFINE kept == state.stamps
           left == Rate!SlidingCount(state, clock, Rate!Limits).stamps
           d == Len(kept)
           n == Len(sent)
<1>1. /\ state \in RateStates /\ clock \in Nat /\ kept \in Seq(Nat) /\ d \in Nat
      /\ Window \in Nat /\ n \in Nat /\ MaxMessages \in Nat /\ sent \in Seq(Nat)
      /\ DOMAIN sent = 1 .. n
      /\ \A j, k \in 1 .. n : j <= k => sent[j] <= sent[k]
  BY RateAssumption DEF RateTypes, RateStates
<1>2. ~ Len(left) <= MaxMessages
  BY DEF Rate!Counted, Rate!WithinRate, Rate!Observed, Rate!Limits
<1>3. PICK e \in Nat : Slides(e, kept, left)
  BY <1>1, SlidingFields
<1>4. d <= n /\ \A k \in 1 .. d : kept[k] = sent[n - d + k]
  BY DEF KeepsTheLast
<1> HIDE DEF kept, left, d, n
<1>5. /\ e <= d /\ Len(left) = d - e + 1
      /\ e < d => clock - kept[e + 1] < Window
  BY <1>1, <1>3 DEF Slides, ExpiresExactly, d
<1> DEFINE last == n - d + e + 1 .. n
<1>6. last \subseteq Recent
  <2>1. ASSUME NEW k \in last PROVE k \in Recent
    <3>1. /\ e < d /\ e + 1 \in 1 .. d /\ k \in 1 .. n /\ n - d + (e + 1) \in 1 .. n
          /\ n - d + (e + 1) <= k
      BY <1>1, <1>4, <1>5
    <3>2. clock - sent[n - d + (e + 1)] < Window
      BY <1>4, <1>5, <3>1
    <3>3. sent[n - d + (e + 1)] <= sent[k]
      BY <1>1, <3>1
    <3>4. sent[n - d + (e + 1)] \in Nat /\ sent[k] \in Nat
      <4>1. \A j \in 1 .. n : sent[j] \in Nat
        BY <1>1
      <4> QED  BY <3>1, <4>1
    <3>5. \A x, y \in Nat : x <= y /\ clock - x < Window => clock - y < Window
      BY <1>1
    <3>6. clock - sent[k] < Window
      BY <3>2, <3>3, <3>4, <3>5
    <3> QED  BY <1>1, <3>1, <3>6 DEF Recent
  <2> HIDE DEF last
  <2> QED  BY <2>1
<1>7. Cardinality(last) = d - e
  <2>1. n - d + e + 1 \in Int /\ n \in Int
    BY <1>1
  <2>2. Cardinality(last) = IF n - d + e + 1 > n THEN 0 ELSE n - (n - d + e + 1) + 1
    BY <2>1, FS_Interval
  <2>3. (IF n - d + e + 1 > n THEN 0 ELSE n - (n - d + e + 1) + 1) = d - e
    BY <1>1, <1>5
  <2> QED  BY <2>2, <2>3
<1> HIDE DEF last
<1>8. Cardinality(last) <= Cardinality(Recent) /\ Cardinality(Recent) \in Nat
  BY <1>6, RecentCount
<1> QED  BY <1>1, <1>2, <1>5, <1>7, <1>8

\* A window that goes on has recent messages only.
LEMMA FixedRefuses ==
  ASSUME RateTypes, CountsWindow, mode # "SlidingWindow",
         ~ Rate!WithinRate(Rate!Counted(state, clock, Rate!Limits), Rate!Limits)
  PROVE  Cardinality(Recent) >= MaxMessages
<1> DEFINE after == Rate!FixedCount(state, clock, Rate!Limits)
           counted == Since(DOMAIN sent, sent, state.start)
<1>1. /\ state \in RateStates /\ clock \in Nat /\ state.start \in Nat /\ state.count \in Nat
      /\ Window \in Nat /\ MaxMessages \in Nat /\ sent \in Seq(Nat)
  BY RateAssumption DEF RateTypes, RateStates
<1>2. ~ after.count <= MaxMessages
  BY DEF Rate!Counted, Rate!WithinRate, Rate!Observed, Rate!Limits
<1>3. Counts(after)
  BY <1>1, FixedFields
<1> HIDE DEF after
<1>4. Cardinality(Recent) \in Nat
  BY RecentCount
<1>5. CASE state.active /\ clock - state.start < Window
  <2>1. state.count >= MaxMessages
    BY <1>1, <1>2, <1>3, <1>5 DEF Counts
  <2>2. counted \subseteq Recent
    <3>1. ASSUME NEW k \in counted PROVE k \in Recent
      <4>1. k \in DOMAIN sent /\ state.start <= sent[k] /\ sent[k] \in Nat
        BY <1>1, <3>1 DEF Since
      <4>2. clock - sent[k] < Window
        BY <1>1, <1>5, <4>1
      <4> QED  BY <4>1, <4>2 DEF Recent
    <3> HIDE DEF counted
    <3> QED  BY <3>1
  <2>3. Cardinality(counted) = state.count
    BY DEF CountsWindow
  <2> HIDE DEF counted
  <2>4. Cardinality(counted) <= Cardinality(Recent)
    BY <2>2, RecentCount
  <2> QED  BY <1>1, <1>4, <2>1, <2>3, <2>4
<1>6. CASE ~ (state.active /\ clock - state.start < Window)
  <2>1. after.count = 1
    BY <1>3, <1>6 DEF Counts
  <2> QED  BY <1>1, <1>2, <1>4, <2>1
<1> QED  BY <1>5, <1>6

LEMMA RefusalHolds == RateInv => RefusedOnlyWhenFull
<1> SUFFICES ASSUME RateInv,
                    ~ Rate!WithinRate(Rate!Counted(state, clock, Rate!Limits), Rate!Limits)
             PROVE  Cardinality(Recent) >= MaxMessages
  BY RateCounts DEF RefusedOnlyWhenFull, Rate!RefusedOnlyWhenFull, Recent
<1> QED  BY SlidingRefuses, FixedRefuses DEF RateInv

-------------------------------------------------------------------------------
(* The inference gate.                                                     *)

TypesOK ==
  /\ policy \in Policies
  /\ consecutive \in 0 .. CounterMax
  /\ disabled \in BOOLEAN
  /\ lates \in Seq(BOOLEAN)

\* The counted signals were late, and the one before them was not.
CountsTheRun ==
  /\ AllLate(Len(lates), consecutive)
  /\ \/ consecutive = CounterMax
     \/ consecutive = Len(lates)
     \/ ~ lates[Len(lates) - consecutive]

\* The two conjuncts of DisabledByRunOfLates.
Latch ==
  disabled <=> /\ policy.disables /\ policy.maxLate > 0
               /\ \E k \in 1 .. Len(lates) : AllLate(k, policy.maxLate)
Answers == \A a \in answer : a.modelDisabled = disabled /\ (disabled => ~ a.accepted)

GateInv == TypesOK /\ CountsTheRun /\ Latch /\ Answers

-------------------------------------------------------------------------------
\* A counter c that counts the run of late signals a history s ends in has
\* reached n exactly when its last n signals were late, for every n that the
\* counter can reach.
LEMMA ReachedIffRun ==
  ASSUME NEW s \in Seq(BOOLEAN), NEW c \in 0 .. CounterMax, NEW n \in 1 .. CounterMax,
         c <= Len(s), \A j \in 1 .. Len(s) : j > Len(s) - c => s[j],
         c = CounterMax \/ c = Len(s) \/ ~ s[Len(s) - c]
  PROVE  c >= n <=> Len(s) >= n /\ \A j \in 1 .. Len(s) : j > Len(s) - n => s[j]
<1> USE CounterMaxAssumption
<1>1. c \in Nat /\ Len(s) \in Nat /\ n \in Nat /\ n >= 1 /\ n <= CounterMax
  OBVIOUS
<1>2. ASSUME c >= n PROVE Len(s) >= n /\ \A j \in 1 .. Len(s) : j > Len(s) - n => s[j]
  BY <1>1, <1>2
<1>3. ASSUME Len(s) >= n, \A j \in 1 .. Len(s) : j > Len(s) - n => s[j], ~ c >= n
      PROVE  FALSE
  <2>1. ~ s[Len(s) - c]
    BY <1>1, <1>3
  <2>2. Len(s) - c \in 1 .. Len(s) /\ Len(s) - c > Len(s) - n
    BY <1>1, <1>3
  <2> QED  BY <1>3, <2>1, <2>2
<1> QED  BY <1>2, <1>3

\* The invariant holds at the start.
LEMMA GateInvInit == Init => GateInv
<1> SUFFICES ASSUME Init PROVE GateInv  OBVIOUS
<1> USE CounterMaxAssumption, PoliciesAssumption DEF Init
<1>1. TypesOK
  <2>1. lates \in Seq(BOOLEAN)
    OBVIOUS
  <2>2. consecutive \in 0 .. CounterMax
    OBVIOUS
  <2> QED  BY <2>1, <2>2 DEF TypesOK
<1>2. CountsTheRun
  BY DEF CountsTheRun, AllLate
<1>3. Latch
  BY DEF Latch
<1>4. Answers
  BY DEF Answers
<1> QED  BY <1>1, <1>2, <1>3, <1>4 DEF GateInv

\* What observe does, with the policy's verdict reduced to whether the signal
\* was late.
LEMMA ObserveStep ==
  ASSUME TypesOK, NEW latency, NEW signal, NEW now, Observe(latency, signal, now)
  PROVE  \E late \in BOOLEAN :
            /\ consecutive' = Counted(late)
            /\ disabled' = (disabled \/ Disables(consecutive'))
            /\ lates' = Append(lates, late)
            /\ \A a \in answer' : a.modelDisabled = disabled' /\ (disabled' => ~ a.accepted)
            /\ policy' = policy
<1> DEFINE result == Evaluate(policy, latency, signal, now)
<1>1. result.late \in BOOLEAN
  BY DEF Evaluate, Late
<1>2. disabled' \in BOOLEAN
  BY DEF Observe, TypesOK
<1>3. \A a \in answer' : a.modelDisabled = disabled' /\ (disabled' => ~ a.accepted)
  <2>1. CASE disabled' = TRUE
    <3>1. answer' = {[result EXCEPT !.modelDisabled = TRUE, !.accepted = FALSE]}
      BY <2>1 DEF Observe
    <3>2. /\ [result EXCEPT !.modelDisabled = TRUE, !.accepted = FALSE].modelDisabled = TRUE
          /\ [result EXCEPT !.modelDisabled = TRUE, !.accepted = FALSE].accepted = FALSE
      BY DEF Evaluate
    <3> QED  BY <2>1, <3>1, <3>2
  <2>2. CASE disabled' = FALSE
    <3>1. answer' = {result}
      BY <2>2 DEF Observe
    <3>2. result.modelDisabled = FALSE
      BY DEF Evaluate
    <3> QED  BY <2>2, <3>1, <3>2
  <2> QED  BY <1>2, <2>1, <2>2
<1> QED  BY <1>1, <1>3 DEF Observe


-------------------------------------------------------------------------------
\* A signal keeps the counter at the length of the run.
LEMMA SignalKeepsCount ==
  ASSUME TypesOK, CountsTheRun, NEW late \in BOOLEAN,
         consecutive' = Counted(late), lates' = Append(lates, late), policy' = policy,
         disabled' \in BOOLEAN
  PROVE  TypesOK' /\ CountsTheRun'
<1> USE CounterMaxAssumption
<1>1. /\ Len(lates) \in Nat /\ Len(lates') = Len(lates) + 1
      /\ lates' \in Seq(BOOLEAN)
      /\ lates'[Len(lates) + 1] = late
      /\ \A j \in 1 .. Len(lates) : lates'[j] = lates[j]
  BY DEF TypesOK
<1>2. consecutive' \in 0 .. CounterMax
  BY DEF Counted, TypesOK
<1>3. TypesOK'
  BY <1>1, <1>2 DEF TypesOK
<1>4. CASE ~ late
  <2>1. consecutive' = 0
    BY <1>4 DEF Counted
  <2>2. AllLate(Len(lates), consecutive)'
    BY <1>1, <2>1 DEF AllLate
  <2>3. ~ lates'[Len(lates') - consecutive']
    BY <1>1, <1>4, <2>1
  <2> QED  BY <1>3, <2>2, <2>3 DEF CountsTheRun
<1>5. CASE late
  <2>1. consecutive \in Nat /\ consecutive <= Len(lates) /\ consecutive <= CounterMax
    BY <1>1 DEF TypesOK, CountsTheRun, AllLate
  <2>2. consecutive' = IF consecutive < CounterMax THEN consecutive + 1 ELSE consecutive
    BY <1>5 DEF Counted
  <2>3. AllLate(Len(lates), consecutive)'
    <3>1. Len(lates') >= consecutive'
      BY <1>1, <2>1, <2>2
    <3>2. ASSUME NEW j \in 1 .. Len(lates'), j > Len(lates') - consecutive' PROVE lates'[j]
      <4>1. CASE j = Len(lates) + 1
        BY <1>1, <1>5, <4>1
      <4>2. CASE j \in 1 .. Len(lates)
        <5>1. j > Len(lates) - consecutive
          BY <1>1, <2>1, <2>2, <3>2, <4>2
        <5> QED  BY <1>1, <4>2, <5>1 DEF CountsTheRun, AllLate
      <4> QED  BY <1>1, <4>1, <4>2
    <3> QED  BY <3>1, <3>2 DEF AllLate
  <2>4. \/ consecutive' = CounterMax
        \/ consecutive' = Len(lates')
        \/ ~ lates'[Len(lates') - consecutive']
    <3>1. CASE consecutive = CounterMax
      BY <2>1, <2>2, <3>1
    <3>2. CASE consecutive # CounterMax /\ consecutive = Len(lates)
      <4>1. consecutive < CounterMax
        BY <2>1, <3>2
      <4>2. consecutive' = Len(lates')
        BY <1>1, <2>2, <3>2, <4>1
      <4> QED  BY <4>2
    <3>3. CASE consecutive # CounterMax /\ consecutive # Len(lates)
      <4>1. ~ lates[Len(lates) - consecutive]
        BY <3>3 DEF CountsTheRun
      <4>2. Len(lates') - consecutive' = Len(lates) - consecutive
        BY <1>1, <2>1, <2>2, <3>3
      <4>3. Len(lates) - consecutive \in 1 .. Len(lates)
        BY <1>1, <2>1, <3>3
      <4> QED  BY <1>1, <4>1, <4>2, <4>3
    <3> QED  BY <3>1, <3>2, <3>3
  <2> QED  BY <1>3, <2>3, <2>4 DEF CountsTheRun
<1> QED  BY <1>3, <1>4, <1>5

\* A signal keeps the latch: a run that is long enough is in the history before
\* it, or is the one that the longer history ends in.
LEMMA SignalKeepsLatch ==
  ASSUME TypesOK, CountsTheRun, Latch, TypesOK', CountsTheRun', NEW late \in BOOLEAN,
         lates' = Append(lates, late), policy' = policy,
         disabled' = (disabled \/ Disables(consecutive'))
  PROVE  Latch'
<1> USE CounterMaxAssumption, PoliciesAssumption
<1> DEFINE n == policy.maxLate
<1>1. /\ Len(lates) \in Nat /\ Len(lates') = Len(lates) + 1
      /\ \A j \in 1 .. Len(lates) : lates'[j] = lates[j]
      /\ n \in 0 .. CounterMax /\ policy.disables \in BOOLEAN
  BY DEF TypesOK
<1>2. CASE ~ (policy.disables /\ n > 0)
  BY <1>2 DEF Latch, Disables
<1>3. CASE policy.disables /\ n > 0
  <2>1. n \in 1 .. CounterMax
    BY <1>1, <1>3
  <2>2. disabled <=> \E k \in 1 .. Len(lates) : AllLate(k, n)
    BY <1>3 DEF Latch
  <2>3. Disables(consecutive') <=> AllLate(Len(lates), n)'
    <3>1. /\ lates' \in Seq(BOOLEAN) /\ consecutive' \in 0 .. CounterMax
          /\ consecutive' <= Len(lates')
          /\ \A j \in 1 .. Len(lates') : j > Len(lates') - consecutive' => lates'[j]
          /\ \/ consecutive' = CounterMax
             \/ consecutive' = Len(lates')
             \/ ~ lates'[Len(lates') - consecutive']
      BY DEF TypesOK, CountsTheRun, AllLate
    <3>2. consecutive' >= n
            <=> Len(lates') >= n /\ \A j \in 1 .. Len(lates') : j > Len(lates') - n => lates'[j]
      BY <2>1, <3>1, ReachedIffRun
    <3>3. consecutive' >= n <=> AllLate(Len(lates), n)'
      BY <3>2 DEF AllLate
    <3> QED  BY <1>3, <3>3 DEF Disables
  <2>4. \A k \in 1 .. Len(lates) : AllLate(k, n) <=> AllLate(k, n)'
    BY <1>1 DEF AllLate
  <2>5. (\E k \in 1 .. Len(lates') : AllLate(k, n)')
          <=> (disabled \/ Disables(consecutive'))
    BY <1>1, <2>2, <2>3, <2>4
  <2> QED  BY <1>3, <2>5 DEF Latch
<1> QED  BY <1>2, <1>3

LEMMA GateInvStep == GateInv /\ [Next]_vars => GateInv'
<1> SUFFICES ASSUME GateInv, [Next]_vars PROVE GateInv'  OBVIOUS
<1> USE DEF GateInv
<1>1. ASSUME NEW latency, NEW signal, NEW now, Observe(latency, signal, now)
      PROVE  GateInv'
  <2>1. PICK late \in BOOLEAN :
           /\ consecutive' = Counted(late)
           /\ disabled' = (disabled \/ Disables(consecutive'))
           /\ lates' = Append(lates, late)
           /\ \A a \in answer' : a.modelDisabled = disabled' /\ (disabled' => ~ a.accepted)
           /\ policy' = policy
    BY <1>1, ObserveStep
  <2>2. TypesOK' /\ CountsTheRun'
    BY <2>1, SignalKeepsCount
  <2>3. Latch'
    BY <2>1, <2>2, SignalKeepsLatch
  <2> QED  BY <2>1, <2>2, <2>3 DEF Answers
<1>2. CASE Reset
  <2>1. TypesOK'
    <3>1. lates' \in Seq(BOOLEAN)
      BY <1>2 DEF Reset
    <3>2. consecutive' \in 0 .. CounterMax
      BY <1>2, CounterMaxAssumption DEF Reset
    <3>3. disabled' \in BOOLEAN /\ policy' \in Policies
      BY <1>2 DEF Reset, TypesOK
    <3> QED  BY <3>1, <3>2, <3>3 DEF TypesOK
  <2>2. CountsTheRun' /\ Latch' /\ Answers'
    BY <1>2 DEF Reset, CountsTheRun, Latch, Answers, AllLate
  <2> QED  BY <2>1, <2>2
<1>3. CASE UNCHANGED vars
  BY <1>3 DEF vars, TypesOK, CountsTheRun, Latch, Answers, AllLate
<1> QED  BY <1>1, <1>2, <1>3 DEF Next

LEMMA GateAlways == Spec => []GateInv
BY GateInvInit, GateInvStep, PTL DEF Spec

LEMMA GateHolds == GateInv => DisabledByRunOfLates
BY DEF GateInv, Latch, Answers, DisabledByRunOfLates

-------------------------------------------------------------------------------
(* The choice of a model.                                                  *)

\* A model that scores the features it is given was checked to take as many.
ModelInv ==
  /\ \A s, other \in selection : s = other
  /\ \A s \in selection :
       /\ scoring = "throws" => Model!Throws(s)
       /\ s.active = "Onnx" /\ s.stated =>
            /\ s.metadata \in Metadata
            /\ Model!ValidMetadata(s.metadata)
            /\ ~ Model!ContractError(s.metadata.features, s.metadata.version)

LEMMA ModelStarts == Model!Init => ModelInv
BY DEF Model!Init, ModelInv

\* The checks at the choice of a model establish the invariant.
LEMMA SelectKeepsModel ==
  ASSUME ModelInv, NEW requested, NEW file, NEW metadata \in Metadata, NEW stated \in BOOLEAN,
         Model!Select(requested, file, metadata, stated)
  PROVE  ModelInv'
<1> DEFINE made == Model!Selected(requested, file, metadata, stated)
<1>1. selection' = {made} /\ scoring' = "none" /\ (stated => Model!ValidMetadata(metadata))
  BY DEF Model!Select
<1>2. /\ made.stated = stated /\ made.metadata = metadata
      /\ made.active = "Onnx" /\ stated =>
           ~ Model!ContractError(metadata.features, metadata.version)
  BY DEF Model!Selected
<1> HIDE DEF made
<1>3. /\ \A s, other \in selection' : s = other
      /\ \A s \in selection' : s = made
      /\ scoring' # "throws"
  BY <1>1
<1>4. ASSUME NEW s \in selection', s.active = "Onnx" /\ s.stated
      PROVE  /\ s.metadata \in Metadata
             /\ Model!ValidMetadata(s.metadata)
             /\ ~ Model!ContractError(s.metadata.features, s.metadata.version)
  BY <1>1, <1>2, <1>3, <1>4
<1> QED  BY <1>3, <1>4 DEF ModelInv

\* A score changes nothing but what became of it.
LEMMA ScoreKeepsModel ==
  ASSUME ModelInv, NEW latency, NEW signal, NEW now, Model!Score(latency, signal, now)
  PROVE  ModelInv'
<1>1. PICK s \in selection :
        scoring' = IF Model!Throws(s) THEN "throws"
                   ELSE Model!Evaluate(modelPolicy, latency, signal, now).decision
  BY DEF Model!Score
<1>2. Model!Evaluate(modelPolicy, latency, signal, now).decision # "throws"
  BY DEF Model!Evaluate
<1>3. scoring' = "throws" => Model!Throws(s)
  BY <1>1, <1>2
<1>4. selection' = selection
  BY DEF Model!Score
<1>5. \A other \in selection : Model!Throws(other)' <=> Model!Throws(other)
  BY DEF Model!Throws
<1>6. \A other \in selection : other = s
  BY DEF ModelInv
<1> QED  BY <1>3, <1>4, <1>5, <1>6 DEF ModelInv

LEMMA ModelAlways == Model!Spec => []ModelInv
<1>1. ModelInv /\ [Model!Next]_Model!vars => ModelInv'
  <2> SUFFICES ASSUME ModelInv, [Model!Next]_Model!vars PROVE ModelInv'
    OBVIOUS
  <2>1. CASE UNCHANGED Model!vars
    BY <2>1 DEF ModelInv, Model!vars, Model!Throws
  <2>2. CASE Model!Next
    BY <2>2, SelectKeepsModel, ScoreKeepsModel DEF Model!Next
  <2> QED  BY <2>1, <2>2
<1> QED  BY ModelStarts, <1>1, PTL DEF Model!Spec

\* By the checks, the file has as many inputs as there are features.
LEMMA StatedScores == ModelInv => StatedModelsScore
<1> SUFFICES ASSUME ModelInv, NEW s \in selection, scoring = "throws", s.stated,
                    s.metadata.input = s.file.shape, ~ s.metadata.window > 1
             PROVE  FALSE
  BY DEF StatedModelsScore, Model!StatedModelsScore
<1>1. s.active = "Onnx" /\ Model!Product(s.file.shape) # FeatureCount
  BY DEF ModelInv, Model!Throws
<1>2. /\ s.metadata \in Metadata
      /\ Model!ValidMetadata(s.metadata)
      /\ ~ Model!ContractError(s.metadata.features, s.metadata.version)
  BY <1>1 DEF ModelInv
<1>3. s.metadata.features \in Nat /\ s.metadata.window \in Nat
  BY <1>2, MetadataAssumption
<1>4. /\ s.metadata.features > 0 /\ s.metadata.window > 0
      /\ Model!ValueCount(s.metadata.input) # 0
      /\ Model!ValueCount(s.metadata.input) = s.metadata.features * s.metadata.window
  BY <1>2 DEF Model!ValidMetadata
<1>5. s.metadata.window = 1 /\ s.metadata.features * 1 = s.metadata.features
  BY <1>3, <1>4
<1>6. Model!ValueCount(s.metadata.input) = s.metadata.features
  BY <1>4, <1>5
<1>7. Model!ValueCount(s.metadata.input) = Model!Product(s.metadata.input)
  BY <1>4 DEF Model!ValueCount
<1>8. s.metadata.features = FeatureCount
  BY <1>2, <1>3, <1>4 DEF Model!ContractError
<1> QED  BY <1>1, <1>6, <1>7, <1>8

-------------------------------------------------------------------------------
(* Sums.                                                                   *)

Pick(S) == CHOOSE x \in S : TRUE

\* What a sum over a set is, given the sums over smaller ones.
AddedUp(terms, S, sums) == IF S = {} THEN 0 ELSE terms[Pick(S)] + sums[S \ {Pick(S)}]

\* The sums over all sets of indices; and over the sets of at most n of them.
SumsAll(terms, sums) == sums = [S \in SUBSET DOMAIN terms |-> AddedUp(terms, S, sums)]
Small(D, n) == {S \in SUBSET D : Cardinality(S) <= n}
SumsSmall(terms, n, sums) == sums = [S \in Small(DOMAIN terms, n) |-> AddedUp(terms, S, sums)]

SumOn(terms, S) == (CHOOSE sums : SumsAll(terms, sums))[S]

\* Total is the sum over all indices.
LEMMA TotalIsSum ==
  ASSUME NEW terms PROVE Portfolio!Total(terms) = SumOn(terms, DOMAIN terms)
BY DEF Portfolio!Total, Portfolio!FoldFunction, Portfolio!FoldFunctionOnSet,
       Portfolio!MapThenFoldSet, SumOn, SumsAll, AddedUp, Pick

\* A set without one of its elements has one less.
LEMMA OneLess ==
  ASSUME NEW D, IsFiniteSet(D), NEW S \in SUBSET D, S # {}
  PROVE  /\ Pick(S) \in S /\ IsFiniteSet(S) /\ Cardinality(S) \in Nat \ {0}
         /\ \A x \in S : S \ {x} \in SUBSET D /\ Cardinality(S \ {x}) = Cardinality(S) - 1
<1>1. Pick(S) \in S
  BY DEF Pick
<1>2. IsFiniteSet(S)
  BY FS_Subset
<1>3. Cardinality(S) \in Nat /\ Cardinality(S) # 0
  BY <1>2, FS_CardinalityType, FS_EmptySet
<1>4. ASSUME NEW x \in S PROVE S \ {x} \in SUBSET D /\ Cardinality(S \ {x}) = Cardinality(S) - 1
  BY <1>2, FS_RemoveElement
<1> QED  BY <1>1, <1>2, <1>3, <1>4

LEMMA SumsOfSmall ==
  ASSUME NEW terms, IsFiniteSet(DOMAIN terms), NEW n \in Nat
  PROVE  \E sums : SumsSmall(terms, n, sums)
<1> DEFINE D == DOMAIN terms
           N == {k \in Nat : \E sums : SumsSmall(terms, k, sums)}
<1>1. 0 \in N
  <2> DEFINE sums == [S \in Small(D, 0) |-> 0]
  <2>1. \A S \in Small(D, 0) : S = {}
    <3>1. ASSUME NEW S \in SUBSET D, S # {} PROVE ~ Cardinality(S) <= 0
      BY <3>1, OneLess
    <3> QED  BY <3>1 DEF Small
  <2>2. \A S \in Small(D, 0) : AddedUp(terms, S, sums) = 0
    BY <2>1 DEF AddedUp
  <2>3. sums = [S \in Small(D, 0) |-> AddedUp(terms, S, sums)]
    BY <2>2
  <2>4. SumsSmall(terms, 0, sums)
    BY <2>3 DEF SumsSmall
  <2> QED  BY <2>4
<1>2. ASSUME NEW k \in N PROVE k + 1 \in N
  <2>1. PICK less : SumsSmall(terms, k, less)
    BY <1>2
  <2>2. k \in Nat
    BY <1>2
  <2> DEFINE sums == [S \in Small(D, k + 1) |-> AddedUp(terms, S, less)]
  <2>3. ASSUME NEW S \in Small(D, k) PROVE S \in Small(D, k + 1) /\ sums[S] = less[S]
    <3>1. S \in SUBSET D /\ Cardinality(S) <= k
      BY DEF Small
    <3>2. IsFiniteSet(S) /\ Cardinality(S) \in Nat
      BY <3>1, FS_Subset, FS_CardinalityType
    <3>3. S \in Small(D, k + 1)
      BY <2>2, <3>1, <3>2 DEF Small
    <3>4. less[S] = AddedUp(terms, S, less)
      BY <2>1 DEF SumsSmall
    <3> QED  BY <3>3, <3>4
  <2>4. ASSUME NEW S \in Small(D, k + 1) PROVE AddedUp(terms, S, less) = AddedUp(terms, S, sums)
    <3>1. CASE S = {}
      BY <3>1 DEF AddedUp
    <3>2. CASE S # {}
      <4>1. S \in SUBSET D /\ Cardinality(S) <= k + 1
        BY DEF Small
      <4>2. /\ S \ {Pick(S)} \in SUBSET D /\ Cardinality(S) \in Nat
            /\ Cardinality(S \ {Pick(S)}) = Cardinality(S) - 1
        BY <3>2, <4>1, OneLess
      <4>3. S \ {Pick(S)} \in Small(D, k)
        BY <2>2, <4>1, <4>2 DEF Small
      <4>4. sums[S \ {Pick(S)}] = less[S \ {Pick(S)}]
        BY <2>3, <4>3
      <4> HIDE DEF sums
      <4> QED  BY <4>4 DEF AddedUp
    <3> QED  BY <3>1, <3>2
  <2>5. sums = [S \in Small(D, k + 1) |-> AddedUp(terms, S, sums)]
    BY <2>4
  <2>6. SumsSmall(terms, k + 1, sums)
    BY <2>5 DEF SumsSmall
  <2> QED  BY <2>2, <2>6
<1>3. N = Nat
  <2> HIDE DEF N
  <2>1. N \in SUBSET Nat
    BY DEF N
  <2> QED  BY <1>1, <1>2, <2>1, Induct
<1> QED  BY <1>3

\* The sum over nothing is 0, and over a set it is that of one element and the rest.
Sums(terms) ==
  /\ SumOn(terms, {}) = 0
  /\ \A S \in SUBSET DOMAIN terms : S # {} =>
        SumOn(terms, S) = terms[Pick(S)] + SumOn(terms, S \ {Pick(S)})

LEMMA SumsUp ==
  ASSUME NEW terms, IsFiniteSet(DOMAIN terms) PROVE Sums(terms)
<1> DEFINE D == DOMAIN terms
           all == CHOOSE sums : SumsAll(terms, sums)
<1>1. Cardinality(D) \in Nat
  BY FS_CardinalityType
<1>2. PICK sums : SumsSmall(terms, Cardinality(D), sums)
  BY <1>1, SumsOfSmall
<1>3. Small(D, Cardinality(D)) = SUBSET D
  BY FS_Subset DEF Small
<1>4. SumsAll(terms, sums)
  BY <1>2, <1>3 DEF SumsAll, SumsSmall
<1>5. SumsAll(terms, all)
  BY <1>4
<1>6. \A S : SumOn(terms, S) = all[S]
  BY DEF SumOn
<1> HIDE DEF all
<1>7. \A S \in SUBSET D : all[S] = AddedUp(terms, S, all)
  BY <1>5 DEF SumsAll
<1>8. SumOn(terms, {}) = 0
  BY <1>6, <1>7 DEF AddedUp
<1>9. ASSUME NEW S \in SUBSET D, S # {}
      PROVE  SumOn(terms, S) = terms[Pick(S)] + SumOn(terms, S \ {Pick(S)})
  BY <1>6, <1>7, <1>9 DEF AddedUp
<1> QED  BY <1>8, <1>9 DEF Sums

\* Terms to be added up: finitely many integers.
Terms(terms) == IsFiniteSet(DOMAIN terms) /\ \A x \in DOMAIN terms : terms[x] \in Int

LEMMA SumIsInt ==
  ASSUME NEW terms, Terms(terms), NEW S \in SUBSET DOMAIN terms
  PROVE  SumOn(terms, S) \in Int
<1> DEFINE D == DOMAIN terms
           N == {n \in Nat : \A T \in SUBSET D : Cardinality(T) = n => SumOn(terms, T) \in Int}
<1>1. IsFiniteSet(D) /\ Sums(terms)
  BY SumsUp DEF Terms
<1>2. 0 \in N
  <2>1. ASSUME NEW T \in SUBSET D, Cardinality(T) = 0 PROVE SumOn(terms, T) \in Int
    <3>1. T = {}
      BY <1>1, <2>1, OneLess
    <3> QED  BY <1>1, <3>1 DEF Sums
  <2> QED  BY <2>1
<1>3. ASSUME NEW n \in N PROVE n + 1 \in N
  <2>1. ASSUME NEW T \in SUBSET D, Cardinality(T) = n + 1 PROVE SumOn(terms, T) \in Int
    <3>1. T # {}
      BY <2>1, FS_EmptySet
    <3>2. Pick(T) \in D /\ T \ {Pick(T)} \in SUBSET D /\ Cardinality(T \ {Pick(T)}) = n
      <4>1. /\ Pick(T) \in T /\ T \ {Pick(T)} \in SUBSET D
            /\ Cardinality(T \ {Pick(T)}) = (n + 1) - 1
        BY <1>1, <2>1, <3>1, OneLess
      <4> QED  BY <4>1
    <3>3. SumOn(terms, T \ {Pick(T)}) \in Int
      BY <3>2
    <3>4. terms[Pick(T)] \in Int
      BY <3>2 DEF Terms
    <3>5. SumOn(terms, T) = terms[Pick(T)] + SumOn(terms, T \ {Pick(T)})
      BY <1>1, <3>1 DEF Sums
    <3> QED  BY <3>3, <3>4, <3>5
  <2> QED  BY <2>1
<1>4. N = Nat
  <2> HIDE DEF N
  <2>1. N \in SUBSET Nat
    BY DEF N
  <2> QED  BY <1>2, <1>3, <2>1, Induct
<1>5. Cardinality(S) \in Nat
  BY <1>1, FS_Subset, FS_CardinalityType
<1> QED  BY <1>4, <1>5

\* Any element may be the one that is added last.
LEMMA TakeOut ==
  ASSUME NEW terms, Terms(terms), NEW S \in SUBSET DOMAIN terms, NEW x \in S
  PROVE  SumOn(terms, S) = terms[x] + SumOn(terms, S \ {x})
<1> DEFINE D == DOMAIN terms
           Out(T) == \A y \in T : SumOn(terms, T) = terms[y] + SumOn(terms, T \ {y})
           N == {n \in Nat : \A T \in SUBSET D : Cardinality(T) = n => Out(T)}
<1>1. IsFiniteSet(D) /\ Sums(terms)
  BY SumsUp DEF Terms
<1>2. 0 \in N
  <2>1. ASSUME NEW T \in SUBSET D, Cardinality(T) = 0 PROVE Out(T)
    <3>1. T = {}
      BY <1>1, <2>1, OneLess
    <3> QED  BY <3>1
  <2> QED  BY <2>1
<1>3. ASSUME NEW n \in N PROVE n + 1 \in N
  <2>1. ASSUME NEW T \in SUBSET D, Cardinality(T) = n + 1, NEW y \in T
        PROVE  SumOn(terms, T) = terms[y] + SumOn(terms, T \ {y})
    <3> DEFINE p == Pick(T)
    <3>1. T # {}
      OBVIOUS
    <3>2. p \in T /\ T \ {p} \in SUBSET D /\ T \ {y} \in SUBSET D
          /\ Cardinality(T \ {p}) = n /\ Cardinality(T \ {y}) = n
      BY <1>1, <2>1, <3>1, OneLess
    <3>3. SumOn(terms, T) = terms[p] + SumOn(terms, T \ {p})
      BY <1>1, <3>1 DEF Sums
    <3> HIDE DEF p
    <3>4. CASE p = y
      BY <3>3, <3>4
    <3>5. CASE p # y
      <4>1. Out(T \ {p}) /\ Out(T \ {y})
        BY <3>2
      <4>2. SumOn(terms, T \ {p}) = terms[y] + SumOn(terms, (T \ {p}) \ {y})
        BY <3>5, <4>1
      <4>3. SumOn(terms, T \ {y}) = terms[p] + SumOn(terms, (T \ {y}) \ {p})
        BY <3>2, <3>5, <4>1
      <4>4. (T \ {p}) \ {y} = (T \ {y}) \ {p}
        OBVIOUS
      <4>5. terms[y] \in Int /\ terms[p] \in Int /\ (T \ {p}) \ {y} \in SUBSET D
        BY <3>2 DEF Terms
      <4>6. SumOn(terms, (T \ {p}) \ {y}) \in Int
        BY <4>5, SumIsInt
      <4> QED  BY <3>3, <4>2, <4>3, <4>4, <4>5, <4>6
    <3> QED  BY <3>4, <3>5
  <2> QED  BY <2>1
<1>4. N = Nat
  <2> HIDE DEF N
  <2>1. N \in SUBSET Nat
    BY DEF N
  <2> QED  BY <1>2, <1>3, <2>1, Induct
<1>5. Cardinality(S) \in Nat
  BY <1>1, FS_Subset, FS_CardinalityType
<1> QED  BY <1>4, <1>5

\* Sums of the differences are the differences of the sums.
LEMMA SumOfDifferences ==
  ASSUME NEW f, NEW g, NEW h, Terms(f), Terms(g), Terms(h),
         NEW S \in SUBSET DOMAIN f, S \in SUBSET DOMAIN g, S \in SUBSET DOMAIN h,
         \A x \in S : h[x] = f[x] - g[x]
  PROVE  SumOn(h, S) = SumOn(f, S) - SumOn(g, S)
<1> DEFINE Fits(T) == SumOn(h, T) = SumOn(f, T) - SumOn(g, T)
           N == {n \in Nat : \A T \in SUBSET S : Cardinality(T) = n => Fits(T)}
<1>1. IsFiniteSet(S) /\ Sums(f) /\ Sums(g) /\ Sums(h)
  BY SumsUp, FS_Subset DEF Terms
<1>2. 0 \in N
  <2>1. ASSUME NEW T \in SUBSET S, Cardinality(T) = 0 PROVE Fits(T)
    <3>1. T = {}
      BY <1>1, <2>1, OneLess
    <3> QED  BY <1>1, <3>1 DEF Sums
  <2> QED  BY <2>1
<1>3. ASSUME NEW n \in N PROVE n + 1 \in N
  <2>1. ASSUME NEW T \in SUBSET S, Cardinality(T) = n + 1 PROVE Fits(T)
    <3> DEFINE p == Pick(T)  rest == T \ {p}
    <3>1. T # {}
      BY <2>1, FS_EmptySet
    <3>2. p \in S /\ rest \in SUBSET S /\ Cardinality(rest) = n
      BY <1>1, <2>1, <3>1, OneLess
    <3>3. Fits(rest)
      BY <3>2
    <3>4. /\ SumOn(h, T) = h[p] + SumOn(h, rest)
          /\ SumOn(f, T) = f[p] + SumOn(f, rest)
          /\ SumOn(g, T) = g[p] + SumOn(g, rest)
      BY <1>1, <3>1 DEF Sums
    <3>5. SumOn(f, rest) \in Int /\ SumOn(g, rest) \in Int
      BY <3>2, SumIsInt
    <3>6. f[p] \in Int /\ g[p] \in Int /\ h[p] = f[p] - g[p]
      BY <3>2 DEF Terms
    <3> HIDE DEF p, rest
    <3> QED  BY <3>3, <3>4, <3>5, <3>6
  <2> QED  BY <2>1
<1>4. N = Nat
  <2> HIDE DEF N
  <2>1. N \in SUBSET Nat
    BY DEF N
  <2> QED  BY <1>2, <1>3, <2>1, Induct
<1>5. Cardinality(S) \in Nat
  BY <1>1, FS_CardinalityType
<1> QED  BY <1>4, <1>5

\* So sums of the same are the same.
LEMMA SumOfSame ==
  ASSUME NEW f, NEW h, Terms(f), Terms(h),
         NEW S \in SUBSET DOMAIN f, S \in SUBSET DOMAIN h, \A x \in S : h[x] = f[x]
  PROVE  SumOn(h, S) = SumOn(f, S)
<1> DEFINE zero == [x \in S |-> 0]
           none == [x \in S |-> h[x] - f[x]]
<1>1. \A x \in S : h[x] \in Int /\ f[x] \in Int /\ none[x] = 0 /\ zero[x] = 0
  BY DEF Terms
<1>2. IsFiniteSet(S)
  BY FS_Subset DEF Terms
<1>3. Terms(zero)
  BY <1>2 DEF Terms
<1>4. SumOn(zero, S) = SumOn(h, S) - SumOn(f, S)
  <2>1. \A x \in S : zero[x] = h[x] - f[x]
    BY <1>1
  <2>2. S \in SUBSET DOMAIN zero
    OBVIOUS
  <2> HIDE DEF zero
  <2> QED  BY <1>3, <2>1, <2>2, SumOfDifferences
<1>5. SumOn(zero, S) = SumOn(zero, S) - SumOn(zero, S)
  <2>1. \A x \in S : zero[x] = zero[x] - zero[x]
    OBVIOUS
  <2>2. S \in SUBSET DOMAIN zero
    OBVIOUS
  <2> HIDE DEF zero
  <2> QED  BY <1>3, <2>1, <2>2, SumOfDifferences
<1>6. SumOn(zero, S) \in Int /\ SumOn(h, S) \in Int /\ SumOn(f, S) \in Int
  <2>1. S \in SUBSET DOMAIN zero
    OBVIOUS
  <2> HIDE DEF zero
  <2> QED  BY <1>3, <2>1, SumIsInt
<1>7. \A x, y, z \in Int : z = x - y /\ z = z - z => x = y
  OBVIOUS
<1> HIDE DEF zero
<1> QED  BY <1>4, <1>5, <1>6, <1>7, Zenon

\* A total in which one term is changed, or new.
LEMMA TotalChanges ==
  ASSUME NEW f, NEW h, Terms(f), Terms(h), NEW s, DOMAIN h = DOMAIN f \cup {s},
         \A x \in DOMAIN f \ {s} : h[x] = f[x]
  PROVE  /\ Portfolio!Total(f) \in Int /\ Portfolio!Total(h) \in Int
         /\ Portfolio!Total(h) = Portfolio!Total(f)
                                 - (IF s \in DOMAIN f THEN f[s] ELSE 0) + h[s]
<1> DEFINE S == DOMAIN f \ {s}
<1>1. Portfolio!Total(f) = SumOn(f, DOMAIN f) /\ Portfolio!Total(h) = SumOn(h, DOMAIN h)
  BY TotalIsSum
<1>2. SumOn(f, DOMAIN f) \in Int /\ SumOn(h, DOMAIN h) \in Int
      /\ SumOn(f, S) \in Int
  BY SumIsInt
<1>3. SumOn(h, S) = SumOn(f, S)
  <2>1. S \in SUBSET DOMAIN f /\ S \in SUBSET DOMAIN h /\ \A x \in S : h[x] = f[x]
    OBVIOUS
  <2> HIDE DEF S
  <2> QED  BY <2>1, SumOfSame
<1>4. SumOn(h, DOMAIN h) = h[s] + SumOn(h, S)
  <2>1. s \in DOMAIN h /\ DOMAIN h \ {s} = S
    OBVIOUS
  <2> HIDE DEF S
  <2> QED  BY <2>1, TakeOut
<1>5. h[s] \in Int
  BY DEF Terms
<1>6. CASE s \in DOMAIN f
  <2>1. SumOn(f, DOMAIN f) = f[s] + SumOn(f, S)
    BY <1>6, TakeOut
  <2>2. f[s] \in Int
    BY <1>6 DEF Terms
  <2> HIDE DEF S
  <2> QED  BY <1>1, <1>2, <1>3, <1>4, <1>5, <1>6, <2>1, <2>2
<1>7. CASE s \notin DOMAIN f
  <2>1. S = DOMAIN f
    BY <1>7
  <2> HIDE DEF S
  <2> QED  BY <1>1, <1>2, <1>3, <1>4, <1>5, <1>7, <2>1
<1> QED  BY <1>6, <1>7

-------------------------------------------------------------------------------
(* The portfolio.                                                          *)

Holdings == [quantity : Int, average : Int, mark : {{}} \cup {{p} : p \in Prices}]

Held(held) == IsFiniteSet(DOMAIN held) /\ \A s \in DOMAIN held : held[s] \in Holdings

\* What a position was bought for.
CostOf(position) == position.quantity * position.average
Cost(held) == Portfolio!Total([s \in DOMAIN held |-> CostOf(held[s])])

\* What a position is worth, with and without regard to its side.
WorthOf(position) == position.quantity * Portfolio!MarkOf(position)
GrossOf(position) == Portfolio!Magnitude(position.quantity) * Portfolio!MarkOf(position)

\* In numbers, the product of two integers is one.
LEMMA Product == \A x, y \in Int : x * y \in Int
OBVIOUS

LEMMA MagnitudeIs == \A x \in Int : Portfolio!Magnitude(x) \in Nat
                       /\ (x >= 0 => Portfolio!Magnitude(x) = x)
                       /\ (x <= 0 => Portfolio!Magnitude(x) = - x)
BY DEF Portfolio!Magnitude

LEMMA MarkIsInt ==
  ASSUME NEW p \in Holdings
  PROVE  /\ Portfolio!MarkOf(p) \in Int
         /\ p.mark # {} => Portfolio!MarkOf(p) \in Nat
<1>1. p.average \in Int /\ p.mark \in {{}} \cup {{x} : x \in Prices}
  BY DEF Holdings
<1>2. CASE p.mark = {}
  BY <1>1, <1>2 DEF Portfolio!MarkOf
<1>3. CASE p.mark # {}
  <2>1. PICK x \in Prices : p.mark = {x}
    BY <1>1, <1>3
  <2>2. x \in Nat
    BY PortfolioAssumption
  <2>3. (CHOOSE m \in p.mark : TRUE) = x
    BY <2>1
  <2>4. Portfolio!MarkOf(p) = x
    BY <1>3, <2>3 DEF Portfolio!MarkOf
  <2> QED  BY <1>3, <2>2, <2>4
<1> QED  BY <1>2, <1>3

\* What the values of a position are.
LEMMA ValuesAreInts ==
  ASSUME NEW p \in Holdings
  PROVE  CostOf(p) \in Int /\ WorthOf(p) \in Int /\ GrossOf(p) \in Int
<1>1. p.quantity \in Int /\ p.average \in Int /\ Portfolio!Magnitude(p.quantity) \in Int
  BY MagnitudeIs DEF Holdings
<1>2. Portfolio!MarkOf(p) \in Int
  BY MarkIsInt
<1>3. CostOf(p) \in Int
  BY <1>1, Product DEF CostOf
<1>4. WorthOf(p) \in Int
  BY <1>1, <1>2, Product DEF WorthOf
<1>5. GrossOf(p) \in Int
  BY <1>1, <1>2, Product DEF GrossOf
<1> QED  BY <1>3, <1>4, <1>5

LEMMA NothingHeld ==
  /\ Portfolio!NoPosition \in Holdings
  /\ CostOf(Portfolio!NoPosition) = 0 /\ WorthOf(Portfolio!NoPosition) = 0
  /\ GrossOf(Portfolio!NoPosition) = 0
<1>1. /\ Portfolio!NoPosition \in Holdings
      /\ Portfolio!NoPosition.quantity = 0 /\ Portfolio!NoPosition.average = 0
      /\ Portfolio!NoPosition.mark = {}
  BY DEF Portfolio!NoPosition, Holdings
<1>2. Portfolio!MarkOf(Portfolio!NoPosition) = 0 /\ Portfolio!Magnitude(0) = 0
  BY <1>1, MagnitudeIs DEF Portfolio!MarkOf
<1>3. CostOf(Portfolio!NoPosition) = 0
  BY <1>1 DEF CostOf
<1>4. WorthOf(Portfolio!NoPosition) = 0
  BY <1>1, <1>2 DEF WorthOf
<1>5. GrossOf(Portfolio!NoPosition) = 0
  BY <1>1, <1>2 DEF GrossOf
<1> QED  BY <1>1, <1>3, <1>4, <1>5

\* A position put in the place of another: what that does to the positions.
PutIn(held, s, after) ==
  /\ IsFiniteSet(DOMAIN held) /\ IsFiniteSet(DOMAIN after)
  /\ DOMAIN after = DOMAIN held \cup {s}
  /\ \A x \in DOMAIN held \ {s} : after[x] = held[x]

LEMMA PutPuts ==
  ASSUME NEW held, Held(held), NEW s, NEW p \in Holdings
  PROVE  /\ PutIn(held, s, Portfolio!Put(held, s, p))
         /\ Portfolio!Put(held, s, p)[s] = p
         /\ Held(Portfolio!Put(held, s, p))
         /\ Portfolio!PositionOf(held, s) \in Holdings
<1> DEFINE after == Portfolio!Put(held, s, p)
<1>1. after = [x \in DOMAIN held \cup {s} |-> IF x = s THEN p ELSE held[x]]
  BY DEF Portfolio!Put
<1>2. IsFiniteSet(DOMAIN held) /\ IsFiniteSet(DOMAIN held \cup {s})
  BY FS_AddElement DEF Held
<1> HIDE DEF after
<1>3. /\ DOMAIN after = DOMAIN held \cup {s} /\ after[s] = p
      /\ \A x \in DOMAIN held \ {s} : after[x] = held[x]
  BY <1>1
<1>4. PutIn(held, s, after)
  BY <1>2, <1>3 DEF PutIn
<1>5. ASSUME NEW x \in DOMAIN after PROVE after[x] \in Holdings
  BY <1>3 DEF Held
<1>6. Held(after)
  BY <1>2, <1>3, <1>5 DEF Held
<1>7. Portfolio!PositionOf(held, s) \in Holdings
  BY NothingHeld DEF Portfolio!PositionOf, Held
<1> QED  BY <1>3, <1>4, <1>6, <1>7 DEF after

\* The sums over the portfolio change by what the position does.
LEMMA CostChanges ==
  ASSUME NEW held, Held(held), NEW s, NEW p \in Holdings
  PROVE  /\ Cost(held) \in Int
         /\ Cost(Portfolio!Put(held, s, p))
              = Cost(held) - CostOf(Portfolio!PositionOf(held, s)) + CostOf(p)
<1> DEFINE after == Portfolio!Put(held, s, p)
           f == [x \in DOMAIN held |-> CostOf(held[x])]
           h == [x \in DOMAIN after |-> CostOf(after[x])]
<1>1. PutIn(held, s, after) /\ after[s] = p /\ Held(after)
  BY PutPuts
<1> HIDE DEF after
<1>2. Terms(f) /\ Terms(h)
  BY <1>1, ValuesAreInts DEF Held, Terms
<1>3. /\ DOMAIN f = DOMAIN held /\ DOMAIN h = DOMAIN f \cup {s} /\ h[s] = CostOf(p)
      /\ \A x \in DOMAIN f \ {s} : h[x] = f[x]
      /\ \A x \in DOMAIN f : f[x] = CostOf(held[x])
  BY <1>1 DEF PutIn
<1>4. Cost(held) = Portfolio!Total(f) /\ Cost(after) = Portfolio!Total(h)
  BY DEF Cost
<1> HIDE DEF f, h
<1>5. /\ Portfolio!Total(f) \in Int
      /\ Portfolio!Total(h) = Portfolio!Total(f) - (IF s \in DOMAIN f THEN f[s] ELSE 0) + h[s]
  BY <1>2, <1>3, TotalChanges
<1>6. (IF s \in DOMAIN f THEN f[s] ELSE 0) = CostOf(Portfolio!PositionOf(held, s))
  BY <1>3, NothingHeld DEF Portfolio!PositionOf
<1> QED  BY <1>3, <1>4, <1>5, <1>6 DEF after

LEMMA WorthChanges ==
  ASSUME NEW held, Held(held), NEW s, NEW p \in Holdings
  PROVE  /\ Portfolio!Worth(held) \in Int
         /\ Portfolio!Worth(Portfolio!Put(held, s, p))
              = Portfolio!Worth(held) - WorthOf(Portfolio!PositionOf(held, s)) + WorthOf(p)
<1> DEFINE after == Portfolio!Put(held, s, p)
           f == [x \in DOMAIN held |-> WorthOf(held[x])]
           h == [x \in DOMAIN after |-> WorthOf(after[x])]
<1>1. PutIn(held, s, after) /\ after[s] = p /\ Held(after)
  BY PutPuts
<1> HIDE DEF after
<1>2. Terms(f) /\ Terms(h)
  BY <1>1, ValuesAreInts DEF Held, Terms
<1>3. /\ DOMAIN f = DOMAIN held /\ DOMAIN h = DOMAIN f \cup {s} /\ h[s] = WorthOf(p)
      /\ \A x \in DOMAIN f \ {s} : h[x] = f[x]
      /\ \A x \in DOMAIN f : f[x] = WorthOf(held[x])
  BY <1>1 DEF PutIn
<1>4. Portfolio!Worth(held) = Portfolio!Total(f) /\ Portfolio!Worth(after) = Portfolio!Total(h)
  BY DEF Portfolio!Worth, WorthOf
<1> HIDE DEF f, h
<1>5. /\ Portfolio!Total(f) \in Int
      /\ Portfolio!Total(h) = Portfolio!Total(f) - (IF s \in DOMAIN f THEN f[s] ELSE 0) + h[s]
  BY <1>2, <1>3, TotalChanges
<1>6. (IF s \in DOMAIN f THEN f[s] ELSE 0) = WorthOf(Portfolio!PositionOf(held, s))
  BY <1>3, NothingHeld DEF Portfolio!PositionOf
<1> QED  BY <1>3, <1>4, <1>5, <1>6 DEF after

LEMMA GrossChanges ==
  ASSUME NEW held, Held(held), NEW s, NEW p \in Holdings
  PROVE  /\ Portfolio!Gross(held) \in Int
         /\ Portfolio!Gross(Portfolio!Put(held, s, p))
              = Portfolio!Gross(held) - GrossOf(Portfolio!PositionOf(held, s)) + GrossOf(p)
<1> DEFINE after == Portfolio!Put(held, s, p)
           f == [x \in DOMAIN held |-> GrossOf(held[x])]
           h == [x \in DOMAIN after |-> GrossOf(after[x])]
<1>1. PutIn(held, s, after) /\ after[s] = p /\ Held(after)
  BY PutPuts
<1> HIDE DEF after
<1>2. Terms(f) /\ Terms(h)
  BY <1>1, ValuesAreInts DEF Held, Terms
<1>3. /\ DOMAIN f = DOMAIN held /\ DOMAIN h = DOMAIN f \cup {s} /\ h[s] = GrossOf(p)
      /\ \A x \in DOMAIN f \ {s} : h[x] = f[x]
      /\ \A x \in DOMAIN f : f[x] = GrossOf(held[x])
  BY <1>1 DEF PutIn
<1>4. Portfolio!Gross(held) = Portfolio!Total(f) /\ Portfolio!Gross(after) = Portfolio!Total(h)
  BY DEF Portfolio!Gross, GrossOf
<1> HIDE DEF f, h
<1>5. /\ Portfolio!Total(f) \in Int
      /\ Portfolio!Total(h) = Portfolio!Total(f) - (IF s \in DOMAIN f THEN f[s] ELSE 0) + h[s]
  BY <1>2, <1>3, TotalChanges
<1>6. (IF s \in DOMAIN f THEN f[s] ELSE 0) = GrossOf(Portfolio!PositionOf(held, s))
  BY <1>3, NothingHeld DEF Portfolio!PositionOf
<1> QED  BY <1>3, <1>4, <1>5, <1>6 DEF after

\* A profit not realised is what the portfolio is worth beyond its cost.
LEMMA UnrealisedIsWorthLessCost ==
  ASSUME NEW held, Held(held)
  PROVE  /\ Portfolio!Unrealised(held) = Portfolio!Worth(held) - Cost(held)
         /\ Portfolio!Worth(held) \in Int /\ Cost(held) \in Int
<1> DEFINE D == DOMAIN held
           f == [x \in D |-> WorthOf(held[x])]
           g == [x \in D |-> CostOf(held[x])]
           h == [x \in D |-> (Portfolio!MarkOf(held[x]) - held[x].average) * held[x].quantity]
<1>1. /\ Portfolio!Worth(held) = Portfolio!Total(f) /\ Cost(held) = Portfolio!Total(g)
      /\ Portfolio!Unrealised(held) = Portfolio!Total(h)
  BY DEF Portfolio!Worth, WorthOf, Cost, Portfolio!Unrealised
<1>2. ASSUME NEW x \in D
      PROVE  h[x] = f[x] - g[x] /\ f[x] \in Int /\ g[x] \in Int /\ h[x] \in Int
  <2> DEFINE p == held[x]  m == Portfolio!MarkOf(p)
  <2>1. p \in Holdings
    BY DEF Held
  <2>2. p.quantity \in Int /\ p.average \in Int /\ m \in Int
    BY <2>1, MarkIsInt DEF Holdings
  <2>3. f[x] = p.quantity * m /\ g[x] = p.quantity * p.average
        /\ h[x] = (m - p.average) * p.quantity
    BY DEF WorthOf, CostOf
  <2> HIDE DEF p, m, f, g, h
  <2>4. \A q, a, k \in Int : (k - a) * q = q * k - q * a
    OBVIOUS
  <2>5. p.quantity * m \in Int /\ p.quantity * p.average \in Int
    BY <2>2, Product
  <2> QED  BY <2>2, <2>3, <2>4, <2>5
<1>3. IsFiniteSet(D) /\ DOMAIN f = D /\ DOMAIN g = D /\ DOMAIN h = D
  BY DEF Held
<1> HIDE DEF D, f, g, h
<1>4. Terms(f) /\ Terms(g) /\ Terms(h)
  BY <1>2, <1>3 DEF Terms
<1>5. /\ Portfolio!Total(f) = SumOn(f, D) /\ Portfolio!Total(g) = SumOn(g, D)
      /\ Portfolio!Total(h) = SumOn(h, D)
  BY <1>3, TotalIsSum
<1>6. SumOn(h, D) = SumOn(f, D) - SumOn(g, D)
  BY <1>2, <1>3, <1>4, SumOfDifferences
<1>7. SumOn(f, D) \in Int /\ SumOn(g, D) \in Int
  BY <1>3, <1>4, SumIsInt
<1> QED  BY <1>1, <1>5, <1>6, <1>7

\* The division of C++ loses less than the divisor.
LEMMA QuotientLoses ==
  ASSUME NEW x \in Int, NEW y \in Nat \ {0}
  PROVE  /\ Portfolio!Quotient(x, y) \in Int
         /\ x - y * Portfolio!Quotient(x, y) \in - (y - 1) .. y - 1
<1>1. CASE x < 0
  <2> DEFINE k == (- x) \div y  r == (- x) % y
  <2>1. k \in Int /\ r \in 0 .. y - 1 /\ - x = y * k + r
    BY <1>1
  <2>2. Portfolio!Quotient(x, y) = - k
    BY <1>1 DEF Portfolio!Quotient
  <2> HIDE DEF k, r
  <2>3. x - y * (- k) = - r
    BY <2>1
  <2> QED  BY <2>1, <2>2, <2>3
<1>2. CASE ~ x < 0
  <2> DEFINE k == x \div y  r == x % y
  <2>1. k \in Int /\ r \in 0 .. y - 1 /\ x = y * k + r
    BY <1>2
  <2>2. Portfolio!Quotient(x, y) = k
    BY <1>2 DEF Portfolio!Quotient
  <2> HIDE DEF k, r
  <2>3. x - y * k = r
    BY <2>1
  <2> QED  BY <2>1, <2>2, <2>3
<1> QED  BY <1>1, <1>2

LEMMA Signs ==
  /\ \A x, y \in Int : x > 0 /\ y > 0 => x * y > 0
  /\ \A x, y \in Int : x < 0 /\ y < 0 => x * y > 0
  /\ \A x, y \in Int : x > 0 /\ y < 0 => x * y < 0
  /\ \A x, y \in Int : x < 0 /\ y > 0 => x * y < 0
  /\ \A x, y \in Int : x = 0 \/ y = 0 => x * y = 0
<1>1. \A x, y \in Int : x > 0 /\ y > 0 => x * y > 0
  OBVIOUS
<1>2. \A x, y \in Int : x < 0 /\ y < 0 => x * y > 0
  OBVIOUS
<1>3. \A x, y \in Int : x > 0 /\ y < 0 => x * y < 0
  OBVIOUS
<1>4. \A x, y \in Int : x < 0 /\ y > 0 => x * y < 0
  OBVIOUS
<1>5. \A x, y \in Int : x = 0 \/ y = 0 => x * y = 0
  OBVIOUS
<1> QED  BY <1>1, <1>2, <1>3, <1>4, <1>5

\* Whether a fill joins a position is a matter of signs.
LEMMA ExtendsIs ==
  ASSUME NEW q \in Int, NEW c \in Int
  PROVE  Portfolio!Extends(q, c) <=> (q >= 0 /\ c > 0) \/ (q <= 0 /\ c < 0)
<1>1. CASE c = 0
  BY <1>1 DEF Portfolio!Extends
<1>2. CASE c > 0
  <2>1. q < 0 => q * c < 0
    BY <1>2, Signs
  <2>2. q >= 0 => q * c >= 0
    BY <1>2, Signs
  <2> QED  BY <1>2, <2>1, <2>2 DEF Portfolio!Extends
<1>3. CASE c < 0
  <2>1. q > 0 => q * c < 0
    BY <1>3, Signs
  <2>2. q <= 0 => q * c >= 0
    BY <1>3, Signs
  <2> QED  BY <1>3, <2>1, <2>2 DEF Portfolio!Extends
<1> QED  BY <1>1, <1>2, <1>3

\* The position after a fill, field by field.
FillsTo(p, c, n, price, after) ==
  /\ after.quantity = p.quantity + c
  /\ after.mark = p.mark
  /\ after.average =
       IF Portfolio!Extends(p.quantity, c)
       THEN Portfolio!Quotient(p.average * Portfolio!Magnitude(p.quantity) + price * n,
                               Portfolio!Magnitude(p.quantity + c))
       ELSE IF c # 0 /\ p.quantity + c = 0 THEN 0
       ELSE IF p.quantity * (p.quantity + c) < 0 THEN price ELSE p.average
  /\ after = [quantity |-> after.quantity, average |-> after.average, mark |-> after.mark]

LEMMA FilledFields ==
  ASSUME NEW p \in Holdings, NEW side, NEW n, NEW price, Portfolio!Signed(side, n) \in Int
  PROVE  FillsTo(p, Portfolio!Signed(side, n), n, price, Portfolio!Filled(p, side, n, price))
<1> DEFINE c == Portfolio!Signed(side, n)
           after == Portfolio!Filled(p, side, n, price)
<1> SUFFICES FillsTo(p, c, n, price, after)
  OBVIOUS
<1>1. p.quantity \in Int /\ p.average \in Int
      /\ p = [quantity |-> p.quantity, average |-> p.average, mark |-> p.mark]
  BY DEF Holdings
<1>2. CASE c = 0
  <2>1. after = p
    BY <1>2 DEF Portfolio!Filled
  <2>2. p.quantity + c = p.quantity /\ ~ p.quantity * (p.quantity + c) < 0
    <3>1. p.quantity + c = p.quantity
      BY <1>1, <1>2
    <3>2. ~ p.quantity * p.quantity < 0
      BY <1>1, Signs
    <3> QED  BY <3>1, <3>2
  <2>3. ~ Portfolio!Extends(p.quantity, c)
    BY <1>2 DEF Portfolio!Extends
  <2> HIDE DEF c, after
  <2> QED  BY <1>1, <1>2, <2>1, <2>2, <2>3 DEF FillsTo
<1>3. CASE c # 0
  <2> DEFINE average ==
        IF Portfolio!Extends(p.quantity, c)
        THEN Portfolio!Quotient(p.average * Portfolio!Magnitude(p.quantity) + price * n,
                                Portfolio!Magnitude(p.quantity + c))
        ELSE IF p.quantity + c = 0 THEN 0
        ELSE IF p.quantity * (p.quantity + c) < 0 THEN price ELSE p.average
  <2>1. after = [p EXCEPT !.quantity = p.quantity + c, !.average = average]
    BY <1>3 DEF Portfolio!Filled
  <2> HIDE DEF after
  <2>2. after.quantity = p.quantity + c /\ after.average = average /\ after.mark = p.mark
        /\ after = [quantity |-> after.quantity, average |-> after.average, mark |-> after.mark]
    <3> HIDE DEF average, c
    <3> QED  BY <1>1, <2>1
  <2> HIDE DEF c
  <2> QED  BY <1>3, <2>2 DEF FillsTo
<1> QED  BY <1>2, <1>3

LEMMA LesserOf == \A x, y \in Int : Portfolio!Min({x, y}) = IF x <= y THEN x ELSE y
<1> SUFFICES ASSUME NEW x \in Int, NEW y \in Int
             PROVE  Portfolio!Min({x, y}) = IF x <= y THEN x ELSE y
  OBVIOUS
<1> DEFINE m == IF x <= y THEN x ELSE y
<1>1. m \in {x, y} /\ \A k \in {x, y} : m <= k
  OBVIOUS
<1>2. \A k \in {x, y} : k \in Int
  OBVIOUS
<1>3. ASSUME NEW k \in {x, y}, \A j \in {x, y} : k <= j PROVE k = m
  BY <1>1, <1>2, <1>3
<1> HIDE DEF m
<1>4. (CHOOSE k \in {x, y} : \A j \in {x, y} : k <= j) = m
  BY <1>1, <1>3
<1> QED  BY <1>4 DEF Portfolio!Min, m

\* What truncation can cost a fill.
Costs(quantity, c) ==
  IF Portfolio!Extends(quantity, c) THEN Portfolio!Magnitude(quantity + c) - 1 ELSE 0

\* A fill adds to profit and cost what it pays, but for that.
Balances(p, c, price, gain, after) ==
  /\ after \in Holdings /\ gain \in Int /\ Costs(p.quantity, c) \in Nat
  /\ gain + c * price - (CostOf(after) - CostOf(p))
       \in - Costs(p.quantity, c) .. Costs(p.quantity, c)

LEMMA JoiningBalances ==
  ASSUME NEW p \in Holdings, NEW n \in Nat, NEW price \in Int, NEW c \in {n, - n}, NEW after,
         FillsTo(p, c, n, price, after), Portfolio!Extends(p.quantity, c)
  PROVE  Balances(p, c, price, 0, after)
<1> DEFINE q == p.quantity  a == p.average  A == after.average
           y == Portfolio!Magnitude(q + c)
           x == a * Portfolio!Magnitude(q) + price * n
<1>1. q \in Int /\ a \in Int /\ c \in Int
  BY DEF Holdings
<1>2. (q >= 0 /\ c = n /\ n > 0) \/ (q <= 0 /\ c = - n /\ n > 0)
  BY <1>1, ExtendsIs
<1>3. /\ y \in Nat \ {0} /\ x \in Int
      /\ q >= 0 => y = q + n /\ x = a * q + price * n
      /\ ~ q >= 0 => y = - q + n /\ x = a * (- q) + price * n
      /\ q = 0 => x = price * n /\ y = n
  <2>1. q + c \in Int /\ Portfolio!Magnitude(q) \in Int
    BY <1>1, MagnitudeIs
  <2>2. x \in Int
    BY <1>1, <2>1
  <2>3. y \in Nat \ {0} /\ (q >= 0 /\ c = n => y = q + n) /\ (q <= 0 /\ c = - n => y = - q + n)
    BY <1>1, <1>2, <2>1, MagnitudeIs
  <2>4. (q >= 0 => Portfolio!Magnitude(q) = q) /\ (q <= 0 => Portfolio!Magnitude(q) = - q)
    BY <1>1, MagnitudeIs
  <2>5. a * 0 = 0
    BY <1>1
  <2> QED  BY <1>1, <1>2, <2>2, <2>3, <2>4, <2>5
<1>4. A = Portfolio!Quotient(x, y) /\ after.quantity = q + c
  BY DEF FillsTo
<1>5. Costs(q, c) = y - 1
  BY DEF Costs
<1>6. after \in Holdings
  <2>1. after.average \in Int /\ after.quantity \in Int
    <3>1. after.quantity \in Int
      BY <1>1, <1>4
    <3>2. x \in Int /\ y \in Nat \ {0} /\ after.average = Portfolio!Quotient(x, y)
      BY <1>3, <1>4
    <3> HIDE DEF x, y
    <3> QED  BY <3>1, <3>2, QuotientLoses
  <2>2. after.mark \in {{}} \cup {{m} : m \in Prices}
    BY DEF FillsTo, Holdings
  <2>3. after = [quantity |-> after.quantity, average |-> after.average, mark |-> after.mark]
    BY DEF FillsTo
  <2> QED  BY <2>1, <2>2, <2>3 DEF Holdings
<1>7. A \in Int /\ x - y * A \in - (y - 1) .. y - 1
  BY <1>3, <1>4, QuotientLoses
<1>8. 0 + c * price - (CostOf(after) - CostOf(p)) = c * price - ((q + c) * A - q * a)
  BY <1>1, <1>4, <1>7 DEF CostOf
<1> HIDE DEF q, a, A, y, x
<1>9. c * price - ((q + c) * A - q * a) \in - (y - 1) .. y - 1
  <2>1. CASE q >= 0 /\ c = n
    <3>1. n * price - ((q + n) * A - q * a) = (a * q + price * n) - (q + n) * A
      BY <1>1, <1>7
    <3> QED  BY <1>3, <1>7, <2>1, <3>1
  <2>2. CASE q <= 0 /\ c = - n
    <3>1. (- n) * price - ((q + (- n)) * A - q * a) = - ((a * (- q) + price * n) - (- q + n) * A)
      BY <1>1, <1>7
    <3>2. y = - q + n /\ x = a * (- q) + price * n
      <4>1. CASE q = 0
        <5>1. a * (- 0) = 0 /\ - 0 + n = n
          BY <1>1
        <5> QED  BY <1>1, <1>3, <4>1, <5>1
      <4>2. CASE q # 0
        BY <1>1, <1>3, <2>2, <4>2
      <4> QED  BY <4>1, <4>2
    <3>3. c * price - ((q + c) * A - q * a) = - (x - y * A)
      BY <2>2, <3>1, <3>2
    <3> DEFINE d == x - y * A
    <3>4. d \in Int /\ d \in - (y - 1) .. y - 1 /\ y \in Int
      BY <1>3, <1>7
    <3> HIDE DEF d
    <3>5. - d \in - (y - 1) .. y - 1
      BY <3>4
    <3> QED  BY <3>3, <3>5 DEF d
  <2> QED  BY <1>2, <2>1, <2>2
<1> QED  BY <1>3, <1>5, <1>6, <1>8, <1>9 DEF Balances, q

LEMMA ReducingBalances ==
  ASSUME NEW p \in Holdings, NEW n \in Nat, NEW price \in Int, NEW side,
         NEW c \in {n, - n}, c = Portfolio!Signed(side, n), NEW after,
         FillsTo(p, c, n, price, after), ~ Portfolio!Extends(p.quantity, c)
  PROVE  Balances(p, c, price, Portfolio!Realises(p, side, n, price), after)
<1> DEFINE q == p.quantity  a == p.average  A == after.average
           gain == IF q > 0 THEN price - a ELSE a - price
           closing == IF n <= Portfolio!Magnitude(q) THEN n ELSE Portfolio!Magnitude(q)
<1>1. q \in Int /\ a \in Int /\ c \in Int /\ Portfolio!Magnitude(q) \in Nat
  BY MagnitudeIs DEF Holdings
<1>2. Portfolio!Realises(p, side, n, price) = gain * closing
  <2>1. Portfolio!Min({n, Portfolio!Magnitude(q)}) = closing
    BY <1>1, LesserOf
  <2> QED  BY <2>1 DEF Portfolio!Realises
<1>3. after.quantity = q + c
      /\ A = IF c # 0 /\ q + c = 0 THEN 0 ELSE IF q * (q + c) < 0 THEN price ELSE a
  BY DEF FillsTo
<1>4. Costs(q, c) = 0
  BY DEF Costs
<1>5. A \in Int /\ after.quantity \in Int
  BY <1>1, <1>3
<1>6. after \in Holdings
  <2>1. after.mark \in {{}} \cup {{m} : m \in Prices}
    BY DEF FillsTo, Holdings
  <2>2. after = [quantity |-> after.quantity, average |-> after.average, mark |-> after.mark]
    BY DEF FillsTo
  <2> QED  BY <1>5, <2>1, <2>2 DEF Holdings
<1>7. CostOf(after) = (q + c) * A /\ CostOf(p) = q * a
  BY <1>3 DEF CostOf
<1>8. gain \in Int /\ closing \in Int /\ gain * closing \in Int
  <2>1. gain \in Int /\ closing \in Int
    BY <1>1
  <2> QED  BY <2>1, Product
<1> DEFINE left == gain * closing + c * price - ((q + c) * A - q * a)
<1>9. left = 0
  <2>1. CASE c = 0
    <3>1. n = 0 /\ closing = 0
      BY <1>1, <2>1
    <3>2. q + c = q /\ ~ q * q < 0
      BY <1>1, <2>1, Signs
    <3>3. A = a
      BY <1>3, <2>1, <3>2
    <3>4. gain * 0 = 0 /\ 0 * price = 0 /\ q * a \in Int
      BY <1>1, <1>8, Product
    <3> QED
      <4> HIDE DEF gain, closing, q, a, A
      <4> QED  BY <2>1, <3>1, <3>2, <3>3, <3>4
  <2>2. CASE q > 0 /\ c < 0
    <3>1. c = - n /\ gain = price - a /\ closing = (IF n <= q THEN n ELSE q)
      BY <1>1, <2>2, MagnitudeIs
    <3>2. CASE n < q
      <4>1. q + c > 0
        BY <1>1, <3>1, <3>2
      <4>2. ~ q * (q + c) < 0
        BY <1>1, <2>2, <4>1, Signs
      <4>3. A = a /\ closing = n
        BY <1>1, <1>3, <3>1, <3>2, <4>1, <4>2
      <4>4. (price - a) * n + (- n) * price - ((q + (- n)) * a - q * a) = 0
        BY <1>1
      <4> HIDE DEF gain, closing, q, a, A
      <4> QED  BY <3>1, <4>3, <4>4
    <3>3. CASE n = q
      <4>1. A = 0 /\ closing = q /\ q + c = 0
        BY <1>1, <1>3, <2>2, <3>1, <3>3
      <4>2. (price - a) * q + (- q) * price - (0 * 0 - q * a) = 0
        BY <1>1
      <4> HIDE DEF gain, closing, q, a, A
      <4> QED  BY <3>1, <3>3, <4>1, <4>2
    <3>4. CASE n > q
      <4>1. q + c < 0 /\ q + c # 0
        BY <1>1, <3>1, <3>4
      <4>2. q * (q + c) < 0
        BY <1>1, <2>2, <4>1, Signs
      <4>3. A = price /\ closing = q
        BY <1>1, <1>3, <3>1, <3>4, <4>1, <4>2
      <4>4. (price - a) * q + (- n) * price - ((q + (- n)) * price - q * a) = 0
        BY <1>1
      <4> HIDE DEF gain, closing, q, a, A
      <4> QED  BY <3>1, <4>3, <4>4
    <3> QED  BY <1>1, <3>2, <3>3, <3>4
  <2>3. CASE q < 0 /\ c > 0
    <3>1. c = n /\ gain = a - price /\ closing = (IF n <= - q THEN n ELSE - q)
      BY <1>1, <2>3, MagnitudeIs
    <3>2. CASE n < - q
      <4>1. q + c < 0
        BY <1>1, <3>1, <3>2
      <4>2. ~ q * (q + c) < 0
        BY <1>1, <2>3, <4>1, Signs
      <4>3. A = a /\ closing = n
        BY <1>1, <1>3, <3>1, <3>2, <4>1, <4>2
      <4>4. (a - price) * n + n * price - ((q + n) * a - q * a) = 0
        BY <1>1
      <4> HIDE DEF gain, closing, q, a, A
      <4> QED  BY <3>1, <4>3, <4>4
    <3>3. CASE n = - q
      <4>1. A = 0 /\ closing = - q /\ q + c = 0
        BY <1>1, <1>3, <2>3, <3>1, <3>3
      <4>2. (a - price) * (- q) + (- q) * price - (0 * 0 - q * a) = 0
        BY <1>1
      <4> HIDE DEF gain, closing, q, a, A
      <4> QED  BY <3>1, <3>3, <4>1, <4>2
    <3>4. CASE n > - q
      <4>1. q + c > 0 /\ q + c # 0
        BY <1>1, <3>1, <3>4
      <4>2. q * (q + c) < 0
        BY <1>1, <2>3, <4>1, Signs
      <4>3. A = price /\ closing = - q
        BY <1>1, <1>3, <3>1, <3>4, <4>1, <4>2
      <4>4. (a - price) * (- q) + n * price - ((q + n) * price - q * a) = 0
        <5>1. (a - price) * (- q) = q * price - q * a
          <6>1. \A x, y, z \in Int : (x - y) * (- z) = z * y - z * x
            OBVIOUS
          <6> QED  BY <1>1, <6>1
        <5>2. (q + n) * price = q * price + n * price
          BY <1>1
        <5>3. q * price \in Int /\ q * a \in Int /\ n * price \in Int
          BY <1>1, Product
        <5> QED  BY <5>1, <5>2, <5>3
      <4> HIDE DEF gain, closing, q, a, A
      <4> QED  BY <3>1, <4>3, <4>4
    <3> QED  BY <1>1, <3>2, <3>3, <3>4
  <2> QED  BY <1>1, <2>1, <2>2, <2>3, ExtendsIs
<1>10. Portfolio!Realises(p, side, n, price) + c * price - (CostOf(after) - CostOf(p)) = 0
  BY <1>2, <1>7, <1>9
<1>11. Portfolio!Realises(p, side, n, price) \in Int
  BY <1>2, <1>8
<1> QED  BY <1>4, <1>6, <1>10, <1>11 DEF Balances

\* Any fill.
LEMMA FillBalances ==
  ASSUME NEW p \in Holdings, NEW n \in Nat, NEW price \in Int, NEW side
  PROVE  /\ Portfolio!Signed(side, n) \in Int
         /\ FillsTo(p, Portfolio!Signed(side, n), n, price, Portfolio!Filled(p, side, n, price))
         /\ Balances(p, Portfolio!Signed(side, n), price, Portfolio!Realises(p, side, n, price),
                     Portfolio!Filled(p, side, n, price))
<1> DEFINE c == Portfolio!Signed(side, n)
           after == Portfolio!Filled(p, side, n, price)
<1>1. c \in {n, - n} /\ c \in Int
  BY DEF Portfolio!Signed
<1>2. FillsTo(p, c, n, price, after)
  BY <1>1, FilledFields
<1>3. CASE Portfolio!Extends(p.quantity, c)
  <2>1. Portfolio!Realises(p, side, n, price) = 0
    BY <1>3 DEF Portfolio!Realises
  <2> HIDE DEF c, after
  <2>2. Balances(p, c, price, 0, after)
    BY <1>1, <1>2, <1>3, JoiningBalances
  <2> QED  BY <1>1, <1>2, <2>1, <2>2 DEF c, after
<1>4. CASE ~ Portfolio!Extends(p.quantity, c)
  <2>1. c = Portfolio!Signed(side, n)
    OBVIOUS
  <2> HIDE DEF c, after
  <2>2. Balances(p, c, price, Portfolio!Realises(p, side, n, price), after)
    BY <1>1, <1>2, <1>4, <2>1, ReducingBalances
  <2> QED  BY <1>1, <1>2, <2>2 DEF c, after
<1> QED  BY <1>3, <1>4

-------------------------------------------------------------------------------
(* Profit and loss is cash.                                                *)

\* What was realised is the cash and the cost of what is held, but for the
\* rounding.
Accounted(held, profit, paid, lost) ==
  /\ Held(held) /\ profit \in Int /\ paid \in Int /\ lost \in Nat
  /\ profit - paid - Cost(held) \in - lost .. lost

PortfolioInv ==
  /\ limits \in PortfolioLimits
  /\ Accounted(positions, realised, cash, rounding)

LEMMA PortfolioStarts == Portfolio!Init => PortfolioInv
<1> SUFFICES ASSUME Portfolio!Init PROVE PortfolioInv
  OBVIOUS
<1> DEFINE none == [s \in {} |-> 0]
<1>1. positions = <<>> /\ realised = 0 /\ cash = 0 /\ rounding = 0 /\ limits \in PortfolioLimits
  BY DEF Portfolio!Init
<1>2. DOMAIN positions = {}
  BY <1>1
<1>3. Held(positions)
  BY <1>2, FS_EmptySet DEF Held
<1>4. Terms([s \in DOMAIN positions |-> CostOf(positions[s])])
  BY <1>2, FS_EmptySet DEF Terms
<1>5. Cost(positions) = 0
  <2> DEFINE f == [s \in DOMAIN positions |-> CostOf(positions[s])]
  <2>1. Cost(positions) = Portfolio!Total(f) /\ DOMAIN f = {}
    BY <1>2 DEF Cost
  <2>2. Terms(f)
    BY <1>4
  <2> HIDE DEF f
  <2>3. Portfolio!Total(f) = SumOn(f, {}) /\ Sums(f)
    BY <2>1, <2>2, TotalIsSum, SumsUp DEF Terms
  <2> QED  BY <2>1, <2>3 DEF Sums
<1>6. 0 - 0 - 0 \in - 0 .. 0
  OBVIOUS
<1> QED  BY <1>1, <1>3, <1>5, <1>6 DEF PortfolioInv, Accounted

\* A mark costs nothing.
LEMMA MarkCostsNothing ==
  ASSUME NEW p \in Holdings, NEW price \in Prices
  PROVE  /\ [p EXCEPT !.mark = {price}] \in Holdings
         /\ CostOf([p EXCEPT !.mark = {price}]) = CostOf(p)
BY DEF Holdings, CostOf

\* Nothing else of the portfolio matters to its accounts.
LEMMA SetMarkKeepsAccounts ==
  ASSUME PortfolioInv, NEW s \in Symbols, NEW price \in Prices, Portfolio!SetMark(s, price)
  PROVE  PortfolioInv'
<1> DEFINE p == Portfolio!PositionOf(positions, s)
           after == [p EXCEPT !.mark = {price}]
<1>1. Held(positions) /\ Accounted(positions, realised, cash, rounding)
  BY DEF PortfolioInv, Accounted
<1>2. p \in Holdings
  BY <1>1, NothingHeld, PutPuts
<1>3. after \in Holdings /\ CostOf(after) = CostOf(p)
  <2> HIDE DEF p
  <2> QED  BY <1>2, MarkCostsNothing
<1>4. positions' = Portfolio!Put(positions, s, after)
      /\ UNCHANGED <<limits, realised, cash, rounding>>
  BY DEF Portfolio!SetMark
<1> HIDE DEF after
<1>5. Held(positions')
  BY <1>1, <1>3, <1>4, PutPuts
<1>6. Cost(positions) \in Int /\ Cost(positions') = Cost(positions) - CostOf(p) + CostOf(after)
  BY <1>1, <1>3, <1>4, CostChanges
<1>7. CostOf(p) \in Int
  BY <1>2, ValuesAreInts
<1>8. Cost(positions') = Cost(positions)
  BY <1>3, <1>6, <1>7
<1>9. Accounted(positions', realised', cash', rounding')
  BY <1>1, <1>4, <1>5, <1>8 DEF Accounted
<1> QED  BY <1>4, <1>9 DEF PortfolioInv

\* A seeded position enters the cash at its cost, as the one before leaves it.
LEMMA SetPositionKeepsAccounts ==
  ASSUME PortfolioInv, NEW s \in Symbols, NEW quantity \in Seeds, NEW price \in Prices,
         Portfolio!SetPosition(s, quantity, price)
  PROVE  PortfolioInv'
<1> DEFINE p == Portfolio!PositionOf(positions, s)
           after == [p EXCEPT !.quantity = quantity, !.average = price]
<1>1. Held(positions) /\ Accounted(positions, realised, cash, rounding)
  BY DEF PortfolioInv, Accounted
<1>2. p \in Holdings
  BY <1>1, NothingHeld, PutPuts
<1>3. after \in Holdings /\ CostOf(after) = quantity * price
  <2>1. quantity \in Int /\ price \in Int
    BY PortfolioAssumption
  <2> HIDE DEF p
  <2> QED  BY <1>2, <2>1 DEF Holdings, CostOf
<1>4. /\ positions' = Portfolio!Put(positions, s, after)
      /\ cash' = cash + CostOf(p) - quantity * price
      /\ UNCHANGED <<limits, realised, rounding>>
  BY DEF Portfolio!SetPosition, CostOf
<1> HIDE DEF after
<1>5. Held(positions')
  BY <1>1, <1>3, <1>4, PutPuts
<1>6. Cost(positions) \in Int /\ Cost(positions') = Cost(positions) - CostOf(p) + CostOf(after)
  BY <1>1, <1>3, <1>4, CostChanges
<1>7. CostOf(p) \in Int /\ CostOf(after) \in Int
  BY <1>2, <1>3, ValuesAreInts
<1>8. cash \in Int /\ realised \in Int /\ rounding \in Nat
      /\ realised - cash - Cost(positions) \in - rounding .. rounding
  BY <1>1 DEF Accounted
<1> HIDE DEF p
<1>9. cash' \in Int /\ Cost(positions') \in Int
      /\ realised - cash' - Cost(positions') = realised - cash - Cost(positions)
  BY <1>3, <1>4, <1>6, <1>7, <1>8
<1>10. Accounted(positions', realised', cash', rounding')
  BY <1>4, <1>5, <1>8, <1>9 DEF Accounted
<1> QED  BY <1>4, <1>10 DEF PortfolioInv

\* A fill balances.
LEMMA ApplyFillKeepsAccounts ==
  ASSUME PortfolioInv, NEW s \in Symbols, NEW side \in Portfolio!Side,
         NEW quantity \in Quantities, NEW price \in Prices,
         Portfolio!ApplyFill(s, side, quantity, price)
  PROVE  PortfolioInv'
<1> DEFINE p == Portfolio!PositionOf(positions, s)
           c == Portfolio!Signed(side, quantity)
           after == Portfolio!Filled(p, side, quantity, price)
           gain == Portfolio!Realises(p, side, quantity, price)
           costs == Costs(p.quantity, c)
<1>1. Held(positions) /\ Accounted(positions, realised, cash, rounding)
  BY DEF PortfolioInv, Accounted
<1>2. p \in Holdings
  BY <1>1, NothingHeld, PutPuts
<1>3. quantity \in Nat /\ price \in Int
  BY PortfolioAssumption
<1>4. c \in Int /\ FillsTo(p, c, quantity, price, after) /\ Balances(p, c, price, gain, after)
  <2> HIDE DEF p
  <2> QED  BY <1>2, <1>3, FillBalances
<1>5. after.quantity = p.quantity + c
  BY <1>4 DEF FillsTo
<1>6. /\ positions' = Portfolio!Put(positions, s, after)
      /\ realised' = realised + gain /\ cash' = cash - c * price
      /\ limits' = limits
      /\ rounding' = rounding + (IF Portfolio!Extends(p.quantity, c)
                                 THEN Portfolio!Magnitude(after.quantity) - 1 ELSE 0)
  BY DEF Portfolio!ApplyFill
<1>7. rounding' = rounding + costs
  BY <1>5, <1>6 DEF Costs
<1>8. /\ after \in Holdings /\ gain \in Int /\ costs \in Nat
      /\ gain + c * price - (CostOf(after) - CostOf(p)) \in - costs .. costs
  BY <1>4 DEF Balances
<1>9. Held(positions')
  BY <1>1, <1>6, <1>8, PutPuts
<1>10. Cost(positions) \in Int /\ Cost(positions') = Cost(positions) - CostOf(p) + CostOf(after)
  BY <1>1, <1>6, <1>8, CostChanges
<1>11. CostOf(p) \in Int /\ CostOf(after) \in Int /\ c * price \in Int
  BY <1>2, <1>3, <1>4, <1>8, ValuesAreInts, Product
<1>12. cash \in Int /\ realised \in Int /\ rounding \in Nat
       /\ realised - cash - Cost(positions) \in - rounding .. rounding
  BY <1>1 DEF Accounted
<1> DEFINE paid == c * price  before == CostOf(p)  behind == CostOf(after)
<1>13. /\ paid \in Int /\ before \in Int /\ behind \in Int
       /\ gain + paid - (behind - before) \in - costs .. costs
       /\ cash' = cash - paid /\ Cost(positions') = Cost(positions) - before + behind
  BY <1>6, <1>8, <1>10, <1>11
<1> HIDE DEF p, c, after, gain, costs, paid, before, behind
<1>14. cash' \in Int /\ realised' \in Int /\ rounding' \in Nat /\ Cost(positions') \in Int
  BY <1>6, <1>7, <1>8, <1>10, <1>12, <1>13
<1>15. realised' - cash' - Cost(positions')
         = (realised - cash - Cost(positions)) + (gain + paid - (behind - before))
  BY <1>6, <1>8, <1>10, <1>12, <1>13
<1>16. realised' - cash' - Cost(positions') \in - rounding' .. rounding'
  BY <1>7, <1>8, <1>10, <1>12, <1>13, <1>15
<1>17. Accounted(positions', realised', cash', rounding')
  BY <1>9, <1>14, <1>16 DEF Accounted
<1> QED  BY <1>6, <1>17 DEF PortfolioInv

LEMMA PortfolioStep == PortfolioInv /\ [Portfolio!Next]_Portfolio!vars => PortfolioInv'
<1> SUFFICES ASSUME PortfolioInv, [Portfolio!Next]_Portfolio!vars PROVE PortfolioInv'
  OBVIOUS
<1>1. CASE UNCHANGED <<limits, positions, realised, cash, rounding>>
  BY <1>1 DEF PortfolioInv
<1>2. CASE Portfolio!SetLimits
  BY <1>2 DEF Portfolio!SetLimits, PortfolioInv
<1>3. CASE Portfolio!ClearAudit
  BY <1>1, <1>3 DEF Portfolio!ClearAudit
<1>4. CASE \E order \in Checked : audit = Portfolio!EmptyTrail /\ Portfolio!CheckOrder(order)
  BY <1>1, <1>4 DEF Portfolio!CheckOrder
<1>5. ASSUME NEW s \in Symbols, NEW price \in Prices, Portfolio!SetMark(s, price)
      PROVE  PortfolioInv'
  BY <1>5, SetMarkKeepsAccounts
<1>6. ASSUME NEW s \in Symbols, NEW price \in Prices, NEW quantity \in Seeds,
             Portfolio!SetPosition(s, quantity, price)
      PROVE  PortfolioInv'
  BY <1>6, SetPositionKeepsAccounts
<1>7. ASSUME NEW s \in Symbols, NEW price \in Prices, NEW side \in Portfolio!Side,
             NEW quantity \in Quantities, Portfolio!ApplyFill(s, side, quantity, price)
      PROVE  PortfolioInv'
  BY <1>7, ApplyFillKeepsAccounts
<1>8. CASE Portfolio!Next
  BY <1>2, <1>3, <1>4, <1>5, <1>6, <1>7, <1>8 DEF Portfolio!Next
<1>9. CASE UNCHANGED Portfolio!vars
  BY <1>1, <1>9 DEF Portfolio!vars
<1> QED  BY <1>8, <1>9

LEMMA PortfolioAlways == Portfolio!Spec => []PortfolioInv
BY PortfolioStarts, PortfolioStep, PTL DEF Portfolio!Spec

LEMMA AccountsTell == PortfolioInv => PnlIsCash
<1> SUFFICES ASSUME PortfolioInv PROVE PnlIsCash
  OBVIOUS
<1> DEFINE U == Portfolio!Unrealised(positions)
           W == Portfolio!Worth(positions)
           C == Cost(positions)
<1>1. /\ Held(positions) /\ realised \in Int /\ cash \in Int /\ rounding \in Nat
      /\ realised - cash - C \in - rounding .. rounding
  BY DEF PortfolioInv, Accounted
<1>2. U = W - C /\ W \in Int /\ C \in Int
  BY <1>1, UnrealisedIsWorthLessCost
<1> HIDE DEF U, W, C
<1>3. (realised + U) - (cash + W) = realised - cash - C
  BY <1>1, <1>2
<1>4. (realised + U) - (cash + W) \in Int
      /\ (realised + U) - (cash + W) \in - rounding .. rounding
  BY <1>1, <1>2, <1>3
<1> DEFINE d == (realised + U) - (cash + W)
<1> HIDE DEF d
<1>5. d \in Int /\ d \in - rounding .. rounding
  BY <1>4 DEF d
<1>6. Portfolio!Magnitude(d) <= rounding
  BY <1>1, <1>5 DEF Portfolio!Magnitude
<1> QED  BY <1>6 DEF PnlIsCash, Portfolio!PnlIsCash, d, U, W

-------------------------------------------------------------------------------
(* Parts of an order fit.                                                  *)

\* What is accepted is within the limits of gross and net exposure.
Within(held) ==
  /\ limits.gross > 0 => Portfolio!Gross(held) <= limits.gross
  /\ limits.net > 0 => Portfolio!Net(held) <= limits.net

LEMMA AcceptedIsWithin ==
  ASSUME limits \in PortfolioLimits, NEW held, Held(held), NEW pnl,
         Portfolio!Evaluate(held, pnl) = Portfolio!Accepted,
         Portfolio!Gross(held) \in Int, Portfolio!Net(held) \in Int
  PROVE  Within(held)
<1>1. limits.gross \in Int /\ limits.net \in Int
  BY PortfolioAssumption
<1>2. \A name, symbol, limit, observed :
        Portfolio!Breach(name, symbol, limit, observed).breach = name
  BY DEF Portfolio!Breach
<1>3. Portfolio!Accepted.breach = "None"
  BY DEF Portfolio!Accepted
<1>4. \A symbol, limit, observed :
        /\ Portfolio!Breach("GrossExposure", symbol, limit, observed) # Portfolio!Accepted
        /\ Portfolio!Breach("NetExposure", symbol, limit, observed) # Portfolio!Accepted
  <2>1. "GrossExposure" # "None" /\ "NetExposure" # "None"
    OBVIOUS
  <2> QED  BY <1>2, <1>3, <2>1
<1>5. ~ (limits.gross > 0 /\ Portfolio!Gross(held) > limits.gross)
  BY <1>4 DEF Portfolio!Evaluate
<1>6. ~ (limits.net > 0 /\ Portfolio!Net(held) > limits.net)
  BY <1>4, <1>5 DEF Portfolio!Evaluate
<1> QED  BY <1>1, <1>5, <1>6 DEF Within

\* With a mark, a position's values go with its quantity.
LEMMA MarkedValues ==
  ASSUME NEW p \in Holdings, p.mark # {}, NEW side, NEW n \in Nat, NEW price \in Int
  PROVE  LET after == Portfolio!Filled(p, side, n, price)
             to    == p.quantity + Portfolio!Signed(side, n)
         IN  /\ after \in Holdings
             /\ WorthOf(after) = to * Portfolio!MarkOf(p)
             /\ GrossOf(after) = Portfolio!Magnitude(to) * Portfolio!MarkOf(p)
<1> DEFINE after == Portfolio!Filled(p, side, n, price)
           c == Portfolio!Signed(side, n)
<1>1. FillsTo(p, c, n, price, after) /\ Balances(p, c, price, Portfolio!Realises(p, side, n, price), after)
  BY FillBalances
<1> HIDE DEF after, c
<1>2. after.quantity = p.quantity + c /\ after.mark = p.mark /\ after \in Holdings
  BY <1>1 DEF FillsTo, Balances
<1>3. Portfolio!MarkOf(after) = Portfolio!MarkOf(p)
  BY <1>2 DEF Portfolio!MarkOf
<1> QED  BY <1>2, <1>3 DEF WorthOf, GrossOf, after, c

\* Between two quantities none is greater than both, nor worth more than both.
LEMMA Between3 ==
  ASSUME NEW q \in Int, NEW c \in Int, NEW d \in Int, NEW m \in Nat,
         (0 <= d /\ d <= c) \/ (c <= d /\ d <= 0)
  PROVE  /\ \/ Portfolio!Magnitude(q + d) * m <= Portfolio!Magnitude(q) * m
            \/ Portfolio!Magnitude(q + d) * m <= Portfolio!Magnitude(q + c) * m
         /\ (0 <= d * m /\ d * m <= c * m) \/ (c * m <= d * m /\ d * m <= 0)
<1>1. \A x, y \in Int : x <= y => x * m <= y * m
  OBVIOUS
<1>2. /\ Portfolio!Magnitude(q) \in Int /\ Portfolio!Magnitude(q + d) \in Int
      /\ Portfolio!Magnitude(q + c) \in Int
  BY MagnitudeIs
<1>3. \/ Portfolio!Magnitude(q + d) <= Portfolio!Magnitude(q)
      \/ Portfolio!Magnitude(q + d) <= Portfolio!Magnitude(q + c)
  BY DEF Portfolio!Magnitude
<1>4. 0 * m = 0
  OBVIOUS
<1>5. (0 <= d * m /\ d * m <= c * m) \/ (c * m <= d * m /\ d * m <= 0)
  BY <1>1, <1>4
<1>6. \/ Portfolio!Magnitude(q + d) * m <= Portfolio!Magnitude(q) * m
      \/ Portfolio!Magnitude(q + d) * m <= Portfolio!Magnitude(q + c) * m
  BY <1>1, <1>2, <1>3, Zenon
<1> QED  BY <1>5, <1>6

\* The exposures of the portfolio after a fill of a marked position.
Exposed(p, c, m, held) ==
  /\ Held(held) /\ Portfolio!Gross(held) \in Int /\ Portfolio!Net(held) \in Int
  /\ Portfolio!Gross(held) = Portfolio!Gross(positions)
                             - Portfolio!Magnitude(p.quantity) * m
                             + Portfolio!Magnitude(p.quantity + c) * m
  /\ Portfolio!Worth(held) = Portfolio!Worth(positions) + c * m

LEMMA ExposureAfter ==
  ASSUME PortfolioInv, NEW s, NEW p, p = Portfolio!PositionOf(positions, s), p.mark # {},
         NEW side, NEW n \in Nat, NEW price \in Int
  PROVE  Exposed(p, Portfolio!Signed(side, n), Portfolio!MarkOf(p),
                 Portfolio!Put(positions, s, Portfolio!Filled(p, side, n, price)))
<1> DEFINE after == Portfolio!Filled(p, side, n, price)
           held == Portfolio!Put(positions, s, after)
           c == Portfolio!Signed(side, n)
           m == Portfolio!MarkOf(p)
           q == p.quantity
<1>1. Held(positions)
  BY DEF PortfolioInv, Accounted
<1>2. p \in Holdings
  BY <1>1, NothingHeld, PutPuts
<1>3. after \in Holdings /\ WorthOf(after) = (q + c) * m
      /\ GrossOf(after) = Portfolio!Magnitude(q + c) * m
  BY <1>2, MarkedValues
<1>4. q \in Int /\ m \in Int /\ c \in Int
  <2>1. q \in Int
    BY <1>2 DEF Holdings
  <2>2. m \in Int
    BY <1>2, MarkIsInt
  <2>3. c \in Int
    BY <1>2, FillBalances
  <2> QED  BY <2>1, <2>2, <2>3
<1>5. WorthOf(p) = q * m /\ GrossOf(p) = Portfolio!Magnitude(q) * m
  BY DEF WorthOf, GrossOf
<1> HIDE DEF after
<1>6. Held(held)
  BY <1>1, <1>3, PutPuts
<1>7. /\ Portfolio!Gross(positions) \in Int
      /\ Portfolio!Gross(held) = Portfolio!Gross(positions) - GrossOf(p) + GrossOf(after)
  BY <1>1, <1>3, GrossChanges
<1>8. /\ Portfolio!Worth(positions) \in Int
      /\ Portfolio!Worth(held) = Portfolio!Worth(positions) - WorthOf(p) + WorthOf(after)
  BY <1>1, <1>3, WorthChanges
<1>9. WorthOf(p) \in Int /\ GrossOf(p) \in Int /\ WorthOf(after) \in Int /\ GrossOf(after) \in Int
  BY <1>2, <1>3, ValuesAreInts
<1> HIDE DEF c, m, q, held
<1>10. Portfolio!Gross(held) \in Int /\ Portfolio!Worth(held) \in Int
  BY <1>7, <1>8, <1>9
<1>11. Portfolio!Net(held) \in Int
  BY <1>10, MagnitudeIs DEF Portfolio!Net
<1>12. Portfolio!Worth(held) = Portfolio!Worth(positions) + c * m
  <2>1. (q + c) * m = q * m + c * m
    BY <1>4
  <2>2. q * m \in Int /\ c * m \in Int
    BY <1>4, Product
  <2> QED  BY <1>3, <1>5, <1>8, <2>1, <2>2
<1>13. Portfolio!Gross(held) = Portfolio!Gross(positions) - Portfolio!Magnitude(q) * m
                               + Portfolio!Magnitude(q + c) * m
  BY <1>3, <1>5, <1>7
<1>14. Exposed(p, c, m, held)
  BY <1>6, <1>10, <1>11, <1>12, <1>13 DEF Exposed, q
<1> QED  BY <1>14 DEF c, m, held, after

LEMMA PartsFit == PortfolioInv => PartialFillsFit
<1> SUFFICES ASSUME PortfolioInv,
                    NEW s \in Symbols, NEW side \in Portfolio!Side,
                    NEW n \in Quantities, NEW price \in Prices, NEW p,
                    p = Portfolio!PositionOf(positions, s), p.mark # {},
                    Portfolio!EvaluateState = Portfolio!Accepted,
                    Portfolio!EvaluateOrder(s, side, n, price) = Portfolio!Accepted,
                    NEW k \in 1 .. n
             PROVE  Within(Portfolio!Put(positions, s, Portfolio!Filled(p, side, k, price)))
  BY DEF PartialFillsFit, Portfolio!PartialFillsFit, Within
<1> DEFINE full == Portfolio!Put(positions, s, Portfolio!Filled(p, side, n, price))
           part == Portfolio!Put(positions, s, Portfolio!Filled(p, side, k, price))
           c == Portfolio!Signed(side, n)
           d == Portfolio!Signed(side, k)
           m == Portfolio!MarkOf(p)
           q == p.quantity
<1>1. n \in Nat /\ k \in Nat /\ price \in Int /\ limits \in PortfolioLimits /\ k <= n /\ 0 <= k
      /\ Held(positions)
  BY PortfolioAssumption DEF PortfolioInv, Accounted
<1>2. p \in Holdings
  BY <1>1, NothingHeld, PutPuts
<1>3. /\ q \in Int /\ m \in Nat /\ c \in Int /\ d \in Int
      /\ (0 <= d /\ d <= c) \/ (c <= d /\ d <= 0)
  <2>1. q \in Int
    BY <1>2 DEF Holdings
  <2>2. m \in Nat
    BY <1>2, MarkIsInt
  <2>3. c \in Int /\ d \in Int /\ ((0 <= d /\ d <= c) \/ (c <= d /\ d <= 0))
    BY <1>1 DEF Portfolio!Signed
  <2> QED  BY <2>1, <2>2, <2>3
<1>4. Exposed(p, c, m, full)
  BY <1>1, ExposureAfter
<1>5. Exposed(p, d, m, part)
  BY <1>1, ExposureAfter
<1>6. Portfolio!Gross(positions) \in Int /\ Portfolio!Worth(positions) \in Int
  BY <1>1, <1>2, GrossChanges, WorthChanges
<1>7. Portfolio!Net(positions) \in Int
  BY <1>6, MagnitudeIs DEF Portfolio!Net
<1>8. Within(positions)
  BY <1>1, <1>6, <1>7, AcceptedIsWithin DEF Portfolio!EvaluateState
<1>9. Within(full)
  <2>1. Held(full) /\ Portfolio!Gross(full) \in Int /\ Portfolio!Net(full) \in Int
    BY <1>4 DEF Exposed
  <2>2. Portfolio!Evaluate(full, realised + Portfolio!Realises(p, side, n, price))
          = Portfolio!Accepted
    BY DEF Portfolio!EvaluateOrder
  <2> HIDE DEF full
  <2> QED  BY <1>1, <2>1, <2>2, AcceptedIsWithin
<1> HIDE DEF full, part, c, d, m
<1> HIDE DEF q
<1>10. /\ \/ Portfolio!Magnitude(q + d) * m <= Portfolio!Magnitude(q) * m
          \/ Portfolio!Magnitude(q + d) * m <= Portfolio!Magnitude(q + c) * m
       /\ (0 <= d * m /\ d * m <= c * m) \/ (c * m <= d * m /\ d * m <= 0)
  BY <1>3, Between3
<1>11. /\ Portfolio!Magnitude(q) * m \in Int /\ Portfolio!Magnitude(q + d) * m \in Int
       /\ Portfolio!Magnitude(q + c) * m \in Int /\ c * m \in Int /\ d * m \in Int
  <2>1. /\ Portfolio!Magnitude(q) \in Int /\ Portfolio!Magnitude(q + d) \in Int
        /\ Portfolio!Magnitude(q + c) \in Int
    BY <1>3, MagnitudeIs
  <2> QED  BY <1>3, <2>1, Product
<1>12. Portfolio!Gross(part) <= Portfolio!Gross(positions)
       \/ Portfolio!Gross(part) <= Portfolio!Gross(full)
  <2>1. /\ Portfolio!Gross(full) = Portfolio!Gross(positions) - Portfolio!Magnitude(q) * m
                                     + Portfolio!Magnitude(q + c) * m
        /\ Portfolio!Gross(part) = Portfolio!Gross(positions) - Portfolio!Magnitude(q) * m
                                   + Portfolio!Magnitude(q + d) * m
        /\ Portfolio!Gross(full) \in Int /\ Portfolio!Gross(part) \in Int
    BY <1>4, <1>5 DEF Exposed, q
  <2> QED  BY <1>6, <1>10, <1>11, <2>1
<1>13. Portfolio!Net(part) <= Portfolio!Net(positions) \/ Portfolio!Net(part) <= Portfolio!Net(full)
  <2>1. \A w, x, y \in Int : (0 <= x /\ x <= y) \/ (y <= x /\ x <= 0) =>
          \/ Portfolio!Magnitude(w + x) <= Portfolio!Magnitude(w)
          \/ Portfolio!Magnitude(w + x) <= Portfolio!Magnitude(w + y)
    BY DEF Portfolio!Magnitude
  <2>2. /\ Portfolio!Worth(full) = Portfolio!Worth(positions) + c * m
        /\ Portfolio!Worth(part) = Portfolio!Worth(positions) + d * m
    BY <1>4, <1>5 DEF Exposed
  <2> QED  BY <1>6, <1>10, <1>11, <2>1, <2>2 DEF Portfolio!Net
<1>14. limits.gross \in Int /\ limits.net \in Int
  BY <1>1, PortfolioAssumption
<1>15. Within(part)
  <2>1. /\ Portfolio!Gross(full) \in Int /\ Portfolio!Net(full) \in Int
        /\ Portfolio!Gross(part) \in Int /\ Portfolio!Net(part) \in Int
    BY <1>4, <1>5 DEF Exposed
  <2> QED  BY <1>6, <1>7, <1>8, <1>9, <1>12, <1>13, <1>14, <2>1 DEF Within
<1> QED  BY <1>15 DEF part

-------------------------------------------------------------------------------
(* Event logs.                                                             *)

Data == (UNION {{log[k].data : k \in DOMAIN log} : log \in Logs}) \cup {x.data : x \in Strays}
Records == [data : Data, flags : Nat]
Lines == Records \cup Log!NotEvents

\* The events of the first k lines.
UpTo(lines, upTo) ==
  upTo = [k \in 0 .. Len(lines) |->
            IF k = 0 THEN <<>>
            ELSE IF lines[k] \in Log!Ignored THEN upTo[k - 1]
            ELSE Append(upTo[k - 1], lines[k])]

\* The marks are five different ones, and no events.
LEMMA MarksDiffer ==
  /\ Log!Header \notin {Log!Drifted, Log!Comment, Log!Garbled, Log!Short}
  /\ Log!Drifted \notin {Log!Comment, Log!Garbled, Log!Short}
  /\ Log!Comment \notin {Log!Garbled, Log!Short} /\ Log!Garbled # Log!Short
<1>1. \A name : Log!Mark(name).data = name
  BY DEF Log!Mark
<1>2. \A a, b : Log!Mark(a) = Log!Mark(b) => a = b
  BY <1>1
<1>3. /\ "header" \notin {"drifted header", "comment", "garbled", "cut short"}
      /\ "drifted header" \notin {"comment", "garbled", "cut short"}
      /\ "comment" \notin {"garbled", "cut short"} /\ "garbled" # "cut short"
  OBVIOUS
<1>4. /\ Log!Header = Log!Mark("header") /\ Log!Drifted = Log!Mark("drifted header")
      /\ Log!Comment = Log!Mark("comment") /\ Log!Garbled = Log!Mark("garbled")
      /\ Log!Short = Log!Mark("cut short")
  BY DEF Log!Header, Log!Drifted, Log!Comment, Log!Garbled, Log!Short
<1> QED  BY <1>2, <1>3, <1>4, Zenon

LEMMA EventsAreNoMarks ==
  /\ Logs \subseteq Seq(Records) /\ Strays \subseteq Records
  /\ \A x \in Records : x \notin Log!NotEvents /\ \A mark \in Log!NotEvents : x.data # mark.data
<1> DEFINE Event(e) == /\ e \in [data : {e.data}, flags : Nat]
                       /\ \A mark \in Log!NotEvents : e.data # mark.data
<1>1. /\ \A log \in Logs : /\ log \in Seq({log[k] : k \in DOMAIN log})
                           /\ \A k \in DOMAIN log : Event(log[k])
      /\ \A stray \in Strays : Event(stray)
  BY LogAssumption
<1>2. ASSUME NEW e, Event(e), e.data \in Data PROVE e \in Records
  <2>1. PICK d \in {e.data}, f \in Nat : e = [data |-> d, flags |-> f]
    BY <1>2
  <2>2. d = e.data
    OBVIOUS
  <2> QED  BY <1>2, <2>1, <2>2 DEF Records
<1>3. ASSUME NEW log \in Logs PROVE log \in Seq(Records)
  <2> DEFINE S == {log[k] : k \in DOMAIN log}
  <2>1. ASSUME NEW k \in DOMAIN log PROVE log[k] \in Records
    <3>1. log[k].data \in Data
      BY DEF Data
    <3> HIDE DEF Event
    <3> QED  BY <1>1, <1>2, <3>1
  <2>2. S \subseteq Records
    BY <2>1
  <2>3. log \in Seq(S)
    BY <1>1
  <2> HIDE DEF S
  <2> QED  BY <2>2, <2>3
<1>4. ASSUME NEW stray \in Strays PROVE stray \in Records
  <2>1. stray.data \in Data
    BY DEF Data
  <2> HIDE DEF Event
  <2> QED  BY <1>1, <1>2, <2>1
<1>5. ASSUME NEW x \in Records, NEW mark \in Log!NotEvents PROVE x.data # mark.data
  <2>1. x.data \in Data
    BY DEF Records
  <2>2. CASE \E log \in Logs : \E k \in DOMAIN log : log[k].data = x.data
    <3>1. PICK log \in Logs : \E k \in DOMAIN log : log[k].data = x.data
      BY <2>2
    <3>2. PICK k \in DOMAIN log : log[k].data = x.data
      BY <3>1
    <3>3. Event(log[k])
      BY <1>1
    <3> QED  BY <3>2, <3>3
  <2>3. CASE \E stray \in Strays : stray.data = x.data
    BY <1>1, <2>3
  <2> QED  BY <2>1, <2>2, <2>3 DEF Data
<1> QED  BY <1>3, <1>4, <1>5

\* Reading line by line is a recursion over the lines.
LEMMA ParsingGoesUp ==
  ASSUME NEW lines, Len(lines) \in Nat
  PROVE  \E upTo : UpTo(lines, upTo) /\ Log!Parsed(lines) = upTo[Len(lines)]
<1> DEFINE L == Len(lines)
           More(n, before) == IF lines[n] \in Log!Ignored THEN before
                              ELSE Append(before, lines[n])
           Body(f, n) == IF n = 0 THEN <<>> ELSE More(n, f[n - 1])
           S == {m \in Nat : \E f : f = [n \in 0 .. m |-> Body(f, n)]}
<1>1. 0 \in S
  <2> DEFINE f == [n \in 0 .. 0 |-> <<>>]
  <2>1. f = [n \in 0 .. 0 |-> Body(f, n)]
    BY DEF Body
  <2> QED  BY <2>1
<1>2. ASSUME NEW m \in S PROVE m + 1 \in S
  <2>1. m \in Nat
    OBVIOUS
  <2>2. PICK f : f = [n \in 0 .. m |-> Body(f, n)]
    OBVIOUS
  <2> DEFINE g == [n \in 0 .. m + 1 |-> IF n = m + 1 THEN More(n, f[m]) ELSE f[n]]
  <2>3. ASSUME NEW n \in 0 .. m + 1 PROVE g[n] = Body(g, n)
    <3>1. CASE n = m + 1
      <4>1. g[n] = More(n, f[m]) /\ n # 0 /\ n - 1 = m /\ g[m] = f[m]
        BY <2>1, <3>1
      <4> HIDE DEF g, More
      <4> QED  BY <4>1 DEF Body
    <3>2. CASE n # m + 1 /\ n # 0
      <4>1. n \in 0 .. m /\ n - 1 \in 0 .. m /\ n - 1 # m + 1 /\ n - 1 \in 0 .. m + 1
        BY <2>1, <3>2
      <4>2. g[n] = f[n] /\ g[n - 1] = f[n - 1]
        BY <3>2, <4>1
      <4>3. f[n] = Body(f, n)
        BY <2>2, <4>1
      <4> HIDE DEF g, More
      <4> QED  BY <3>2, <4>2, <4>3 DEF Body
    <3>3. CASE n # m + 1 /\ n = 0
      <4>1. n \in 0 .. m
        BY <2>1, <3>3
      <4>2. f[n] = <<>>
        BY <2>2, <3>3, <4>1
      <4>3. g[n] = f[n]
        BY <3>3
      <4> HIDE DEF g, More
      <4> QED  BY <3>3, <4>2, <4>3 DEF Body
    <3> QED  BY <3>1, <3>2, <3>3
  <2>4. g = [n \in 0 .. m + 1 |-> g[n]]
    OBVIOUS
  <2> HIDE DEF g, More
  <2>5. g = [n \in 0 .. m + 1 |-> Body(g, n)]
    BY <2>3, <2>4
  <2>6. m + 1 \in Nat
    BY <2>1
  <2> QED  BY <2>5, <2>6
<1>3. S = Nat
  <2> HIDE DEF S
  <2> SUFFICES S \in SUBSET Nat
    BY <1>1, <1>2, Induct
  <2> QED  BY DEF S
<1>4. \E f : f = [n \in 0 .. L |-> Body(f, n)]
  <2>1. L \in S
    BY <1>3
  <2> QED  BY <2>1
<1> DEFINE upTo == CHOOSE f : f = [n \in 0 .. L |-> Body(f, n)]
<1>5. upTo = [n \in 0 .. L |-> Body(upTo, n)]
  BY <1>4
<1>6. Log!Parsed(lines) = upTo[L]
  BY DEF Log!Parsed
<1> HIDE DEF upTo
<1>7. UpTo(lines, upTo)
  BY <1>5 DEF UpTo
<1> QED  BY <1>6, <1>7

\* One line more.
LEMMA OneLineMore ==
  ASSUME NEW lines, Len(lines) \in Nat, NEW f, UpTo(lines, f)
  PROVE  /\ f[0] = <<>>
         /\ \A k \in 1 .. Len(lines) :
               f[k] = IF lines[k] \in Log!Ignored THEN f[k - 1]
                      ELSE Append(f[k - 1], lines[k])
<1>1. \A k \in 1 .. Len(lines) : k \in 0 .. Len(lines) /\ k # 0
  OBVIOUS
<1>2. 0 \in 0 .. Len(lines)
  OBVIOUS
<1>3. \A k \in 0 .. Len(lines) :
        f[k] = IF k = 0 THEN <<>>
               ELSE IF lines[k] \in Log!Ignored THEN f[k - 1]
               ELSE Append(f[k - 1], lines[k])
  BY Zenon DEF UpTo
<1> QED  BY <1>1, <1>2, <1>3, Zenon

\* Only lines that are not ignored are kept.
LEMMA KeptIn ==
  ASSUME NEW lines \in Seq(Lines), NEW f, UpTo(lines, f), NEW T,
         \A k \in 1 .. Len(lines) : lines[k] \in Log!Ignored \/ lines[k] \in T
  PROVE  \A k \in 0 .. Len(lines) : f[k] \in Seq(T)
<1> DEFINE S == {k \in Nat : k <= Len(lines) => f[k] \in Seq(T)}
<1>1. 0 \in S
  <2>1. f[0] = <<>> /\ <<>> \in Seq(T)
    BY OneLineMore
  <2> QED  BY <2>1
<1>2. ASSUME NEW k \in S PROVE k + 1 \in S
  <2>1. CASE k + 1 <= Len(lines)
    <3>1. k \in Nat /\ k + 1 \in 1 .. Len(lines) /\ f[k] \in Seq(T) /\ (k + 1) - 1 = k
      BY <2>1
    <3>2. lines[k + 1] \in Log!Ignored \/ lines[k + 1] \in T
      BY <3>1
    <3>3. f[k + 1] = IF lines[k + 1] \in Log!Ignored THEN f[k] ELSE Append(f[k], lines[k + 1])
      BY <3>1, OneLineMore
    <3>4. f[k + 1] \in Seq(T)
      BY <3>1, <3>2, <3>3
    <3> QED  BY <3>1, <3>4
  <2>2. CASE ~ k + 1 <= Len(lines)
    BY <2>2
  <2> QED  BY <2>1, <2>2
<1>3. S = Nat
  <2> HIDE DEF S
  <2> SUFFICES S \in SUBSET Nat
    BY <1>1, <1>2, Induct
  <2> QED  BY DEF S
<1> QED  BY <1>3

LEMMA KeptTyped ==
  ASSUME NEW lines \in Seq(Lines), NEW f, UpTo(lines, f)
  PROVE  \A k \in 0 .. Len(lines) : f[k] \in Seq(Lines)
<1>1. \A k \in 1 .. Len(lines) : lines[k] \in Lines
  OBVIOUS
<1> QED  BY <1>1, KeptIn

\* Texts that begin alike are read alike up to there.
LEMMA SameStart ==
  ASSUME NEW a \in Seq(Lines), NEW b \in Seq(Lines), NEW f, NEW g, UpTo(a, f), UpTo(b, g),
         NEW n \in 0 .. Len(a), n <= Len(b), \A j \in 1 .. n : a[j] = b[j]
  PROVE  \A k \in 0 .. n : f[k] = g[k]
<1> DEFINE S == {k \in Nat : k <= n => f[k] = g[k]}
<1>1. 0 \in S
  BY OneLineMore
<1>2. ASSUME NEW k \in S PROVE k + 1 \in S
  <2>1. CASE k + 1 <= n
    <3>1. /\ k \in Nat /\ k + 1 \in 1 .. Len(a) /\ k + 1 \in 1 .. Len(b)
          /\ f[k] = g[k] /\ (k + 1) - 1 = k /\ a[k + 1] = b[k + 1]
      BY <2>1
    <3>2. f[k + 1] = IF a[k + 1] \in Log!Ignored THEN f[k] ELSE Append(f[k], a[k + 1])
      BY <3>1, OneLineMore
    <3>3. g[k + 1] = IF b[k + 1] \in Log!Ignored THEN g[k] ELSE Append(g[k], b[k + 1])
      BY <3>1, OneLineMore
    <3> QED  BY <3>1, <3>2, <3>3
  <2>2. CASE ~ k + 1 <= n
    BY <2>2
  <2> QED  BY <2>1, <2>2
<1>3. S = Nat
  <2> HIDE DEF S
  <2> SUFFICES S \in SUBSET Nat
    BY <1>1, <1>2, Induct
  <2> QED  BY DEF S
<1> QED  BY <1>3

-------------------------------------------------------------------------------
\* Where lines come from: each of its own of some others, in their order, or put in.
Maps(from, after, lines, put) ==
  /\ from \in [DOMAIN after -> 0 .. Len(lines)]
  /\ \A k \in DOMAIN after :
        /\ IF from[k] = 0 THEN \E by \in put : after[k].data = by.data
                          ELSE after[k].data = lines[from[k]].data
        /\ \A j \in 1 .. k - 1 : from[k] = 0 \/ from[j] < from[k]

LEMMA MappedComes ==
  ASSUME NEW after, NEW lines, NEW put
  PROVE  Log!ComesFrom(after, lines, put) <=> \E from : Maps(from, after, lines, put)
BY DEF Log!ComesFrom, Maps

\* What comes from what comes from them comes from them.
LEMMA ComesFromThere ==
  ASSUME NEW T, NEW after, NEW lines, NEW events \in Seq(T), NEW n \in Nat, NEW m \in Nat,
         DOMAIN after = 1 .. m, DOMAIN lines = 1 .. n, Len(lines) = n, NEW put, NEW more,
         Log!ComesFrom(after, lines, more), Log!ComesFrom(lines, events, put),
         put \subseteq more
  PROVE  Log!ComesFrom(after, events, more)
<1>1. PICK to : Maps(to, after, lines, more)
  BY MappedComes, Zenon
<1>2. PICK from : Maps(from, lines, events, put)
  BY MappedComes, Zenon
<1> DEFINE both == [k \in 1 .. m |-> IF to[k] = 0 THEN 0 ELSE from[to[k]]]
<1>3. /\ \A k \in 1 .. m : to[k] \in 0 .. n
      /\ \A k \in 1 .. n : from[k] \in 0 .. Len(events)
      /\ Len(events) \in Nat
  <2>1. to \in [1 .. m -> 0 .. n]
    BY <1>1 DEF Maps
  <2>2. from \in [1 .. n -> 0 .. Len(events)]
    BY <1>2 DEF Maps
  <2> QED  BY <2>1, <2>2
<1>4. both \in [1 .. m -> 0 .. Len(events)]
  BY <1>3
<1>5. ASSUME NEW k \in 1 .. m
      PROVE  IF both[k] = 0 THEN \E by \in more : after[k].data = by.data
                            ELSE after[k].data = events[both[k]].data
  <2>1. CASE to[k] = 0
    BY <1>1, <2>1 DEF Maps
  <2>2. CASE to[k] # 0
    <3>1. to[k] \in 1 .. n /\ both[k] = from[to[k]] /\ after[k].data = lines[to[k]].data
      <4>1. to[k] \in 1 .. n /\ both[k] = from[to[k]]
        BY <1>3, <2>2
      <4>2. after[k].data = lines[to[k]].data
        BY <1>1, <2>2 DEF Maps
      <4> QED  BY <4>1, <4>2
    <3>2. IF from[to[k]] = 0 THEN \E by \in put : lines[to[k]].data = by.data
                             ELSE lines[to[k]].data = events[from[to[k]]].data
      BY <1>2, <3>1 DEF Maps
    <3> HIDE DEF both
    <3> QED  BY <3>1, <3>2
  <2> QED  BY <2>1, <2>2
<1>6. ASSUME NEW k \in 1 .. m, NEW j \in 1 .. k - 1, both[k] # 0
      PROVE  both[j] < both[k]
  <2>1. to[k] # 0 /\ to[k] \in 1 .. n /\ both[k] = from[to[k]] /\ from[to[k]] \in 1 .. Len(events)
    BY <1>3, <1>6
  <2>2. j \in 1 .. m /\ to[j] < to[k]
    BY <1>1, <2>1 DEF Maps
  <2>3. CASE to[j] = 0
    BY <2>1, <2>2, <2>3
  <2>4. CASE to[j] # 0
    <3>1. to[j] \in 1 .. to[k] - 1 /\ both[j] = from[to[j]]
      BY <1>3, <2>1, <2>2, <2>4
    <3> HIDE DEF both
    <3>2. from[to[k]] = 0 \/ from[to[j]] < from[to[k]]
      BY <1>2, <2>1, <3>1 DEF Maps
    <3> QED  BY <2>1, <3>1, <3>2
  <2> QED  BY <2>3, <2>4
<1> HIDE DEF both
<1>7. Maps(both, after, events, more)
  BY <1>4, <1>5, <1>6 DEF Maps
<1> QED  BY <1>7, MappedComes

LEMMA MoreComes ==
  ASSUME NEW r, NEW rows, NEW put, Log!ComesFrom(r, rows, {})
  PROVE  Log!ComesFrom(r, rows, put)
<1>1. PICK from : Maps(from, r, rows, {})
  BY MappedComes, Zenon
<1>2. \A k \in DOMAIN r : from[k] # 0
  BY <1>1 DEF Maps
<1>3. Maps(from, r, rows, put)
  BY <1>1, <1>2 DEF Maps
<1> QED  BY <1>3, MappedComes

\* Of marks that were put in there are none among events.
LEMMA EventsCome ==
  ASSUME NEW r \in Seq(Records), NEW events, NEW put,
         Log!ComesFrom(r, events, put \cup Log!NotEvents)
  PROVE  Log!ComesFrom(r, events, put)
<1>1. PICK from : Maps(from, r, events, put \cup Log!NotEvents)
  BY MappedComes, Zenon
<1>2. ASSUME NEW k \in DOMAIN r, NEW by \in put \cup Log!NotEvents, r[k].data = by.data
      PROVE  by \in put
  <2>1. r[k] \in Records
    OBVIOUS
  <2> QED  BY <1>2, <2>1, EventsAreNoMarks
<1>3. Maps(from, r, events, put)
  BY <1>1, <1>2 DEF Maps
<1> QED  BY <1>3, MappedComes

\* What is read of lines comes from them.
LEMMA ParsedComes ==
  ASSUME NEW lines \in Seq(Lines), NEW f, UpTo(lines, f)
  PROVE  Log!ComesFrom(f[Len(lines)], lines, {})
<1> DEFINE S == {k \in Nat : k <= Len(lines) =>
                   \E to : Maps(to, f[k], lines, {}) /\ \A j \in DOMAIN f[k] : to[j] \in 1 .. k}
<1>1. Len(lines) \in Nat
  OBVIOUS
<1>2. \A k \in 0 .. Len(lines) : f[k] \in Seq(Lines)
  BY KeptTyped
<1>3. 0 \in S
  <2>1. f[0] = <<>> /\ DOMAIN f[0] = {}
    BY <1>1, OneLineMore
  <2> DEFINE to == [j \in {} |-> 0]
  <2>2. Maps(to, f[0], lines, {})
    BY <2>1 DEF Maps
  <2> QED  BY <2>1, <2>2
<1>4. ASSUME NEW k \in S PROVE k + 1 \in S
  <2>1. CASE k + 1 <= Len(lines)
    <3>1. /\ k \in Nat /\ k + 1 \in 1 .. Len(lines) /\ (k + 1) - 1 = k /\ k \in 0 .. Len(lines)
      BY <1>1, <2>1
    <3>2. PICK to : Maps(to, f[k], lines, {}) /\ \A j \in DOMAIN f[k] : to[j] \in 1 .. k
      BY <2>1, <3>1
    <3>3. f[k + 1] = IF lines[k + 1] \in Log!Ignored THEN f[k] ELSE Append(f[k], lines[k + 1])
      BY <1>1, <3>1, OneLineMore
    <3>4. CASE lines[k + 1] \in Log!Ignored
      <4>1. f[k + 1] = f[k] /\ \A j \in DOMAIN f[k] : to[j] \in 1 .. k + 1
        BY <3>1, <3>2, <3>3, <3>4
      <4> QED  BY <3>1, <3>2, <4>1
    <3>5. CASE lines[k + 1] \notin Log!Ignored
      <4> DEFINE r == f[k]  s == f[k + 1]  n == Len(r)
                 too == [j \in 1 .. n + 1 |-> IF j = n + 1 THEN k + 1 ELSE to[j]]
      <4>1. /\ n \in Nat /\ DOMAIN r = 1 .. n /\ DOMAIN s = 1 .. n + 1
            /\ s[n + 1] = lines[k + 1] /\ \A j \in 1 .. n : s[j] = r[j]
        <5>1. r \in Seq(Lines) /\ s = Append(r, lines[k + 1]) /\ lines[k + 1] \in Lines
          BY <1>2, <3>1, <3>3, <3>5
        <5> QED  BY <5>1
      <4> HIDE DEF r, s, n
      <4>2. /\ \A j \in 1 .. n : /\ to[j] \in 1 .. k /\ r[j].data = lines[to[j]].data
                                 /\ \A i \in 1 .. j - 1 : to[i] < to[j]
        <5>1. \A j \in 1 .. n : to[j] \in 1 .. k /\ to[j] # 0
          BY <3>1, <3>2, <4>1 DEF r
        <5> QED  BY <3>2, <4>1, <5>1 DEF Maps, r
      <4>3. \A j \in 1 .. n + 1 : j = n + 1 \/ (j \in 1 .. n /\ j # n + 1)
        BY <4>1
      <4>4. /\ \A j \in 1 .. n : too[j] = to[j]
            /\ too[n + 1] = k + 1
        BY <4>1
      <4>5. \A j \in 1 .. n + 1 : too[j] \in 1 .. k + 1
        BY <3>1, <4>2, <4>3, <4>4
      <4>6. too \in [1 .. n + 1 -> 0 .. Len(lines)]
        <5>1. 1 .. k + 1 \subseteq 0 .. Len(lines)
          BY <1>1, <3>1
        <5>2. too = [j \in 1 .. n + 1 |-> too[j]]
          OBVIOUS
        <5> HIDE DEF too
        <5> QED  BY <4>5, <5>1, <5>2
      <4> HIDE DEF too
      <4>7. ASSUME NEW j \in 1 .. n + 1
            PROVE  /\ too[j] # 0 /\ s[j].data = lines[too[j]].data
                   /\ \A i \in 1 .. j - 1 : too[i] < too[j]
        <5>1. CASE j = n + 1
          <6>1. \A i \in 1 .. j - 1 : i \in 1 .. n
            BY <4>1, <5>1
          <6> QED  BY <3>1, <4>1, <4>2, <4>4, <5>1, <6>1
        <5>2. CASE j \in 1 .. n
          <6>1. \A i \in 1 .. j - 1 : i \in 1 .. n
            BY <4>1, <5>2
          <6> QED  BY <4>1, <4>2, <4>4, <5>2, <6>1
        <5> QED  BY <4>3, <5>1, <5>2
      <4>8. Maps(too, s, lines, {})
        BY <4>1, <4>6, <4>7 DEF Maps
      <4>9. \A j \in DOMAIN s : too[j] \in 1 .. k + 1
        BY <4>1, <4>5
      <4> QED  BY <3>1, <4>8, <4>9 DEF s
    <3> QED  BY <3>4, <3>5
  <2>2. CASE ~ k + 1 <= Len(lines)
    BY <2>2
  <2> QED  BY <2>1, <2>2
<1>5. S = Nat
  <2> HIDE DEF S
  <2> SUFFICES S \in SUBSET Nat
    BY <1>3, <1>4, Induct
  <2> QED  BY DEF S
<1>6. Len(lines) \in S
  BY <1>1, <1>5
<1> QED  BY <1>6, MappedComes

-------------------------------------------------------------------------------
\* No line up to the k-th makes reading fail.
GoodTo(lines, k) == \A j \in 1 .. k : lines[j] \notin {Log!Drifted, Log!Garbled}

\* A beginning of the events, but for the flags of the last.
Begins(r, events) ==
  /\ Len(r) <= Len(events)
  /\ \A j \in 1 .. Len(r) : /\ r[j] \in Records /\ r[j].data = events[j].data
                            /\ j < Len(r) => r[j] = events[j]

TextSound(lines, events) ==
  /\ lines \in Seq(Lines)
  /\ \A k \in DOMAIN lines : lines[k] # Log!Short
  /\ \A upTo : UpTo(lines, upTo) =>
       \A k \in 0 .. Len(lines) : GoodTo(lines, k) => Begins(upTo[k], events)

\* A line that may stand for another as the last one of a text.
StandsFor(line, other) ==
  \/ line = other
  \/ line \in {Log!Drifted, Log!Garbled}
  \/ /\ other \in Records /\ line \in Records /\ line.data = other.data

\* A text that goes on as another for n lines and then is read no further, or
\* by no more than a last line.
GoesOn(after, lines, n) ==
  /\ n \in 0 .. Len(lines) /\ n <= Len(after)
  /\ \A j \in 1 .. n : after[j] = lines[j]
  /\ \/ Len(after) = n
     \/ after[n + 1] \in {Log!Drifted, Log!Garbled}
     \/ Len(after) = n + 1 /\ n < Len(lines) /\ StandsFor(after[n + 1], lines[n + 1])

LEMMA LastMayDiffer ==
  ASSUME NEW r \in Seq(Lines), NEW x, NEW y, NEW events \in Seq(Records),
         Begins(Append(r, y), events), x \in Records, y \in Records, x.data = y.data
  PROVE  Begins(Append(r, x), events)
<1> DEFINE a == Append(r, y)  b == Append(r, x)  n == Len(r)
<1>1. /\ n \in Nat /\ Len(a) = n + 1 /\ Len(b) = n + 1
      /\ a[n + 1] = y /\ b[n + 1] = x /\ \A j \in 1 .. n : a[j] = b[j]
  <2>1. r \in Seq(Lines \cup {x, y})
    OBVIOUS
  <2> QED  BY <2>1
<1> HIDE DEF a, b, n
<1>2. Begins(a, events)
  BY DEF a
<1>3. \A j \in 1 .. Len(b) : j \in 1 .. n \/ j = n + 1
  BY <1>1
<1>4. ASSUME NEW j \in 1 .. Len(b)
      PROVE  b[j] \in Records /\ b[j].data = events[j].data /\ (j < Len(b) => b[j] = events[j])
  <2>1. j \in 1 .. Len(a)
    BY <1>1
  <2>2. CASE j \in 1 .. n
    <3>1. b[j] = a[j] /\ j < Len(a)
      BY <1>1, <2>2
    <3> QED  BY <1>2, <2>1, <3>1 DEF Begins
  <2>3. CASE j = n + 1
    <3>1. ~ j < Len(b)
      BY <1>1, <2>3
    <3>2. a[j].data = events[j].data /\ b[j] = x /\ a[j] = y
      BY <1>1, <1>2, <2>1, <2>3 DEF Begins
    <3> QED  BY <3>1, <3>2
  <2> QED  BY <1>3, <2>2, <2>3
<1>5. Len(b) <= Len(events)
  BY <1>1, <1>2 DEF Begins
<1> QED  BY <1>4, <1>5 DEF Begins, b

LEMMA TextGoesOn ==
  ASSUME NEW events \in Seq(Records), NEW lines, TextSound(lines, events),
         NEW after \in Seq(Lines), \A k \in DOMAIN after : after[k] # Log!Short,
         NEW n, GoesOn(after, lines, n)
  PROVE  TextSound(after, events)
<1>1. lines \in Seq(Lines) /\ Len(lines) \in Nat /\ Len(after) \in Nat /\ n \in Nat
  BY DEF TextSound, GoesOn
<1>2. PICK f : UpTo(lines, f)
  BY <1>1, ParsingGoesUp
<1>3. \A k \in 0 .. Len(lines) : GoodTo(lines, k) => Begins(f[k], events)
  BY <1>2 DEF TextSound
<1>4. SUFFICES ASSUME NEW g, UpTo(after, g), NEW k \in 0 .. Len(after), GoodTo(after, k)
               PROVE  Begins(g[k], events)
  BY DEF TextSound
<1>5. \A j \in 0 .. n : g[j] = f[j]
  BY <1>1, <1>2, <1>4, SameStart DEF GoesOn
<1>6. CASE k <= n
  <2>1. k \in 0 .. Len(lines) /\ g[k] = f[k]
    BY <1>1, <1>5, <1>6 DEF GoesOn
  <2>2. GoodTo(lines, k)
    <3>1. \A j \in 1 .. k : after[j] = lines[j]
      BY <1>1, <1>6 DEF GoesOn
    <3> QED  BY <1>4, <3>1 DEF GoodTo
  <2> QED  BY <1>3, <2>1, <2>2
<1>7. CASE k > n
  <2>1. n + 1 \in 1 .. k /\ Len(after) # n
    BY <1>1, <1>7
  <2>2. after[n + 1] \notin {Log!Drifted, Log!Garbled}
    BY <1>4, <2>1 DEF GoodTo
  <2>3. Len(after) = n + 1 /\ n < Len(lines) /\ StandsFor(after[n + 1], lines[n + 1])
    BY <2>1, <2>2 DEF GoesOn
  <2>4. /\ k = n + 1 /\ k \in 1 .. Len(after) /\ k \in 1 .. Len(lines) /\ k - 1 = n
        /\ k \in 0 .. Len(lines)
    BY <1>1, <1>7, <2>3
  <2> DEFINE x == after[k]  y == lines[k]
  <2>5. /\ g[k] = IF x \in Log!Ignored THEN f[n] ELSE Append(f[n], x)
        /\ f[k] = IF y \in Log!Ignored THEN f[n] ELSE Append(f[n], y)
    <3>1. g[n] = f[n]
      BY <1>1, <1>5
    <3> QED  BY <1>1, <1>2, <1>4, <2>4, <3>1, OneLineMore
  <2>6. x = y \/ (x \in Records /\ y \in Records /\ x.data = y.data)
    BY <2>2, <2>3, <2>4 DEF StandsFor
  <2>7. GoodTo(lines, k)
    <3>1. \A j \in 1 .. k : j \in 1 .. n \/ j = k
      BY <2>4
    <3>2. \A j \in 1 .. n : after[j] = lines[j]
      BY DEF GoesOn
    <3>3. \A z \in Records : z \notin {Log!Drifted, Log!Garbled}
      BY EventsAreNoMarks DEF Log!NotEvents
    <3>4. k \in 1 .. k
      BY <2>4
    <3>5. y \notin {Log!Drifted, Log!Garbled}
      BY <1>4, <2>6, <3>3, <3>4 DEF GoodTo
    <3> QED  BY <1>4, <3>1, <3>2, <3>5 DEF GoodTo
  <2>8. Begins(f[k], events)
    BY <1>3, <2>4, <2>7
  <2> HIDE DEF x, y
  <2>9. CASE x = y
    BY <2>5, <2>8, <2>9
  <2>10. CASE x \in Records /\ y \in Records /\ x.data = y.data
    <3>1. x \notin Log!Ignored /\ y \notin Log!Ignored
      BY <2>10, EventsAreNoMarks DEF Log!NotEvents, Log!Ignored
    <3>2. f[n] \in Seq(Lines)
      BY <1>1, <1>2, KeptTyped DEF GoesOn
    <3> QED  BY <2>5, <2>8, <2>10, <3>1, <3>2, LastMayDiffer
  <2> QED  BY <2>6, <2>9, <2>10
<1> QED  BY <1>1, <1>6, <1>7

\* A comment changes nothing of what is read.
Commented(after, lines, p) ==
  /\ p \in 1 .. Len(lines) + 1 /\ Len(after) = Len(lines) + 1
  /\ after[p] = Log!Comment
  /\ \A j \in 1 .. Len(lines) : after[IF j < p THEN j ELSE j + 1] = lines[j]

LEMMA CommentReadsAlike ==
  ASSUME NEW lines \in Seq(Lines), NEW after \in Seq(Lines), NEW p, Commented(after, lines, p),
         NEW f, NEW g, UpTo(lines, f), UpTo(after, g)
  PROVE  \A k \in 0 .. Len(lines) : g[IF k < p THEN k ELSE k + 1] = f[k]
<1>1. /\ Len(lines) \in Nat /\ Len(after) = Len(lines) + 1 /\ p \in 1 .. Len(lines) + 1
      /\ p \in Nat
  BY DEF Commented
<1>2. \A k \in 1 .. Len(after) :
        g[k] = IF after[k] \in Log!Ignored THEN g[k - 1] ELSE Append(g[k - 1], after[k])
  BY <1>1, OneLineMore
<1>3. \A k \in 1 .. Len(lines) :
        f[k] = IF lines[k] \in Log!Ignored THEN f[k - 1] ELSE Append(f[k - 1], lines[k])
  BY <1>1, OneLineMore
<1>4. g[p] = g[p - 1]
  BY <1>1, <1>2 DEF Commented, Log!Ignored
<1>5. f[0] = <<>> /\ g[0] = <<>>
  BY <1>1, OneLineMore
<1> DEFINE S == {k \in Nat : k <= Len(lines) => g[IF k < p THEN k ELSE k + 1] = f[k]}
<1>6. 0 \in S
  BY <1>1, <1>5
<1>7. ASSUME NEW k \in S PROVE k + 1 \in S
  <2>1. CASE k + 1 <= Len(lines)
    <3> DEFINE at == IF k + 1 < p THEN k + 1 ELSE k + 2
    <3>1. k \in Nat /\ k + 1 \in 1 .. Len(lines) /\ (k + 1) - 1 = k
      BY <2>1
    <3>2. g[IF k < p THEN k ELSE k + 1] = f[k]
      BY <2>1
    <3>3. after[at] = lines[k + 1] /\ at \in 1 .. Len(after)
      BY <1>1, <3>1 DEF Commented
    <3>4. g[at - 1] = f[k]
      <4>1. CASE k + 1 < p
        BY <1>1, <3>1, <3>2, <4>1
      <4>2. CASE k + 1 = p
        <5>1. at - 1 = p /\ p - 1 = k /\ k < p
          BY <3>1, <4>2
        <5> QED  BY <1>4, <3>2, <5>1
      <4>3. CASE k + 1 > p
        <5>1. at - 1 = k + 1 /\ ~ k < p
          BY <1>1, <3>1, <4>3
        <5> QED  BY <3>2, <5>1
      <4> QED  BY <1>1, <3>1, <4>1, <4>2, <4>3
    <3>5. (IF k + 1 < p THEN k + 1 ELSE (k + 1) + 1) = at
      BY <1>1, <3>1
    <3> HIDE DEF at
    <3>6. g[at] = f[k + 1]
      BY <1>2, <1>3, <3>1, <3>3, <3>4
    <3> QED  BY <3>1, <3>5, <3>6
  <2>2. CASE ~ k + 1 <= Len(lines)
    BY <2>2
  <2> QED  BY <2>1, <2>2
<1>8. S = Nat
  <2> HIDE DEF S
  <2> SUFFICES S \in SUBSET Nat
    BY <1>6, <1>7, Induct
  <2> QED  BY DEF S
<1> QED  BY <1>1, <1>8

LEMMA CommentsAreSound ==
  ASSUME NEW events \in Seq(Records), NEW lines, TextSound(lines, events),
         NEW after \in Seq(Lines), NEW p, Commented(after, lines, p)
  PROVE  TextSound(after, events)
<1>1. /\ lines \in Seq(Lines) /\ Len(lines) \in Nat /\ Len(after) = Len(lines) + 1
      /\ p \in 1 .. Len(lines) + 1 /\ p \in Nat
  BY DEF TextSound, Commented
<1>2. PICK f : UpTo(lines, f)
  BY <1>1, ParsingGoesUp
<1>3. \A k \in 0 .. Len(lines) : GoodTo(lines, k) => Begins(f[k], events)
  BY <1>2 DEF TextSound
<1>4. \A j \in 1 .. Len(after) :
        IF j = p THEN after[j] = Log!Comment
        ELSE /\ (IF j < p THEN j ELSE j - 1) \in 1 .. Len(lines)
             /\ after[j] = lines[IF j < p THEN j ELSE j - 1]
  <2> SUFFICES ASSUME NEW j \in 1 .. Len(after), j # p
               PROVE  /\ (IF j < p THEN j ELSE j - 1) \in 1 .. Len(lines)
                      /\ after[j] = lines[IF j < p THEN j ELSE j - 1]
    BY DEF Commented
  <2>1. CASE j < p
    <3>1. j \in 1 .. Len(lines)
      BY <1>1, <2>1
    <3> QED  BY <2>1, <3>1 DEF Commented
  <2>2. CASE j > p
    <3>1. j - 1 \in 1 .. Len(lines) /\ ~ j - 1 < p /\ ~ j < p /\ (j - 1) + 1 = j
      BY <1>1, <2>2
    <3>2. after[(j - 1) + 1] = lines[j - 1]
      BY <3>1 DEF Commented
    <3> QED  BY <3>1, <3>2
  <2> QED  BY <1>1, <2>1, <2>2
<1>5. \A j \in DOMAIN after : after[j] # Log!Short
  <2>1. \A j \in 1 .. Len(lines) : lines[j] # Log!Short
    BY <1>1 DEF TextSound
  <2> QED  BY <1>4, <2>1, MarksDiffer
<1>6. ASSUME NEW g, UpTo(after, g), NEW k \in 0 .. Len(after), GoodTo(after, k)
      PROVE  Begins(g[k], events)
  <2> DEFINE m == IF k < p THEN k ELSE k - 1
  <2>1. k \in Nat /\ m \in 0 .. Len(lines)
    BY <1>1
  <2>2. GoodTo(lines, m)
    <3> SUFFICES ASSUME NEW j \in 1 .. m PROVE lines[j] \notin {Log!Drifted, Log!Garbled}
      BY DEF GoodTo
    <3> DEFINE i == IF j < p THEN j ELSE j + 1
    <3>1. i \in 1 .. k /\ j \in 1 .. Len(lines)
      BY <1>1, <2>1
    <3>2. after[i] = lines[j]
      BY <3>1 DEF Commented
    <3> HIDE DEF i, m
    <3> QED  BY <1>6, <3>1, <3>2 DEF GoodTo
  <2>3. \A n \in 0 .. Len(lines) : g[IF n < p THEN n ELSE n + 1] = f[n]
    BY <1>1, <1>2, <1>6, CommentReadsAlike
  <2>4. g[k] = f[m]
    <3>1. CASE k < p
      BY <2>1, <2>3, <3>1
    <3>2. CASE k > p
      <4>1. ~ m < p /\ m + 1 = k
        BY <1>1, <2>1, <3>2
      <4> HIDE DEF m
      <4> QED  BY <2>1, <2>3, <4>1
    <3>3. CASE k = p
      <4>1. k \in 1 .. Len(after) /\ k - 1 = m /\ m < p /\ after[k] \in Log!Ignored
        BY <1>1, <3>3 DEF Commented, Log!Ignored
      <4>2. g[k] = g[k - 1]
        BY <1>6, <4>1, OneLineMore
      <4>3. g[m] = f[m]
        <5> HIDE DEF m
        <5> QED  BY <2>1, <2>3, <4>1
      <4> QED  BY <4>1, <4>2, <4>3
    <3> QED  BY <1>1, <2>1, <3>1, <3>2, <3>3
  <2> HIDE DEF m
  <2> QED  BY <1>3, <2>1, <2>2, <2>4
<1> QED  BY <1>5, <1>6 DEF TextSound

\* What is written reads as the events, line after line.
LEMMA WrittenReads ==
  ASSUME NEW events \in Seq(Records), NEW lines, lines = <<Log!Header>> \o events,
         NEW f, UpTo(lines, f)
  PROVE  \A k \in 0 .. Len(events) : f[k + 1] = SubSeq(events, 1, k)
<1>1. /\ Len(events) \in Nat /\ Len(lines) = Len(events) + 1 /\ lines[1] = Log!Header
      /\ \A k \in 1 .. Len(events) : lines[k + 1] = events[k]
  OBVIOUS
<1>2. /\ f[0] = <<>>
      /\ \A k \in 1 .. Len(lines) :
            f[k] = IF lines[k] \in Log!Ignored THEN f[k - 1] ELSE Append(f[k - 1], lines[k])
  <2>1. Len(lines) \in Nat
    BY <1>1
  <2> QED  BY <2>1, OneLineMore
<1> DEFINE S == {k \in Nat : k <= Len(events) => f[k + 1] = SubSeq(events, 1, k)}
<1>3. 0 \in S
  <2>1. 1 \in 1 .. Len(lines) /\ lines[1] \in Log!Ignored
    BY <1>1 DEF Log!Ignored
  <2>2. f[1] = f[1 - 1]
    BY <1>2, <2>1
  <2>3. f[0 + 1] = <<>>
    BY <1>2, <2>2
  <2>4. SubSeq(events, 1, 0) = <<>>
    OBVIOUS
  <2> QED  BY <2>3, <2>4
<1>4. ASSUME NEW k \in S PROVE k + 1 \in S
  <2>1. CASE k + 1 <= Len(events)
    <3>1. /\ k \in Nat /\ k + 1 \in 1 .. Len(events) /\ (k + 1) + 1 \in 1 .. Len(lines)
          /\ ((k + 1) + 1) - 1 = k + 1
      BY <1>1, <2>1
    <3>2. f[k + 1] = SubSeq(events, 1, k)
      BY <2>1
    <3>3. lines[(k + 1) + 1] = events[k + 1] /\ events[k + 1] \notin Log!Ignored
      BY <1>1, <3>1, EventsAreNoMarks DEF Log!Ignored, Log!NotEvents
    <3>4. f[(k + 1) + 1] = Append(f[k + 1], events[k + 1])
      BY <1>2, <3>1, <3>3
    <3>5. SubSeq(events, 1, k + 1) = Append(SubSeq(events, 1, k), events[k + 1])
      BY <3>1
    <3>6. f[(k + 1) + 1] = SubSeq(events, 1, k + 1) /\ k + 1 \in Nat
      BY <3>1, <3>2, <3>4, <3>5
    <3> QED  BY <3>6
  <2>2. CASE ~ k + 1 <= Len(events)
    BY <2>2
  <2> QED  BY <2>1, <2>2
<1>5. S = Nat
  <2> HIDE DEF S
  <2> SUFFICES S \in SUBSET Nat
    BY <1>3, <1>4, Induct
  <2> QED  BY DEF S
<1> QED
  <2> SUFFICES ASSUME NEW k \in 0 .. Len(events) PROVE f[k + 1] = SubSeq(events, 1, k)
    OBVIOUS
  <2>1. k <= Len(events) /\ k \in Nat
    BY <1>1
  <2>2. k \in S
    <3> HIDE DEF S
    <3> QED  BY <1>5, <2>1
  <2> QED  BY <2>1, <2>2

LEMMA WrittenIsSound ==
  ASSUME NEW events \in Seq(Records)
  PROVE  /\ TextSound(<<Log!Header>> \o events, events)
         /\ Log!Parsed(<<Log!Header>> \o events) = events
         /\ \A k \in DOMAIN (<<Log!Header>> \o events) :
               (<<Log!Header>> \o events)[k] \notin {Log!Drifted, Log!Garbled}
<1> DEFINE lines == <<Log!Header>> \o events
<1>1. /\ Len(events) \in Nat /\ Len(lines) = Len(events) + 1 /\ lines[1] = Log!Header
      /\ \A k \in 1 .. Len(events) : lines[k + 1] = events[k]
      /\ lines \in Seq(Lines) /\ DOMAIN lines = 1 .. Len(lines)
  <2>1. events \in Seq(Lines) /\ <<Log!Header>> \in Seq(Lines)
    BY DEF Lines, Log!NotEvents
  <2> QED  BY <2>1
<1>2. \A k \in 1 .. Len(lines) : lines[k] \in Records \/ lines[k] = Log!Header
  <2>1. ASSUME NEW k \in 1 .. Len(lines) PROVE lines[k] \in Records \/ lines[k] = Log!Header
    <3>1. k = 1 \/ (k - 1 \in 1 .. Len(events) /\ lines[(k - 1) + 1] = lines[k])
      BY <1>1
    <3>2. \A j \in 1 .. Len(events) : lines[j + 1] \in Records
      BY <1>1
    <3> QED  BY <1>1, <3>1, <3>2
  <2> QED  BY <2>1
<1>3. \A k \in 1 .. Len(lines) : lines[k] \notin {Log!Drifted, Log!Garbled, Log!Short}
  BY <1>2, MarksDiffer, EventsAreNoMarks DEF Log!NotEvents
<1>9. lines = <<Log!Header>> \o events
  OBVIOUS
<1> HIDE DEF lines
<1>4. ASSUME NEW f, UpTo(lines, f) PROVE \A k \in 0 .. Len(events) : f[k + 1] = SubSeq(events, 1, k)
  BY <1>4, <1>9, WrittenReads
<1>5. ASSUME NEW f, UpTo(lines, f), NEW k \in 0 .. Len(lines) PROVE Begins(f[k], events)
  <2>1. CASE k = 0
    <3>1. f[0] = <<>>
      BY <1>1, <1>5, OneLineMore
    <3>2. Len(<<>>) = 0 /\ 1 .. 0 = {}
      OBVIOUS
    <3> QED  BY <1>1, <2>1, <3>1, <3>2 DEF Begins
  <2>2. CASE k # 0
    <3> DEFINE m == k - 1
    <3>1. m \in 0 .. Len(events) /\ m + 1 = k
      BY <1>1, <2>2
    <3> HIDE DEF m
    <3> DEFINE r == SubSeq(events, 1, m)
    <3>2. f[k] = r
      BY <1>4, <1>5, <3>1
    <3>3. Len(r) = m /\ \A j \in 1 .. m : r[j] = events[j] /\ r[j] \in Records
      BY <1>1, <3>1
    <3> HIDE DEF r
    <3> QED  BY <1>1, <3>1, <3>2, <3>3 DEF Begins
  <2> QED  BY <2>1, <2>2
<1>6. TextSound(lines, events)
  BY <1>1, <1>3, <1>5 DEF TextSound
<1>7. Log!Parsed(lines) = events
  <2>1. PICK f : UpTo(lines, f) /\ Log!Parsed(lines) = f[Len(lines)]
    BY <1>1, ParsingGoesUp
  <2>2. f[Len(events) + 1] = SubSeq(events, 1, Len(events))
    BY <1>1, <1>4, <2>1
  <2> QED  BY <1>1, <2>1, <2>2
<1> QED  BY <1>1, <1>3, <1>6, <1>7 DEF lines

-------------------------------------------------------------------------------
\* What a text may be cut or edited to.
LEMMA LinesKinds ==
  /\ Lines = Records \cup {Log!Header, Log!Drifted, Log!Comment, Log!Garbled, Log!Short}
  /\ {Log!Drifted, Log!Garbled} \subseteq Lines /\ Log!Comment \in Lines
BY DEF Lines, Log!NotEvents

\* A torn line may stand for the line.
LEMMA TornStandsFor ==
  ASSUME NEW line \in Lines, line # Log!Short, NEW torn \in Log!Torn(line)
  PROVE  StandsFor(torn, line) /\ torn \in Lines /\ torn # Log!Short
<1>1. CASE line \in Log!NotEvents
  <2>1. torn \in {line, Log!Garbled, Log!Drifted}
    BY <1>1 DEF Log!Torn
  <2> QED  BY <2>1, LinesKinds, MarksDiffer DEF StandsFor
<1>2. CASE line \notin Log!NotEvents
  <2>1. line \in Records
    BY <1>2 DEF Lines
  <2>2. torn = Log!Garbled
        \/ (line.flags > 9 /\ torn = [line EXCEPT !.flags = line.flags \div 10])
    BY <1>2 DEF Log!Torn
  <2>3. CASE torn = Log!Garbled
    BY <2>3, LinesKinds, MarksDiffer DEF StandsFor
  <2>4. CASE line.flags > 9 /\ torn = [line EXCEPT !.flags = line.flags \div 10]
    <3>1. line.flags \in Nat /\ line.data \in Data
          /\ line = [data |-> line.data, flags |-> line.flags]
      BY <2>1 DEF Records
    <3>2. line.flags \div 10 \in Nat
      BY <3>1
    <3>3. torn = [data |-> line.data, flags |-> line.flags \div 10]
      BY <2>4, <3>1
    <3>4. torn \in Records /\ torn.data = line.data
      BY <3>1, <3>2, <3>3 DEF Records
    <3> QED  BY <2>1, <3>4, LinesKinds, EventsAreNoMarks DEF StandsFor, Log!NotEvents
  <2> QED  BY <2>2, <2>3, <2>4
<1> QED  BY <1>1, <1>2

LEMMA CutTextIsSound ==
  ASSUME NEW events \in Seq(Records), NEW lines, TextSound(lines, events),
         NEW k \in DOMAIN lines
  PROVE  /\ TextSound(SubSeq(lines, 1, k - 1), events)
         /\ \A line \in Log!Torn(lines[k]) :
               TextSound(SubSeq(lines, 1, k - 1) \o <<line>>, events)
<1>1. /\ lines \in Seq(Lines) /\ Len(lines) \in Nat /\ k \in 1 .. Len(lines)
      /\ \A j \in 1 .. Len(lines) : lines[j] # Log!Short /\ lines[j] \in Lines
  BY DEF TextSound
<1> DEFINE left == SubSeq(lines, 1, k - 1)
<1>2. /\ left \in Seq(Lines) /\ Len(left) = k - 1 /\ DOMAIN left = 1 .. k - 1
      /\ \A j \in 1 .. k - 1 : left[j] = lines[j] /\ j \in 1 .. Len(lines)
  BY <1>1
<1> HIDE DEF left
<1>3. TextSound(left, events)
  <2>1. GoesOn(left, lines, k - 1)
    BY <1>1, <1>2 DEF GoesOn
  <2>2. \A j \in DOMAIN left : left[j] # Log!Short
    BY <1>1, <1>2
  <2> QED  BY <1>2, <2>1, <2>2, TextGoesOn
<1>4. ASSUME NEW line \in Log!Torn(lines[k]) PROVE TextSound(left \o <<line>>, events)
  <2> DEFINE after == left \o <<line>>
  <2>1. StandsFor(line, lines[k]) /\ line \in Lines /\ line # Log!Short
    BY <1>1, TornStandsFor
  <2>2. /\ after \in Seq(Lines) /\ Len(after) = k /\ after[k] = line
        /\ DOMAIN after = 1 .. k /\ \A j \in 1 .. k - 1 : after[j] = left[j]
    BY <1>1, <1>2, <2>1
  <2> HIDE DEF after
  <2>3. GoesOn(after, lines, k - 1)
    <3>1. (k - 1) + 1 = k /\ k - 1 < Len(lines) /\ k - 1 \in 0 .. Len(lines)
          /\ k - 1 <= k
      BY <1>1
    <3> QED  BY <1>2, <2>1, <2>2, <3>1 DEF GoesOn
  <2>4. \A j \in DOMAIN after : after[j] # Log!Short
    <3>1. \A j \in 1 .. k : j = k \/ j \in 1 .. k - 1
      BY <1>1
    <3> QED  BY <1>1, <1>2, <2>1, <2>2, <3>1
  <2>5. TextSound(after, events)
    BY <2>2, <2>3, <2>4, TextGoesOn
  <2> QED  BY <2>5 DEF after
<1> QED  BY <1>3, <1>4 DEF left

LEMMA EditedTextIsSound ==
  ASSUME NEW events \in Seq(Records), NEW lines, TextSound(lines, events)
  PROVE  /\ \A k \in DOMAIN lines, line \in {Log!Garbled, Log!Drifted} :
               TextSound(Log!ReplaceAt(lines, k, line), events)
         /\ \A p \in 1 .. Len(lines) + 1 :
               TextSound(Log!InsertAt(lines, p, Log!Comment), events)
<1>1. /\ lines \in Seq(Lines) /\ Len(lines) \in Nat
      /\ \A j \in 1 .. Len(lines) : lines[j] # Log!Short /\ lines[j] \in Lines
  BY DEF TextSound
<1>2. ASSUME NEW k \in DOMAIN lines, NEW line \in {Log!Garbled, Log!Drifted}
      PROVE  TextSound(Log!ReplaceAt(lines, k, line), events)
  <2> DEFINE after == Log!ReplaceAt(lines, k, line)
  <2>1. line \in Lines /\ line # Log!Short
    BY LinesKinds, MarksDiffer
  <2>2. /\ after \in Seq(Lines) /\ Len(after) = Len(lines) /\ after[k] = line
        /\ DOMAIN after = 1 .. Len(lines) /\ k \in 1 .. Len(lines)
        /\ \A j \in 1 .. Len(lines) : j # k => after[j] = lines[j]
    BY <1>1, <2>1 DEF Log!ReplaceAt
  <2> HIDE DEF after
  <2>3. GoesOn(after, lines, k - 1)
    <3>1. (k - 1) + 1 = k /\ k - 1 \in 0 .. Len(lines) /\ k - 1 <= Len(lines)
          /\ \A j \in 1 .. k - 1 : j \in 1 .. Len(lines) /\ j # k
      BY <1>1, <2>2
    <3> QED  BY <2>2, <3>1 DEF GoesOn
  <2>4. \A j \in DOMAIN after : after[j] # Log!Short
    BY <1>1, <2>1, <2>2
  <2>5. TextSound(after, events)
    BY <2>2, <2>3, <2>4, TextGoesOn
  <2> QED  BY <2>5 DEF after
<1>3. ASSUME NEW p \in 1 .. Len(lines) + 1
      PROVE  TextSound(Log!InsertAt(lines, p, Log!Comment), events)
  <2> DEFINE before == SubSeq(lines, 1, p - 1)  rest == SubSeq(lines, p, Len(lines))
             after == before \o <<Log!Comment>> \o rest
  <2>1. /\ before \in Seq(Lines) /\ Len(before) = p - 1
        /\ \A j \in 1 .. p - 1 : before[j] = lines[j]
    BY <1>1
  <2>2. /\ rest \in Seq(Lines) /\ Len(rest) = Len(lines) - p + 1
        /\ \A j \in 1 .. Len(lines) - p + 1 : rest[j] = lines[j + p - 1]
    BY <1>1
  <2>3. Log!InsertAt(lines, p, Log!Comment) = after
    BY DEF Log!InsertAt
  <2> HIDE DEF before, rest
  <2> DEFINE start == before \o <<Log!Comment>>
  <2>4. /\ start \in Seq(Lines) /\ Len(start) = p /\ start[p] = Log!Comment
        /\ \A j \in 1 .. p - 1 : start[j] = before[j]
    BY <1>1, <2>1, LinesKinds
  <2>5. after = start \o rest
    OBVIOUS
  <2> HIDE DEF after, start
  <2>6. /\ after \in Seq(Lines) /\ Len(after) = Len(lines) + 1
        /\ \A j \in 1 .. p : after[j] = start[j]
        /\ \A j \in 1 .. Len(lines) - p + 1 : after[j + p] = rest[j]
    BY <1>1, <2>2, <2>4, <2>5
  <2>7. Commented(after, lines, p)
    <3>1. after[p] = Log!Comment
      BY <2>4, <2>6
    <3>2. ASSUME NEW j \in 1 .. Len(lines) PROVE after[IF j < p THEN j ELSE j + 1] = lines[j]
      <4>1. CASE j < p
        <5>1. j \in 1 .. p - 1 /\ j \in 1 .. p
          BY <4>1
        <5> QED  BY <2>1, <2>4, <2>6, <4>1, <5>1
      <4>2. CASE ~ j < p
        <5> DEFINE i == j - p + 1
        <5>1. i \in 1 .. Len(lines) - p + 1 /\ i + p = j + 1 /\ i + p - 1 = j
          BY <1>1, <4>2
        <5> HIDE DEF i
        <5>2. after[i + p] = rest[i] /\ rest[i] = lines[i + p - 1]
          BY <2>2, <2>6, <5>1
        <5> QED  BY <4>2, <5>1, <5>2
      <4> QED  BY <4>1, <4>2
    <3> QED  BY <2>6, <3>1, <3>2 DEF Commented
  <2>8. TextSound(after, events)
    BY <2>6, <2>7, CommentsAreSound
  <2> QED  BY <2>3, <2>8
<1> QED  BY <1>2, <1>3

-------------------------------------------------------------------------------
\* In a binary log each record is its event or none.
BinarySound(records, events) ==
  /\ records \in Seq(Lines) /\ Len(records) <= Len(events)
  /\ \A k \in 1 .. Len(records) : records[k] \in {events[k], Log!Garbled, Log!Short}

FileSound(file, events) ==
  \/ \E lines : file = Log!Text(lines) /\ TextSound(lines, events)
  \/ \E header, records : file = Log!Binary(header, records) /\ BinarySound(records, events)

LEMMA FileFields ==
  /\ \A lines : Log!Text(lines).kind = "text" /\ Log!Text(lines).lines = lines
  /\ \A header, records : /\ Log!Binary(header, records).kind = "binary"
                          /\ Log!Binary(header, records).header = header
                          /\ Log!Binary(header, records).records = records
BY DEF Log!Text, Log!Binary

LEMMA EmptyIsSound ==
  ASSUME NEW events \in Seq(Records)
  PROVE  FileSound(Log!Empty, events) /\ FileSound(Log!Text(<<Log!Garbled>>), events)
<1>1. TextSound(<<Log!Header>> \o events, events)
  BY WrittenIsSound
<1> DEFINE lines == <<Log!Header>> \o events
<1>2. 1 \in DOMAIN lines /\ lines[1] = Log!Header /\ SubSeq(lines, 1, 1 - 1) = <<>>
  <2>1. lines \in Seq(Lines) /\ Len(lines) = Len(events) + 1 /\ lines[1] = Log!Header
    BY LinesKinds
  <2> HIDE DEF lines
  <2> QED  BY <2>1
<1> HIDE DEF lines
<1>3. Log!Garbled \in Log!Torn(lines[1])
  BY <1>2 DEF Log!Torn, Log!NotEvents
<1>4. /\ TextSound(<<>>, events)
      /\ TextSound(<<>> \o <<Log!Garbled>>, events)
  BY <1>1, <1>2, <1>3, CutTextIsSound DEF lines
<1>5. <<>> \o <<Log!Garbled>> = <<Log!Garbled>>
  OBVIOUS
<1> QED  BY <1>4, <1>5 DEF FileSound, Log!Empty

LEMMA WrittenFileIsSound ==
  ASSUME NEW events \in Seq(Records), NEW format
  PROVE  FileSound(Log!Written(format, events), events)
<1>1. CASE format = "Binary"
  <2>1. BinarySound(events, events)
    BY DEF BinarySound, Lines
  <2> QED  BY <1>1, <2>1 DEF FileSound, Log!Written
<1>2. CASE format # "Binary"
  BY <1>2, WrittenIsSound DEF FileSound, Log!Written
<1> QED  BY <1>1, <1>2

LEMMA CutIsSound ==
  ASSUME NEW events \in Seq(Records), NEW file, FileSound(file, events),
         NEW left \in Log!Cut(file)
  PROVE  FileSound(left, events)
<1>1. ASSUME NEW lines, file = Log!Text(lines), TextSound(lines, events)
      PROVE  FileSound(left, events)
  <2>1. file.kind = "text" /\ file.lines = lines
    BY <1>1, FileFields
  <2>2. \/ \E k \in 0 .. Len(lines) - 1 : left = Log!Text(SubSeq(lines, 1, k))
        \/ \E k \in DOMAIN lines : \E line \in Log!Torn(lines[k]) :
              left = Log!Text(SubSeq(lines, 1, k - 1) \o <<line>>)
    BY <2>1 DEF Log!Cut
  <2>3. lines \in Seq(Lines)
    BY <1>1 DEF TextSound
  <2>4. ASSUME NEW k \in 0 .. Len(lines) - 1, left = Log!Text(SubSeq(lines, 1, k))
        PROVE  FileSound(left, events)
    <3>1. k + 1 \in DOMAIN lines /\ (k + 1) - 1 = k
      BY <2>3
    <3>2. TextSound(SubSeq(lines, 1, k), events)
      BY <1>1, <3>1, CutTextIsSound
    <3> QED  BY <2>4, <3>2 DEF FileSound
  <2>5. ASSUME NEW k \in DOMAIN lines, NEW line \in Log!Torn(lines[k]),
               left = Log!Text(SubSeq(lines, 1, k - 1) \o <<line>>)
        PROVE  FileSound(left, events)
    <3>1. TextSound(SubSeq(lines, 1, k - 1) \o <<line>>, events)
      BY <1>1, CutTextIsSound
    <3> QED  BY <2>5, <3>1 DEF FileSound
  <2> QED  BY <2>2, <2>4, <2>5
<1>2. ASSUME NEW header, NEW records, file = Log!Binary(header, records),
             BinarySound(records, events)
      PROVE  FileSound(left, events)
  <2>1. file.kind # "text" /\ file.header = header /\ file.records = records
    BY <1>2, FileFields
  <2>2. \/ left \in {Log!Empty, Log!Text(<<Log!Garbled>>)}
        \/ left = Log!Binary(Log!Short, <<>>)
        \/ \E k \in 0 .. Len(records) - 1 : left = Log!Binary(header, SubSeq(records, 1, k))
        \/ \E k \in DOMAIN records :
              left = Log!Binary(header, SubSeq(records, 1, k - 1) \o <<Log!Short>>)
    BY <2>1 DEF Log!Cut
  <2>3. /\ records \in Seq(Lines) /\ Len(records) \in Nat /\ Len(records) <= Len(events)
        /\ DOMAIN records = 1 .. Len(records) /\ Len(events) \in Nat
        /\ \A k \in 1 .. Len(records) : records[k] \in {events[k], Log!Garbled, Log!Short}
    BY <1>2 DEF BinarySound
  <2>4. BinarySound(<<>>, events)
    BY <2>3 DEF BinarySound
  <2>5. ASSUME NEW k \in 0 .. Len(records) - 1
        PROVE  BinarySound(SubSeq(records, 1, k), events)
    <3> DEFINE r == SubSeq(records, 1, k)
    <3>1. r \in Seq(Lines) /\ Len(r) = k /\ \A j \in 1 .. k : r[j] = records[j]
      BY <2>3
    <3> HIDE DEF r
    <3>2. BinarySound(r, events)
      BY <2>3, <3>1 DEF BinarySound
    <3> QED  BY <3>2 DEF r
  <2>6. ASSUME NEW k \in DOMAIN records
        PROVE  BinarySound(SubSeq(records, 1, k - 1) \o <<Log!Short>>, events)
    <3> DEFINE r == SubSeq(records, 1, k - 1)  s == r \o <<Log!Short>>
    <3>1. r \in Seq(Lines) /\ Len(r) = k - 1 /\ \A j \in 1 .. k - 1 : r[j] = records[j]
      BY <2>3
    <3> HIDE DEF r
    <3>2. /\ s \in Seq(Lines) /\ Len(s) = k /\ s[k] = Log!Short
          /\ \A j \in 1 .. k - 1 : s[j] = r[j]
      BY <2>3, <3>1, LinesKinds
    <3> HIDE DEF s
    <3>3. \A j \in 1 .. k : j = k \/ (j \in 1 .. k - 1 /\ j \in 1 .. Len(records))
      BY <2>3
    <3>4. BinarySound(s, events)
      BY <2>3, <3>1, <3>2, <3>3 DEF BinarySound
    <3> QED  BY <3>4 DEF s, r
  <2> QED  BY <2>2, <2>4, <2>5, <2>6, EmptyIsSound DEF FileSound
<1> QED  BY <1>1, <1>2 DEF FileSound

LEMMA EditedIsSound ==
  ASSUME NEW events \in Seq(Records), NEW file, FileSound(file, events),
         NEW left \in Log!Edited(file)
  PROVE  FileSound(left, events)
<1>1. ASSUME NEW lines, file = Log!Text(lines), TextSound(lines, events)
      PROVE  FileSound(left, events)
  <2>1. file.kind = "text" /\ file.lines = lines
    BY <1>1, FileFields
  <2>2. \/ \E k \in DOMAIN lines, line \in {Log!Garbled, Log!Drifted} :
              left = Log!Text(Log!ReplaceAt(lines, k, line))
        \/ \E k \in 1 .. Len(lines) + 1 :
              left = Log!Text(Log!InsertAt(lines, k, Log!Comment))
    BY <2>1 DEF Log!Edited
  <2> QED  BY <1>1, <2>2, EditedTextIsSound DEF FileSound
<1>2. ASSUME NEW header, NEW records, file = Log!Binary(header, records),
             BinarySound(records, events)
      PROVE  FileSound(left, events)
  <2>1. file.kind # "text" /\ file.header = header /\ file.records = records
    BY <1>2, FileFields
  <2>2. \/ left = Log!Binary(Log!Drifted, records)
        \/ \E k \in DOMAIN records : left = Log!Binary(header, Log!ReplaceAt(records, k, Log!Garbled))
    BY <2>1 DEF Log!Edited
  <2>3. ASSUME NEW k \in DOMAIN records
        PROVE  BinarySound(Log!ReplaceAt(records, k, Log!Garbled), events)
    BY <1>2, LinesKinds DEF BinarySound, Log!ReplaceAt
  <2> QED  BY <1>2, <2>2, <2>3 DEF FileSound
<1> QED  BY <1>1, <1>2 DEF FileSound

-------------------------------------------------------------------------------
\* What is there of each line or record, whatever was done to the file.  Rows are
\* patched at p by a row that was put in (q is 0) or that q holds, and from there on
\* are d further.
Patched(after, rows, put, p, q, d) ==
  \A j \in DOMAIN after :
     /\ j < p => j <= Len(rows) /\ after[j].data = rows[j].data
     /\ j = p => IF q = 0 THEN \E by \in put : after[j].data = by.data
                 ELSE q = p + d /\ d >= 0 /\ q <= Len(rows) /\ after[j].data = rows[q].data
     /\ j > p => j + d <= Len(rows) /\ after[j].data = rows[j + d].data

LEMMA PatchedComes ==
  ASSUME NEW after \in Seq(Lines), NEW rows \in Seq(Lines), NEW put,
         NEW p \in Nat \ {0}, NEW q \in Nat, NEW d \in {-1, 0, 1},
         Patched(after, rows, put, p, q, d)
  PROVE  Log!ComesFrom(after, rows, put)
<1> DEFINE m == Len(after)  n == Len(rows)
           to == [j \in 1 .. m |-> IF j < p THEN j ELSE IF j = p THEN q ELSE j + d]
<1>1. m \in Nat /\ n \in Nat /\ DOMAIN after = 1 .. m
  OBVIOUS
<1> HIDE DEF m, n
<1>2. \A j \in 1 .. m : /\ j < p => to[j] = j /\ j <= n
                        /\ j = p => to[j] = q /\ (q = 0 \/ (q = p + d /\ d >= 0 /\ q <= n))
                        /\ j > p => to[j] = j + d /\ j + d <= n
  <2>1. \A j \in 1 .. m : to[j] = IF j < p THEN j ELSE IF j = p THEN q ELSE j + d
    OBVIOUS
  <2> HIDE DEF to
  <2>2. \A j \in 1 .. m : /\ j < p => j <= n
                          /\ j = p => (q = 0 \/ (q = p + d /\ d >= 0 /\ q <= n))
                          /\ j > p => j + d <= n
    BY <1>1, Zenon DEF Patched, n
  <2> SUFFICES ASSUME NEW j \in 1 .. m
               PROVE  /\ j < p => to[j] = j
                      /\ j = p => to[j] = q
                      /\ j > p => to[j] = j + d
    BY <2>2, Zenon
  <2>3. (j = p => ~ j < p) /\ (j > p => ~ j < p /\ j # p)
    BY <1>1
  <2> QED  BY <2>1, <2>3, Zenon
<1> HIDE DEF to
<1>3. \A j \in 1 .. m : to[j] \in 0 .. n
  BY <1>1, <1>2
<1>4. to \in [1 .. m -> 0 .. n]
  BY <1>3 DEF to
<1>5. ASSUME NEW k \in 1 .. m
      PROVE  IF to[k] = 0 THEN \E by \in put : after[k].data = by.data
                          ELSE after[k].data = rows[to[k]].data
  <2>1. CASE k < p
    BY <1>1, <1>2, <2>1 DEF Patched
  <2>2. CASE k = p
    BY <1>1, <1>2, <2>2 DEF Patched
  <2>3. CASE k > p
    <3>1. to[k] = k + d /\ k + d # 0
      BY <1>1, <1>2, <2>3
    <3> QED  BY <1>1, <2>3, <3>1 DEF Patched
  <2> QED  BY <1>1, <2>1, <2>2, <2>3
<1>6. ASSUME NEW k \in 1 .. m, NEW j \in 1 .. k - 1, to[k] # 0 PROVE to[j] < to[k]
  <2>1. j \in 1 .. m /\ j < k
    BY <1>1
  <2> QED  BY <1>1, <1>2, <1>6, <2>1
<1>7. Maps(to, after, rows, put)
  BY <1>1, <1>4, <1>5, <1>6 DEF Maps, n
<1> QED  BY <1>7, MappedComes

LEMMA RowsStillCome ==
  ASSUME NEW after \in Seq(Lines), NEW rows \in Seq(Lines), NEW events \in Seq(Records),
         NEW put, NEW more, put \subseteq more,
         Log!ComesFrom(rows, events, put \cup Log!NotEvents),
         Log!ComesFrom(after, rows, more \cup Log!NotEvents)
  PROVE  Log!ComesFrom(after, events, more \cup Log!NotEvents)
<1> DEFINE m == Len(after)  n == Len(rows)
<1>1. /\ m \in Nat /\ n \in Nat /\ DOMAIN after = 1 .. m /\ DOMAIN rows = 1 .. n
      /\ Len(rows) = n /\ put \cup Log!NotEvents \subseteq more \cup Log!NotEvents
  OBVIOUS
<1> HIDE DEF m, n
<1> QED  BY <1>1, ComesFromThere

\* Rows cut after the k-th, or in it; one overwritten, put in or taken out.
LEMMA RowsChanged ==
  ASSUME NEW T, T \subseteq Lines, NEW rows \in Seq(T), NEW put
  PROVE  /\ \A k \in 0 .. Len(rows) :
               /\ SubSeq(rows, 1, k) \in Seq(T)
               /\ Log!ComesFrom(SubSeq(rows, 1, k), rows, put)
         /\ \A k \in DOMAIN rows, row \in T :
               (row.data = rows[k].data \/ row \in put) =>
                  /\ SubSeq(rows, 1, k - 1) \o <<row>> \in Seq(T)
                  /\ Log!ComesFrom(SubSeq(rows, 1, k - 1) \o <<row>>, rows, put)
         /\ \A k \in DOMAIN rows, row \in T \cap put :
               /\ Log!ReplaceAt(rows, k, row) \in Seq(T)
               /\ Log!ComesFrom(Log!ReplaceAt(rows, k, row), rows, put)
         /\ \A k \in 1 .. Len(rows) + 1, row \in T \cap put :
               /\ Log!InsertAt(rows, k, row) \in Seq(T)
               /\ Log!ComesFrom(Log!InsertAt(rows, k, row), rows, put)
         /\ \A k \in DOMAIN rows :
               /\ Log!RemoveAt(rows, k) \in Seq(T)
               /\ Log!ComesFrom(Log!RemoveAt(rows, k), rows, put)
<1> DEFINE n == Len(rows)
<1>1. n \in Nat /\ DOMAIN rows = 1 .. n /\ rows \in Seq(Lines) /\ Seq(T) \subseteq Seq(Lines)
  OBVIOUS
<1>0. \A k \in 1 .. n + 1 :
         LET rest == SubSeq(rows, k, n)
         IN  /\ rest \in Seq(T) /\ Len(rest) = n - k + 1
             /\ \A j \in 1 .. n - k + 1 : rest[j] = rows[j + k - 1]
  BY <1>1
<1>2. ASSUME NEW k \in 0 .. n
      PROVE  SubSeq(rows, 1, k) \in Seq(T) /\ Log!ComesFrom(SubSeq(rows, 1, k), rows, put)
  <2> DEFINE after == SubSeq(rows, 1, k)
  <2>1. /\ after \in Seq(T) /\ Len(after) = k /\ DOMAIN after = 1 .. k
        /\ \A j \in 1 .. k : after[j] = rows[j]
    BY <1>1
  <2> HIDE DEF after, n
  <2>2. \A j \in 1 .. k : j < n + 1 /\ j <= n
    BY <1>1
  <2>3. Patched(after, rows, put, n + 1, 0, 0)
    BY <1>1, <2>1, <2>2 DEF Patched, n
  <2>4. after \in Seq(Lines) /\ n + 1 \in Nat \ {0}
    BY <1>1, <2>1
  <2>5. Log!ComesFrom(after, rows, put)
    BY <1>1, <2>3, <2>4, PatchedComes
  <2> QED  BY <2>1, <2>5 DEF after
<1>3. ASSUME NEW k \in 1 .. n, NEW row \in T, row.data = rows[k].data \/ row \in put
      PROVE  /\ SubSeq(rows, 1, k - 1) \o <<row>> \in Seq(T)
             /\ Log!ComesFrom(SubSeq(rows, 1, k - 1) \o <<row>>, rows, put)
  <2> DEFINE left == SubSeq(rows, 1, k - 1)  after == left \o <<row>>
  <2>1. /\ left \in Seq(T) /\ Len(left) = k - 1
        /\ \A j \in 1 .. k - 1 : left[j] = rows[j]
    BY <1>1
  <2> HIDE DEF left
  <2>2. /\ after \in Seq(T) /\ Len(after) = k /\ DOMAIN after = 1 .. k
        /\ after[k] = row /\ \A j \in 1 .. k - 1 : after[j] = rows[j]
    BY <1>1, <2>1
  <2> HIDE DEF after, n
  <2>3. \A j \in 1 .. k : (j = k \/ j \in 1 .. k - 1) /\ ~ j > k /\ j <= n
    BY <1>1
  <2>4. \E q \in Nat : Patched(after, rows, put, k, q, 0)
    <3>1. CASE row \in put
      BY <1>1, <2>2, <2>3, <3>1 DEF Patched, n
    <3>2. CASE row.data = rows[k].data
      <4>1. k = k + 0 /\ 0 >= 0 /\ k <= n /\ k \in Nat
        BY <1>1
      <4>2. Patched(after, rows, put, k, k, 0)
        BY <1>1, <2>2, <2>3, <3>2, <4>1 DEF Patched, n
      <4> QED  BY <4>1, <4>2
    <3> QED  BY <1>3, <3>1, <3>2
  <2>5. after \in Seq(Lines) /\ k \in Nat \ {0}
    BY <1>1, <2>2
  <2>6. Log!ComesFrom(after, rows, put)
    BY <1>1, <2>4, <2>5, PatchedComes
  <2> QED  BY <2>2, <2>6 DEF after, left
<1>4. ASSUME NEW k \in 1 .. n, NEW row \in T \cap put
      PROVE  /\ Log!ReplaceAt(rows, k, row) \in Seq(T)
             /\ Log!ComesFrom(Log!ReplaceAt(rows, k, row), rows, put)
  <2> DEFINE after == Log!ReplaceAt(rows, k, row)
  <2>1. /\ after \in Seq(T) /\ Len(after) = n /\ after[k] = row /\ DOMAIN after = 1 .. n
        /\ \A j \in 1 .. n : j # k => after[j] = rows[j]
    BY <1>1 DEF Log!ReplaceAt
  <2> HIDE DEF after, n
  <2>2. \A j \in 1 .. n : j + 0 = j
    BY <1>1
  <2>3. Patched(after, rows, put, k, 0, 0)
    BY <1>1, <2>1, <2>2 DEF Patched, n
  <2>4. after \in Seq(Lines) /\ k \in Nat \ {0}
    BY <1>1, <2>1
  <2>5. Log!ComesFrom(after, rows, put)
    BY <1>1, <2>3, <2>4, PatchedComes
  <2> QED  BY <2>1, <2>5 DEF after
<1>5. ASSUME NEW k \in 1 .. n + 1, NEW row \in T \cap put
      PROVE  /\ Log!InsertAt(rows, k, row) \in Seq(T)
             /\ Log!ComesFrom(Log!InsertAt(rows, k, row), rows, put)
  <2> DEFINE before == SubSeq(rows, 1, k - 1)  rest == SubSeq(rows, k, n)
             start == before \o <<row>>  after == start \o rest
  <2>1. /\ before \in Seq(T) /\ Len(before) = k - 1
        /\ \A j \in 1 .. k - 1 : before[j] = rows[j]
    BY <1>1
  <2>2. /\ rest \in Seq(T) /\ Len(rest) = n - k + 1
        /\ \A j \in 1 .. n - k + 1 : rest[j] = rows[j + k - 1]
    BY <1>0, Zenon
  <2>3. Log!InsertAt(rows, k, row) = after
    BY DEF Log!InsertAt
  <2> HIDE DEF before, rest
  <2>4. /\ start \in Seq(T) /\ Len(start) = k /\ start[k] = row
        /\ \A j \in 1 .. k - 1 : start[j] = before[j]
    BY <1>1, <2>1
  <2> HIDE DEF start
  <2>5. /\ after \in Seq(T) /\ Len(after) = n + 1 /\ DOMAIN after = 1 .. n + 1
        /\ \A j \in 1 .. k : after[j] = start[j]
        /\ \A j \in 1 .. n - k + 1 : after[j + k] = rest[j]
    BY <1>1, <2>2, <2>4
  <2> HIDE DEF after, n
  <2>6. ASSUME NEW j \in 1 .. n + 1
        PROVE  /\ j < k => j <= n /\ after[j] = rows[j]
               /\ j = k => after[j] = row
               /\ j > k => j + -1 <= n /\ after[j] = rows[j + -1]
    <3>1. CASE j < k
      <4>1. j \in 1 .. k - 1 /\ j \in 1 .. k /\ j <= n
        BY <1>1, <3>1
      <4> QED  BY <2>1, <2>4, <2>5, <3>1, <4>1
    <3>2. CASE j = k
      <4>1. k \in 1 .. k /\ ~ k < k /\ ~ k > k
        BY <1>1
      <4> QED  BY <2>4, <2>5, <3>2, <4>1
    <3>3. CASE j > k
      <4> DEFINE i == j - k
      <4>1. i \in 1 .. n - k + 1 /\ i + k = j /\ i + k - 1 = j + -1 /\ j + -1 <= n
        BY <1>1, <3>3
      <4> HIDE DEF i
      <4>2. after[i + k] = rest[i] /\ rest[i] = rows[i + k - 1]
        BY <2>2, <2>5, <4>1
      <4> QED  BY <3>3, <4>1, <4>2
    <3> QED  BY <1>1, <3>1, <3>2, <3>3
  <2>7. Patched(after, rows, put, k, 0, -1)
    BY <1>1, <2>5, <2>6 DEF Patched, n
  <2>8. after \in Seq(Lines) /\ k \in Nat \ {0}
    BY <1>1, <2>5
  <2>9. Log!ComesFrom(after, rows, put)
    BY <1>1, <2>7, <2>8, PatchedComes
  <2> QED  BY <2>3, <2>5, <2>9
<1>6. ASSUME NEW k \in 1 .. n
      PROVE  Log!RemoveAt(rows, k) \in Seq(T) /\ Log!ComesFrom(Log!RemoveAt(rows, k), rows, put)
  <2> DEFINE before == SubSeq(rows, 1, k - 1)  rest == SubSeq(rows, k + 1, n)
             after == before \o rest
  <2>1. /\ before \in Seq(T) /\ Len(before) = k - 1
        /\ \A j \in 1 .. k - 1 : before[j] = rows[j]
    BY <1>1
  <2>2. /\ rest \in Seq(T) /\ Len(rest) = n - k
        /\ \A j \in 1 .. n - k : rest[j] = rows[j + k]
    <3>1. k + 1 \in 1 .. n + 1 /\ n - (k + 1) + 1 = n - k
      BY <1>1
    <3>2. /\ rest \in Seq(T) /\ Len(rest) = n - (k + 1) + 1
          /\ \A j \in 1 .. n - (k + 1) + 1 : rest[j] = rows[j + (k + 1) - 1]
      BY <1>0, <3>1, Zenon
    <3>3. \A j \in 1 .. n - k : j + (k + 1) - 1 = j + k
      BY <1>1
    <3> HIDE DEF rest
    <3> QED  BY <3>1, <3>2, <3>3
  <2>3. Log!RemoveAt(rows, k) = after
    BY DEF Log!RemoveAt
  <2> HIDE DEF before, rest
  <2>4. /\ after \in Seq(T) /\ Len(after) = n - 1 /\ DOMAIN after = 1 .. n - 1
        /\ \A j \in 1 .. k - 1 : after[j] = before[j]
        /\ \A j \in 1 .. n - k : after[j + (k - 1)] = rest[j]
    <3>1. k - 1 \in Nat /\ n - k \in Nat /\ (k - 1) + (n - k) = n - 1
      BY <1>1
    <3> HIDE DEF n
    <3>2. /\ after \in Seq(T) /\ Len(after) = Len(before) + Len(rest)
          /\ DOMAIN after = 1 .. Len(before) + Len(rest)
          /\ \A j \in 1 .. Len(before) : after[j] = before[j]
          /\ \A j \in 1 .. Len(rest) : after[j + Len(before)] = rest[j]
      <4>1. before \in Seq(T) /\ rest \in Seq(T)
        BY <2>1, <2>2
      <4> QED  BY <4>1
    <3> HIDE DEF after
    <3> QED  BY <2>1, <2>2, <3>1, <3>2
  <2> HIDE DEF after, n
  <2>5. ASSUME NEW j \in 1 .. n - 1
        PROVE  /\ j < k => j <= n /\ after[j] = rows[j]
               /\ ~ j < k => j + 1 <= n /\ after[j] = rows[j + 1]
    <3>1. CASE j < k
      <4>1. j \in 1 .. k - 1 /\ j <= n
        BY <1>1, <3>1
      <4> QED  BY <2>1, <2>4, <3>1, <4>1
    <3>2. CASE ~ j < k
      <4> DEFINE i == j - (k - 1)
      <4>1. i \in 1 .. n - k /\ i + (k - 1) = j /\ i + k = j + 1 /\ j + 1 <= n
        BY <1>1, <3>2
      <4> HIDE DEF i
      <4>2. after[i + (k - 1)] = rest[i] /\ rest[i] = rows[i + k]
        BY <2>2, <2>4, <4>1
      <4> QED  BY <3>2, <4>1, <4>2
    <3> QED  BY <3>1, <3>2
  <2>6. Patched(after, rows, put, k, k + 1, 1)
    <3>1. 1 >= 0 /\ \A j \in 1 .. n - 1 : (j = k => ~ j < k) /\ (j > k => ~ j < k)
      BY <1>1
    <3> QED  BY <1>1, <2>4, <2>5, <3>1 DEF Patched, n
  <2>7. after \in Seq(Lines) /\ k \in Nat \ {0} /\ k + 1 \in Nat
    BY <1>1, <2>4
  <2>8. Log!ComesFrom(after, rows, put)
    BY <1>1, <2>6, <2>7, PatchedComes
  <2> QED  BY <2>3, <2>4, <2>8
<1> HIDE DEF n
<1>7. /\ \A k \in 0 .. n :
           SubSeq(rows, 1, k) \in Seq(T) /\ Log!ComesFrom(SubSeq(rows, 1, k), rows, put)
      /\ \A k \in 1 .. n, row \in T :
           (row.data = rows[k].data \/ row \in put) =>
              /\ SubSeq(rows, 1, k - 1) \o <<row>> \in Seq(T)
              /\ Log!ComesFrom(SubSeq(rows, 1, k - 1) \o <<row>>, rows, put)
  BY <1>2, <1>3, Zenon
<1>8. /\ \A k \in 1 .. n, row \in T \cap put :
           /\ Log!ReplaceAt(rows, k, row) \in Seq(T)
           /\ Log!ComesFrom(Log!ReplaceAt(rows, k, row), rows, put)
      /\ \A k \in 1 .. n + 1, row \in T \cap put :
           /\ Log!InsertAt(rows, k, row) \in Seq(T)
           /\ Log!ComesFrom(Log!InsertAt(rows, k, row), rows, put)
      /\ \A k \in 1 .. n :
           Log!RemoveAt(rows, k) \in Seq(T) /\ Log!ComesFrom(Log!RemoveAt(rows, k), rows, put)
  BY <1>4, <1>5, <1>6, Zenon
<1> QED  BY <1>1, <1>7, <1>8, Zenon DEF n

-------------------------------------------------------------------------------
\* Each line or record is its event, one that was put in, or no event.
Texts == Seq(Lines \ {Log!Short})
Binaries == Seq(Records \cup {Log!Garbled, Log!Short})
FileComes(file, events, put) ==
  \/ \E lines \in Texts :
        file = Log!Text(lines) /\ Log!ComesFrom(lines, events, put \cup Log!NotEvents)
  \/ \E header : \E records \in Binaries :
        /\ file = Log!Binary(header, records)
        /\ Log!ComesFrom(records, events, put \cup Log!NotEvents)

LEMMA KindsOfRows ==
  /\ Lines \ {Log!Short} \subseteq Lines
  /\ Records \cup {Log!Garbled, Log!Short} \subseteq Lines
  /\ Texts \subseteq Seq(Lines) /\ Binaries \subseteq Seq(Lines)
  /\ {Log!Header, Log!Garbled, Log!Drifted, Log!Comment}
       \subseteq (Lines \ {Log!Short}) \cap Log!NotEvents
  /\ Log!Garbled \in Log!NotEvents /\ Log!Short \in Log!NotEvents
  /\ Records \subseteq Lines \ {Log!Short}
<1>1. Records \subseteq Lines \ {Log!Short}
  BY EventsAreNoMarks DEF Lines, Log!NotEvents
<1>2. Records \cup {Log!Garbled, Log!Short} \subseteq Lines
  BY LinesKinds
<1>3. Texts \subseteq Seq(Lines) /\ Binaries \subseteq Seq(Lines)
  BY <1>2 DEF Texts, Binaries
<1> QED  BY <1>1, <1>2, <1>3, LinesKinds, MarksDiffer DEF Log!NotEvents

\* A few rows that are no events come from any.
LEMMA MarksCome ==
  ASSUME NEW events \in Seq(Records), NEW put, NEW mark \in Log!NotEvents
  PROVE  /\ Log!ComesFrom(<<>>, events, put \cup Log!NotEvents)
         /\ Log!ComesFrom(<<mark>>, events, put \cup Log!NotEvents)
<1>1. <<>> \in Seq(Lines) /\ <<mark>> \in Seq(Lines) /\ events \in Seq(Lines)
  BY DEF Lines
<1>2. Patched(<<>>, events, put \cup Log!NotEvents, 1, 0, 0)
  BY DEF Patched
<1>3. Patched(<<mark>>, events, put \cup Log!NotEvents, 1, 0, 0)
  BY DEF Patched
<1>4. 1 \in Nat \ {0} /\ 0 \in Nat /\ 0 \in {-1, 0, 1}
  OBVIOUS
<1> QED  BY <1>1, <1>2, <1>3, <1>4, PatchedComes, Zenon

LEMMA WrittenComes ==
  ASSUME NEW events \in Seq(Records), NEW format
  PROVE  FileComes(Log!Written(format, events), events, {})
<1>1. events \in Seq(Lines) /\ {} \cup Log!NotEvents = Log!NotEvents
  BY DEF Lines
<1>2. CASE format = "Binary"
  <2>1. events \in Binaries
    BY DEF Binaries
  <2>2. Patched(events, events, Log!NotEvents, Len(events) + 1, 0, 0)
    BY <1>1 DEF Patched
  <2>3. Log!ComesFrom(events, events, Log!NotEvents)
    <3>1. Len(events) + 1 \in Nat \ {0}
      OBVIOUS
    <3> QED  BY <1>1, <2>2, <3>1, PatchedComes
  <2> QED  BY <1>1, <1>2, <2>1, <2>3 DEF FileComes, Log!Written
<1>3. CASE format # "Binary"
  <2> DEFINE lines == <<Log!Header>> \o events
  <2>1. /\ lines \in Texts /\ Len(lines) = Len(events) + 1 /\ lines[1] = Log!Header
        /\ DOMAIN lines = 1 .. Len(events) + 1
        /\ \A j \in 1 .. Len(events) : lines[j + 1] = events[j]
    <3>1. <<Log!Header>> \in Texts /\ events \in Texts
      BY KindsOfRows DEF Texts
    <3> QED  BY <3>1 DEF Texts
  <2> HIDE DEF lines
  <2>2. ASSUME NEW j \in 1 .. Len(events) + 1, j > 1
        PROVE  j + -1 <= Len(events) /\ lines[j] = events[j + -1]
    <3>1. j + -1 \in 1 .. Len(events) /\ (j + -1) + 1 = j
      BY <1>1, <2>2
    <3> QED  BY <2>1, <3>1
  <2>3. Patched(lines, events, Log!NotEvents, 1, 0, -1)
    BY <1>1, <2>1, <2>2 DEF Patched, Log!NotEvents
  <2>4. Log!ComesFrom(lines, events, Log!NotEvents)
    BY <1>1, <2>1, <2>3, KindsOfRows, PatchedComes
  <2> QED  BY <1>1, <1>3, <2>1, <2>4 DEF FileComes, Log!Written, lines
<1> QED  BY <1>2, <1>3

LEMMA FilesOfRows ==
  /\ \A lines, other : Log!Text(lines) = Log!Text(other) => lines = other
  /\ \A lines, header, records : Log!Text(lines) # Log!Binary(header, records)
  /\ \A header, records, other, others :
       Log!Binary(header, records) = Log!Binary(other, others) => records = others
BY FileFields

LEMMA RowsCome ==
  ASSUME NEW events, NEW put
  PROVE  /\ \A lines : FileComes(Log!Text(lines), events, put) =>
                        Log!ComesFrom(lines, events, put \cup Log!NotEvents)
         /\ \A header, records : FileComes(Log!Binary(header, records), events, put) =>
                                  /\ records \in Binaries
                                  /\ Log!ComesFrom(records, events, put \cup Log!NotEvents)
BY FilesOfRows, Zenon DEF FileComes

\* And so when rows of a file are changed that come from what was written.
LEMMA FileChanged ==
  ASSUME NEW events \in Seq(Records), NEW file, NEW put, FileComes(file, events, put),
         NEW more, put \subseteq more, NEW left,
         \/ \E lines \in Texts, after \in Texts :
               /\ file = Log!Text(lines) /\ left = Log!Text(after)
               /\ Log!ComesFrom(after, lines, more \cup Log!NotEvents)
         \/ \E records \in Binaries, after \in Binaries :
               /\ \E header : file = Log!Binary(header, records)
               /\ \E header : left = Log!Binary(header, after)
               /\ Log!ComesFrom(after, records, more \cup Log!NotEvents)
  PROVE  FileComes(left, events, more)
<1>1. ASSUME NEW lines \in Texts, NEW after \in Texts,
             file = Log!Text(lines), left = Log!Text(after),
             Log!ComesFrom(after, lines, more \cup Log!NotEvents)
      PROVE  FileComes(left, events, more)
  <2>1. Log!ComesFrom(lines, events, put \cup Log!NotEvents)
    BY <1>1, RowsCome
  <2>2. Log!ComesFrom(after, events, more \cup Log!NotEvents)
    BY <1>1, <2>1, KindsOfRows, RowsStillCome
  <2> QED  BY <1>1, <2>2 DEF FileComes
<1>2. ASSUME NEW records \in Binaries, NEW after \in Binaries, NEW header, NEW other,
             file = Log!Binary(header, records), left = Log!Binary(other, after),
             Log!ComesFrom(after, records, more \cup Log!NotEvents)
      PROVE  FileComes(left, events, more)
  <2>1. Log!ComesFrom(records, events, put \cup Log!NotEvents)
    BY <1>2, RowsCome
  <2>2. Log!ComesFrom(after, events, more \cup Log!NotEvents)
    BY <1>2, <2>1, KindsOfRows, RowsStillCome
  <2> QED  BY <1>2, <2>2 DEF FileComes
<1> QED  BY <1>1, <1>2

LEMMA CutComes ==
  ASSUME NEW events \in Seq(Records), NEW put, NEW file, FileComes(file, events, put),
         NEW left \in Log!Cut(file)
  PROVE  FileComes(left, events, put)
<1> DEFINE all == put \cup Log!NotEvents
<1>1. CASE \E lines \in Texts : file = Log!Text(lines)
  <2>1. PICK lines \in Texts : file = Log!Text(lines)
    BY <1>1
  <2>2. file.kind = "text" /\ file.lines = lines
    BY <2>1, FileFields
  <2>3. \/ \E k \in 0 .. Len(lines) - 1 : left = Log!Text(SubSeq(lines, 1, k))
        \/ \E k \in DOMAIN lines : \E line \in Log!Torn(lines[k]) :
              left = Log!Text(SubSeq(lines, 1, k - 1) \o <<line>>)
    BY <2>2 DEF Log!Cut
  <2>4. \E after \in Texts : left = Log!Text(after) /\ Log!ComesFrom(after, lines, all)
    <3>1. ASSUME NEW k \in 0 .. Len(lines) - 1, left = Log!Text(SubSeq(lines, 1, k))
          PROVE  \E after \in Texts : left = Log!Text(after) /\ Log!ComesFrom(after, lines, all)
      <4>1. k \in 0 .. Len(lines)
        BY DEF Texts
      <4>2. SubSeq(lines, 1, k) \in Texts /\ Log!ComesFrom(SubSeq(lines, 1, k), lines, all)
        BY <4>1, KindsOfRows, RowsChanged DEF Texts
      <4> QED  BY <3>1, <4>2
    <3>2. ASSUME NEW k \in DOMAIN lines, NEW line \in Log!Torn(lines[k]),
                 left = Log!Text(SubSeq(lines, 1, k - 1) \o <<line>>)
          PROVE  \E after \in Texts : left = Log!Text(after) /\ Log!ComesFrom(after, lines, all)
      <4>1. lines[k] \in Lines \ {Log!Short}
        BY DEF Texts
      <4>2. /\ line \in Lines \ {Log!Short}
            /\ line.data = lines[k].data \/ line \in all
        BY <4>1, TornStandsFor, KindsOfRows DEF StandsFor
      <4> HIDE DEF all
      <4>3. /\ SubSeq(lines, 1, k - 1) \o <<line>> \in Texts
            /\ Log!ComesFrom(SubSeq(lines, 1, k - 1) \o <<line>>, lines, all)
        BY <4>2, KindsOfRows, RowsChanged DEF Texts
      <4> QED  BY <3>2, <4>3
    <3> QED  BY <2>3, <3>1, <3>2
  <2> QED  BY <2>1, <2>4, FileChanged
<1>2. CASE \E header : \E records \in Binaries : file = Log!Binary(header, records)
  <2>1. PICK header : \E records \in Binaries : file = Log!Binary(header, records)
    BY <1>2
  <2>2. PICK records \in Binaries : file = Log!Binary(header, records)
    BY <2>1
  <2>3. file.kind # "text" /\ file.header = header /\ file.records = records
    BY <2>2, FileFields
  <2>4. \/ left \in {Log!Empty, Log!Text(<<Log!Garbled>>)}
        \/ left = Log!Binary(Log!Short, <<>>)
        \/ \E k \in 0 .. Len(records) - 1 : left = Log!Binary(header, SubSeq(records, 1, k))
        \/ \E k \in DOMAIN records :
              left = Log!Binary(header, SubSeq(records, 1, k - 1) \o <<Log!Short>>)
    BY <2>3 DEF Log!Cut
  <2>5. CASE \/ left \in {Log!Empty, Log!Text(<<Log!Garbled>>)}
             \/ left = Log!Binary(Log!Short, <<>>)
    <3>1. <<>> \in Texts /\ <<Log!Garbled>> \in Texts /\ <<>> \in Binaries
      BY KindsOfRows DEF Texts, Binaries
    <3>2. Log!ComesFrom(<<>>, events, all) /\ Log!ComesFrom(<<Log!Garbled>>, events, all)
      BY MarksCome, KindsOfRows
    <3> QED  BY <2>5, <3>1, <3>2 DEF FileComes, Log!Empty
  <2>6. ASSUME NEW k \in 0 .. Len(records) - 1,
               left = Log!Binary(header, SubSeq(records, 1, k))
        PROVE  FileComes(left, events, put)
    <3>1. k \in 0 .. Len(records)
      BY DEF Binaries
    <3>2. /\ SubSeq(records, 1, k) \in Binaries
          /\ Log!ComesFrom(SubSeq(records, 1, k), records, all)
      BY <3>1, KindsOfRows, RowsChanged DEF Binaries
    <3> QED  BY <2>2, <2>6, <3>2, FileChanged
  <2>7. ASSUME NEW k \in DOMAIN records,
               left = Log!Binary(header, SubSeq(records, 1, k - 1) \o <<Log!Short>>)
        PROVE  FileComes(left, events, put)
    <3>1. Log!Short \in Records \cup {Log!Garbled, Log!Short} /\ Log!Short \in all
      BY KindsOfRows
    <3> HIDE DEF all
    <3>2. /\ SubSeq(records, 1, k - 1) \o <<Log!Short>> \in Binaries
          /\ Log!ComesFrom(SubSeq(records, 1, k - 1) \o <<Log!Short>>, records, all)
      BY <3>1, KindsOfRows, RowsChanged DEF Binaries
    <3> QED  BY <2>2, <2>7, <3>2, FileChanged DEF all
  <2> QED  BY <2>4, <2>5, <2>6, <2>7
<1> QED  BY <1>1, <1>2 DEF FileComes

LEMMA EditedComes ==
  ASSUME NEW events \in Seq(Records), NEW put, NEW file, FileComes(file, events, put),
         NEW left \in Log!Edited(file)
  PROVE  FileComes(left, events, put)
<1> DEFINE all == put \cup Log!NotEvents
<1>1. CASE \E lines \in Texts : file = Log!Text(lines)
  <2>1. PICK lines \in Texts : file = Log!Text(lines)
    BY <1>1
  <2>2. file.kind = "text" /\ file.lines = lines
    BY <2>1, FileFields
  <2>3. \/ \E k \in DOMAIN lines, line \in {Log!Garbled, Log!Drifted} :
              left = Log!Text(Log!ReplaceAt(lines, k, line))
        \/ \E k \in 1 .. Len(lines) + 1 :
              left = Log!Text(Log!InsertAt(lines, k, Log!Comment))
    BY <2>2 DEF Log!Edited
  <2>4. /\ Log!Garbled \in (Lines \ {Log!Short}) \cap all
        /\ Log!Drifted \in (Lines \ {Log!Short}) \cap all
        /\ Log!Comment \in (Lines \ {Log!Short}) \cap all
    BY KindsOfRows
  <2> HIDE DEF all
  <2>5. \E after \in Texts : left = Log!Text(after) /\ Log!ComesFrom(after, lines, all)
    BY <2>3, <2>4, KindsOfRows, RowsChanged DEF Texts
  <2> QED  BY <2>1, <2>5, FileChanged DEF all
<1>2. CASE \E header : \E records \in Binaries : file = Log!Binary(header, records)
  <2>1. PICK header : \E records \in Binaries : file = Log!Binary(header, records)
    BY <1>2
  <2>2. PICK records \in Binaries : file = Log!Binary(header, records)
    BY <2>1
  <2>3. file.kind # "text" /\ file.header = header /\ file.records = records
    BY <2>2, FileFields
  <2>4. \/ left = Log!Binary(Log!Drifted, records)
        \/ \E k \in DOMAIN records : left = Log!Binary(header, Log!ReplaceAt(records, k, Log!Garbled))
    BY <2>3 DEF Log!Edited
  <2>5. Log!Garbled \in (Records \cup {Log!Garbled, Log!Short}) \cap all
    BY KindsOfRows
  <2>6. CASE left = Log!Binary(Log!Drifted, records)
    BY <2>2, <2>6, RowsCome DEF FileComes
  <2>7. ASSUME NEW k \in DOMAIN records,
               left = Log!Binary(header, Log!ReplaceAt(records, k, Log!Garbled))
        PROVE  FileComes(left, events, put)
    <3> HIDE DEF all
    <3>1. /\ Log!ReplaceAt(records, k, Log!Garbled) \in Binaries
          /\ Log!ComesFrom(Log!ReplaceAt(records, k, Log!Garbled), records, all)
      BY <2>5, KindsOfRows, RowsChanged DEF Binaries
    <3> QED  BY <2>2, <2>7, <3>1, FileChanged DEF all
  <2> QED  BY <2>4, <2>6, <2>7
<1> QED  BY <1>1, <1>2 DEF FileComes

\* Of a file that was tampered with, rows come from what was written or put in.
LEMMA AlteredComes ==
  ASSUME NEW events \in Seq(Records), NEW put, NEW file, FileComes(file, events, put),
         NEW by \in Strays \cup {Log!Comment}, NEW left \in Log!Altered(file, by)
  PROVE  FileComes(left, events, put \cup {by})
<1> DEFINE all == (put \cup {by}) \cup Log!NotEvents
<1>1. by = Log!Comment \/ by \in Records
  BY EventsAreNoMarks
<1>2. CASE \E lines \in Texts : file = Log!Text(lines)
  <2>1. PICK lines \in Texts : file = Log!Text(lines)
    BY <1>2
  <2>2. file.kind = "text" /\ file.lines = lines
    BY <2>1, FileFields
  <2>3. PICK k \in DOMAIN lines :
          left = Log!Text(IF by = Log!Comment THEN Log!RemoveAt(lines, k)
                                              ELSE Log!ReplaceAt(lines, k, by))
    BY <2>2 DEF Log!Altered
  <2>4. by \in (Lines \ {Log!Short}) \cap all
    BY <1>1, KindsOfRows
  <2> HIDE DEF all
  <2>5. \E after \in Texts : left = Log!Text(after) /\ Log!ComesFrom(after, lines, all)
    BY <2>3, <2>4, KindsOfRows, RowsChanged DEF Texts
  <2> QED  BY <2>1, <2>5, FileChanged DEF all
<1>3. CASE \E header : \E records \in Binaries : file = Log!Binary(header, records)
  <2>1. PICK header : \E records \in Binaries : file = Log!Binary(header, records)
    BY <1>3
  <2>2. PICK records \in Binaries : file = Log!Binary(header, records)
    BY <2>1
  <2>3. file.kind # "text" /\ file.header = header /\ file.records = records
    BY <2>2, FileFields
  <2>4. PICK k \in DOMAIN records :
          left = Log!Binary(header, IF by = Log!Comment THEN Log!RemoveAt(records, k)
                                                        ELSE Log!ReplaceAt(records, k, by))
    BY <2>3 DEF Log!Altered
  <2> DEFINE after == IF by = Log!Comment THEN Log!RemoveAt(records, k)
                                          ELSE Log!ReplaceAt(records, k, by)
  <2>5. by # Log!Comment => by \in (Records \cup {Log!Garbled, Log!Short}) \cap all
    BY <1>1
  <2> HIDE DEF all
  <2>6. after \in Binaries /\ Log!ComesFrom(after, records, all)
    BY <2>5, KindsOfRows, RowsChanged DEF Binaries
  <2> HIDE DEF after
  <2> QED  BY <2>2, <2>4, <2>6, FileChanged DEF all, after
<1> QED  BY <1>2, <1>3 DEF FileComes

-------------------------------------------------------------------------------
\* At one path: what is there comes from what was written and what was put in,
\* is sound if nothing was, and whole only if it is what was written, of which
\* the checksum that was told is.
PathSound(files, events, results, all, put) ==
  /\ \/ files = {}
     \/ \E file : /\ files = {file} /\ FileComes(file, events, put)
                  /\ put = {} => FileSound(file, events)
  /\ all => \E format \in {"Binary", "Csv"} : files = {Log!Written(format, events)}
  /\ \A t \in results : ~ t.error => t.checksum = events

LogInv ==
  /\ logDisk = [path \in Paths |-> logDisk[path]]
  /\ logWritten \in [Paths -> Seq(Records)]
  /\ told = [path \in Paths |-> told[path]]
  /\ whole \in [Paths -> BOOLEAN]
  /\ tampered = [path \in Paths |-> tampered[path]]
  /\ \A path \in Paths :
        PathSound(logDisk[path], logWritten[path], told[path], whole[path], tampered[path])

LEMMA LogStarts == Log!Init => LogInv
<1> SUFFICES ASSUME Log!Init PROVE LogInv
  OBVIOUS
<1>1. <<>> \in Seq(Records)
  OBVIOUS
<1> QED  BY <1>1 DEF Log!Init, LogInv, PathSound

LEMMA WriteKeepsLog ==
  ASSUME LogInv, NEW path \in Paths, NEW events \in Logs,
         NEW format \in {"Auto", "Csv", "Binary"}, Log!Write(path, events, format)
  PROVE  LogInv'
<1> DEFINE chosen == Log!Chosen(path, format)
           success == [written |-> Len(events), checksum |-> events, error |-> FALSE]
           failure == [written |-> 0, checksum |-> Log!Basis, error |-> TRUE]
           Ends(file, result, all) ==
             /\ logDisk' = [logDisk EXCEPT ![path] = {file}]
             /\ told' = [told EXCEPT ![path] = {result}]
             /\ whole' = [whole EXCEPT ![path] = all]
             /\ logWritten' = [logWritten EXCEPT ![path] = events]
             /\ tampered' = [tampered EXCEPT ![path] = {}]
<1>1. \/ Ends(Log!Written(chosen, events), success, TRUE)
      \/ \E file \in Log!Cut(Log!Written(chosen, events)) :
            Ends(file, success, FALSE) \/ Ends(file, failure, FALSE)
      \/ /\ told' = [told EXCEPT ![path] = {failure}]
         /\ UNCHANGED <<logDisk, logWritten, whole, tampered>>
  BY DEF Log!Write
<1>2. events \in Seq(Records)
  BY EventsAreNoMarks
<1>3. chosen \in {"Binary", "Csv"}
  BY DEF Log!Chosen
<1>4. success.checksum = events /\ failure.error = TRUE
  OBVIOUS
<1> HIDE DEF chosen, success, failure
<1>5. ASSUME NEW file, NEW result, NEW all \in BOOLEAN,
             PathSound({file}, events, {result}, all, {}), Ends(file, result, all)
      PROVE  LogInv'
  BY <1>2, <1>5 DEF LogInv
<1>6. /\ FileSound(Log!Written(chosen, events), events)
      /\ FileComes(Log!Written(chosen, events), events, {})
  BY <1>2, WrittenFileIsSound, WrittenComes
<1>7. CASE Ends(Log!Written(chosen, events), success, TRUE)
  <2>1. PathSound({Log!Written(chosen, events)}, events, {success}, TRUE, {})
    BY <1>3, <1>4, <1>6 DEF PathSound
  <2> HIDE DEF Ends
  <2> QED  BY <1>5, <1>6, <1>7, <2>1
<1>8. ASSUME NEW file \in Log!Cut(Log!Written(chosen, events)), NEW result \in {success, failure},
             Ends(file, result, FALSE)
      PROVE  LogInv'
  <2>1. FileSound(file, events) /\ FileComes(file, events, {})
    BY <1>2, <1>6, <1>8, CutIsSound, CutComes
  <2>2. PathSound({file}, events, {result}, FALSE, {})
    BY <1>4, <2>1 DEF PathSound
  <2> HIDE DEF Ends
  <2> QED  BY <1>5, <1>8, <2>2
<1>9. CASE /\ told' = [told EXCEPT ![path] = {failure}]
           /\ UNCHANGED <<logDisk, logWritten, whole, tampered>>
  <2>1. ASSUME NEW p \in Paths
        PROVE  PathSound(logDisk[p], logWritten[p], told'[p], whole[p], tampered[p])
    <3>1. PathSound(logDisk[p], logWritten[p], told[p], whole[p], tampered[p])
      BY DEF LogInv
    <3>2. told'[p] = told[p] \/ told'[p] = {failure}
      BY <1>9 DEF LogInv
    <3> QED  BY <1>4, <3>1, <3>2 DEF PathSound
  <2> QED  BY <1>9, <2>1 DEF LogInv
<1> HIDE DEF Ends
<1> QED  BY <1>1, <1>7, <1>8, <1>9

LEMMA DamageKeepsLog ==
  ASSUME LogInv, NEW path \in Paths, Log!Damage(path)
  PROVE  LogInv'
<1>1. PICK file \in logDisk[path] : \E left \in Log!Cut(file) \cup Log!Edited(file) :
        logDisk' = [logDisk EXCEPT ![path] = {left}]
  BY DEF Log!Damage
<1>2. PICK left \in Log!Cut(file) \cup Log!Edited(file) :
        logDisk' = [logDisk EXCEPT ![path] = {left}]
  BY <1>1
<1>3. /\ whole' = [whole EXCEPT ![path] = FALSE]
      /\ logWritten' = logWritten /\ told' = told /\ tampered' = tampered
  BY DEF Log!Damage
<1>4. logWritten[path] \in Seq(Records)
  BY DEF LogInv
<1>5. PathSound(logDisk[path], logWritten[path], told[path], whole[path], tampered[path])
  BY DEF LogInv
<1>6. /\ FileComes(file, logWritten[path], tampered[path])
      /\ tampered[path] = {} => FileSound(file, logWritten[path])
  BY <1>1, <1>5 DEF PathSound
<1>7. /\ FileComes(left, logWritten[path], tampered[path])
      /\ tampered[path] = {} => FileSound(left, logWritten[path])
  BY <1>4, <1>6, CutIsSound, EditedIsSound, CutComes, EditedComes
<1>8. PathSound({left}, logWritten[path], told[path], FALSE, tampered[path])
  BY <1>5, <1>7 DEF PathSound
<1> QED  BY <1>2, <1>3, <1>8 DEF LogInv

LEMMA TamperKeepsLog ==
  ASSUME LogInv, NEW path \in Paths, NEW by \in Strays \cup {Log!Comment}, Log!Tamper(path, by)
  PROVE  LogInv'
<1>1. PICK file \in logDisk[path] : \E left \in Log!Altered(file, by) :
        logDisk' = [logDisk EXCEPT ![path] = {left}]
  BY DEF Log!Tamper
<1>2. PICK left \in Log!Altered(file, by) :
        logDisk' = [logDisk EXCEPT ![path] = {left}]
  BY <1>1
<1>3. /\ whole' = [whole EXCEPT ![path] = FALSE]
      /\ tampered' = [tampered EXCEPT ![path] = tampered[path] \cup {by}]
      /\ logWritten' = logWritten /\ told' = told
  BY DEF Log!Tamper
<1>4. logWritten[path] \in Seq(Records)
  BY DEF LogInv
<1>5. PathSound(logDisk[path], logWritten[path], told[path], whole[path], tampered[path])
  BY DEF LogInv
<1>6. FileComes(file, logWritten[path], tampered[path])
  BY <1>1, <1>5 DEF PathSound
<1>7. FileComes(left, logWritten[path], tampered[path] \cup {by})
  BY <1>4, <1>6, AlteredComes
<1>8. PathSound({left}, logWritten[path], told[path], FALSE, tampered[path] \cup {by})
  BY <1>5, <1>7 DEF PathSound
<1> QED  BY <1>2, <1>3, <1>8 DEF LogInv

LEMMA LogStep == LogInv /\ [Log!Next]_Log!vars => LogInv'
<1> SUFFICES ASSUME LogInv, [Log!Next]_Log!vars PROVE LogInv'
  OBVIOUS
<1>1. CASE Log!Next
  BY <1>1, WriteKeepsLog, DamageKeepsLog, TamperKeepsLog DEF Log!Next
<1>2. CASE UNCHANGED Log!vars
  BY <1>2 DEF Log!vars, LogInv
<1> QED  BY <1>1, <1>2

LEMMA LogAlways == Log!Spec => []LogInv
BY LogStarts, LogStep, PTL DEF Log!Spec

-------------------------------------------------------------------------------
\* Every record of a binary log that reads without error is its event, unless the
\* log was tampered with; and then what is read still comes from what was written.
LEMMA BinaryReads ==
  ASSUME NEW path \in Paths, LogInv, NEW r, r = Log!ReadBinary(path)
  PROVE  /\ r.format = "Binary"
         /\ r.error => r.events = <<>>
         /\ ~ r.error =>
              /\ \E file : logDisk[path] = {file} /\ file.kind = "binary" /\ r.events = file.records
              /\ r.checksum = r.events
              /\ Log!ComesFrom(r.events, logWritten[path], tampered[path])
              /\ tampered[path] = {} => Log!IsPrefix(r.events, logWritten[path])
<1> DEFINE Good(f) == /\ f.kind = "binary" /\ f.header = Log!Header
                      /\ \A k \in DOMAIN f.records : f.records[k] \notin {Log!Garbled, Log!Short}
<1>1. CASE \E f \in logDisk[path] : Good(f)
  <2>1. PICK file : /\ logDisk[path] = {file}
                    /\ FileComes(file, logWritten[path], tampered[path])
                    /\ tampered[path] = {} => FileSound(file, logWritten[path])
    BY <1>1 DEF LogInv, PathSound
  <2>2. Good(file)
    BY <1>1, <2>1
  <2>3. (CHOOSE f \in logDisk[path] : TRUE) = file
    BY <2>1
  <2>4. r = Log!Got("Binary", file.records)
    BY <1>1, <2>3 DEF Log!ReadBinary
  <2>5. /\ r.format = "Binary" /\ r.events = file.records /\ r.checksum = file.records
        /\ r.error = FALSE
    BY <2>4 DEF Log!Got
  <2>6. tampered[path] = {} => BinarySound(file.records, logWritten[path])
    BY <2>1, <2>2, FileFields DEF FileSound
  <2>8. Log!ComesFrom(file.records, logWritten[path], tampered[path])
    <3>1. PICK header, records : file = Log!Binary(header, records)
      BY <2>1, <2>2, FileFields DEF FileComes
    <3>2. /\ records \in Binaries /\ file.records = records
          /\ Log!ComesFrom(records, logWritten[path], tampered[path] \cup Log!NotEvents)
      BY <2>1, <3>1, RowsCome, FileFields
    <3>3. \A k \in DOMAIN records : records[k] \notin {Log!Garbled, Log!Short}
      BY <2>2, <3>2
    <3>4. records \in Seq(Records)
      BY <3>2, <3>3 DEF Binaries
    <3> QED  BY <3>2, <3>4, EventsCome
  <2>7. ASSUME tampered[path] = {}
        PROVE  Log!IsPrefix(file.records, logWritten[path])
    <3> DEFINE a == file.records  b == logWritten[path]
    <3>1. b \in Seq(Records)
      BY DEF LogInv
    <3>2. /\ a \in Seq(Lines) /\ Len(a) <= Len(b)
          /\ \A k \in 1 .. Len(a) : a[k] = b[k]
      <4>1. \A k \in DOMAIN a : a[k] \notin {Log!Garbled, Log!Short}
        BY <2>2
      <4> HIDE DEF a, b
      <4> QED  BY <2>6, <2>7, <4>1 DEF BinarySound, a, b
    <3> HIDE DEF a, b
    <3>3. SubSeq(a, 1, Len(a)) = SubSeq(b, 1, Len(a))
      BY <3>1, <3>2
    <3> QED  BY <3>2, <3>3 DEF Log!IsPrefix, a, b
  <2> QED  BY <2>1, <2>2, <2>5, <2>7, <2>8
<1>2. CASE ~ \E f \in logDisk[path] : Good(f)
  <2>1. r = Log!Failed("Binary", Log!Basis)
    BY <1>2 DEF Log!ReadBinary
  <2> QED  BY <2>1 DEF Log!Failed
<1> QED  BY <1>1, <1>2

\* A text that reads without error reads as a beginning, but for the last flags,
\* unless it was tampered with; and then too it comes from what was written.
LEMMA TextReads ==
  ASSUME NEW path \in Paths, LogInv, NEW r, r = Log!ReadCsv(path)
  PROVE  /\ r.format = "Csv"
         /\ r.error => r.events = <<>>
         /\ ~ r.error =>
              /\ \E file : /\ logDisk[path] = {file} /\ file.kind = "text"
                           /\ r.events = Log!Parsed(file.lines)
              /\ r.checksum = r.events /\ r.events \in Seq(Lines)
              /\ Log!ComesFrom(r.events, logWritten[path], tampered[path])
              /\ tampered[path] = {} => Begins(r.events, logWritten[path])
<1> DEFINE Good(f) == /\ f.kind = "text"
                      /\ \A k \in DOMAIN f.lines : f.lines[k] \notin {Log!Drifted, Log!Garbled}
<1>1. CASE \E f \in logDisk[path] : Good(f)
  <2>1. PICK file : /\ logDisk[path] = {file}
                    /\ FileComes(file, logWritten[path], tampered[path])
                    /\ tampered[path] = {} => FileSound(file, logWritten[path])
    BY <1>1 DEF LogInv, PathSound
  <2>2. Good(file)
    BY <1>1, <2>1
  <2>3. (CHOOSE f \in logDisk[path] : TRUE) = file
    BY <2>1
  <2>4. r = Log!Got("Csv", Log!Parsed(file.lines))
    BY <1>1, <2>3 DEF Log!ReadCsv
  <2>5. /\ r.format = "Csv" /\ r.events = Log!Parsed(file.lines)
        /\ r.checksum = Log!Parsed(file.lines) /\ r.error = FALSE
    BY <2>4 DEF Log!Got
  <2> DEFINE lines == file.lines
  <2>6. /\ tampered[path] = {} => TextSound(lines, logWritten[path])
        /\ lines \in Texts
        /\ Log!ComesFrom(lines, logWritten[path], tampered[path] \cup Log!NotEvents)
    <3>1. PICK other \in Texts : file = Log!Text(other)
      BY <2>1, <2>2, FileFields DEF FileComes
    <3>2. lines = other
      BY <3>1, FileFields
    <3> QED  BY <2>1, <3>1, <3>2, FilesOfRows, RowsCome DEF FileSound
  <2>7. /\ GoodTo(lines, Len(lines)) /\ Len(lines) \in Nat /\ lines \in Seq(Lines)
    <3>1. lines \in Seq(Lines)
      BY <2>6, KindsOfRows
    <3>2. \A k \in DOMAIN lines : lines[k] \notin {Log!Drifted, Log!Garbled}
      BY <2>2
    <3> HIDE DEF lines
    <3> QED  BY <3>1, <3>2 DEF GoodTo
  <2> HIDE DEF lines
  <2>8. PICK f : UpTo(lines, f) /\ Log!Parsed(lines) = f[Len(lines)]
    BY <2>7, ParsingGoesUp
  <2>9. Len(lines) \in 0 .. Len(lines)
    BY <2>7
  <2>10. /\ f[Len(lines)] \in Seq(Lines)
         /\ tampered[path] = {} => Begins(f[Len(lines)], logWritten[path])
    BY <2>6, <2>7, <2>8, <2>9, KeptTyped DEF TextSound
  <2>12. Log!ComesFrom(f[Len(lines)], logWritten[path], tampered[path])
    <3> DEFINE e == f[Len(lines)]
    <3>1. Log!ComesFrom(e, lines, {})
      BY <2>7, <2>8, ParsedComes
    <3>2. e \in Seq(Records)
      <4>1. \A k \in DOMAIN lines : /\ lines[k] \in Lines \ {Log!Short}
                                    /\ lines[k] \notin {Log!Drifted, Log!Garbled}
        BY <2>2, <2>6 DEF Texts, lines
      <4>2. \A k \in 1 .. Len(lines) : lines[k] \in Log!Ignored \/ lines[k] \in Records
        BY <2>7, <4>1, LinesKinds DEF Log!Ignored
      <4> QED  BY <2>7, <2>8, <2>9, <4>2, KeptIn
    <3> HIDE DEF e
    <3>3. Log!ComesFrom(e, lines, tampered[path] \cup Log!NotEvents)
      BY <3>1, MoreComes
    <3>4. e \in Seq(Lines) /\ logWritten[path] \in Seq(Records)
      BY <3>2 DEF Lines, LogInv
    <3>5. Log!ComesFrom(e, logWritten[path], tampered[path] \cup Log!NotEvents)
      BY <2>6, <2>7, <3>3, <3>4, RowsStillCome
    <3> QED  BY <3>2, <3>5, EventsCome DEF e
  <2>11. r.events = Log!Parsed(lines)
    BY <2>5 DEF lines
  <2> QED  BY <2>1, <2>2, <2>5, <2>8, <2>10, <2>11, <2>12
<1>2. CASE ~ \E f \in logDisk[path] : Good(f)
  <2>1. r = Log!Failed("Csv", Log!Basis)
    BY <1>2 DEF Log!ReadCsv
  <2> QED  BY <2>1 DEF Log!Failed
<1> QED  BY <1>1, <1>2

LEMMA BeginningOrLastFlags ==
  ASSUME NEW r \in Seq(Lines), NEW events \in Seq(Records), Begins(r, events)
  PROVE  \/ Log!IsPrefix(r, events)
         \/ /\ Len(r) <= Len(events) /\ Log!IsPrefix(Log!Front(r), events)
            /\ Log!Last(r).data = events[Len(r)].data
<1>1. /\ Len(r) \in Nat /\ Len(events) \in Nat /\ Len(r) <= Len(events)
      /\ \A j \in 1 .. Len(r) : /\ r[j].data = events[j].data
                                /\ j < Len(r) => r[j] = events[j]
  BY DEF Begins
<1>2. CASE Len(r) = 0
  <2>1. SubSeq(r, 1, Len(r)) = SubSeq(events, 1, Len(r))
    BY <1>1, <1>2
  <2> QED  BY <1>1, <2>1 DEF Log!IsPrefix
<1>3. CASE Len(r) # 0
  <2>1. Len(r) \in 1 .. Len(r)
    BY <1>1, <1>3
  <2>2. Log!Last(r).data = events[Len(r)].data
    BY <1>1, <2>1 DEF Log!Last
  <2> DEFINE front == SubSeq(r, 1, Len(r) - 1)
  <2>3. /\ front \in Seq(Lines) /\ Len(front) = Len(r) - 1
        /\ \A j \in 1 .. Len(r) - 1 : front[j] = events[j]
    <3>1. /\ front \in Seq(Lines) /\ Len(front) = Len(r) - 1
          /\ \A j \in 1 .. Len(r) - 1 : front[j] = r[j]
      <4>1. Len(r) - 1 \in 0 .. Len(r)
        BY <1>1, <2>1
      <4>2. front = [j \in 1 .. Len(r) - 1 |-> r[j]]
        BY <1>1, <4>1
      <4>3. \A j \in 1 .. Len(r) - 1 : r[j] \in Lines
        BY <1>1
      <4> HIDE DEF front
      <4> QED  BY <4>1, <4>2, <4>3
    <3>2. \A j \in 1 .. Len(r) - 1 : r[j] = events[j]
      BY <1>1
    <3> QED  BY <3>1, <3>2
  <2> HIDE DEF front
  <2>4. SubSeq(front, 1, Len(front)) = SubSeq(events, 1, Len(front)) /\ Len(front) <= Len(events)
    BY <1>1, <2>1, <2>3
  <2>5. Log!IsPrefix(Log!Front(r), events)
    BY <2>4 DEF Log!IsPrefix, Log!Front, front
  <2> QED  BY <1>1, <2>2, <2>5
<1> QED  BY <1>2, <1>3

\* What was left whole reads as it was written.
LEMMA WholeReads ==
  ASSUME NEW path \in Paths, LogInv, whole[path],
         NEW format \in {"Auto", "Csv", "Binary"}, NEW r, r = Log!ReadEventLog(path, format)
  PROVE  /\ ~ r.error => r.events = logWritten[path]
         /\ format = "Auto" => ~ r.error
<1> DEFINE events == logWritten[path]
<1>1. PICK kind \in {"Binary", "Csv"} : logDisk[path] = {Log!Written(kind, events)}
  BY DEF LogInv, PathSound
<1>2. events \in Seq(Records)
  BY DEF LogInv
<1> HIDE DEF events
<1> DEFINE file == Log!Written(kind, events)
<1>3. (CHOOSE f \in logDisk[path] : TRUE) = file /\ logDisk[path] = {file}
  BY <1>1
<1>4. CASE kind = "Binary"
  <2>1. file.kind = "binary" /\ file.header = Log!Header /\ file.records = events
    BY <1>4, FileFields DEF Log!Written
  <2>2. \A k \in DOMAIN events : events[k] \notin {Log!Garbled, Log!Short}
    BY <1>2, EventsAreNoMarks DEF Log!NotEvents
  <2> HIDE DEF file
  <2>3. Log!ReadBinary(path) = Log!Got("Binary", events)
    BY <1>3, <2>1, <2>2 DEF Log!ReadBinary
  <2>4. Log!ReadCsv(path) = Log!Failed("Csv", Log!Basis)
    BY <1>3, <2>1 DEF Log!ReadCsv
  <2>5. r = IF format = "Csv" THEN Log!Failed("Csv", Log!Basis) ELSE Log!Got("Binary", events)
    BY <1>3, <2>1, <2>3, <2>4 DEF Log!ReadEventLog
  <2> QED  BY <1>1, <2>5 DEF Log!Got, Log!Failed, events
<1>5. CASE kind = "Csv"
  <2> DEFINE lines == <<Log!Header>> \o events
  <2>1. file.kind = "text" /\ file.lines = lines
    BY <1>5, FileFields DEF Log!Written
  <2>2. Log!Parsed(lines) = events /\ \A k \in DOMAIN lines : lines[k] \notin {Log!Drifted, Log!Garbled}
    BY <1>2, WrittenIsSound
  <2> HIDE DEF file, lines
  <2>3. Log!ReadCsv(path) = Log!Got("Csv", events)
    BY <1>3, <2>1, <2>2 DEF Log!ReadCsv
  <2>4. Log!ReadBinary(path) = Log!Failed("Binary", Log!Basis)
    BY <1>3, <2>1 DEF Log!ReadBinary
  <2>5. r = IF format = "Binary" THEN Log!Failed("Binary", Log!Basis) ELSE Log!Got("Csv", events)
    BY <1>3, <2>1, <2>3, <2>4 DEF Log!ReadEventLog
  <2> QED  BY <1>1, <2>5 DEF Log!Got, Log!Failed, events
<1> QED  BY <1>4, <1>5

LEMMA LogHolds == LogInv => ReadsBeginningOrNothing
<1> SUFFICES ASSUME LogInv, NEW path \in Paths, NEW format \in {"Auto", "Csv", "Binary"}
             PROVE  LET r == Log!ReadEventLog(path, format)
                    IN  /\ r.error => r.events = <<>>
                        /\ ~ r.error /\ tampered[path] = {} =>
                             \/ Log!IsPrefix(r.events, logWritten[path])
                             \/ /\ r.format = "Csv" /\ Len(r.events) <= Len(logWritten[path])
                                /\ Log!IsPrefix(Log!Front(r.events), logWritten[path])
                                /\ Log!Last(r.events).data
                                     = logWritten[path][Len(r.events)].data
                        /\ ~ r.error =>
                             /\ Log!ComesFrom(r.events, logWritten[path], tampered[path])
                             /\ \A t \in told[path] :
                                  ~ t.error =>
                                    (r.checksum = t.checksum <=> r.events = logWritten[path])
                        /\ whole[path] => /\ ~ r.error => r.events = logWritten[path]
                                          /\ format = "Auto" => ~ r.error
  BY DEF ReadsBeginningOrNothing, Log!ReadsBeginningOrNothing
<1> DEFINE r == Log!ReadEventLog(path, format)
<1>1. logWritten[path] \in Seq(Records)
  BY DEF LogInv
<1>2. \/ r = Log!Failed("Auto", "zero") \/ r = Log!ReadBinary(path) \/ r = Log!ReadCsv(path)
  BY DEF Log!ReadEventLog
<1>3. whole[path] => /\ ~ r.error => r.events = logWritten[path]
                     /\ format = "Auto" => ~ r.error
  BY WholeReads
<1>4. \A t \in told[path] : ~ t.error => t.checksum = logWritten[path]
  BY DEF LogInv, PathSound
<1> HIDE DEF r
<1>5. CASE r = Log!Failed("Auto", "zero")
  <2>1. r.error = TRUE /\ r.events = <<>>
    BY <1>5 DEF Log!Failed
  <2> QED  BY <1>3, <2>1 DEF r
<1>6. CASE r = Log!ReadBinary(path)
  <2>1. /\ r.error => r.events = <<>>
        /\ ~ r.error => /\ r.checksum = r.events
                        /\ Log!ComesFrom(r.events, logWritten[path], tampered[path])
                        /\ tampered[path] = {} => Log!IsPrefix(r.events, logWritten[path])
    BY <1>6, BinaryReads
  <2> QED  BY <1>3, <1>4, <2>1 DEF r
<1>7. CASE r = Log!ReadCsv(path)
  <2>1. /\ r.format = "Csv" /\ (r.error => r.events = <<>>)
        /\ ~ r.error => /\ r.checksum = r.events /\ r.events \in Seq(Lines)
                        /\ Log!ComesFrom(r.events, logWritten[path], tampered[path])
                        /\ tampered[path] = {} => Begins(r.events, logWritten[path])
    BY <1>7, TextReads
  <2>2. ~ r.error /\ tampered[path] = {} =>
           \/ Log!IsPrefix(r.events, logWritten[path])
           \/ /\ Len(r.events) <= Len(logWritten[path])
              /\ Log!IsPrefix(Log!Front(r.events), logWritten[path])
              /\ Log!Last(r.events).data = logWritten[path][Len(r.events)].data
    BY <1>1, <2>1, BeginningOrLastFlags
  <2> QED  BY <1>3, <1>4, <2>1, <2>2 DEF r
<1> QED  BY <1>2, <1>5, <1>6, <1>7

-------------------------------------------------------------------------------
(* Together each component does what it does alone.                        *)

\* The steps of the others leave the index alone; and so for each component.
LEMMA IndexAlone == ComponentsSpec => Index!Spec
<1>1. ComponentsInit => Index!Init
  BY DEF ComponentsInit
<1>2. [\E name \in Names : StepOf(name)]_allVars => [Index!Next]_Index!vars
  BY DEF StepOf, allVars, indexVars, Index!vars
<1> QED  BY <1>1, <1>2, PTL DEF ComponentsSpec, Index!Spec

\* Searching the pooled book's index finds exactly what was stored, whatever
\* the hashes are and however many ids have come and gone.
THEOREM IndexFindsWhatWasStored == ComponentsSpec => []FindsWhatWasStored
BY IndexAlone, IndexAlways, SearchHolds, PTL

LEMMA RateAlone == ComponentsSpec => Rate!Spec
<1>1. ComponentsInit => Rate!Init
  BY DEF ComponentsInit
<1>2. [\E name \in Names : StepOf(name)]_allVars => [Rate!Next]_Rate!vars
  BY DEF StepOf, allVars, rateVars, Rate!vars
<1> QED  BY <1>1, <1>2, PTL DEF ComponentsSpec, Rate!Spec

\* No interval of a window's length has more messages allowed in it than the
\* maximum: than twice the maximum if windows are fixed.
THEOREM RateKeepsMaximum == ComponentsSpec => []AtMostMaximum
BY RateAlone, RateAlways, MaximumHolds, PTL

\* No message is refused but one that finds the maximum in the window before it.
THEOREM RateRefusesOnlyWhenFull == ComponentsSpec => []RefusedOnlyWhenFull
BY RateAlone, RateAlways, RefusalHolds, PTL

LEMMA PortfolioAlone == ComponentsSpec => Portfolio!Spec
<1>1. ComponentsInit => Portfolio!Init
  BY DEF ComponentsInit
<1>2. [\E name \in Names : StepOf(name)]_allVars => [Portfolio!Next]_Portfolio!vars
  BY DEF StepOf, allVars, portfolioVars, Portfolio!vars
<1> QED  BY <1>1, <1>2, PTL DEF ComponentsSpec, Portfolio!Spec

\* For every sequence of fills, marks and seeded positions in every symbol: the
\* profit and loss reported is the cash a close-out at the marks would leave,
\* within what truncating average costs can have come to.
THEOREM PnlIsAlwaysCash == ComponentsSpec => []PnlIsCash
BY PortfolioAlone, PortfolioAlways, AccountsTell, PTL

\* For every portfolio, every limit and every order: what evaluate_order accepts
\* may be filled in any part without going over a limit of gross or net exposure.
THEOREM PartialFillsAlwaysFit == ComponentsSpec => []PartialFillsFit
BY PortfolioAlone, PortfolioAlways, PartsFit, PTL

LEMMA LogAlone == ComponentsSpec => Log!Spec
<1>1. ComponentsInit => Log!Init
  BY DEF ComponentsInit
<1>2. [\E name \in Names : StepOf(name)]_allVars => [Log!Next]_Log!vars
  BY DEF StepOf, allVars, logVars, Log!vars
<1> QED  BY <1>1, <1>2, PTL DEF ComponentsSpec, Log!Spec

\* For every log, however its file was cut short, damaged or tampered with, reading
\* it without error gives events that were written, in their order and none twice,
\* but for what was put in their place and for torn flags; and its checksum is the
\* one that was told only if they are those that were written, all of them.  Where
\* nothing that reads was put in and nothing was taken out they are a beginning of
\* what was written, and of a file that was left whole all of it.
THEOREM LogsReadTruly == ComponentsSpec => []ReadsBeginningOrNothing
BY LogAlone, LogAlways, LogHolds, PTL

LEMMA GateAlone == ComponentsSpec => Spec
<1>1. ComponentsInit => Init
  BY DEF ComponentsInit
<1>2. [\E name \in Names : StepOf(name)]_allVars => [Next]_vars
  BY DEF StepOf, allVars, vars
<1> QED  BY <1>1, <1>2, PTL DEF ComponentsSpec, Spec

\* For every policy and counter width, after any number of observations: the
\* model is disabled exactly when enough signals in a row were late since the
\* last reset, and then nothing is accepted.
THEOREM GateDisablesExactly == ComponentsSpec => []DisabledByRunOfLates
BY GateAlone, GateAlways, GateHolds, PTL

LEMMA ModelAlone == ComponentsSpec => Model!Spec
<1>1. ComponentsInit => Model!Init
  BY DEF ComponentsInit
<1>2. [\E name \in Names : StepOf(name)]_allVars => [Model!Next]_Model!vars
  BY DEF StepOf, allVars, modelVars, Model!vars
<1> QED  BY <1>1, <1>2, PTL DEF ComponentsSpec, Model!Spec

\* A model whose metadata was stated and is true scores what is extracted.
THEOREM StatedModelsAlwaysScore == ComponentsSpec => []StatedModelsScore
BY ModelAlone, ModelAlways, StatedScores, PTL
===============================================================================
