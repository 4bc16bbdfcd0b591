---------------------------- MODULE SpscRing_proofs ----------------------------
(***************************************************************************)
(* Proofs about SpscRing, for every capacity and every set of items: the   *)
(* inductive invariant RingInv, the absence of data races on the slots,    *)
(* and the refinement of BoundedFifo.                                      *)
(***************************************************************************)
EXTENDS SpscRing, SequenceTheorems, TLAPS

-------------------------------------------------------------------------------
(* Remainders of naturals by a fixed positive number: what the arithmetic  *)
(* of the indexes rests on.                                                *)

\* A remainder is below the divisor: an index stays inside slots_.
LEMMA ModRange ==
  ASSUME NEW a \in Nat, NEW n \in Nat \ {0}
  PROVE  a % n \in 0 .. n - 1
  OBVIOUS

\* Euclidean division.
LEMMA DivMod ==
  ASSUME NEW a \in Nat, NEW n \in Nat \ {0}
  PROVE  /\ a = n * (a \div n) + (a % n)
         /\ a \div n \in Nat
  OBVIOUS

\* The only multiple of n strictly between -n and n is zero.
LEMMA SmallMultiple ==
  ASSUME NEW x \in Int, NEW n \in Nat \ {0}, n * x < n, n * x > -n
  PROVE  x = 0
  OBVIOUS

\* Quotient and remainder are unique.
LEMMA DivUnique ==
  ASSUME NEW n \in Nat \ {0}, NEW q \in Int, NEW p \in Int,
         NEW r \in 0 .. n - 1, NEW s \in 0 .. n - 1,
         n * q + r = n * p + s
  PROVE  r = s /\ q = p
<1>1. n * (q - p) = s - r
  OBVIOUS
<1>2. q - p = 0
  BY <1>1, SmallMultiple
<1> QED
  BY <1>2

\* Any decomposition with a remainder in range gives the remainder.
LEMMA ModUnique ==
  ASSUME NEW a \in Nat, NEW n \in Nat \ {0}, NEW q \in Int,
         NEW r \in 0 .. n - 1, a = n * q + r
  PROVE  a % n = r
  BY DivMod, DivUnique, ModRange

\* A number below the divisor is its own remainder.
LEMMA ModSmall ==
  ASSUME NEW n \in Nat \ {0}, NEW a \in 0 .. n - 1
  PROVE  a % n = a
<1>1. a = n * 0 + a
  OBVIOUS
<1> QED
  BY <1>1, ModUnique

\* Going once around the ring changes nothing.
LEMMA ModShift ==
  ASSUME NEW a \in Nat, NEW n \in Nat \ {0}
  PROVE  (a + n) % n = a % n
<1>1. a + n = n * ((a \div n) + 1) + (a % n)
  BY DivMod
<1>2. (a \div n) + 1 \in Int /\ a + n \in Nat /\ a % n \in 0 .. n - 1
  BY DivMod, ModRange
<1> QED
  BY <1>1, <1>2, ModUnique

\* increment() of a reduced index is the reduced next index.
LEMMA ModSucc ==
  ASSUME NEW a \in Nat, NEW n \in Nat \ {0}
  PROVE  ((a % n) + 1) % n = (a + 1) % n
<1> DEFINE r == a % n
           q == a \div n
<1>1. a = n * q + r /\ q \in Nat /\ r \in 0 .. n - 1
  BY DivMod, ModRange
<1>2. a + 1 \in Nat /\ r + 1 \in Nat /\ 0 \in 0 .. n - 1 /\ q + 1 \in Int
  BY <1>1
<1> HIDE DEF r, q
<1>3. CASE r + 1 < n
  <2>1. r + 1 \in 0 .. n - 1
    BY <1>1, <1>3
  <2>2. a + 1 = n * q + (r + 1)
    BY <1>1
  <2>3. (a + 1) % n = r + 1
    BY <2>1, <2>2, <1>1, <1>2, ModUnique
  <2>4. (r + 1) % n = r + 1
    BY <2>1, ModSmall
  <2> QED
    BY <2>3, <2>4 DEF r
<1>4. CASE r + 1 = n
  <2>1. a + 1 = n * (q + 1) + 0
    BY <1>1, <1>4
  <2>2. (a + 1) % n = 0
    BY <2>1, <1>2, ModUnique
  <2>3. r + 1 = n * 1 + 0
    BY <1>1, <1>4
  <2>4. (r + 1) % n = 0
    BY <2>3, <1>2, ModUnique
  <2> QED
    BY <2>2, <2>4 DEF r
<1> QED
  BY <1>1, <1>3, <1>4

\* Two different numbers with one remainder are a full turn apart: within
\* one turn of the ring, different positions have different slots.
LEMMA ModApart ==
  ASSUME NEW a \in Nat, NEW b \in Nat, NEW n \in Nat \ {0},
         a < b, a % n = b % n
  PROVE  a + n <= b
<1> DEFINE p == a \div n
           q == b \div n
           r == a % n
<1>1. /\ a = n * p + r /\ b = n * q + r
      /\ p \in Nat /\ q \in Nat /\ r \in 0 .. n - 1
  BY DivMod, ModRange
<1>2. n * (q - p) = b - a
  BY <1>1
<1>3. SUFFICES ASSUME b - a < n PROVE FALSE
  OBVIOUS
<1>4. q - p = 0
  BY <1>1, <1>2, <1>3, SmallMultiple
<1> QED
  BY <1>1, <1>2, <1>4

\* The distance between two reduced indexes, as size_approx() computes it, is
\* the distance between the positions when they are less than a turn apart.
LEMMA ModDistance ==
  ASSUME NEW a \in Nat, NEW b \in Nat, NEW n \in Nat \ {0},
         b <= a, a - b < n
  PROVE  ((a % n) + n - (b % n)) % n = a - b
<1> DEFINE p == a \div n
           q == b \div n
           r == a % n
           s == b % n
           d == a - b
<1>1. /\ a = n * p + r /\ b = n * q + s /\ p \in Nat /\ q \in Nat
      /\ r \in 0 .. n - 1 /\ s \in 0 .. n - 1
  BY DivMod, ModRange
<1>2. d \in 0 .. n - 1
  OBVIOUS
<1>3. r + n - s = n * (q - p + 1) + d
  BY <1>1
<1>4. r + n - s \in Nat /\ q - p + 1 \in Int
  BY <1>1
<1> HIDE DEF r, s, d, p, q
<1>5. (r + n - s) % n = d
  BY <1>2, <1>3, <1>4, ModUnique
<1> QED
  BY <1>5 DEF r, s, d

-------------------------------------------------------------------------------
\* The ring has at least one slot, and slot numbers are the remainders.
LEMMA SlotNumbers ==
  /\ NumSlots \in Nat \ {0}
  /\ SlotIds = 0 .. NumSlots - 1
  /\ \A k \in Nat : k % NumSlots \in SlotIds
<1>1. NumSlots \in Nat \ {0} /\ SlotIds = 0 .. NumSlots - 1
  BY CapacityAssumption DEF NumSlots, SlotIds
<1>2. \A k \in Nat : k % NumSlots \in SlotIds
  BY <1>1, ModRange
<1> QED
  BY <1>1, <1>2

\* Where the indexes stand, in terms of how many items went through: each is
\* the number of its stores modulo the ring size, the consumer is never ahead
\* of the producer and the producer never a full turn ahead of the consumer.
LEMMA Positions ==
  ASSUME RingInv
  PROVE  /\ Len(sent) \in Nat /\ Len(received) \in Nat
         /\ Len(received) <= Len(sent)
         /\ Len(sent) - Len(received) <= Capacity
         /\ pushPc # "idle" => Len(sent) - Len(received) < Capacity
         /\ popPc # "idle" => Len(received) < Len(sent)
         /\ Newest(tail) = Len(sent) % NumSlots
         /\ Newest(head) = Len(received) % NumSlots
         /\ head[headSeen] = (headSeen - 1) % NumSlots
         /\ tail[tailSeen] = (tailSeen - 1) % NumSlots
         /\ headSeen - 1 \in Nat /\ tailSeen - 1 \in Nat
         /\ headSeen - 1 <= Len(received) /\ tailSeen - 1 <= Len(sent)
<1>1. /\ sent \in Seq(Items) /\ received \in Seq(Items)
      /\ Len(tail) = Len(sent) + 1 /\ Len(head) = Len(received) + 1
      /\ headSeen \in 1 .. Len(head) /\ headAcq \in 1 .. headSeen
      /\ tailSeen \in 1 .. Len(tail) /\ tailAcq \in 1 .. tailSeen
  BY DEF RingInv, TypeOK, IndexOrder
<1>2. /\ \A k \in 1 .. Len(tail) : tail[k] = (k - 1) % NumSlots
      /\ \A k \in 1 .. Len(head) : head[k] = (k - 1) % NumSlots
  BY DEF RingInv, IndexOrder
<1>3. Len(sent) \in Nat /\ Len(received) \in Nat
  BY <1>1, LenProperties
<1>4. /\ Len(tail) - headAcq <= Capacity
      /\ pushPc # "idle" => Len(tail) - headAcq < Capacity
      /\ Len(head) <= tailAcq
      /\ popPc # "idle" => Len(head) < tailAcq
  BY DEF RingInv, Room, Supply
<1>5. /\ Len(received) <= Len(sent)
      /\ Len(sent) - Len(received) <= Capacity
      /\ pushPc # "idle" => Len(sent) - Len(received) < Capacity
      /\ popPc # "idle" => Len(received) < Len(sent)
  BY <1>1, <1>3, <1>4, CapacityAssumption
<1>6. tail[Len(tail)] = Len(sent) % NumSlots /\ head[Len(head)] = Len(received) % NumSlots
  BY <1>1, <1>2, <1>3
<1>7. /\ head[headSeen] = (headSeen - 1) % NumSlots
      /\ tail[tailSeen] = (tailSeen - 1) % NumSlots
      /\ headSeen - 1 \in Nat /\ tailSeen - 1 \in Nat
      /\ headSeen - 1 <= Len(received) /\ tailSeen - 1 <= Len(sent)
  BY <1>1, <1>2, <1>3
<1> QED
  BY <1>3, <1>5, <1>6, <1>7 DEF Newest

\* Storing Increment of the newest value extends the modification order.
LEMMA OrderGrows ==
  ASSUME NEW order \in Seq(SlotIds), NEW n \in Nat, Len(order) = n + 1,
         \A k \in 1 .. Len(order) : order[k] = (k - 1) % NumSlots
  PROVE  LET longer == Append(order, Increment(Newest(order)))
         IN  /\ longer \in Seq(SlotIds) /\ Len(longer) = n + 2
             /\ \A k \in 1 .. Len(longer) : longer[k] = (k - 1) % NumSlots
<1> DEFINE longer == Append(order, Increment(Newest(order)))
<1>1. Newest(order) = n % NumSlots
  BY DEF Newest
<1>2. Increment(Newest(order)) = (n + 1) % NumSlots
  BY <1>1, SlotNumbers, ModSucc DEF Increment
<1>3. Increment(Newest(order)) \in SlotIds
  BY <1>2, SlotNumbers
<1>4. longer \in Seq(SlotIds) /\ Len(longer) = n + 2
  BY <1>3
<1>5. \A k \in 1 .. Len(longer) : longer[k] = (k - 1) % NumSlots
  BY <1>2, <1>4
<1> QED
  BY <1>4, <1>5

\* A fresh ring satisfies the invariant.
LEMMA InitInv == Init => RingInv
<1> SUFFICES ASSUME Init PROVE RingInv
  OBVIOUS
<1> USE DEF Init
<1>1. 0 \in SlotIds /\ 0 % NumSlots = 0
  BY SlotNumbers, ModSmall
<1>2. TypeOK
  BY <1>1, BlankAssumption DEF TypeOK
<1>3. IndexOrder
  BY <1>1 DEF IndexOrder
<1>4. Room /\ Supply
  BY CapacityAssumption DEF Room, Supply
<1>5. Contents /\ Reads
  BY DEF Contents, Reads
<1> QED
  BY <1>2, <1>3, <1>4, <1>5 DEF RingInv

-------------------------------------------------------------------------------
(* Each step of the producer preserves the invariant.                       *)

\* A failed push only synchronises with a later position of head_.
LEMMA PushFullInv == RingInv /\ PushFull => RingInv'
<1> SUFFICES ASSUME RingInv, PushFull PROVE RingInv'
  OBVIOUS
<1> USE DEF RingInv, PushFull, indexVars, viewVars, pushVars, popVars, slotVars, history
<1>1. TypeOK'
  BY DEF TypeOK, AcquiredHead
<1>2. Room'
  <2>1. /\ headAcq \in Int /\ headSeen \in Int /\ headAcq <= headSeen
        /\ Len(tail) \in Int /\ Capacity \in Int
    BY CapacityAssumption DEF TypeOK
  <2>2. /\ Len(tail) - headAcq <= Capacity
        /\ pushPc = "idle" /\ pushPc' = "idle" /\ tail' = tail /\ headAcq' = headSeen
    BY DEF Room, AcquiredHead
  <2>3. Len(tail) - headSeen <= Capacity
    BY <2>1, <2>2
  <2> QED
    BY <2>2, <2>3 DEF Room
<1>3. IndexOrder' /\ Supply' /\ Contents' /\ Reads'
  BY DEF IndexOrder, Supply, Contents, Reads
<1> QED
  BY <1>1, <1>2, <1>3

\* A push goes ahead only when what it has acquired of head_ leaves room: the
\* next index would otherwise be the acquired one, a full turn behind it.
LEMMA PushClaimInv ==
  ASSUME NEW item \in Items, RingInv, PushClaim(item)
  PROVE  RingInv'
<1>1. TypeOK'
  BY DEF RingInv, TypeOK, PushClaim, AcquiredHead, indexVars, viewVars, popVars, slotVars, history
<1>2. Room'
  <2> DEFINE seen == headSeen - 1
  <2>1. /\ seen \in Nat /\ Len(sent) \in Nat
        /\ seen <= Len(received) /\ Len(received) \in Nat /\ Len(received) <= Len(sent)
        /\ Newest(tail) = Len(sent) % NumSlots
        /\ head[headSeen] = seen % NumSlots
    BY Positions
  <2>2. Len(tail) = Len(sent) + 1 /\ headAcq <= headSeen /\ headAcq \in Nat /\ headSeen \in Nat
    BY DEF RingInv, TypeOK, IndexOrder
  <2>3. Len(sent) - seen <= Capacity
    BY <2>1, <2>2, CapacityAssumption DEF RingInv, Room
  <2>4. Increment(Newest(tail)) = (Len(sent) + 1) % NumSlots
    BY <2>1, SlotNumbers, ModSucc DEF Increment
  <2>5. Len(sent) - seen # Capacity
    <3> SUFFICES ASSUME Len(sent) - seen = Capacity PROVE FALSE
      OBVIOUS
    <3>1. Len(sent) + 1 = seen + NumSlots
      BY <2>1, CapacityAssumption DEF NumSlots
    <3>2. (Len(sent) + 1) % NumSlots = seen % NumSlots
      BY <3>1, <2>1, SlotNumbers, ModShift
    <3> QED
      BY <3>2, <2>1, <2>4 DEF PushClaim, Full
  <2>6. Len(tail) - headSeen < Capacity
    BY <2>1, <2>2, <2>3, <2>5, CapacityAssumption
  <2>7. tail' = tail /\ headAcq' = headSeen
    BY DEF PushClaim, AcquiredHead, indexVars
  <2>8. Len(tail) - headSeen <= Capacity
    BY <2>2, <2>6, <2>1, CapacityAssumption
  <2> QED
    BY <2>6, <2>7, <2>8 DEF Room
<1>3. IndexOrder' /\ Supply' /\ Contents' /\ Reads'
  BY DEF RingInv, IndexOrder, Supply, Contents, Reads, PushClaim,
         indexVars, viewVars, popVars, slotVars, history
<1> QED
  BY <1>1, <1>2, <1>3 DEF RingInv

\* Writing the claimed slot leaves the pending items alone: they are less
\* than a turn behind the position being written.
LEMMA PushWriteInv == RingInv /\ PushWrite => RingInv'
<1> SUFFICES ASSUME RingInv, PushWrite PROVE RingInv'
  OBVIOUS
<1> DEFINE slot == Len(sent) % NumSlots
<1>1. /\ Len(sent) \in Nat /\ Len(received) \in Nat
      /\ Len(sent) - Len(received) <= Capacity
      /\ Newest(tail) = slot /\ slot \in SlotIds
  BY Positions, SlotNumbers
<1>2. Len(tail) = Len(sent) + 1
  BY DEF RingInv, IndexOrder
<1>3. /\ slots' = [slots EXCEPT ![slot] = pushItem]
      /\ lastWrite' = [lastWrite EXCEPT ![slot] = Len(sent) + 1]
      /\ pushPc = "write" /\ pushPc' = "publish"
      /\ UNCHANGED <<indexVars, viewVars, pushItem, popVars, lastRead, history>>
  BY <1>1, <1>2 DEF PushWrite
<1> USE DEF indexVars, viewVars, popVars, history
<1>4. /\ slots \in [SlotIds -> Items] /\ lastWrite \in [SlotIds -> Nat]
      /\ pushItem \in Items
  BY DEF RingInv, TypeOK
<1>5. TypeOK'
  <2>1. slots' \in [SlotIds -> Items] /\ lastWrite' \in [SlotIds -> Nat]
    BY <1>1, <1>3, <1>4
  <2> QED
    BY <2>1, <1>3 DEF RingInv, TypeOK
<1>6. Contents'
  <2>1. ASSUME NEW k \in Len(received) + 1 .. Len(sent)
        PROVE  (k - 1) % NumSlots # slot /\ (k - 1) % NumSlots \in SlotIds
    <3>1. k - 1 \in Nat /\ k - 1 < Len(sent) /\ Len(sent) < k - 1 + NumSlots
      BY <1>1, CapacityAssumption DEF NumSlots
    <3>2. (k - 1) % NumSlots # Len(sent) % NumSlots
      <4> DEFINE a == k - 1
      <4>1. a \in Nat /\ a < Len(sent) /\ ~ (a + NumSlots <= Len(sent))
        BY <3>1, <1>1, SlotNumbers
      <4> HIDE DEF a
      <4>2. a % NumSlots # Len(sent) % NumSlots
        BY <4>1, <1>1, SlotNumbers, ModApart
      <4> QED
        BY <4>2 DEF a
    <3> QED
      BY <3>1, <3>2, SlotNumbers
  <2>2. /\ slots'[slot] = pushItem
        /\ lastWrite'[slot] = Len(sent) + 1
        /\ \A k \in Len(received) + 1 .. Len(sent) :
              /\ slots'[(k - 1) % NumSlots] = slots[(k - 1) % NumSlots]
              /\ lastWrite'[(k - 1) % NumSlots] = lastWrite[(k - 1) % NumSlots]
    BY <2>1, <1>1, <1>3, <1>4
  <2>3. /\ \A k \in Len(received) + 1 .. Len(sent) :
              /\ slots[(k - 1) % NumSlots] = sent[k]
              /\ lastWrite[(k - 1) % NumSlots] = k
        /\ popPc = "publish" => popItem = sent[Len(received) + 1]
    BY DEF RingInv, Contents
  <2> HIDE DEF slot
  <2>4. /\ \A k \in Len(received) + 1 .. Len(sent) :
              /\ slots'[(k - 1) % NumSlots] = sent[k]
              /\ lastWrite'[(k - 1) % NumSlots] = k
        /\ slots'[slot] = pushItem /\ lastWrite'[slot] = Len(sent) + 1
    BY <2>2, <2>3
  <2> QED
    BY <2>3, <2>4, <1>3 DEF Contents, slot
<1>7. IndexOrder' /\ Room' /\ Supply' /\ Reads'
  BY <1>3 DEF RingInv, IndexOrder, Room, Supply, Reads
<1> QED
  BY <1>5, <1>6, <1>7 DEF RingInv

\* Publishing appends the next index and makes the written item pending.
LEMMA PushPublishInv == RingInv /\ PushPublish => RingInv'
<1> SUFFICES ASSUME RingInv, PushPublish PROVE RingInv'
  OBVIOUS
<1> USE DEF PushPublish, viewVars, popVars, slotVars
<1>1. /\ Len(sent) \in Nat /\ Len(received) \in Nat /\ Len(received) <= Len(sent)
      /\ Len(sent) - Len(received) < Capacity
  BY Positions
<1>2. /\ sent \in Seq(Items) /\ pushItem \in Items
      /\ tail \in Seq(SlotIds) /\ Len(tail) = Len(sent) + 1
      /\ \A k \in 1 .. Len(tail) : tail[k] = (k - 1) % NumSlots
  BY DEF RingInv, TypeOK, IndexOrder
<1>3. /\ tail' \in Seq(SlotIds) /\ Len(tail') = Len(sent) + 2
      /\ \A k \in 1 .. Len(tail') : tail'[k] = (k - 1) % NumSlots
  BY <1>1, <1>2, OrderGrows
<1>4. /\ sent' \in Seq(Items) /\ Len(sent') = Len(sent) + 1
      /\ \A k \in 1 .. Len(sent) : sent'[k] = sent[k]
      /\ sent'[Len(sent) + 1] = pushItem
  BY <1>2
<1>5. TypeOK'
  <2>1. /\ Len(tail') > 0
        /\ tailSeen' \in 1 .. Len(tail') /\ tailAcq' \in 1 .. tailSeen'
    <3>1. /\ tailSeen' = tailSeen /\ tailAcq' = tailAcq
          /\ tailSeen \in 1 .. Len(tail) /\ tailAcq \in 1 .. tailSeen
      BY DEF RingInv, TypeOK
    <3>2. Len(tail') = Len(tail) + 1 /\ Len(tail) \in Nat
      BY <1>1, <1>2, <1>3
    <3> QED
      BY <3>1, <3>2
  <2>2. pushPc' \in {"idle", "write", "publish"}
    OBVIOUS
  <2> QED
    BY <1>3, <1>4, <2>1, <2>2 DEF RingInv, TypeOK
<1>6. IndexOrder' /\ Room' /\ Supply'
  <2>1. IndexOrder'
    BY <1>1, <1>3, <1>4 DEF RingInv, IndexOrder
  <2>2. Len(tail) - headAcq < Capacity /\ headAcq \in Nat
    BY DEF RingInv, TypeOK, Room
  <2>3. Room'
    BY <1>1, <1>2, <1>3, <2>2, CapacityAssumption DEF Room
  <2>4. Supply'
    BY DEF RingInv, Supply
  <2> QED
    BY <2>1, <2>3, <2>4
<1>7. Contents'
  <2>1. /\ slots[Len(sent) % NumSlots] = pushItem
        /\ lastWrite[Len(sent) % NumSlots] = Len(sent) + 1
        /\ \A k \in Len(received) + 1 .. Len(sent) :
              /\ slots[(k - 1) % NumSlots] = sent[k]
              /\ lastWrite[(k - 1) % NumSlots] = k
        /\ popPc = "publish" => popItem = sent[Len(received) + 1]
    BY DEF RingInv, Contents
  <2>2. ASSUME NEW k \in Len(received) + 1 .. Len(sent')
        PROVE  /\ slots[(k - 1) % NumSlots] = sent'[k]
               /\ lastWrite[(k - 1) % NumSlots] = k
    <3>1. CASE k = Len(sent) + 1
      <4>1. k - 1 = Len(sent)
        BY <3>1, <1>1
      <4> QED
        BY <4>1, <3>1, <2>1, <1>4
    <3>2. CASE k \in Len(received) + 1 .. Len(sent)
      BY <3>2, <2>1, <1>1, <1>4
    <3> QED
      BY <3>1, <3>2, <1>1, <1>4
  <2>3. popPc = "publish" => popItem = sent'[Len(received) + 1]
    <3>1. popPc = "publish" => Len(received) + 1 \in 1 .. Len(sent)
      BY <1>1, Positions
    <3> QED
      BY <3>1, <2>1, <1>4
  <2> QED
    BY <2>2, <2>3 DEF Contents
<1>8. Reads'
  BY DEF RingInv, Reads
<1> QED
  BY <1>5, <1>6, <1>7, <1>8 DEF RingInv

-------------------------------------------------------------------------------
(* Each step of the consumer, and of the memory, preserves the invariant.   *)

\* A failed pop only synchronises with a later position of tail_.
LEMMA PopEmptyInv == RingInv /\ PopEmpty => RingInv'
<1> SUFFICES ASSUME RingInv, PopEmpty PROVE RingInv'
  OBVIOUS
<1> USE DEF RingInv, PopEmpty, indexVars, pushVars, popVars, slotVars, history
<1>1. TypeOK'
  BY DEF TypeOK, AcquiredTail
<1>2. Supply'
  <2>1. Len(head) \in Int /\ tailAcq \in Int /\ tailSeen \in Int /\ tailAcq <= tailSeen
    BY DEF TypeOK
  <2>2. /\ Len(head) <= tailAcq /\ popPc = "idle" /\ popPc' = "idle"
        /\ head' = head /\ tailAcq' = tailSeen
    BY DEF Supply, AcquiredTail
  <2>3. Len(head) <= tailSeen
    BY <2>1, <2>2
  <2> QED
    BY <2>2, <2>3 DEF Supply
<1>3. IndexOrder' /\ Room' /\ Contents' /\ Reads'
  BY DEF IndexOrder, Room, Contents, Reads
<1> QED
  BY <1>1, <1>2, <1>3

\* A pop goes ahead only when the acquired tail_ is past the consumer's own
\* index: an item has been published there.
LEMMA PopClaimInv == RingInv /\ PopClaim => RingInv'
<1> SUFFICES ASSUME RingInv, PopClaim PROVE RingInv'
  OBVIOUS
<1>1. TypeOK'
  BY DEF RingInv, TypeOK, PopClaim, AcquiredTail, indexVars, pushVars, slotVars, history
<1>2. Supply'
  <2>1. /\ Len(received) \in Nat /\ tailSeen - 1 \in Nat
        /\ Newest(head) = Len(received) % NumSlots
        /\ tail[tailSeen] = (tailSeen - 1) % NumSlots
    BY Positions
  <2>2. /\ Len(head) = Len(received) + 1 /\ Len(head) <= tailAcq
        /\ tailAcq \in Int /\ tailSeen \in Int /\ tailAcq <= tailSeen
    BY DEF RingInv, TypeOK, IndexOrder, Supply
  <2>3. Len(received) # tailSeen - 1
    BY <2>1 DEF PopClaim, Empty
  <2>4. Len(head) < tailSeen /\ Len(head) <= tailSeen
    BY <2>1, <2>2, <2>3
  <2>5. head' = head /\ tailAcq' = tailSeen
    BY DEF PopClaim, AcquiredTail, indexVars
  <2> QED
    BY <2>4, <2>5 DEF Supply
<1>3. IndexOrder' /\ Room' /\ Contents' /\ Reads'
  BY DEF RingInv, IndexOrder, Room, Contents, Reads, PopClaim, indexVars, pushVars, slotVars, history
<1> QED
  BY <1>1, <1>2, <1>3 DEF RingInv

\* The value read is the oldest pending item, which is intact in its slot.
LEMMA PopReadInv == RingInv /\ PopRead => RingInv'
<1> SUFFICES ASSUME RingInv, PopRead PROVE RingInv'
  OBVIOUS
<1> DEFINE slot == Len(received) % NumSlots
<1>1. /\ Len(sent) \in Nat /\ Len(received) \in Nat /\ Len(received) < Len(sent)
      /\ Newest(head) = slot /\ slot \in SlotIds
  BY Positions, SlotNumbers DEF PopRead
<1>2. Len(head) = Len(received) + 1
  BY DEF RingInv, IndexOrder
<1>3. /\ popItem' = slots[slot] /\ popPc = "read" /\ popPc' = "publish"
      /\ lastRead' = [lastRead EXCEPT ![slot] = Len(received) + 1]
      /\ UNCHANGED <<indexVars, viewVars, pushVars, slots, lastWrite, history>>
  BY <1>1, <1>2 DEF PopRead, PopSlot
<1> USE DEF indexVars, viewVars, pushVars, history
<1>4. slots \in [SlotIds -> Items] /\ lastRead \in [SlotIds -> Nat]
  BY DEF RingInv, TypeOK
<1>5. TypeOK'
  <2>1. popItem' \in Items /\ lastRead' \in [SlotIds -> Nat]
    BY <1>1, <1>3, <1>4
  <2> QED
    BY <2>1, <1>3 DEF RingInv, TypeOK
<1>6. Contents'
  <2>1. slots[slot] = sent[Len(received) + 1]
    <3>1. Len(received) + 1 \in Len(received) + 1 .. Len(sent) /\ (Len(received) + 1) - 1 = Len(received)
      BY <1>1
    <3> QED
      BY <3>1 DEF RingInv, Contents
  <2> QED
    BY <2>1, <1>3 DEF RingInv, Contents
<1>7. Reads'
  <2> SUFFICES ASSUME NEW s \in SlotIds, lastRead'[s] > 0
               PROVE  /\ (lastRead'[s] - 1) % NumSlots = s
                      /\ lastRead'[s] <= Len(received) + 1
    BY <1>3 DEF Reads
  <2>1. CASE s = slot
    <3>1. lastRead'[s] = Len(received) + 1 /\ (Len(received) + 1) - 1 = Len(received)
      BY <2>1, <1>1, <1>3, <1>4
    <3>2. (lastRead'[s] - 1) % NumSlots = s
      BY <3>1, <2>1
    <3> QED
      BY <3>1, <3>2, <1>1
  <2>2. CASE s # slot
    <3>1. lastRead'[s] = lastRead[s] /\ lastRead[s] \in Nat
      BY <2>2, <1>3, <1>4
    <3>2. (lastRead[s] - 1) % NumSlots = s /\ lastRead[s] <= Len(received) + 0
      BY <3>1, <1>3 DEF RingInv, Reads
    <3> QED
      BY <3>1, <3>2, <1>1
  <2> QED
    BY <2>1, <2>2
<1>8. IndexOrder' /\ Room' /\ Supply'
  BY <1>3 DEF RingInv, IndexOrder, Room, Supply
<1> QED
  BY <1>5, <1>6, <1>7, <1>8 DEF RingInv

\* Publishing the pop frees its slot and drops the oldest pending item.
LEMMA PopPublishInv == RingInv /\ PopPublish => RingInv'
<1> SUFFICES ASSUME RingInv, PopPublish PROVE RingInv'
  OBVIOUS
<1> USE DEF PopPublish, viewVars, pushVars, slotVars
<1>1. /\ Len(sent) \in Nat /\ Len(received) \in Nat /\ Len(received) < Len(sent)
  BY Positions
<1>2. /\ received \in Seq(Items) /\ popItem \in Items
      /\ head \in Seq(SlotIds) /\ Len(head) = Len(received) + 1
      /\ \A k \in 1 .. Len(head) : head[k] = (k - 1) % NumSlots
  BY DEF RingInv, TypeOK, IndexOrder
<1>3. /\ head' \in Seq(SlotIds) /\ Len(head') = Len(received) + 2
      /\ \A k \in 1 .. Len(head') : head'[k] = (k - 1) % NumSlots
  BY <1>1, <1>2, OrderGrows
<1>4. received' \in Seq(Items) /\ Len(received') = Len(received) + 1
  BY <1>2
<1>5. TypeOK'
  <2>1. /\ Len(head') > 0
        /\ headSeen' \in 1 .. Len(head') /\ headAcq' \in 1 .. headSeen'
    <3>1. /\ headSeen' = headSeen /\ headAcq' = headAcq
          /\ headSeen \in 1 .. Len(head) /\ headAcq \in 1 .. headSeen
      BY DEF RingInv, TypeOK
    <3>2. Len(head') = Len(head) + 1 /\ Len(head) \in Nat
      BY <1>1, <1>2, <1>3
    <3> QED
      BY <3>1, <3>2
  <2> QED
    BY <1>3, <1>4, <2>1 DEF RingInv, TypeOK
<1>6. IndexOrder' /\ Room' /\ Supply'
  <2>1. IndexOrder'
    BY <1>1, <1>3, <1>4 DEF RingInv, IndexOrder
  <2>2. Len(head) < tailAcq /\ tailAcq \in Nat
    BY DEF RingInv, TypeOK, Supply
  <2>3. Supply'
    BY <1>1, <1>2, <1>3, <2>2 DEF Supply
  <2>4. Room'
    BY DEF RingInv, Room
  <2> QED
    BY <2>1, <2>3, <2>4
<1>7. Contents'
  <2>1. Len(received') + 1 .. Len(sent) \subseteq Len(received) + 1 .. Len(sent)
    BY <1>1, <1>4
  <2> QED
    BY <2>1 DEF RingInv, Contents
<1>8. Reads'
  <2>1. \A s \in SlotIds : lastRead[s] > 0 =>
          (lastRead[s] - 1) % NumSlots = s /\ lastRead[s] <= Len(received) + 1
    BY DEF RingInv, Reads
  <2>2. Len(received') + (IF popPc' = "publish" THEN 1 ELSE 0) = Len(received) + 1
    BY <1>1, <1>4
  <2> QED
    BY <2>1, <2>2 DEF Reads
<1> QED
  BY <1>5, <1>6, <1>7, <1>8 DEF RingInv

\* A store becoming visible moves a view forward and nothing else.
LEMMA MemoryInv == RingInv /\ Memory => RingInv'
<1>1. ASSUME RingInv, HeadStoreVisible PROVE RingInv'
  <2> USE DEF HeadStoreVisible, indexVars, pushVars, popVars, slotVars, history
  <2>1. TypeOK'
    BY <1>1 DEF RingInv, TypeOK
  <2>2. IndexOrder' /\ Room' /\ Supply' /\ Contents' /\ Reads'
    BY <1>1 DEF RingInv, IndexOrder, Room, Supply, Contents, Reads
  <2> QED
    BY <2>1, <2>2 DEF RingInv
<1>2. ASSUME RingInv, TailStoreVisible PROVE RingInv'
  <2> USE DEF TailStoreVisible, indexVars, pushVars, popVars, slotVars, history
  <2>1. TypeOK'
    BY <1>2 DEF RingInv, TypeOK
  <2>2. IndexOrder' /\ Room' /\ Supply' /\ Contents' /\ Reads'
    BY <1>2 DEF RingInv, IndexOrder, Room, Supply, Contents, Reads
  <2> QED
    BY <2>1, <2>2 DEF RingInv
<1> QED
  BY <1>1, <1>2 DEF Memory

\* A stuttering step leaves every part of the invariant as it is.
LEMMA StutterInv == RingInv /\ UNCHANGED vars => RingInv'
  BY DEF vars, indexVars, viewVars, pushVars, popVars, slotVars, history,
         RingInv, TypeOK, IndexOrder, Room, Supply, Contents, Reads

-------------------------------------------------------------------------------

\* The inductive invariant holds in every reachable state of the ring, for any
\* capacity, any items and any interleaving of the two threads' operations.
THEOREM RingInvariant == Spec => []RingInv
<1>1. Init => RingInv
  BY InitInv
<1>2. RingInv /\ [Next]_vars => RingInv'
  BY PushFullInv, PushClaimInv, PushWriteInv, PushPublishInv, PopEmptyInv, PopClaimInv,
     PopReadInv, PopPublishInv, MemoryInv, StutterInv DEF Next, Producer, Consumer
<1> QED
  BY <1>1, <1>2, PTL DEF Spec

\* The slot a push is about to write was last read by a pop the producer has
\* synchronised with, and the slot a pop is about to read was last written by
\* a push the consumer has synchronised with.
LEMMA InvNoDataRace == RingInv => NoDataRace
<1> SUFFICES ASSUME RingInv PROVE NoDataRace
  OBVIOUS
<1>1. /\ Len(sent) \in Nat /\ Len(received) \in Nat /\ Len(received) <= Len(sent)
      /\ popPc # "idle" => Len(received) < Len(sent)
      /\ Newest(tail) = Len(sent) % NumSlots /\ Newest(head) = Len(received) % NumSlots
      /\ Newest(tail) \in SlotIds /\ Newest(head) \in SlotIds
  BY Positions, SlotNumbers
<1>2. /\ headAcq \in Nat /\ tailAcq \in Nat /\ headAcq > 0
      /\ Len(tail) = Len(sent) + 1 /\ Len(head) = Len(received) + 1
      /\ lastRead \in [SlotIds -> Nat]
  BY DEF RingInv, TypeOK, IndexOrder
<1>3. ASSUME pushPc = "write" PROVE lastRead[Newest(tail)] < headAcq
  <2> DEFINE j == lastRead[Newest(tail)]
  <2>1. j \in Nat
    BY <1>1, <1>2
  <2>2. Len(sent) + 1 - headAcq < Capacity
    BY <1>2, <1>3 DEF RingInv, Room
  <2>3. CASE j = 0
    BY <2>3, <1>2
  <2>4. CASE j > 0
    <3>1. /\ (j - 1) % NumSlots = Len(sent) % NumSlots
          /\ j <= Len(received) + (IF popPc = "publish" THEN 1 ELSE 0)
      BY <2>4, <1>1 DEF RingInv, Reads
    <3>2. j - 1 \in Nat
      BY <2>1, <2>4
    <3> HIDE DEF j
    <3>3. j - 1 < Len(sent)
      BY <3>1, <3>2, <1>1, <2>1
    <3>4. (j - 1) + NumSlots <= Len(sent)
      <4> DEFINE a == j - 1
      <4>1. a \in Nat /\ a < Len(sent) /\ a % NumSlots = Len(sent) % NumSlots
        BY <3>1, <3>2, <3>3
      <4> HIDE DEF a
      <4>2. a + NumSlots <= Len(sent)
        BY <4>1, <1>1, SlotNumbers, ModApart
      <4> QED
        BY <4>2 DEF a
    <3>5. j < headAcq
      BY <3>4, <2>1, <2>2, <1>1, <1>2, CapacityAssumption DEF NumSlots
    <3> QED
      BY <3>5 DEF j
  <2> QED
    BY <2>1, <2>3, <2>4
<1>4. ASSUME popPc = "read"
      PROVE  lastWrite[Newest(head)] > 0 /\ lastWrite[Newest(head)] < tailAcq
  <2>1. /\ Len(received) + 1 \in Len(received) + 1 .. Len(sent)
        /\ (Len(received) + 1) - 1 = Len(received)
    BY <1>1, <1>4
  <2>2. lastWrite[Newest(head)] = Len(received) + 1
    BY <2>1, <1>1 DEF RingInv, Contents
  <2>3. Len(received) + 1 < tailAcq
    BY <1>2, <1>4 DEF RingInv, Supply
  <2> QED
    BY <2>2, <2>3, <1>1, <1>2
<1> QED
  BY <1>3, <1>4 DEF NoDataRace

\* Plain slot accesses of the two threads never race.
THEOREM RingNoDataRace == Spec => []NoDataRace
  BY RingInvariant, InvNoDataRace, PTL

\* No push reuses a slot whose item has not been popped.
THEOREM RingPendingIntact == Spec => []PendingIntact
<1>1. RingInv => PendingIntact
  BY Positions DEF RingInv, Contents, PendingIntact
<1> QED
  BY <1>1, RingInvariant, PTL

\* The producer's size_approx() over-reports what is queued by exactly the pops
\* it has not seen yet, and never exceeds the capacity.
THEOREM RingDepthReading == Spec => []DepthReadingSound
<1>1. ASSUME RingInv PROVE DepthReadingSound
  <2> DEFINE seen == headSeen - 1
  <2>1. /\ Len(sent) \in Nat /\ Len(received) \in Nat /\ Len(received) <= Len(sent)
        /\ seen \in Nat /\ seen <= Len(received)
        /\ Newest(tail) = Len(sent) % NumSlots /\ head[headSeen] = seen % NumSlots
    BY <1>1, Positions
  <2>2. /\ Len(sent) + 1 - headAcq <= Capacity
        /\ headAcq \in Nat /\ headSeen \in Nat /\ headAcq <= headSeen
    BY <1>1 DEF RingInv, TypeOK, IndexOrder, Room
  <2>3. Len(sent) - seen <= Capacity
    BY <2>1, <2>2, CapacityAssumption
  <2> HIDE DEF seen
  <2>4. Len(sent) - seen < NumSlots /\ seen <= Len(sent)
    BY <2>1, <2>3, CapacityAssumption DEF NumSlots
  <2>5. SizeApprox = Len(sent) - seen
    <3>1. SizeApprox = ((Len(sent) % NumSlots) + NumSlots - (seen % NumSlots)) % NumSlots
      BY <2>1, Zenon DEF SizeApprox
    <3>2. NumSlots \in Nat \ {0} /\ Len(sent) \in Nat
      BY SlotNumbers, <2>1
    <3> QED  BY <2>1, <2>4, <3>1, <3>2, ModDistance
  <2>6. Len(head) = Len(received) + 1 /\ headSeen = seen + 1
    BY <1>1, <2>2 DEF RingInv, IndexOrder, seen
  <2>7. SizeApprox = Len(sent) - Len(received) + UnseenPops
    BY <2>1, <2>5, <2>6 DEF UnseenPops
  <2> QED
    BY <2>1, <2>3, <2>5, <2>7, CapacityAssumption DEF DepthReadingSound
<1> QED
  BY <1>1, RingInvariant, PTL

\* The ring implements a bounded lossless FIFO channel: publishing a push is
\* Send, publishing a pop is Receive, every other step is invisible.
THEOREM RingIsFifo == Spec => FifoSpec
<1>1. Init => Fifo!Init
  BY DEF Init, Fifo!Init
<1>2. RingInv /\ [Next]_vars => [Fifo!Next]_(Fifo!vars)
  <2> SUFFICES ASSUME RingInv, [Next]_vars PROVE [Fifo!Next]_(Fifo!vars)
    OBVIOUS
  <2>1. CASE PushPublish
    <3>1. pushItem \in Items /\ Len(sent) - Len(received) < Capacity
      BY <2>1, Positions DEF PushPublish, RingInv, TypeOK
    <3> QED
      BY <2>1, <3>1 DEF PushPublish, Fifo!Next, Fifo!Send
  <2>2. CASE PopPublish
    <3>1. popItem = sent[Len(received) + 1] /\ Len(received) < Len(sent)
      BY <2>2, Positions DEF PopPublish, RingInv, Contents
    <3> QED
      BY <2>2, <3>1 DEF PopPublish, Fifo!Next, Fifo!Receive
  <2>3. CASE ~ PushPublish /\ ~ PopPublish
    <3>1. UNCHANGED <<sent, received>>
      BY <2>3 DEF Next, Producer, Consumer, Memory, PushFull, PushClaim, PushWrite,
                  PopEmpty, PopClaim, PopRead, HeadStoreVisible, TailStoreVisible,
                  vars, history
    <3> QED
      BY <3>1 DEF Fifo!vars
  <2> QED
    BY <2>1, <2>2, <2>3
<1> QED
  BY <1>1, <1>2, RingInvariant, PTL DEF Spec, FifoSpec, Fifo!Spec

===============================================================================
