------------------------------- MODULE SpscRing -------------------------------
(***************************************************************************)
(* SpscRingBuffer<T>: a Lamport ring shared by one producer thread         *)
(* (try_push) and one consumer thread (try_pop), at the granularity of its *)
(* atomic operations.                                                      *)
(*                                                                         *)
(* Memory model.  head_ and tail_ are release/acquire atomics, not         *)
(* sequentially consistent ones, so a thread may read an index value that  *)
(* is out of date.  Each index is its MODIFICATION ORDER, the sequence of  *)
(* values stored so far (the last one is what its owner sees); headSeen    *)
(* and tailSeen are the positions in it that have reached the other        *)
(* thread, and only ever grow (coherence).  headAcq and tailAcq are the    *)
(* positions an ACQUIRE load has synchronised with: the accesses before    *)
(* those stores happen before what the loading thread does next.           *)
(***************************************************************************)
EXTENDS Integers, Sequences

CONSTANTS
  Capacity,   \* requested, usable capacity
  Items,      \* values of the element type T
  Blank       \* the value-initialised T that fills slots_ at construction

ASSUME CapacityAssumption == Capacity \in Nat
ASSUME BlankAssumption == Blank \in Items

VARIABLES
  slots,              \* slots_
  head, tail,         \* modification orders of head_ and tail_
  headSeen, headAcq,  \* the producer's view of head_
  tailSeen, tailAcq,  \* the consumer's view of tail_
  pushPc, pushItem,   \* where try_push is, and its argument
  popPc, popItem,     \* where try_pop is, and its out parameter
  lastWrite,          \* per slot, Len(tail) when the producer last wrote it
  lastRead,           \* per slot, Len(head) when the consumer last read it
  sent, received      \* items try_push accepted, items try_pop returned

indexVars == <<head, tail>>
viewVars  == <<headSeen, headAcq, tailSeen, tailAcq>>
pushVars  == <<pushPc, pushItem>>
popVars   == <<popPc, popItem>>
slotVars  == <<slots, lastWrite, lastRead>>
history   == <<sent, received>>
vars == <<indexVars, viewVars, pushVars, popVars, slotVars, history>>

NumSlots == Capacity + 1
SlotIds  == 0 .. Capacity

\* increment()
WrapEarly(index) == (index + 1) % Capacity   \* mutation: wraps at the capacity
Increment(index) == (index + 1) % NumSlots

\* A relaxed load of the index a thread owns returns its own latest store.
Newest(order) == order[Len(order)]

TypeOK ==
  /\ slots \in [SlotIds -> Items]
  /\ head \in Seq(SlotIds) /\ Len(head) > 0
  /\ tail \in Seq(SlotIds) /\ Len(tail) > 0
  /\ headSeen \in 1 .. Len(head) /\ headAcq \in 1 .. headSeen
  /\ tailSeen \in 1 .. Len(tail) /\ tailAcq \in 1 .. tailSeen
  /\ pushPc \in {"idle", "write", "publish"} /\ pushItem \in Items
  /\ popPc \in {"idle", "read", "publish"} /\ popItem \in Items
  /\ lastWrite \in [SlotIds -> Nat]
  /\ lastRead \in [SlotIds -> Nat]
  /\ sent \in Seq(Items)
  /\ received \in Seq(Items)

Init ==
  /\ slots = [s \in SlotIds |-> Blank]
  /\ head = <<0>> /\ tail = <<0>>
  /\ headSeen = 1 /\ headAcq = 1
  /\ tailSeen = 1 /\ tailAcq = 1
  /\ pushPc = "idle" /\ pushItem = Blank
  /\ popPc = "idle" /\ popItem = Blank
  /\ lastWrite = [s \in SlotIds |-> 0]
  /\ lastRead = [s \in SlotIds |-> 0]
  /\ sent = <<>> /\ received = <<>>

-------------------------------------------------------------------------------
(* try_push, producer thread.                                              *)

\* head_.load(acquire) by the producer: the position the load synchronises with.
RelaxedHead  == headAcq     \* mutation: a relaxed load synchronises with nothing
AcquiredHead == headSeen
\* tail_.load(acquire) by the consumer.
AcquiredTail == tailSeen

\* One slot stays unused, so that a full ring is not mistaken for an empty one.
FullUnreserved == Len(tail) - headSeen = NumSlots   \* mutation: uses that slot
Full  == Increment(Newest(tail)) = head[headSeen]
Empty == Newest(head) = tail[tailSeen]

\* The acquire load finds the ring full: return false, nothing stored.
PushFull ==
  /\ pushPc = "idle"
  /\ headAcq' = AcquiredHead
  /\ Full
  /\ UNCHANGED <<indexVars, headSeen, tailSeen, tailAcq, pushVars, popVars,
                 slotVars, history>>

\* The acquire load finds a free slot.
PushClaim(item) ==
  /\ pushPc = "idle"
  /\ headAcq' = AcquiredHead
  /\ ~ Full
  /\ pushPc' = "write"
  /\ pushItem' = item
  /\ UNCHANGED <<indexVars, headSeen, tailSeen, tailAcq, popVars, slotVars,
                 history>>

\* slots_[tail] = item, a plain write.
PushWrite ==
  /\ pushPc = "write"
  /\ slots' = [slots EXCEPT ![Newest(tail)] = pushItem]
  /\ lastWrite' = [lastWrite EXCEPT ![Newest(tail)] = Len(tail)]
  /\ pushPc' = "publish"
  /\ UNCHANGED <<indexVars, viewVars, pushItem, popVars, lastRead, history>>

\* tail_.store(next, release); return true.
PushPublish ==
  /\ pushPc = "publish"
  /\ tail' = Append(tail, Increment(Newest(tail)))
  /\ sent' = Append(sent, pushItem)
  /\ pushPc' = "idle"
  /\ UNCHANGED <<head, viewVars, pushItem, popVars, slotVars, received>>

-------------------------------------------------------------------------------
(* try_pop, consumer thread.                                               *)

PopEmpty ==
  /\ popPc = "idle"
  /\ tailAcq' = AcquiredTail
  /\ Empty
  /\ UNCHANGED <<indexVars, headSeen, headAcq, tailSeen, pushVars, popVars,
                 slotVars, history>>

PopClaim ==
  /\ popPc = "idle"
  /\ tailAcq' = AcquiredTail
  /\ ~ Empty
  /\ popPc' = "read"
  /\ UNCHANGED <<indexVars, headSeen, headAcq, tailSeen, pushVars, popItem,
                 slotVars, history>>

\* out = slots_[head], a plain read.
NextPopSlot == Increment(Newest(head))   \* mutation: the index already advanced
PopSlot     == Newest(head)

PopRead ==
  /\ popPc = "read"
  /\ popItem' = slots[PopSlot]
  /\ lastRead' = [lastRead EXCEPT ![PopSlot] = Len(head)]
  /\ popPc' = "publish"
  /\ UNCHANGED <<indexVars, viewVars, pushVars, slots, lastWrite, history>>

\* head_.store(increment(head), release); return true.
PopPublish ==
  /\ popPc = "publish"
  /\ head' = Append(head, Increment(Newest(head)))
  /\ received' = Append(received, popItem)
  /\ popPc' = "idle"
  /\ UNCHANGED <<tail, viewVars, pushVars, popItem, slotVars, sent>>

-------------------------------------------------------------------------------
(* Stores become visible to the other thread, in modification order.       *)

HeadStoreVisible ==
  /\ headSeen < Len(head)
  /\ headSeen' = headSeen + 1
  /\ UNCHANGED <<indexVars, headAcq, tailSeen, tailAcq, pushVars, popVars,
                 slotVars, history>>

TailStoreVisible ==
  /\ tailSeen < Len(tail)
  /\ tailSeen' = tailSeen + 1
  /\ UNCHANGED <<indexVars, headSeen, headAcq, tailAcq, pushVars, popVars,
                 slotVars, history>>

\* size_approx() on the producer's thread: its own tail_, a possibly old head_.
SizeUnreserved == (Newest(tail) + Capacity - head[headSeen]) % NumSlots   \* mutation
SizeApprox == (Newest(tail) + NumSlots - head[headSeen]) % NumSlots

Producer == \/ PushFull
            \/ \E item \in Items : PushClaim(item)
            \/ PushWrite
            \/ PushPublish
Consumer == PopEmpty \/ PopClaim \/ PopRead \/ PopPublish
Memory   == HeadStoreVisible \/ TailStoreVisible

Next == Producer \/ Consumer \/ Memory
Spec == Init /\ [][Next]_vars

-------------------------------------------------------------------------------
(* Properties.                                                             *)

\* The plain accesses to slots_ never race: when the producer is about to
\* overwrite a slot, the consumer's last read of it happens before, through
\* the acquired head_; when the consumer is about to read a slot, the
\* producer's last write of it happens before, through the acquired tail_.
NoDataRace ==
  /\ pushPc = "write" => lastRead[Newest(tail)] < headAcq
  /\ popPc = "read" => /\ lastWrite[Newest(head)] > 0
                       /\ lastWrite[Newest(head)] < tailAcq

\* Every item accepted and not yet returned is intact in its slot: no push
\* reuses a slot before the pop that frees it, however late a thread sees
\* the other's index, and there is room in the ring for all of them.
PendingIntact ==
  /\ Len(sent) - Len(received) \in 0 .. Capacity
  /\ \A k \in Len(received) + 1 .. Len(sent) :
        slots[(k - 1) % NumSlots] = sent[k]

\* size_approx as the producer reads it, at any time: what is queued, and on top
\* of it exactly the pops whose store of head_ has not reached the producer;
\* never more than the capacity.  It is NOT exact after a push, as the comments
\* of spsc_ring_buffer.hpp:72 and spsc_replay.cpp:88 have it: PushPublish leaves
\* the unseen pops where they are, and the recorded maximum depth counts them.
UnseenPops == Len(head) - headSeen
DepthReadingSound ==
  /\ SizeApprox \in Len(sent) - Len(received) .. Capacity
  /\ SizeApprox = Len(sent) - Len(received) + UnseenPops

\* The ring is a bounded lossless FIFO channel.
Fifo == INSTANCE BoundedFifo
FifoSpec == Fifo!Spec

\* The inductive invariant behind the properties above.
\* IndexOrder: the k-th value stored into either index is (k - 1) mod NumSlots,
\* and the number of stores is the number of items that went through.
IndexOrder ==
  /\ Len(tail) = Len(sent) + 1
  /\ Len(head) = Len(received) + 1
  /\ \A k \in 1 .. Len(tail) : tail[k] = (k - 1) % NumSlots
  /\ \A k \in 1 .. Len(head) : head[k] = (k - 1) % NumSlots

\* Room: what the producer has acquired of head_ leaves room for what it has
\* pushed, strictly so between its check and its publication.
Room ==
  /\ Len(tail) - headAcq <= Capacity
  /\ pushPc # "idle" => Len(tail) - headAcq < Capacity

\* Supply: the consumer never runs ahead of the tail_ it has acquired.
Supply ==
  /\ Len(head) <= tailAcq
  /\ popPc # "idle" => Len(head) < tailAcq

\* Contents: pending items are in their slots, written in the epoch of their
\* push; so are the item being pushed and the item being popped.
Contents ==
  /\ \A k \in Len(received) + 1 .. Len(sent) :
        /\ slots[(k - 1) % NumSlots] = sent[k]
        /\ lastWrite[(k - 1) % NumSlots] = k
  /\ pushPc = "publish" =>
        /\ slots[Len(sent) % NumSlots] = pushItem
        /\ lastWrite[Len(sent) % NumSlots] = Len(sent) + 1
  /\ popPc = "publish" => popItem = sent[Len(received) + 1]

\* Reads: a slot was last read by a pop that addresses it, no later than the
\* pop under way.
Reads ==
  \A s \in SlotIds : lastRead[s] > 0 =>
     /\ (lastRead[s] - 1) % NumSlots = s
     /\ lastRead[s] <= Len(received) + (IF popPc = "publish" THEN 1 ELSE 0)

RingInv == TypeOK /\ IndexOrder /\ Room /\ Supply /\ Contents /\ Reads

\* Bound for TLC: with this many pushes every slot is reused at least once.
SentBound == Len(sent) <= 2 * Capacity + 1
===============================================================================
