--------------------------- MODULE SpscReplay_proofs ---------------------------
(***************************************************************************)
(* Proofs about SpscReplay, for every capacity, stream and set of calls.   *)
(* The pipeline keeps the ring's contract, so that what SpscRing_proofs    *)
(* proves of the ring holds in it; the statistics of a finished call add   *)
(* up; and what is applied is what the single-thread replay applies.       *)
(***************************************************************************)
EXTENDS SpscReplay, SequenceTheorems, TLAPS

RingProofs == INSTANCE SpscRing_proofs WITH Items <- QueueItems

-------------------------------------------------------------------------------
\* The producer stays within the stream and its marker.
InStream == nextEvent \in 1 .. NumEvents + 1

LEMMA StreamStep == InStream /\ [Next]_vars => InStream'
<1> SUFFICES ASSUME InStream, [Next]_vars PROVE InStream'
  OBVIOUS
<1> USE ReplayAssumption DEF InStream
<1>1. CASE EventFindsFull
  BY <1>1 DEF EventFindsFull, AtMarker
<1>2. CASE CountPush
  BY <1>2 DEF CountPush, AtMarker
<1>3. CASE ~ EventFindsFull /\ ~ CountPush
  <2>1. UNCHANGED nextEvent
    BY <1>3 DEF Next, Producer, Consumer, Main, RingStoreVisible, ActiveStoreVisible,
         Returned, vars, producerVars, ProducerArrives, ConsumerArrives, ProducerStarts,
         ConsumerStarts, NextIteration, EventsExhausted, StillFull, Spin, PushProceeds,
         PushReturns, PopFindsEmpty, PopProceeds, PopReturns, HandleMarker, HandleEvent,
         HandleFatal, CloseConsumer, OpenGate, ConsumerLoopDone, JoinProducer,
         JoinConsumerAndFinalize
  <2> QED  BY <2>1
<1> QED  BY <1>1, <1>2, <1>3

\* What is pushed is always an item of the queue.
LEMMA ItemIsQueueItem == InStream => Item \in QueueItems
<1> SUFFICES ASSUME InStream PROVE Item \in QueueItems
  OBVIOUS
<1>1. ~ AtMarker => nextEvent \in 0 .. NumEvents
  BY ReplayAssumption DEF InStream, AtMarker
<1>2. 0 \in 0 .. NumEvents
  BY ReplayAssumption
<1> QED  BY <1>1, <1>2 DEF Item, EndOfStream, Event, QueueItems

\* Every step of the pipeline is a step of the ring or leaves it alone.
LEMMA RingStep == InStream /\ [Next]_vars => [Ring!Next]_(Ring!vars)
<1> SUFFICES ASSUME InStream, [Next]_vars PROVE [Ring!Next]_(Ring!vars)
  OBVIOUS
<1>1. CASE UNCHANGED ringVars
  BY <1>1 DEF ringVars, Ring!vars, Ring!indexVars, Ring!viewVars, Ring!pushVars,
              Ring!popVars, Ring!slotVars, Ring!history
<1>2. CASE PushProceeds
  BY <1>2, ItemIsQueueItem DEF PushProceeds, Ring!Next, Ring!Producer
<1>3. CASE EventFindsFull \/ StillFull \/ PushReturns
  BY <1>3 DEF EventFindsFull, StillFull, PushReturns, Ring!Next, Ring!Producer
<1>4. CASE PopFindsEmpty \/ PopProceeds \/ PopReturns
  BY <1>4 DEF PopFindsEmpty, PopProceeds, PopReturns, Ring!Next, Ring!Consumer
<1>5. CASE RingStoreVisible
  BY <1>5 DEF RingStoreVisible, Ring!Next, Ring!Memory
<1>6. CASE ProducerArrives \/ ProducerStarts \/ NextIteration \/ EventsExhausted \/ Spin
           \/ CountPush \/ ConsumerArrives \/ ConsumerStarts \/ HandleMarker
           \/ HandleEvent \/ HandleFatal \/ CloseConsumer \/ Main \/ ActiveStoreVisible
           \/ Returned \/ UNCHANGED vars
  <2>1. UNCHANGED ringVars
    BY <1>6 DEF ProducerArrives, ProducerStarts, NextIteration, EventsExhausted, Spin,
         CountPush, ConsumerArrives, ConsumerStarts, HandleMarker, HandleEvent,
         HandleFatal, CloseConsumer, Main, OpenGate, ConsumerLoopDone, JoinProducer,
         JoinConsumerAndFinalize, ActiveStoreVisible, Returned, vars
  <2> QED  BY <2>1, <1>1
<1> QED
  BY <1>2, <1>3, <1>4, <1>5, <1>6 DEF Next, Producer, Consumer

\* The two threads use the ring as its contract asks.
THEOREM ReplayFollowsRing == Spec => FollowsRing
<1>1. Init => InStream
  BY ReplayAssumption DEF Init, InStream
<1>2. Init => Ring!Init
  BY DEF Init
<1> QED
  BY <1>1, <1>2, StreamStep, RingStep, PTL DEF Spec, FollowsRing, Ring!Spec

-------------------------------------------------------------------------------
(* What is proved of the ring, in the pipeline.                            *)

\* The ring's invariant holds while the pipeline runs.
LEMMA RingHolds == Spec => [](RingProofs!RingInv /\ RingProofs!DepthReadingSound)
<1>1. Capacity \in Nat /\ Blank \in QueueItems
  <2>1. 0 \in 0 .. NumEvents
    BY ReplayAssumption
  <2> QED  BY <2>1, ReplayAssumption DEF Blank, QueueItems
<1>2. RingProofs!Spec => []RingProofs!RingInv
  BY <1>1, RingProofs!RingInvariant
<1>3. RingProofs!Spec => []RingProofs!DepthReadingSound
  BY <1>1, RingProofs!RingDepthReading
<1>4. Ring!Init => RingProofs!Init
  BY DEF Ring!Init, RingProofs!Init, Ring!SlotIds, RingProofs!SlotIds
<1>5. [Ring!Next]_(Ring!vars) => [RingProofs!Next]_(RingProofs!vars)
  BY DEF Ring!Next, RingProofs!Next, Ring!vars, RingProofs!vars,
         Ring!Producer, RingProofs!Producer, Ring!Consumer,
         RingProofs!Consumer, Ring!Memory, RingProofs!Memory, Ring!PushFull,
         RingProofs!PushFull, Ring!PushClaim, RingProofs!PushClaim,
         Ring!PushWrite, RingProofs!PushWrite, Ring!PushPublish,
         RingProofs!PushPublish, Ring!PopEmpty, RingProofs!PopEmpty,
         Ring!PopClaim, RingProofs!PopClaim, Ring!PopRead, RingProofs!PopRead,
         Ring!PopPublish, RingProofs!PopPublish, Ring!HeadStoreVisible,
         RingProofs!HeadStoreVisible, Ring!TailStoreVisible,
         RingProofs!TailStoreVisible, Ring!AcquiredHead,
         RingProofs!AcquiredHead, Ring!AcquiredTail, RingProofs!AcquiredTail,
         Ring!Full, RingProofs!Full, Ring!Empty, RingProofs!Empty,
         Ring!PopSlot, RingProofs!PopSlot, Ring!Increment,
         RingProofs!Increment, Ring!Newest, RingProofs!Newest, Ring!NumSlots,
         RingProofs!NumSlots, Ring!indexVars, RingProofs!indexVars,
         Ring!viewVars, RingProofs!viewVars, Ring!pushVars,
         RingProofs!pushVars, Ring!popVars, RingProofs!popVars, Ring!slotVars,
         RingProofs!slotVars, Ring!history, RingProofs!history
<1> QED
  BY <1>2, <1>3, <1>4, <1>5, ReplayFollowsRing, PTL
     DEF FollowsRing, Ring!Spec, RingProofs!Spec

\* What the invariant says of the ring, in the terms the pipeline needs.
LEMMA RingFacts ==
  ASSUME RingProofs!RingInv, RingProofs!DepthReadingSound
  PROVE  /\ sent \in Seq(QueueItems) /\ received \in Seq(QueueItems)
         /\ Len(sent) \in Nat /\ Len(received) \in Nat
         /\ Len(received) <= Len(sent) /\ Len(sent) - Len(received) <= Capacity
         /\ popPc = "publish" => /\ Len(received) < Len(sent)
                                 /\ popItem = sent[Len(received) + 1]
         /\ popItem \in QueueItems /\ pushItem \in QueueItems
         /\ Ring!SizeApprox \in 0 .. Capacity
<1>1. Capacity \in Nat /\ Blank \in QueueItems
  <2>1. 0 \in 0 .. NumEvents
    BY ReplayAssumption
  <2> QED  BY <2>1, ReplayAssumption DEF Blank, QueueItems
<1>2. /\ Len(sent) \in Nat /\ Len(received) \in Nat
      /\ Len(received) <= Len(sent) /\ Len(sent) - Len(received) <= Capacity
      /\ popPc # "idle" => Len(received) < Len(sent)
  BY <1>1, RingProofs!Positions
<1>3. /\ sent \in Seq(QueueItems) /\ received \in Seq(QueueItems)
      /\ popItem \in QueueItems /\ pushItem \in QueueItems
  BY DEF RingProofs!RingInv, RingProofs!TypeOK
<1>4. popPc = "publish" => popItem = sent[Len(received) + 1]
  BY DEF RingProofs!RingInv, RingProofs!Contents
<1>5. RingProofs!SizeApprox \in 0 .. Capacity
  BY <1>1, <1>2 DEF RingProofs!DepthReadingSound
<1>6. Ring!SizeApprox = RingProofs!SizeApprox
  BY DEF Ring!SizeApprox, RingProofs!SizeApprox, Ring!Newest, RingProofs!Newest,
         Ring!NumSlots, RingProofs!NumSlots
<1> QED  BY <1>2, <1>3, <1>4, <1>5, <1>6

-------------------------------------------------------------------------------
(* The invariant behind the statistics.                                    *)

Bit(b) == IF b THEN 1 ELSE 0

Typed ==
  /\ call \in AllCalls
  /\ producerPc \in {"arrive", "gate", "next", "push", "spin", "count", "exit"}
  /\ consumerPc \in {"arrive", "gate", "pop", "handle", "close", "exit"}
  /\ InStream
  /\ produced \in Nat /\ backpressure \in Nat /\ dropped \in Nat
  /\ eosProduced \in {0, 1} /\ maxDepth \in 0 .. Capacity
  /\ consumed \in Nat /\ eosSeen \in BOOLEAN /\ halted \in BOOLEAN
  /\ applied \in Seq(Nat)

\* The producer's books: what was published is what it counted, and the marker
\* comes last and once.
Published ==
  /\ Len(sent) = produced + eosProduced + Bit(producerPc = "count")
  /\ produced + dropped = nextEvent - 1
  /\ pushPc # "idle" => producerPc = "push" /\ pushItem = Item
  /\ \A k \in 1 .. Len(sent) : sent[k].end_of_stream =>
        k = Len(sent) /\ AtMarker /\ producerPc \in {"count", "exit"}
  /\ producerPc = "count" =>
        Len(sent) > 0 /\ sent[Len(sent)] = Item /\ eosProduced = 0
  /\ producerPc # "count" =>
        (eosProduced = 1 <=> \E k \in 1 .. Len(sent) : sent[k].end_of_stream)
  /\ dropped = IF call.drop_on_full THEN backpressure ELSE 0

\* The consumer's books: it has received a beginning of what was published, and
\* stops on the marker or on a refused event, not on both.
Drained ==
  /\ \A k \in 1 .. Len(received) : received[k] = sent[k]
  /\ popPc # "idle" => consumerPc = "pop"
  /\ Len(received) = consumed + Bit(eosSeen) + Bit(consumerPc = "handle")
  /\ \A k \in 1 .. Len(received) :
        received[k].end_of_stream => consumerPc = "handle" \/ eosSeen
  /\ consumerPc = "handle" => Len(received) > 0 /\ popItem = received[Len(received)]
  /\ eosSeen => Len(received) > 0 /\ received[Len(received)].end_of_stream
  /\ consumerPc \in {"close", "exit"} <=> eosSeen \/ halted
  /\ ~ (eosSeen /\ halted)
  /\ Len(applied) = consumed - Bit(halted)

\* The caller returns after both threads have ended.
Joined ==
  /\ mainPc \in {"join_consumer", "returned"} => producerPc = "exit"
  /\ mainPc = "returned" => consumerPc = "exit"

RingSound == RingProofs!RingInv /\ RingProofs!DepthReadingSound

PipeInv == Typed /\ Published /\ Drained /\ Joined

\* The invariant holds at the start.
LEMMA PipeInit == Init => PipeInv
<1> SUFFICES ASSUME Init PROVE PipeInv
  OBVIOUS
<1> USE ReplayAssumption DEF Init
<1>1. sent = <<>> /\ received = <<>> /\ pushPc = "idle" /\ popPc = "idle"
  BY DEF Ring!Init
<1>2. Typed
  <2>1. call \in AllCalls
    OBVIOUS
  <2>2. producerPc \in {"arrive", "next"} /\ consumerPc \in {"arrive", "pop"}
    OBVIOUS
  <2>3. InStream /\ maxDepth \in 0 .. Capacity
    BY DEF InStream
  <2>4. applied \in Seq(Nat)
    OBVIOUS
  <2> QED  BY <2>1, <2>2, <2>3, <2>4 DEF Typed
<1>3. Published
  BY <1>1 DEF Published, Bit
<1>4. Drained
  <2>1. /\ consumerPc \notin {"handle", "close", "exit"}
        /\ ~ eosSeen /\ ~ halted /\ eosSeen = FALSE /\ halted = FALSE
        /\ consumed = 0 /\ applied = <<>>
    OBVIOUS
  <2>2. Len(received) = consumed + Bit(eosSeen) + Bit(consumerPc = "handle")
    BY <1>1, <2>1 DEF Bit
  <2>3. Len(applied) = consumed - Bit(halted)
    <3>1. Bit(halted) = 0
      BY <2>1 DEF Bit
    <3>2. Len(applied) = 0
      BY <2>1
    <3> QED  BY <2>1, <3>1, <3>2
  <2>4. \A k \in 1 .. Len(received) : /\ received[k] = sent[k]
         /\ received[k].end_of_stream => consumerPc = "handle" \/ eosSeen
    BY <1>1
  <2>5. consumerPc \in {"close", "exit"} <=> eosSeen \/ halted
    BY <2>1
  <2> QED  BY <1>1, <2>1, <2>2, <2>3, <2>4, <2>5 DEF Drained
<1>5. Joined
  BY DEF Joined
<1> QED  BY <1>2, <1>3, <1>4, <1>5 DEF PipeInv

\* Types and program counters.
LEMMA TypedStep ==
  ASSUME Typed, RingSound, [Next]_vars
  PROVE  Typed'
<1> USE ReplayAssumption
<1>1. InStream'
  BY StreamStep DEF Typed
<1>2. Ring!SizeApprox \in 0 .. Capacity /\ popItem \in QueueItems
  BY RingFacts DEF RingSound
<1>3. /\ call \in AllCalls /\ InStream
      /\ producerPc \in {"arrive", "gate", "next", "push", "spin", "count", "exit"}
      /\ consumerPc \in {"arrive", "gate", "pop", "handle", "close", "exit"}
      /\ produced \in Nat /\ backpressure \in Nat /\ dropped \in Nat
      /\ eosProduced \in {0, 1} /\ maxDepth \in 0 .. Capacity
      /\ consumed \in Nat /\ eosSeen \in BOOLEAN /\ halted \in BOOLEAN
      /\ applied \in Seq(Nat)
  BY DEF Typed
<1> USE DEF producerVars, counters, consumerVars, engineVars, mainVars
<1>4. CASE \/ ProducerArrives \/ ProducerStarts \/ NextIteration \/ EventsExhausted
           \/ EventFindsFull \/ StillFull \/ Spin \/ PushProceeds \/ PushReturns \/ CountPush
  <2>1. UNCHANGED <<call, consumerVars>>
    BY <1>4 DEF ProducerArrives, ProducerStarts, NextIteration, EventsExhausted,
         EventFindsFull, StillFull, Spin, PushProceeds, PushReturns, CountPush
  <2>2. producerPc' \in {"arrive", "gate", "next", "push", "spin", "count", "exit"}
    BY <1>3, <1>4 DEF ProducerArrives, ProducerStarts, NextIteration, EventsExhausted,
         EventFindsFull, StillFull, Spin, PushProceeds, PushReturns, CountPush, IfActive,
         AfterPush
  <2>3. produced' \in Nat /\ backpressure' \in Nat /\ dropped' \in Nat
        /\ eosProduced' \in {0, 1} /\ maxDepth' \in 0 .. Capacity
    <3>1. CASE EventFindsFull
      BY <1>3, <3>1 DEF EventFindsFull
    <3>2. CASE CountPush
      BY <1>2, <1>3, <3>2 DEF CountPush, Deeper
    <3>3. CASE ~ EventFindsFull /\ ~ CountPush
      BY <1>3, <1>4, <3>3 DEF ProducerArrives, ProducerStarts, NextIteration,
         EventsExhausted, StillFull, Spin, PushProceeds, PushReturns
    <3> QED  BY <3>1, <3>2, <3>3
  <2> QED  BY <1>1, <1>3, <2>1, <2>2, <2>3 DEF Typed
<1>5. CASE \/ ConsumerArrives \/ ConsumerStarts \/ PopFindsEmpty \/ PopProceeds \/ PopReturns
           \/ HandleMarker \/ HandleEvent \/ HandleFatal \/ CloseConsumer
  <2>1. UNCHANGED <<call, producerVars>>
    BY <1>5 DEF ConsumerArrives, ConsumerStarts, PopFindsEmpty, PopProceeds, PopReturns,
         HandleMarker, HandleEvent, HandleFatal, CloseConsumer
  <2>2. consumerPc' \in {"arrive", "gate", "pop", "handle", "close", "exit"}
    BY <1>3, <1>5 DEF ConsumerArrives, ConsumerStarts, PopFindsEmpty, PopProceeds,
         PopReturns, HandleMarker, HandleEvent, HandleFatal, CloseConsumer
  <2>3. consumed' \in Nat /\ eosSeen' \in BOOLEAN /\ halted' \in BOOLEAN
    <3>1. consumed' \in {consumed, consumed + 1}
      BY <1>5 DEF ConsumerArrives, ConsumerStarts, PopFindsEmpty, PopProceeds,
         PopReturns, HandleMarker, HandleEvent, HandleFatal, CloseConsumer
    <3>2. eosSeen' \in {eosSeen, TRUE} /\ halted' \in {halted, TRUE}
      BY <1>5 DEF ConsumerArrives, ConsumerStarts, PopFindsEmpty, PopProceeds,
         PopReturns, HandleMarker, HandleEvent, HandleFatal, CloseConsumer
    <3>3. consumed' \in Nat
      BY <1>3, <3>1
    <3>4. eosSeen' \in BOOLEAN
      BY <1>3, <3>2
    <3>5. halted' \in BOOLEAN
      BY <1>3, <3>2
    <3> QED  BY <3>3, <3>4, <3>5
  <2>4. applied' \in Seq(Nat)
    <3>1. CASE HandleEvent
      BY <1>2, <1>3, <3>1 DEF HandleEvent, QueueItems
    <3>2. CASE ~ HandleEvent
      BY <1>3, <1>5, <3>2 DEF ConsumerArrives, ConsumerStarts, PopFindsEmpty, PopProceeds,
         PopReturns, HandleMarker, HandleFatal, CloseConsumer
    <3> QED  BY <3>1, <3>2
  <2> QED  BY <1>1, <1>3, <2>1, <2>2, <2>3, <2>4 DEF Typed
<1>6. CASE \/ OpenGate \/ ConsumerLoopDone \/ JoinProducer \/ JoinConsumerAndFinalize
           \/ RingStoreVisible \/ ActiveStoreVisible \/ UNCHANGED vars
  <2>1. UNCHANGED <<call, producerVars, consumerVars>>
    BY <1>6 DEF OpenGate, ConsumerLoopDone, JoinProducer, JoinConsumerAndFinalize,
         RingStoreVisible, ActiveStoreVisible, vars
  <2> QED  BY <1>1, <1>3, <2>1 DEF Typed
<1> QED
  BY <1>4, <1>5, <1>6 DEF Next, Producer, Consumer, Main, Returned

\* What the producer has published and counted.
LEMMA PublishedStep ==
  ASSUME Typed, Published, RingSound, [Next]_vars
  PROVE  Published'
<1> USE ReplayAssumption
<1>1. /\ sent \in Seq(QueueItems) /\ Len(sent) \in Nat
      /\ produced \in Nat /\ dropped \in Nat /\ backpressure \in Nat
      /\ eosProduced \in {0, 1} /\ nextEvent \in 1 .. NumEvents + 1
  BY RingFacts DEF RingSound, Typed, InStream
<1>2. /\ Len(sent) = produced + eosProduced + Bit(producerPc = "count")
      /\ produced + dropped = nextEvent - 1
      /\ pushPc # "idle" => producerPc = "push" /\ pushItem = Item
      /\ \A k \in 1 .. Len(sent) : sent[k].end_of_stream =>
            k = Len(sent) /\ AtMarker /\ producerPc \in {"count", "exit"}
      /\ producerPc = "count" =>
            Len(sent) > 0 /\ sent[Len(sent)] = Item /\ eosProduced = 0
      /\ producerPc # "count" =>
            (eosProduced = 1 <=> \E k \in 1 .. Len(sent) : sent[k].end_of_stream)
      /\ dropped = IF call.drop_on_full THEN backpressure ELSE 0
  BY DEF Published
<1>3. CASE UNCHANGED <<call, sent, pushPc, pushItem, producerVars>>
  BY <1>2, <1>3 DEF Published, producerVars, counters, Item, AtMarker
<1>4. CASE \/ ProducerArrives \/ ProducerStarts \/ NextIteration \/ EventsExhausted
           \/ StillFull \/ Spin
  <2>1. /\ UNCHANGED <<call, sent, pushPc, pushItem, nextEvent, counters>>
        /\ producerPc \notin {"count", "exit"} /\ producerPc' # "count"
        /\ pushPc = "idle"
    <3>1. UNCHANGED <<call, sent, pushPc, pushItem, nextEvent, counters>>
      BY <1>4 DEF ProducerArrives, ProducerStarts, NextIteration, EventsExhausted,
           StillFull, Spin, ringVars, mainVars, Ring!PushFull, Ring!pushVars, Ring!history
    <3>2. /\ producerPc \notin {"count", "exit"} /\ producerPc' # "count"
          /\ producerPc # "push" \/ pushPc = "idle"
      BY <1>4 DEF ProducerArrives, ProducerStarts, NextIteration, EventsExhausted,
           StillFull, Spin, Ring!PushFull, IfActive
    <3> QED  BY <3>1, <3>2, <1>2
  <2>2. Item' = Item /\ AtMarker' = AtMarker
    BY <2>1 DEF Item, AtMarker
  <2>3. Bit(producerPc = "count") = 0 /\ Bit(producerPc' = "count") = 0
    BY <2>1 DEF Bit
  <2>4. Len(sent') = produced' + eosProduced' + Bit(producerPc' = "count")
    BY <1>2, <2>1, <2>3 DEF counters
  <2> QED  BY <1>2, <2>1, <2>2, <2>4 DEF Published, counters
<1>5. CASE EventFindsFull
  <2>1. /\ UNCHANGED <<call, sent, pushPc, pushItem, produced, eosProduced>>
        /\ producerPc = "push" /\ producerPc' \in {"next", "spin"} /\ pushPc = "idle"
        /\ backpressure' = backpressure + 1
        /\ IF call.drop_on_full THEN dropped' = dropped + 1 /\ nextEvent' = nextEvent + 1
                                ELSE UNCHANGED <<dropped, nextEvent>>
    BY <1>5 DEF EventFindsFull, Sheds, mainVars, Ring!PushFull, Ring!pushVars, Ring!history
  <2>2. Bit(producerPc = "count") = 0 /\ Bit(producerPc' = "count") = 0
    BY <2>1 DEF Bit
  <2>3. Len(sent') = produced' + eosProduced' + Bit(producerPc' = "count")
    BY <1>2, <2>1, <2>2
  <2>4. produced' + dropped' = nextEvent' - 1
    <3>1. CASE call.drop_on_full
      <4>1. produced' = produced /\ dropped' = dropped + 1 /\ nextEvent' = nextEvent + 1
        BY <2>1, <3>1
      <4> QED  BY <1>1, <1>2, <4>1
    <3>2. CASE ~ call.drop_on_full
      <4>1. produced' = produced /\ dropped' = dropped /\ nextEvent' = nextEvent
        BY <2>1, <3>2
      <4> QED  BY <1>2, <4>1
    <3> QED  BY <3>1, <3>2
  <2>5. dropped' = IF call'.drop_on_full THEN backpressure' ELSE 0
    BY <1>1, <1>2, <2>1
  <2>6. \A k \in 1 .. Len(sent) : ~ sent[k].end_of_stream
    BY <1>2, <2>1
  <2> QED  BY <1>2, <2>1, <2>3, <2>4, <2>5, <2>6 DEF Published
<1>6. CASE PushProceeds
  <2>1. /\ UNCHANGED <<call, sent, producerVars>>
        /\ producerPc = "push" /\ (pushItem' = Item \/ (pushItem' = pushItem /\ pushPc # "idle"))
    <3>1. CASE Ring!PushClaim(Item)
      BY <1>6, <3>1 DEF PushProceeds, mainVars, Ring!PushClaim, Ring!history
    <3>2. CASE Ring!PushWrite
      BY <1>6, <3>2 DEF PushProceeds, mainVars, Ring!PushWrite, Ring!history
    <3> QED  BY <1>6, <3>1, <3>2 DEF PushProceeds
  <2>2. Item' = Item /\ AtMarker' = AtMarker
    BY <2>1 DEF Item, AtMarker, producerVars
  <2>3. pushItem' = Item'
    BY <1>2, <2>1, <2>2
  <2> QED  BY <1>2, <2>1, <2>2, <2>3 DEF Published, producerVars, counters
<1>7. CASE PushReturns
  <2>1. /\ UNCHANGED <<call, nextEvent, counters>>
        /\ sent' = Append(sent, pushItem) /\ pushItem = Item
        /\ producerPc = "push" /\ producerPc' = "count" /\ pushPc' = "idle"
    BY <1>2, <1>7 DEF PushReturns, mainVars, Ring!PushPublish
  <2>2. Item' = Item /\ AtMarker' = AtMarker
    BY <2>1 DEF Item, AtMarker
  <2>3. /\ Len(sent') = Len(sent) + 1 /\ sent'[Len(sent) + 1] = Item
        /\ \A k \in 1 .. Len(sent) : sent'[k] = sent[k]
    BY <1>1, <2>1
  <2>4. \A k \in 1 .. Len(sent) : ~ sent[k].end_of_stream
    BY <1>2, <2>1
  <2>5. eosProduced = 0
    BY <1>1, <1>2, <2>1, <2>4
  <2>6. Len(sent') = produced' + eosProduced' + Bit(producerPc' = "count")
    <3>1. Bit(producerPc = "count") = 0 /\ Bit(producerPc' = "count") = 1
      BY <2>1 DEF Bit
    <3> QED  BY <1>1, <1>2, <2>1, <2>3, <3>1 DEF counters
  <2>7. ASSUME NEW k \in 1 .. Len(sent'), sent'[k].end_of_stream
        PROVE  k = Len(sent') /\ AtMarker'
    <3>1. k = Len(sent) + 1
      BY <1>1, <2>3, <2>4, <2>7
    <3>2. Item.end_of_stream
      BY <2>3, <2>7, <3>1
    <3> QED  BY <2>2, <2>3, <3>1, <3>2 DEF Item, Event
  <2>8. Len(sent') > 0 /\ sent'[Len(sent')] = Item'
    BY <1>1, <2>2, <2>3
  <2> QED  BY <1>2, <2>1, <2>5, <2>6, <2>7, <2>8 DEF Published, counters
<1>8. CASE CountPush
  <2>1. /\ UNCHANGED <<call, sent, pushPc, pushItem, dropped, backpressure>>
        /\ producerPc = "count" /\ producerPc' = (IF AtMarker THEN "exit" ELSE "next")
        /\ IF AtMarker THEN eosProduced' = 1 /\ UNCHANGED <<produced, nextEvent>>
           ELSE produced' = produced + 1 /\ nextEvent' = nextEvent + 1 /\ UNCHANGED eosProduced
    BY <1>8 DEF CountPush, AfterPush, ringVars, mainVars
  <2>2. pushPc = "idle" /\ Len(sent) > 0 /\ sent[Len(sent)] = Item /\ eosProduced = 0
    BY <1>2, <2>1
  <2>3. Len(sent') = produced' + eosProduced' + Bit(producerPc' = "count")
    <3>1. Bit(producerPc = "count") = 1 /\ Bit(producerPc' = "count") = 0
      BY <2>1 DEF Bit
    <3> QED  BY <1>1, <1>2, <2>1, <2>2, <3>1
  <2>4. CASE AtMarker
    <3>1. sent[Len(sent)].end_of_stream
      BY <2>2, <2>4 DEF Item, EndOfStream
    <3>2. AtMarker'
      BY <2>1, <2>4 DEF AtMarker
    <3> QED  BY <1>1, <1>2, <2>1, <2>2, <2>3, <2>4, <3>1, <3>2 DEF Published
  <2>5. CASE ~ AtMarker
    <3>1. ~ sent[Len(sent)].end_of_stream
      BY <2>2, <2>5 DEF Item, Event
    <3>2. \A k \in 1 .. Len(sent) : ~ sent[k].end_of_stream
      BY <1>2, <3>1
    <3>3. produced' + dropped' = nextEvent' - 1
      BY <1>1, <1>2, <2>1, <2>5
    <3> QED  BY <1>2, <2>1, <2>2, <2>3, <2>5, <3>2, <3>3 DEF Published
  <2> QED  BY <2>4, <2>5
<1>9. CASE Consumer \/ Main \/ RingStoreVisible \/ ActiveStoreVisible \/ UNCHANGED vars
  <2>1. UNCHANGED <<call, sent, pushPc, pushItem, producerVars>>
    BY <1>9 DEF Consumer, ConsumerArrives, ConsumerStarts, PopFindsEmpty, PopProceeds,
         PopReturns, HandleMarker, HandleEvent, HandleFatal, CloseConsumer, Main, OpenGate,
         ConsumerLoopDone, JoinProducer, JoinConsumerAndFinalize, RingStoreVisible,
         ActiveStoreVisible, vars, ringVars, mainVars, Ring!PopEmpty, Ring!PopClaim,
         Ring!PopRead, Ring!PopPublish, Ring!HeadStoreVisible, Ring!TailStoreVisible,
         Ring!pushVars, Ring!history
  <2> QED  BY <1>3, <2>1
<1> QED
  BY <1>4, <1>5, <1>6, <1>7, <1>8, <1>9 DEF Next, Producer, Returned

\* What the consumer has received and handled.
LEMMA DrainedStep ==
  ASSUME Typed, Published, Drained, RingSound, [Next]_vars
  PROVE  Drained'
<1> USE ReplayAssumption
<1>1. /\ sent \in Seq(QueueItems) /\ Len(sent) \in Nat
      /\ received \in Seq(QueueItems) /\ Len(received) \in Nat
      /\ Len(received) <= Len(sent)
      /\ popPc = "publish" => /\ Len(received) < Len(sent)
                              /\ popItem = sent[Len(received) + 1]
      /\ consumed \in Nat /\ eosSeen \in BOOLEAN /\ halted \in BOOLEAN
      /\ applied \in Seq(Nat)
  BY RingFacts DEF RingSound, Typed
<1>2. /\ \A k \in 1 .. Len(received) : received[k] = sent[k]
      /\ popPc # "idle" => consumerPc = "pop"
      /\ Len(received) = consumed + Bit(eosSeen) + Bit(consumerPc = "handle")
      /\ \A k \in 1 .. Len(received) :
            received[k].end_of_stream => consumerPc = "handle" \/ eosSeen
      /\ consumerPc = "handle" => Len(received) > 0 /\ popItem = received[Len(received)]
      /\ eosSeen => Len(received) > 0 /\ received[Len(received)].end_of_stream
      /\ consumerPc \in {"close", "exit"} <=> eosSeen \/ halted
      /\ ~ (eosSeen /\ halted)
      /\ Len(applied) = consumed - Bit(halted)
  BY DEF Drained
<1>3. CASE UNCHANGED <<received, popPc, popItem, consumerVars>>
  <2>1. \A k \in 1 .. Len(received) : sent'[k] = sent[k]
    <3>1. CASE PushReturns
      <4>1. sent' = Append(sent, pushItem)
        BY <3>1 DEF PushReturns, Ring!PushPublish
      <4> QED  BY <1>1, <4>1
    <3>2. CASE ~ PushReturns
      <4>1. UNCHANGED sent
        BY <3>2 DEF Next, Producer, Consumer, ProducerArrives, ProducerStarts,
           NextIteration, EventsExhausted, EventFindsFull, StillFull, Spin, PushProceeds,
           CountPush, ConsumerArrives, ConsumerStarts, PopFindsEmpty,
           PopProceeds, PopReturns, HandleMarker, HandleEvent, HandleFatal, CloseConsumer,
           Main, OpenGate, ConsumerLoopDone, JoinProducer, JoinConsumerAndFinalize,
           RingStoreVisible, ActiveStoreVisible, Returned, vars, ringVars, mainVars,
           Ring!PushFull, Ring!PushClaim, Ring!PushWrite, Ring!PopEmpty, Ring!PopClaim,
           Ring!PopRead, Ring!PopPublish, Ring!HeadStoreVisible, Ring!TailStoreVisible,
           Ring!history
      <4> QED  BY <4>1
    <3> QED  BY <3>1, <3>2
  <2> QED  BY <1>2, <1>3, <2>1 DEF Drained, consumerVars, engineVars
<1>4. CASE ConsumerArrives \/ ConsumerStarts \/ CloseConsumer
  <2>1. /\ UNCHANGED <<sent, received, popPc, popItem, consumed, eosSeen, engineVars>>
        /\ \/ consumerPc \in {"arrive", "gate"} /\ consumerPc' \in {"gate", "pop"}
           \/ consumerPc = "close" /\ consumerPc' = "exit"
    BY <1>4 DEF ConsumerArrives, ConsumerStarts, CloseConsumer, ringVars
  <2>2. Bit(consumerPc = "handle") = 0 /\ Bit(consumerPc' = "handle") = 0
    BY <2>1 DEF Bit
  <2>3. /\ popPc' # "idle" => consumerPc' = "pop"
        /\ consumerPc' \in {"close", "exit"} <=> eosSeen' \/ halted'
        /\ consumerPc' # "handle"
        /\ Len(received') = consumed' + Bit(eosSeen') + Bit(consumerPc' = "handle")
    BY <1>2, <2>1, <2>2 DEF engineVars
  <2> QED  BY <1>2, <2>1, <2>3 DEF Drained, engineVars
<1>5. CASE PopFindsEmpty \/ PopProceeds
  <2>1. /\ UNCHANGED <<sent, received, consumerVars>> /\ consumerPc = "pop"
    BY <1>5 DEF PopFindsEmpty, PopProceeds, Ring!PopEmpty, Ring!PopClaim, Ring!PopRead,
         Ring!history
  <2> QED  BY <1>2, <2>1 DEF Drained, consumerVars, engineVars
<1>6. CASE PopReturns
  <2>1. /\ UNCHANGED <<sent, popItem, consumed, eosSeen, engineVars>>
        /\ received' = Append(received, popItem) /\ popPc = "publish" /\ popPc' = "idle"
        /\ consumerPc = "pop" /\ consumerPc' = "handle"
    BY <1>6 DEF PopReturns, Ring!PopPublish
  <2>2. /\ Len(received') = Len(received) + 1 /\ received'[Len(received) + 1] = popItem
        /\ \A k \in 1 .. Len(received) : received'[k] = received[k]
    BY <1>1, <2>1
  <2>3. \A k \in 1 .. Len(received') : received'[k] = sent'[k]
    BY <1>1, <1>2, <2>1, <2>2
  <2>4. Len(received') = consumed' + Bit(eosSeen') + Bit(consumerPc' = "handle")
    <3>1. Bit(consumerPc = "handle") = 0 /\ Bit(consumerPc' = "handle") = 1
      BY <2>1 DEF Bit
    <3>2. Bit(eosSeen) \in {0, 1} /\ Bit(eosSeen') = Bit(eosSeen)
      BY <2>1 DEF Bit
    <3> QED  BY <1>1, <1>2, <2>1, <2>2, <3>1, <3>2
  <2>5. ~ eosSeen' /\ ~ halted' /\ Len(applied') = consumed' - Bit(halted')
    BY <1>2, <2>1 DEF engineVars
  <2>6. Len(received') > 0 /\ popItem' = received'[Len(received')]
    BY <1>1, <2>1, <2>2
  <2> QED  BY <2>1, <2>3, <2>4, <2>5, <2>6 DEF Drained
<1>7. CASE HandleMarker
  <2>1. /\ UNCHANGED <<sent, received, popPc, popItem, consumed, engineVars>>
        /\ consumerPc = "handle" /\ consumerPc' = "close"
        /\ popItem.end_of_stream /\ eosSeen' = TRUE
    BY <1>7 DEF HandleMarker, ringVars
  <2>2. ~ eosSeen /\ ~ halted /\ eosSeen' /\ ~ halted' /\ popPc' = "idle"
    BY <1>2, <2>1 DEF engineVars
  <2>3. Len(received') > 0 /\ received'[Len(received')].end_of_stream
    BY <1>2, <2>1
  <2>4. Len(received') = consumed' + Bit(eosSeen') + Bit(consumerPc' = "handle")
    <3>1. /\ Bit(consumerPc = "handle") = 1 /\ Bit(consumerPc' = "handle") = 0
          /\ Bit(eosSeen) = 0 /\ Bit(eosSeen') = 1
      BY <2>1, <2>2 DEF Bit
    <3> QED  BY <1>1, <1>2, <2>1, <3>1
  <2>5. Len(applied') = consumed' - Bit(halted')
    BY <1>2, <2>1 DEF engineVars
  <2> QED  BY <1>2, <2>1, <2>2, <2>3, <2>4, <2>5 DEF Drained
<1>8. CASE HandleEvent \/ HandleFatal
  <2>1. /\ UNCHANGED <<sent, received, popPc, popItem, eosSeen>>
        /\ consumerPc = "handle" /\ ~ popItem.end_of_stream /\ consumed' = consumed + 1
    BY <1>8 DEF HandleEvent, HandleFatal, ringVars
  <2>2. ~ eosSeen /\ ~ halted /\ ~ eosSeen' /\ popPc' = "idle"
    BY <1>2, <2>1
  <2>3. \A k \in 1 .. Len(received) : ~ received[k].end_of_stream
    <3> SUFFICES ASSUME NEW k \in 1 .. Len(received), received[k].end_of_stream PROVE FALSE
      OBVIOUS
    <3>1. k = Len(sent)
      BY <1>1, <1>2 DEF Published
    <3>2. k = Len(received)
      BY <1>1, <3>1
    <3> QED  BY <1>2, <2>1, <3>2
  <2>4. CASE HandleEvent
    <3>1. /\ consumerPc' = "pop" /\ UNCHANGED halted
          /\ applied' = Append(applied, popItem.event)
      BY <2>4 DEF HandleEvent
    <3>2. ~ halted'
      BY <2>2, <3>1
    <3>3. Len(received') = consumed' + Bit(eosSeen') + Bit(consumerPc' = "handle")
      <4>1. /\ Bit(consumerPc = "handle") = 1 /\ Bit(consumerPc' = "handle") = 0
            /\ Bit(eosSeen) = 0 /\ Bit(eosSeen') = 0
        BY <2>1, <2>2, <3>1 DEF Bit
      <4> QED  BY <1>1, <1>2, <2>1, <4>1
    <3>4. Len(applied') = consumed' - Bit(halted')
      <4>1. Bit(halted) = 0 /\ Bit(halted') = 0
        BY <2>2, <3>2 DEF Bit
      <4>2. Len(applied') = Len(applied) + 1
        BY <1>1, <3>1
      <4> QED  BY <1>1, <1>2, <2>1, <4>1, <4>2
    <3> QED  BY <1>2, <2>1, <2>2, <2>3, <3>1, <3>2, <3>3, <3>4 DEF Drained
  <2>5. CASE HandleFatal
    <3>1. consumerPc' = "close" /\ halted' = TRUE /\ UNCHANGED applied
      BY <2>5 DEF HandleFatal
    <3>2. Len(received') = consumed' + Bit(eosSeen') + Bit(consumerPc' = "handle")
      <4>1. /\ Bit(consumerPc = "handle") = 1 /\ Bit(consumerPc' = "handle") = 0
            /\ Bit(eosSeen) = 0 /\ Bit(eosSeen') = 0
        BY <2>1, <2>2, <3>1 DEF Bit
      <4> QED  BY <1>1, <1>2, <2>1, <4>1
    <3>3. Len(applied') = consumed' - Bit(halted')
      <4>1. Bit(halted) = 0 /\ Bit(halted') = 1
        BY <2>2, <3>1 DEF Bit
      <4> QED  BY <1>1, <1>2, <2>1, <3>1, <4>1
    <3> QED  BY <1>2, <2>1, <2>2, <2>3, <3>1, <3>2, <3>3 DEF Drained
  <2> QED  BY <1>8, <2>4, <2>5
<1>9. CASE Producer \/ Main \/ RingStoreVisible \/ ActiveStoreVisible \/ UNCHANGED vars
  <2>1. UNCHANGED <<received, popPc, popItem, consumerVars>>
    BY <1>9 DEF Producer, ProducerArrives, ProducerStarts, NextIteration, EventsExhausted,
         EventFindsFull, StillFull, Spin, PushProceeds, PushReturns, CountPush, Main,
         OpenGate, ConsumerLoopDone, JoinProducer, JoinConsumerAndFinalize,
         RingStoreVisible, ActiveStoreVisible, vars, ringVars, Ring!PushFull,
         Ring!PushClaim, Ring!PushWrite, Ring!PushPublish, Ring!HeadStoreVisible,
         Ring!TailStoreVisible, Ring!popVars, Ring!history
  <2> QED  BY <1>3, <2>1
<1> QED
  BY <1>4, <1>5, <1>6, <1>7, <1>8, <1>9 DEF Next, Consumer, Returned

\* A thread that has ended stays so, and the caller waits for both.
LEMMA JoinedStep == Joined /\ [Next]_vars => Joined'
<1> SUFFICES ASSUME Joined, [Next]_vars PROVE Joined'
  OBVIOUS
<1>1. /\ producerPc = "exit" => producerPc' = "exit"
      /\ consumerPc = "exit" => consumerPc' = "exit"
  BY DEF Next, Producer, Consumer, Main, RingStoreVisible, ActiveStoreVisible,
         Returned, vars, producerVars, consumerVars, ProducerArrives, ConsumerArrives,
         ProducerStarts, ConsumerStarts, NextIteration, EventsExhausted, EventFindsFull,
         StillFull, Spin, PushProceeds, PushReturns, CountPush, PopFindsEmpty, PopProceeds,
         PopReturns, HandleMarker, HandleEvent, HandleFatal, CloseConsumer, OpenGate,
         ConsumerLoopDone, JoinProducer, JoinConsumerAndFinalize
<1>2. CASE Main
  BY <1>1, <1>2 DEF Main, OpenGate, ConsumerLoopDone, JoinProducer,
                    JoinConsumerAndFinalize, Joined, producerVars, consumerVars
<1>3. CASE ~ Main
  <2>1. UNCHANGED mainPc
    BY <1>3 DEF Next, Producer, Consumer, RingStoreVisible, ActiveStoreVisible,
         Returned, vars, mainVars, ProducerArrives, ConsumerArrives, ProducerStarts,
         ConsumerStarts, NextIteration, EventsExhausted, EventFindsFull, StillFull, Spin,
         PushProceeds, PushReturns, CountPush, PopFindsEmpty, PopProceeds, PopReturns,
         HandleMarker, HandleEvent, HandleFatal, CloseConsumer
  <2> QED  BY <1>1, <2>1 DEF Joined
<1> QED  BY <1>2, <1>3

\* The invariant holds in every reachable state.
LEMMA PipeInvariant == Spec => [](PipeInv /\ RingSound)
<1>1. Spec => []RingSound
  BY RingHolds, PTL DEF RingSound
<1>2. PipeInv /\ RingSound /\ [Next]_vars => PipeInv'
  BY TypedStep, PublishedStep, DrainedStep, JoinedStep DEF PipeInv
<1> QED  BY <1>1, <1>2, PipeInit, PTL DEF Spec

\* The statistics of a call that has returned add up.
THEOREM ReplayStatsAddUp == Spec => []StatsAddUp
<1>1. ASSUME PipeInv, RingSound PROVE StatsAddUp
  <2> SUFFICES ASSUME Done PROVE
        /\ eosSeen # halted
        /\ eosSeen => /\ produced + dropped = NumEvents
                      /\ consumed = produced
                      /\ eosProduced = 1
        /\ halted => consumed <= produced /\ produced - consumed <= Capacity
        /\ dropped = IF call.drop_on_full THEN backpressure ELSE 0
        /\ maxDepth <= Capacity
        /\ Len(applied) = consumed - (IF halted THEN 1 ELSE 0)
    BY DEF StatsAddUp
  <2> USE ReplayAssumption
  <2>1. producerPc = "exit" /\ consumerPc = "exit"
    BY <1>1 DEF PipeInv, Joined, Done
  <2>2. /\ Len(sent) \in Nat /\ Len(received) \in Nat
        /\ Len(received) <= Len(sent) /\ Len(sent) - Len(received) <= Capacity
    BY <1>1, RingFacts DEF RingSound
  <2>3. /\ produced \in Nat /\ dropped \in Nat /\ consumed \in Nat
        /\ eosProduced \in {0, 1} /\ eosSeen \in BOOLEAN /\ halted \in BOOLEAN
        /\ nextEvent \in 1 .. NumEvents + 1 /\ maxDepth \in 0 .. Capacity
    BY <1>1 DEF PipeInv, Typed, InStream
  <2>4. /\ (eosSeen \/ halted) /\ ~ (eosSeen /\ halted)
        /\ Len(applied) = consumed - Bit(halted)
    BY <1>1, <2>1 DEF PipeInv, Drained
  <2>5. Len(sent) = produced + eosProduced
    <3>1. Bit(producerPc = "count") = 0
      BY <2>1 DEF Bit
    <3> QED  BY <1>1, <2>3, <3>1 DEF PipeInv, Published
  <2>6. Len(received) = consumed + Bit(eosSeen)
    <3>1. Bit(consumerPc = "handle") = 0 /\ Bit(eosSeen) \in {0, 1}
      BY <2>1 DEF Bit
    <3> QED  BY <1>1, <2>3, <3>1 DEF PipeInv, Drained
  <2>7. /\ \A k \in 1 .. Len(sent) : sent[k].end_of_stream => k = Len(sent) /\ AtMarker
        /\ eosProduced = 1 <=> \E k \in 1 .. Len(sent) : sent[k].end_of_stream
        /\ \A k \in 1 .. Len(received) : received[k] = sent[k]
    BY <1>1, <2>1 DEF PipeInv, Published, Drained
  <2>8. ASSUME eosSeen
        PROVE  produced + dropped = NumEvents /\ consumed = produced /\ eosProduced = 1
    <3>1. Len(received) > 0 /\ sent[Len(received)].end_of_stream
      <4>1. Len(received) > 0 /\ received[Len(received)].end_of_stream
        BY <1>1, <2>8 DEF PipeInv, Drained
      <4>2. received[Len(received)] = sent[Len(received)]
        BY <2>2, <2>7, <4>1
      <4> QED  BY <4>1, <4>2
    <3>2. Len(received) = Len(sent) /\ AtMarker /\ eosProduced = 1
      BY <2>2, <2>7, <3>1
    <3>3. Bit(eosSeen) = 1
      BY <2>8 DEF Bit
    <3>4. consumed = produced
      BY <2>3, <2>5, <2>6, <3>2, <3>3
    <3>5. nextEvent = NumEvents + 1
      BY <2>3, <3>2 DEF AtMarker
    <3>6. produced + dropped = nextEvent - 1
      BY <1>1 DEF PipeInv, Published
    <3> QED  BY <2>3, <3>2, <3>4, <3>5, <3>6
  <2>9. ASSUME halted
        PROVE  consumed <= produced /\ produced - consumed <= Capacity
    <3>1. ~ eosSeen
      BY <2>4, <2>9
    <3>2. Len(received) = consumed
      <4>1. Bit(eosSeen) = 0
        BY <3>1 DEF Bit
      <4> QED  BY <2>3, <2>6, <4>1
    <3>3. CASE eosProduced = 0
      BY <2>2, <2>3, <2>5, <3>2, <3>3
    <3>4. CASE eosProduced = 1
      <4>1. Len(sent) \in 1 .. Len(sent) /\ sent[Len(sent)].end_of_stream
        BY <2>7, <3>4
      <4>2. \A k \in 1 .. Len(received) : ~ received[k].end_of_stream
        BY <1>1, <2>1, <3>1 DEF PipeInv, Drained
      <4>3. Len(received) # Len(sent)
        BY <2>7, <4>1, <4>2
      <4> QED  BY <2>2, <2>3, <2>5, <3>2, <3>4, <4>3
    <3> QED  BY <2>3, <3>3, <3>4
  <2>10. dropped = IF call.drop_on_full THEN backpressure ELSE 0
    BY <1>1 DEF PipeInv, Published
  <2>11. Len(applied) = consumed - (IF halted THEN 1 ELSE 0)
    BY <2>4 DEF Bit
  <2>12. eosSeen # halted
    BY <2>3, <2>4
  <2>13. maxDepth <= Capacity
    BY <2>3
  <2> QED  BY <2>8, <2>9, <2>10, <2>11, <2>12, <2>13
<1> QED  BY <1>1, PipeInvariant, PTL

-------------------------------------------------------------------------------
(* The pipeline against the single-thread replay.                          *)

\* The events published are those of the stream, all of them when nothing is
\* shed; the first one always is, as the ring is empty then.
InOrder ==
  /\ Len(sent) = 0 => dropped = 0
  /\ Len(sent) > 0 => sent[1].end_of_stream \/ sent[1].event = 1
  /\ \A k \in 1 .. Len(sent) : ~ sent[k].end_of_stream =>
        /\ sent[k].event \in 1 .. NumEvents
        /\ ~ call.drop_on_full => sent[k].event = k

\* What the engine expects next is what comes after the events it has applied.
Expecting ==
  ~ halted /\ call.validate_sequence_numbers =>
    expected = IF consumed = 0 THEN 0 ELSE consumed + 1

\* The call stays what it was, and the result is final when it returns.
Called == call \in Calls /\ finalized = (mainPc = "returned")

\* A ring that looks full has had something put into it.
LEMMA FullMeansSent ==
  ASSUME RingSound, Ring!Full
  PROVE  Len(sent) > 0
<1> SUFFICES ASSUME Len(sent) = 0 PROVE FALSE
  BY RingFacts DEF RingSound
<1>1. Capacity \in Nat \ {0} /\ Blank \in QueueItems
  <2>1. 0 \in 0 .. NumEvents
    BY ReplayAssumption
  <2> QED  BY <2>1, ReplayAssumption DEF Blank, QueueItems
<1>2. /\ RingProofs!Newest(tail) = Len(sent) % RingProofs!NumSlots
      /\ head[headSeen] = (headSeen - 1) % RingProofs!NumSlots
      /\ headSeen - 1 \in Nat /\ headSeen - 1 <= Len(received)
      /\ Len(received) <= Len(sent) /\ Len(received) \in Nat
  BY <1>1, RingProofs!Positions DEF RingSound
<1>3. RingProofs!NumSlots \in Nat \ {0} /\ 0 \in 0 .. RingProofs!NumSlots - 1
      /\ 1 \in 0 .. RingProofs!NumSlots - 1
  BY <1>1 DEF RingProofs!NumSlots
<1>4. 0 % RingProofs!NumSlots = 0 /\ 1 % RingProofs!NumSlots = 1
  BY <1>3, RingProofs!ModSmall
<1>5. headSeen - 1 = 0
  <2>1. \A x, y, z \in Nat : x <= y /\ y <= z /\ z = 0 => x = 0
    OBVIOUS
  <2>2. headSeen - 1 \in Nat /\ headSeen - 1 <= Len(received)
        /\ Len(received) \in Nat /\ Len(received) <= Len(sent)
    BY <1>2
  <2>3. Len(sent) \in Nat
    OBVIOUS
  <2> QED  BY <2>1, <2>2, <2>3
<1>6. tail[Len(tail)] = 0 /\ head[headSeen] = 0
  BY <1>2, <1>4, <1>5 DEF RingProofs!Newest
<1>7. Ring!NumSlots = RingProofs!NumSlots
  BY DEF Ring!NumSlots, RingProofs!NumSlots
<1>8. (tail[Len(tail)] + 1) % Ring!NumSlots = head[headSeen]
  BY DEF Ring!Full, Ring!Increment, Ring!Newest
<1>9. 0 + 1 = 1
  OBVIOUS
<1>10. 1 % RingProofs!NumSlots = 0
  BY <1>6, <1>7, <1>8, <1>9
<1> QED  BY <1>4, <1>10

\* The producer publishes the stream in order.
LEMMA InOrderStep ==
  ASSUME Typed, Published, RingSound, InOrder, [Next]_vars
  PROVE  InOrder'
<1> USE ReplayAssumption
<1>1. /\ sent \in Seq(QueueItems) /\ Len(sent) \in Nat
      /\ produced \in Nat /\ dropped \in Nat
      /\ eosProduced \in {0, 1} /\ nextEvent \in 1 .. NumEvents + 1
  BY RingFacts DEF RingSound, Typed, InStream
<1>2. /\ Len(sent) = 0 => dropped = 0
      /\ Len(sent) > 0 => sent[1].end_of_stream \/ sent[1].event = 1
      /\ \A k \in 1 .. Len(sent) : ~ sent[k].end_of_stream =>
            /\ sent[k].event \in 1 .. NumEvents
            /\ ~ call.drop_on_full => sent[k].event = k
  BY DEF InOrder
<1>3. CASE EventFindsFull
  <2>1. UNCHANGED <<call, sent>>
    BY <1>3 DEF EventFindsFull, mainVars, Ring!PushFull, Ring!history
  <2>2. Len(sent) > 0
    BY <1>3, FullMeansSent DEF EventFindsFull, Ring!PushFull
  <2> QED  BY <1>2, <2>1, <2>2 DEF InOrder
<1>4. CASE PushReturns
  <2>1. /\ UNCHANGED <<call, dropped>>
        /\ sent' = Append(sent, Item) /\ producerPc = "push"
    BY <1>4 DEF PushReturns, mainVars, counters, Ring!PushPublish, Published
  <2>2. /\ Len(sent') = Len(sent) + 1 /\ sent'[Len(sent) + 1] = Item
        /\ \A k \in 1 .. Len(sent) : sent'[k] = sent[k]
    <3>1. Item \in QueueItems
      BY ItemIsQueueItem DEF Typed
    <3> QED  BY <1>1, <2>1, <3>1
  <2>3. Len(sent) = produced /\ produced + dropped = nextEvent - 1
    <3>1. Bit(producerPc = "count") = 0
      BY <2>1 DEF Bit
    <3>2. eosProduced = 0
      BY <1>1, <2>1 DEF Published
    <3> QED  BY <1>1, <3>1, <3>2 DEF Published
  <2>4. ~ Item.end_of_stream => Item.event = nextEvent /\ nextEvent \in 1 .. NumEvents
    BY <1>1 DEF Item, AtMarker, Event, EndOfStream
  <2>5. Len(sent) = 0 => nextEvent = 1
    BY <1>1, <1>2, <2>3
  <2>6. ~ call.drop_on_full => nextEvent = Len(sent) + 1
    <3>1. ~ call.drop_on_full => dropped = 0
      BY DEF Published
    <3> QED  BY <1>1, <2>3, <3>1
  <2>7. sent'[1].end_of_stream \/ sent'[1].event = 1
    <3>1. CASE Len(sent) = 0
      BY <2>2, <2>4, <2>5, <3>1
    <3>2. CASE Len(sent) > 0
      <4>1. sent'[1] = sent[1]
        BY <1>1, <2>2, <3>2
      <4> QED  BY <1>2, <3>2, <4>1
    <3> QED  BY <1>1, <3>1, <3>2
  <2>8. ASSUME NEW k \in 1 .. Len(sent'), ~ sent'[k].end_of_stream
        PROVE  /\ sent'[k].event \in 1 .. NumEvents
               /\ ~ call.drop_on_full => sent'[k].event = k
    <3>1. CASE k \in 1 .. Len(sent)
      BY <1>2, <2>2, <2>8, <3>1
    <3>2. CASE k = Len(sent) + 1
      BY <2>2, <2>4, <2>6, <2>8, <3>2
    <3>3. k \in 1 .. Len(sent) \/ k = Len(sent) + 1
      BY <1>1, <2>2
    <3> QED  BY <3>1, <3>2, <3>3
  <2>9. Len(sent') # 0
    BY <1>1, <2>2
  <2> QED  BY <2>1, <2>7, <2>8, <2>9 DEF InOrder
<1>5. CASE ~ EventFindsFull /\ ~ PushReturns
  <2>1. UNCHANGED <<call, sent, dropped>>
    BY <1>5 DEF Next, Producer, Consumer, ProducerArrives, ProducerStarts,
         NextIteration, EventsExhausted, StillFull, Spin, PushProceeds,
         CountPush, ConsumerArrives, ConsumerStarts, PopFindsEmpty,
         PopProceeds, PopReturns, HandleMarker, HandleEvent, HandleFatal, CloseConsumer,
         Main, OpenGate, ConsumerLoopDone, JoinProducer, JoinConsumerAndFinalize,
         RingStoreVisible, ActiveStoreVisible, Returned, vars, ringVars, mainVars,
         producerVars, counters,
         Ring!PushFull, Ring!PushClaim, Ring!PushWrite, Ring!PopEmpty, Ring!PopClaim,
         Ring!PopRead, Ring!PopPublish, Ring!HeadStoreVisible, Ring!TailStoreVisible,
         Ring!history
  <2> QED  BY <1>2, <2>1 DEF InOrder
<1> QED  BY <1>3, <1>4, <1>5

\* The item at hand is the one after those consumed, and nothing has ended the
\* loop yet.
LEMMA AtHand ==
  ASSUME Typed, Published, Drained, RingSound, consumerPc = "handle"
  PROVE  /\ Len(sent) \in Nat /\ consumed \in Nat /\ consumed + 1 \in 1 .. Len(sent)
         /\ popItem = sent[consumed + 1] /\ popItem \in QueueItems
         /\ ~ eosSeen /\ ~ halted /\ Len(applied) = consumed
<1>1. /\ Len(sent) \in Nat /\ Len(received) \in Nat /\ Len(received) <= Len(sent)
      /\ popItem \in QueueItems
  BY ReplayAssumption, RingFacts DEF RingSound
<1>2. consumed \in Nat /\ ~ eosSeen /\ ~ halted
  BY DEF Typed, Drained
<1>3. Len(received) = consumed + 1 /\ Len(applied) = consumed
  <2>1. Bit(consumerPc = "handle") = 1 /\ Bit(eosSeen) = 0 /\ Bit(halted) = 0
    BY <1>2 DEF Bit
  <2> QED  BY <1>2, <2>1 DEF Drained
<1>4. popItem = sent[consumed + 1]
  <2>1. popItem = received[Len(received)] /\ Len(received) \in 1 .. Len(received)
    BY <1>1 DEF Drained
  <2> QED  BY <1>3, <2>1 DEF Drained
<1> QED  BY <1>1, <1>2, <1>3, <1>4

\* An event the engine finds in sequence is the next of the stream, unless
\* events are shed and nobody checks; with nothing shed every event is.
LEMMA NextInOrder ==
  ASSUME Typed, Published, Drained, RingSound, InOrder, Expecting,
         consumerPc = "handle", ~ popItem.end_of_stream
  PROVE  /\ popItem.event \in 1 .. NumEvents
         /\ ~ call.drop_on_full => /\ popItem.event = consumed + 1
                                   /\ InSequence(popItem.event)
         /\ call.validate_sequence_numbers /\ InSequence(popItem.event) =>
               popItem.event = consumed + 1
<1>1. /\ Len(sent) \in Nat /\ consumed \in Nat /\ consumed + 1 \in 1 .. Len(sent)
      /\ popItem = sent[consumed + 1] /\ ~ halted
  BY AtHand
<1>2. /\ popItem.event \in 1 .. NumEvents
      /\ ~ call.drop_on_full => popItem.event = consumed + 1
      /\ consumed = 0 => popItem.event = 1
  BY <1>1 DEF InOrder
<1>3. call.validate_sequence_numbers =>
        expected = IF consumed = 0 THEN 0 ELSE consumed + 1
  BY <1>1 DEF Expecting
<1>4. ~ call.drop_on_full => InSequence(popItem.event)
  BY <1>1, <1>2, <1>3 DEF InSequence
<1>5. ASSUME call.validate_sequence_numbers, InSequence(popItem.event)
      PROVE  popItem.event = consumed + 1
  BY <1>1, <1>2, <1>3, <1>5 DEF InSequence
<1> QED  BY <1>2, <1>4, <1>5

\* The engine's expectation follows the events it applies.
LEMMA ExpectingStep ==
  ASSUME Typed, Published, Drained, RingSound, InOrder, Expecting, [Next]_vars
  PROVE  Expecting'
<1>1. CASE HandleEvent
  <2>1. /\ consumerPc = "handle" /\ ~ popItem.end_of_stream
        /\ InSequence(popItem.event) /\ consumed' = consumed + 1
        /\ UNCHANGED <<call, halted>>
        /\ call.validate_sequence_numbers => expected' = popItem.event + 1
    BY <1>1 DEF HandleEvent, Accepts, mainVars
  <2>2. call.validate_sequence_numbers => popItem.event = consumed + 1
    BY <2>1, NextInOrder
  <2>3. consumed \in Nat
    BY DEF Typed
  <2> QED  BY <2>1, <2>2, <2>3 DEF Expecting
<1>2. CASE HandleFatal
  BY <1>2 DEF HandleFatal, Expecting
<1>3. CASE ~ HandleEvent /\ ~ HandleFatal
  <2>1. UNCHANGED <<call, halted, expected, consumed>>
    BY <1>3 DEF Next, Producer, Consumer, ProducerArrives, ProducerStarts,
         NextIteration, EventsExhausted, EventFindsFull, StillFull, Spin, PushProceeds,
         PushReturns, CountPush, ConsumerArrives, ConsumerStarts, PopFindsEmpty,
         PopProceeds, PopReturns, HandleMarker, CloseConsumer, Main, OpenGate,
         ConsumerLoopDone, JoinProducer, JoinConsumerAndFinalize, RingStoreVisible,
         ActiveStoreVisible, Returned, vars, consumerVars, engineVars, mainVars
  <2> QED  BY <2>1 DEF Expecting
<1> QED  BY <1>1, <1>2, <1>3

\* The call does not change, and only the last join finalizes.
LEMMA CalledStep == Called /\ [Next]_vars => Called'
<1> SUFFICES ASSUME Called, [Next]_vars PROVE Called'
  OBVIOUS
<1>1. CASE JoinConsumerAndFinalize
  BY <1>1 DEF JoinConsumerAndFinalize, Called
<1>2. CASE OpenGate \/ ConsumerLoopDone \/ JoinProducer
  BY <1>2 DEF OpenGate, ConsumerLoopDone, JoinProducer, Called
<1>3. CASE ~ Main
  <2>1. UNCHANGED <<call, finalized, mainPc>>
    BY <1>3 DEF Next, Producer, Consumer, ProducerArrives, ProducerStarts,
         NextIteration, EventsExhausted, EventFindsFull, StillFull, Spin, PushProceeds,
         PushReturns, CountPush, ConsumerArrives, ConsumerStarts, PopFindsEmpty,
         PopProceeds, PopReturns, HandleMarker, HandleEvent, HandleFatal, CloseConsumer,
         RingStoreVisible, ActiveStoreVisible, Returned, vars, mainVars
  <2> QED  BY <2>1 DEF Called
<1> QED  BY <1>1, <1>2, <1>3 DEF Main

\* The invariant behind the refinement.
LEMMA OrderInvariant ==
  Spec => [](PipeInv /\ RingSound /\ InOrder /\ Expecting /\ Called)
<1>1. Init => InOrder /\ Expecting /\ Called
  <2> SUFFICES ASSUME Init PROVE InOrder /\ Expecting /\ Called
    OBVIOUS
  <2>1. sent = <<>> /\ Len(sent) = 0
    BY DEF Init, Ring!Init
  <2>2. InOrder /\ Expecting
    BY <2>1 DEF Init, InOrder, Expecting
  <2>3. mainPc # "returned" /\ finalized = FALSE /\ call \in Calls
    BY DEF Init
  <2>4. Called
    BY <2>3 DEF Called
  <2> QED  BY <2>2, <2>4
<1>2. PipeInv /\ RingSound /\ InOrder /\ Expecting /\ Called /\ [Next]_vars
        => InOrder' /\ Expecting' /\ Called'
  BY InOrderStep, ExpectingStep, CalledStep DEF PipeInv
<1> QED  BY <1>1, <1>2, PipeInvariant, PTL DEF Spec

\* A lossy call checks sequence numbers: without the check a hole would go by
\* unnoticed, which the refinement excludes.
LossyCallsValidate ==
  \A c \in Calls : c.drop_on_full => c.validate_sequence_numbers

\* Every step of the pipeline is one of the single-thread replay or changes
\* nothing that replay has.
LEMMA SequentialStep ==
  ASSUME LossyCallsValidate, PipeInv, RingSound, InOrder, Expecting, Called, [Next]_vars
  PROVE  [Sequential!Next]_(Sequential!vars)
<1> USE ReplayAssumption
<1>1. /\ call \in Calls /\ finalized = (mainPc = "returned")
      /\ call.drop_on_full => call.validate_sequence_numbers
      /\ call.drop_on_full \in BOOLEAN
      /\ eosSeen \in BOOLEAN /\ halted \in BOOLEAN
  BY DEF Called, LossyCallsValidate, PipeInv, Typed, AllCalls
<1>2. consumerPc = "handle" => ~ finalized
  BY <1>1 DEF PipeInv, Joined
<1>3. CASE HandleEvent
  <2>1. /\ consumerPc = "handle" /\ ~ popItem.end_of_stream
        /\ InSequence(popItem.event) /\ popItem.event \notin call.fatal
        /\ applied' = Append(applied, popItem.event)
        /\ UNCHANGED <<call, finalized, halted, eosSeen>>
    BY <1>3 DEF HandleEvent, Accepts, mainVars
  <2>2. ~ eosSeen /\ ~ halted /\ ~ finalized /\ Len(applied) = consumed
    BY <1>2, <2>1, AtHand DEF PipeInv
  <2>3. popItem.event = consumed + 1 /\ popItem.event \in 1 .. NumEvents
    BY <1>1, <2>1, NextInOrder DEF PipeInv
  <2> QED
    BY <2>1, <2>2, <2>3 DEF Sequential!Next, Sequential!Apply, Sequential!NextEvent,
                            Sequential!inputs
<1>4. CASE HandleFatal
  <2>1. /\ consumerPc = "handle" /\ ~ popItem.end_of_stream
        /\ ~ (InSequence(popItem.event) /\ popItem.event \notin call.fatal)
        /\ halted' = TRUE
        /\ UNCHANGED <<call, finalized, applied, eosSeen>>
    BY <1>4 DEF HandleFatal, Accepts, mainVars
  <2>2. ~ eosSeen /\ ~ halted /\ ~ finalized /\ Len(applied) = consumed
    BY <1>2, <2>1, AtHand DEF PipeInv
  <2>3. ~ call.drop_on_full => consumed + 1 \in call.fatal
    BY <2>1, NextInOrder DEF PipeInv
  <2> QED
    BY <2>1, <2>2, <2>3 DEF Sequential!Next, Sequential!Halt, Sequential!NextEvent,
                            Sequential!inputs
<1>5. CASE HandleMarker
  <2>1. /\ consumerPc = "handle" /\ popItem.end_of_stream /\ eosSeen' = TRUE
        /\ UNCHANGED <<call, finalized, applied, halted>>
    BY <1>5 DEF HandleMarker, mainVars, engineVars
  <2>2. /\ ~ eosSeen /\ ~ halted /\ ~ finalized /\ Len(applied) = consumed
        /\ consumed \in Nat /\ Len(sent) \in Nat
        /\ consumed + 1 \in 1 .. Len(sent) /\ popItem = sent[consumed + 1]
    BY <1>2, <2>1, AtHand DEF PipeInv
  <2>3. ASSUME ~ call.drop_on_full PROVE consumed + 1 = NumEvents + 1
    <3>1. /\ consumed + 1 = Len(sent) /\ AtMarker /\ producerPc \in {"count", "exit"}
      BY <2>1, <2>2 DEF PipeInv, Published
    <3>2. /\ produced \in Nat /\ nextEvent \in 1 .. NumEvents + 1
          /\ dropped \in Nat /\ eosProduced \in {0, 1}
      BY DEF PipeInv, Typed, InStream
    <3>3. dropped = 0 /\ produced + dropped = nextEvent - 1
      BY <2>3 DEF PipeInv, Published
    <3>4. produced = NumEvents
      BY <3>1, <3>2, <3>3 DEF AtMarker
    <3>5. Len(sent) = produced + 1
      <4>1. CASE producerPc = "count"
        <5>1. Bit(producerPc = "count") = 1 /\ eosProduced = 0
          BY <4>1 DEF Bit, PipeInv, Published
        <5> QED  BY <3>2, <5>1 DEF PipeInv, Published
      <4>2. CASE producerPc = "exit"
        <5>1. Bit(producerPc = "count") = 0
          BY <4>2 DEF Bit
        <5>2. eosProduced = 1
          BY <2>1, <2>2, <4>2 DEF PipeInv, Published
        <5> QED  BY <3>2, <5>1, <5>2 DEF PipeInv, Published
      <4> QED  BY <3>1, <4>1, <4>2
    <3> QED  BY <3>1, <3>4, <3>5
  <2> QED
    BY <1>1, <2>1, <2>2, <2>3 DEF Sequential!Next, Sequential!End,
                                  Sequential!NextEvent, Sequential!inputs
<1>6. CASE JoinConsumerAndFinalize
  <2>1. /\ mainPc = "join_consumer" /\ consumerPc = "exit" /\ finalized' = TRUE
        /\ UNCHANGED <<call, applied, halted, eosSeen>>
    BY <1>6 DEF JoinConsumerAndFinalize, consumerVars, engineVars
  <2>2. ~ finalized /\ (eosSeen \/ halted)
    BY <1>1, <2>1 DEF PipeInv, Drained
  <2> QED
    BY <1>1, <2>1, <2>2 DEF Sequential!Next, Sequential!Finalize, Sequential!inputs
<1>7. CASE ~ HandleEvent /\ ~ HandleFatal /\ ~ HandleMarker /\ ~ JoinConsumerAndFinalize
  <2>1. UNCHANGED <<call, applied, finalized, halted, eosSeen>>
    BY <1>7 DEF Next, Producer, Consumer, ProducerArrives, ProducerStarts,
         NextIteration, EventsExhausted, EventFindsFull, StillFull, Spin, PushProceeds,
         PushReturns, CountPush, ConsumerArrives, ConsumerStarts, PopFindsEmpty,
         PopProceeds, PopReturns, CloseConsumer, Main, OpenGate, ConsumerLoopDone,
         JoinProducer, RingStoreVisible, ActiveStoreVisible, Returned, vars,
         consumerVars, engineVars, mainVars
  <2> QED  BY <2>1 DEF Sequential!vars, Sequential!inputs
<1> QED  BY <1>3, <1>4, <1>5, <1>6, <1>7

\* The pipeline applies what the single-thread replay applies and stops where
\* it stops; a call that sheds applies a gapless prefix of the stream.
THEOREM ReplayAppliesSequentially ==
  ASSUME LossyCallsValidate
  PROVE  Spec => Sequential!Safety
<1>1. Init => Sequential!Init
  <2> SUFFICES ASSUME Init PROVE Sequential!Init
    OBVIOUS
  <2>1. /\ call \in AllCalls /\ applied = <<>>
        /\ eosSeen = FALSE /\ halted = FALSE /\ finalized = FALSE
    BY ReplayAssumption DEF Init
  <2>2. call.fatal \subseteq 1 .. NumEvents /\ call.drop_on_full \in BOOLEAN
    BY <2>1 DEF AllCalls
  <2> QED  BY <2>1, <2>2 DEF Sequential!Init
<1>2. PipeInv /\ RingSound /\ InOrder /\ Expecting /\ Called /\ [Next]_vars
        => [Sequential!Next]_(Sequential!vars)
  BY SequentialStep
<1> QED
  BY <1>1, <1>2, OrderInvariant, PTL DEF Spec, Sequential!Safety
===============================================================================
