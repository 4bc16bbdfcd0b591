------------------------------ MODULE SpscReplay ------------------------------
(***************************************************************************)
(* run_spsc_replay and run_spsc_replay_steady_state: a producer thread     *)
(* publishes the events of a preloaded stream, then one end-of-stream      *)
(* marker, into an SpscRing; a consumer drains it into a ReplayEngine and  *)
(* stops on the marker or on the first event the engine refuses, clearing  *)
(* consumer_active so that a producer blocked on a full ring gives up.     *)
(* The caller joins the producer (in the steady-state variant both         *)
(* threads, which wait on a start gate) and finalizes the result.          *)
(*                                                                         *)
(* The engine is abstracted to what the pipeline sees of it: which events  *)
(* were applied, the expected sequence number, and whether it refused one. *)
(***************************************************************************)
EXTENDS Integers, Sequences

CONSTANTS
  Capacity,          \* config.queue_capacity
  NumEvents,         \* events.size(); event k carries sequence number k
  Calls              \* the calls considered, see below

\* One call of an entry point: the configuration it is given, the events of
\* its stream that the engine refuses whatever came before them, and which of
\* the two entry points it is.
AllCalls ==
  [drop_on_full : BOOLEAN,                \* backpressure == DropNewestOnFull
   validate_sequence_numbers : BOOLEAN,
   fatal : SUBSET (1 .. NumEvents),
   steady_state : BOOLEAN]

\* A capacity of zero is refused before any thread is created.
ASSUME ReplayAssumption ==
  /\ Capacity \in Nat \ {0}
  /\ NumEvents \in Nat
  /\ Calls \subseteq AllCalls

VARIABLES
  call,                   \* the call being served, an element of Calls
  slots, head, tail, headSeen, headAcq, tailSeen, tailAcq,
  pushPc, pushItem, popPc, popItem, lastWrite, lastRead, sent, received,
  producerPc,             \* where the producer thread is
  nextEvent,              \* event of the current iteration; past the end: the marker
  waiting,                \* the current item has already found the ring full
  consumerPc,             \* where the consumer thread is
  mainPc,                 \* where the calling thread is
  start, ready,           \* start gate and ready_threads (steady state only)
  active, activeSeen,     \* consumer_active, and the value that reached the producer
  produced, backpressure, dropped, maxDepth, eosProduced,   \* producer's counters
  consumed, eosSeen,      \* out.stats, written by the consumer
  applied, expected, halted, finalized                      \* engine and result

ringVars     == <<slots, head, tail, headSeen, headAcq, tailSeen, tailAcq, pushPc,
                  pushItem, popPc, popItem, lastWrite, lastRead, sent, received>>
activeVars   == <<active, activeSeen>>
gateVars     == <<start, ready>>
counters     == <<produced, backpressure, dropped, maxDepth, eosProduced>>
producerVars == <<producerPc, nextEvent, waiting, counters>>
engineVars   == <<applied, expected, halted>>
consumerVars == <<consumerPc, consumed, eosSeen, engineVars>>
mainVars     == <<call, mainPc, finalized>>
vars == <<ringVars, activeVars, gateVars, producerVars, consumerVars, mainVars>>

\* ReplayQueueItem
Event(k)    == [event |-> k, end_of_stream |-> FALSE]
EndOfStream == [event |-> 0, end_of_stream |-> TRUE]
Blank       == [event |-> 0, end_of_stream |-> FALSE]
QueueItems  == [event : 0 .. NumEvents, end_of_stream : BOOLEAN]

Ring == INSTANCE SpscRing WITH Items <- QueueItems

Init ==
  /\ Ring!Init
  /\ call \in Calls
  /\ producerPc = IF call.steady_state THEN "arrive" ELSE "next"
  /\ nextEvent = 1
  /\ waiting = FALSE
  /\ consumerPc = IF call.steady_state THEN "arrive" ELSE "pop"
  /\ mainPc = IF call.steady_state THEN "await_ready" ELSE "consume"
  /\ start = FALSE /\ ready = 0
  /\ active = TRUE /\ activeSeen = TRUE
  /\ produced = 0 /\ backpressure = 0 /\ dropped = 0 /\ maxDepth = 0
  /\ eosProduced = 0
  /\ consumed = 0 /\ eosSeen = FALSE
  /\ applied = <<>> /\ expected = 0 /\ halted = FALSE
  /\ finalized = FALSE

-------------------------------------------------------------------------------
(* Start gate of the steady-state variant.                                 *)

ProducerArrives ==
  /\ producerPc = "arrive"
  /\ producerPc' = "gate"
  /\ ready' = ready + 1
  /\ UNCHANGED <<ringVars, activeVars, start, nextEvent, waiting, counters,
                 consumerVars, mainVars>>

ConsumerArrives ==
  /\ consumerPc = "arrive"
  /\ consumerPc' = "gate"
  /\ ready' = ready + 1
  /\ UNCHANGED <<ringVars, activeVars, start, producerVars, consumed, eosSeen,
                 engineVars, mainVars>>

ProducerStarts ==
  /\ producerPc = "gate" /\ start
  /\ producerPc' = "next"
  /\ UNCHANGED <<ringVars, activeVars, gateVars, nextEvent, waiting, counters,
                 consumerVars, mainVars>>

ConsumerStarts ==
  /\ consumerPc = "gate" /\ start
  /\ consumerPc' = "pop"
  /\ UNCHANGED <<ringVars, activeVars, gateVars, producerVars, consumed, eosSeen,
                 engineVars, mainVars>>

-------------------------------------------------------------------------------
(* Producer thread.                                                        *)

OffTheEnd == nextEvent > NumEvents + 1   \* mutation: one iteration too many
AtMarker == nextEvent > NumEvents
Item     == IF AtMarker THEN EndOfStream ELSE Event(nextEvent)
Accumulated(depth) == maxDepth + depth   \* mutation: a sum, not a maximum
Deeper(depth) == IF depth > maxDepth THEN depth ELSE maxDepth

\* Where the producer goes after loading consumer_active.
IgnoreFlag(target) == target   \* mutation: keeps going when the consumer stopped
IfActive(target) == IF activeSeen THEN target ELSE "exit"

\* Head of the loop: load consumer_active before each event.
NextIteration ==
  /\ producerPc = "next" /\ ~ AtMarker
  /\ producerPc' = IfActive("push")
  /\ UNCHANGED <<ringVars, activeVars, gateVars, nextEvent, waiting, counters,
                 consumerVars, mainVars>>

\* The loop is over: go on to publish the marker, without looking at the flag.
EventsExhausted ==
  /\ producerPc = "next" /\ AtMarker
  /\ producerPc' = "push"
  /\ UNCHANGED <<ringVars, activeVars, gateVars, nextEvent, waiting, counters,
                 consumerVars, mainVars>>

Sheds == call.drop_on_full

\* try_push returned false for an event, for the first time: backpressure.
\* Under DropNewestOnFull the event is shed, otherwise the producer spins.
EventFindsFull ==
  /\ producerPc = "push" /\ ~ AtMarker /\ ~ waiting
  /\ Ring!PushFull
  /\ backpressure' = backpressure + 1
  /\ IF Sheds
       THEN /\ dropped' = dropped + 1
            /\ nextEvent' = nextEvent + 1
            /\ producerPc' = "next"
            /\ UNCHANGED waiting
       ELSE /\ waiting' = TRUE
            /\ producerPc' = "spin"
            /\ UNCHANGED <<dropped, nextEvent>>
  /\ UNCHANGED <<activeVars, gateVars, produced, maxDepth, eosProduced,
                 consumerVars, mainVars>>

\* try_push returned false again, or for the marker: spin.
StillFull ==
  /\ producerPc = "push" /\ (AtMarker \/ waiting)
  /\ Ring!PushFull
  /\ producerPc' = "spin"
  /\ UNCHANGED <<activeVars, gateVars, nextEvent, waiting, counters,
                 consumerVars, mainVars>>

\* Load consumer_active, yield, and retry, unless the consumer has stopped.
Spin ==
  /\ producerPc = "spin"
  /\ producerPc' = IfActive("push")
  /\ UNCHANGED <<ringVars, activeVars, gateVars, nextEvent, waiting, counters,
                 consumerVars, mainVars>>

\* try_push goes ahead: the load of head_, then the write of the slot.
PushProceeds ==
  /\ producerPc = "push"
  /\ Ring!PushClaim(Item) \/ Ring!PushWrite
  /\ UNCHANGED <<activeVars, gateVars, producerVars, consumerVars, mainVars>>

\* try_push stores tail_ and returns true.
PushReturns ==
  /\ producerPc = "push"
  /\ Ring!PushPublish
  /\ producerPc' = "count"
  /\ waiting' = FALSE
  /\ UNCHANGED <<activeVars, gateVars, nextEvent, counters, consumerVars, mainVars>>

\* The thread ends after the marker.
AfterPush == IF AtMarker THEN "exit" ELSE "next"

\* Count the event, or the marker, and record the depth read by size_approx.
CountPush ==
  /\ producerPc = "count"
  /\ maxDepth' = Deeper(Ring!SizeApprox)
  /\ producerPc' = AfterPush
  /\ IF AtMarker
       THEN /\ eosProduced' = 1
            /\ UNCHANGED <<produced, nextEvent>>
       ELSE /\ produced' = produced + 1
            /\ nextEvent' = nextEvent + 1
            /\ UNCHANGED eosProduced
  /\ UNCHANGED <<ringVars, activeVars, gateVars, waiting, backpressure, dropped,
                 consumerVars, mainVars>>

-------------------------------------------------------------------------------
(* Consumer: the calling thread, or its own thread in the steady state.    *)

\* try_pop returned false: yield and try again.
PopFindsEmpty ==
  /\ consumerPc = "pop"
  /\ Ring!PopEmpty
  /\ UNCHANGED <<activeVars, gateVars, producerVars, consumerVars, mainVars>>

PopProceeds ==
  /\ consumerPc = "pop"
  /\ Ring!PopClaim \/ Ring!PopRead
  /\ UNCHANGED <<activeVars, gateVars, producerVars, consumerVars, mainVars>>

PopReturns ==
  /\ consumerPc = "pop"
  /\ Ring!PopPublish
  /\ consumerPc' = "handle"
  /\ UNCHANGED <<activeVars, gateVars, producerVars, consumed, eosSeen, engineVars,
                 mainVars>>

\* The end-of-stream marker: leave the loop.
HandleMarker ==
  /\ consumerPc = "handle" /\ popItem.end_of_stream
  /\ eosSeen' = TRUE
  /\ consumerPc' = "close"
  /\ UNCHANGED <<ringVars, activeVars, gateVars, producerVars, consumed, engineVars,
                 mainVars>>

\* replay_step: the first event seeds the expected sequence number; a gap, or
\* an event the engine refuses, is fatal.
NoSequenceCheck(k) == TRUE                                  \* mutation
InSequence(k) == call.validate_sequence_numbers => expected \in {0, k}
Accepts(k) == InSequence(k) /\ k \notin call.fatal

HandleEvent ==
  /\ consumerPc = "handle" /\ ~ popItem.end_of_stream
  /\ Accepts(popItem.event)
  /\ consumed' = consumed + 1
  /\ applied' = Append(applied, popItem.event)
  /\ expected' = IF call.validate_sequence_numbers THEN popItem.event + 1 ELSE expected
  /\ consumerPc' = "pop"
  /\ UNCHANGED <<ringVars, activeVars, gateVars, producerVars, eosSeen, halted,
                 mainVars>>

\* replay_step returned false: clear consumer_active and leave the loop.
HandleFatal ==
  /\ consumerPc = "handle" /\ ~ popItem.end_of_stream
  /\ ~ Accepts(popItem.event)
  /\ consumed' = consumed + 1
  /\ halted' = TRUE
  /\ expected' = IF ~ call.validate_sequence_numbers THEN expected
                 ELSE IF InSequence(popItem.event) THEN popItem.event + 1
                 ELSE expected
  /\ active' = FALSE
  /\ consumerPc' = "close"
  /\ UNCHANGED <<ringVars, activeSeen, gateVars, producerVars, eosSeen, applied,
                 mainVars>>

\* After the loop consumer_active is cleared on every path.
CloseConsumer ==
  /\ consumerPc = "close"
  /\ active' = FALSE
  /\ consumerPc' = "exit"
  /\ UNCHANGED <<ringVars, activeSeen, gateVars, producerVars, consumed, eosSeen,
                 engineVars, mainVars>>

-------------------------------------------------------------------------------
(* The calling thread.                                                     *)

OpenGate ==
  /\ mainPc = "await_ready" /\ ready = 2
  /\ start' = TRUE
  /\ mainPc' = "join_producer"
  /\ UNCHANGED <<ringVars, activeVars, ready, producerVars, consumerVars, call, finalized>>

ConsumerLoopDone ==
  /\ mainPc = "consume" /\ consumerPc = "exit"
  /\ mainPc' = "join_producer"
  /\ UNCHANGED <<ringVars, activeVars, gateVars, producerVars, consumerVars, call, finalized>>

JoinProducer ==
  /\ mainPc = "join_producer" /\ producerPc = "exit"
  /\ mainPc' = "join_consumer"
  /\ UNCHANGED <<ringVars, activeVars, gateVars, producerVars, consumerVars, call, finalized>>

\* In run_spsc_replay the consumer is the caller and has already finished.
JoinConsumerAndFinalize ==
  /\ mainPc = "join_consumer" /\ consumerPc = "exit"
  /\ mainPc' = "returned"
  /\ finalized' = TRUE
  /\ UNCHANGED <<ringVars, activeVars, gateVars, producerVars, consumerVars, call>>

-------------------------------------------------------------------------------
(* Stores reaching the other thread.                                       *)

RingStoreVisible ==
  /\ Ring!HeadStoreVisible \/ Ring!TailStoreVisible
  /\ UNCHANGED <<activeVars, gateVars, producerVars, consumerVars, mainVars>>

ActiveStoreVisible ==
  /\ activeSeen # active
  /\ activeSeen' = active
  /\ UNCHANGED <<ringVars, active, gateVars, producerVars, consumerVars, mainVars>>

Producer == \/ ProducerArrives \/ ProducerStarts
            \/ NextIteration \/ EventsExhausted \/ EventFindsFull \/ StillFull
            \/ Spin \/ PushProceeds \/ PushReturns \/ CountPush
Consumer == \/ ConsumerArrives \/ ConsumerStarts
            \/ PopFindsEmpty \/ PopProceeds \/ PopReturns
            \/ HandleMarker \/ HandleEvent \/ HandleFatal \/ CloseConsumer
Main == OpenGate \/ ConsumerLoopDone \/ JoinProducer \/ JoinConsumerAndFinalize

\* The call has returned: nothing is left to do.
Returned == mainPc = "returned" /\ UNCHANGED vars

Next == Producer \/ Consumer \/ Main \/ RingStoreVisible \/ ActiveStoreVisible
        \/ Returned

\* The operating system schedules every runnable thread again and again (the
\* loops yield), and a store becomes visible in finite time.
Fairness == /\ WF_vars(Producer) /\ WF_vars(Consumer) /\ WF_vars(Main)
            /\ WF_vars(Ring!HeadStoreVisible /\ RingStoreVisible)
            /\ WF_vars(Ring!TailStoreVisible /\ RingStoreVisible)
            /\ WF_vars(ActiveStoreVisible)

Spec == Init /\ [][Next]_vars /\ Fairness

-------------------------------------------------------------------------------
(* Properties.                                                             *)

Done == mainPc = "returned"

\* The two threads use the ring as its contract asks, one pushing and one
\* popping, so everything proved of SpscRing holds here.
FollowsRing == Ring!Spec

\* Under the lossless policy the pipeline computes what the single-thread
\* replay computes: the same events are applied, and it stops at the same one.
\* A run that sheds applies a gapless prefix of the stream all the same: a
\* hole is followed by a halt or by the end, never by a silently wrong book.
Sequential ==
  INSTANCE SequentialReplay
    WITH fatal <- call.fatal,
         lossy <- call.drop_on_full,
         phase <- IF finalized THEN "finalized"
                  ELSE IF halted THEN "halted"
                  ELSE IF eosSeen THEN "ended" ELSE "streaming"
SameAsSingleThread == Sequential!Spec

\* The statistics of a finished run add up, and a fatal event leaves at most
\* a ringful of published events behind.
StatsAddUp ==
  Done =>
    /\ eosSeen # halted
    /\ eosSeen => /\ produced + dropped = NumEvents
                  /\ consumed = produced
                  /\ eosProduced = 1
    /\ halted => consumed <= produced /\ produced - consumed <= Capacity
    /\ dropped = IF call.drop_on_full THEN backpressure ELSE 0
    /\ maxDepth <= Capacity
    /\ Len(applied) = consumed - (IF halted THEN 1 ELSE 0)

\* The call returns: a producer spinning on a full ring is released when the
\* consumer stops, and a consumer spinning on an empty one gets the marker.
Terminates == <>Done

\* spsc_replay.hpp: "Under the default policy dropped_events is always zero
\* and produced == consumed."
ProducedEqualsConsumed ==
  Done /\ ~ call.drop_on_full => dropped = 0 /\ produced = consumed

\* The calls that TLC considers: both entry points, both policies, a clean
\* stream and one with an event the engine refuses early.  A lossy replay
\* without validation is left out: it promises nothing about what it applies.
CheckedCalls ==
  {c \in AllCalls : /\ c.fatal \in {{}, {2}}
                    /\ c.drop_on_full => c.validate_sequence_numbers}
===============================================================================
