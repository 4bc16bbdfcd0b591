------------------------------ MODULE RateLimiter ------------------------------
(***************************************************************************)
(* One client of the message-rate limit: messages at non-decreasing times, *)
(* each counted and then allowed or not.  The histories keep when messages *)
(* came and which of them were allowed.                                    *)
(***************************************************************************)
EXTENDS GatewayState

CONSTANTS
  MaxMessages,   \* max_messages_per_window
  Window,        \* rate_window_ns
  Modes,         \* values of rate_limit_mode
  MaxClock,      \* bound: latest time
  MaxSent        \* bound: messages

VARIABLES
  mode,      \* rate_limit_mode
  clock,     \* now_ns
  state,     \* rate_states_ of the client
  sent,      \* history: times of messages
  allowed    \* history: the numbers of the allowed ones among them

vars == <<mode, clock, state, sent, allowed>>

Limits == [maxMessages |-> MaxMessages, window |-> Window, mode |-> mode]

Init ==
  /\ mode \in Modes
  /\ clock = 0
  /\ state = NoMessages
  /\ sent = <<>>
  /\ allowed = {}

Tick ==
  /\ clock < MaxClock
  /\ clock' = clock + 1
  /\ UNCHANGED <<mode, state, sent, allowed>>

Message ==
  /\ Len(sent) < MaxSent
  /\ state' = Counted(state, clock, Limits)
  /\ sent' = Append(sent, clock)
  /\ allowed' = IF WithinRate(state', Limits) THEN allowed \cup {Len(sent')} ELSE allowed
  /\ UNCHANGED <<mode, clock>>

Next == Tick \/ Message

Spec == Init /\ [][Next]_vars

-------------------------------------------------------------------------------
(* Properties.                                                             *)

AllowedFrom(t) == Cardinality({k \in allowed : sent[k] \in t .. t + Window - 1})

\* "Maximum messages per client within rate_window_ns": wherever an interval of
\* that length is laid, a sliding window allows no more messages than that in
\* it; fixed windows at most twice as many, as the interval meets two of them.
AtMostMaximum ==
  \A t \in 0 .. clock :
     AllowedFrom(t) <= IF mode = "SlidingWindow" THEN MaxMessages
                                                  ELSE 2 * MaxMessages

\* A message is refused only if the window before it holds the maximum of
\* messages already, refused ones included: a client that has been silent for a
\* window is heard again.
RefusedOnlyWhenFull ==
  ~ WithinRate(Counted(state, clock, Limits), Limits) =>
    Cardinality({k \in DOMAIN sent : clock - sent[k] < Window}) >= MaxMessages
===============================================================================
