----------------------------- MODULE MCComponents ------------------------------
(***************************************************************************)
(* Components for TLC.  As they share no state, each behaviour is one of a *)
(* single component, the subject, and the others stay as they began.       *)
(*                                                                         *)
(*   index      a table of 4 slots that grows, 4 ids, hashes that collide  *)
(*              and wrap, every assignment of hashes up to the ids' order; *)
(*   rate       windows of 3 with at most 2 messages, time for several of  *)
(*              them and messages on both edges of each;                   *)
(*   portfolio  two symbols, one at two prices whose average is not an     *)
(*              integer and one at a single price, fills that open, join,  *)
(*              reduce, close and flip a position, limits of each kind, of *)
(*              which some are off;                                        *)
(*   audit      files of at most two records and three bytes, three lines  *)
(*              of one byte, or of four, two and two: rotations by either  *)
(*              limit, two of them, one byte over it, a first line that is *)
(*              too long for any file, a restart between lines; one        *)
(*              damage, lines that follow, a manifest made again;          *)
(*   log        a path of either extension, logs of up to two events, one  *)
(*              with flags that a cut line may lose in part, a third that  *)
(*              another may be overwritten by, two faults;                 *)
(*   gate       thresholds from none to the counter's maximum, six signals;*)
(*   model      files with the right, a wrong, a windowed and an open      *)
(*              shape, one that does not load, metadata true and false.    *)
(***************************************************************************)
EXTENDS Components

VARIABLE subject

MCLimits == {[gross |-> 5, net |-> 0, share |-> 0, loss |-> 0],
             [gross |-> 0, net |-> 3, share |-> 7000, loss |-> 2]}
MCChecked == {[symbol |-> 1, side |-> "Buy", quantity |-> 2, price |-> 3]}
MCSeeds == {-2}

MCEntries == {[check |-> "accepted", accepted |-> TRUE, size |-> 1],
              [check |-> "throttle", accepted |-> FALSE, size |-> 2],
              [check |-> "max_notional", accepted |-> FALSE, size |-> 4]}
MCKeys == {{}, {"key"}}

\* Bound for TLC: the sizes of the lines a trail may come to hold.  The first
\* rotates by the records alone; the second begins with a line too long for any
\* file and rotates twice by the bytes, once for a single byte over the limit.
LineSizes == {<<1, 1, 1>>, <<4, 2, 2>>}
TrailBound ==
  \E sizes \in LineSizes :
     \A k \in DOMAIN trail.entries : trail.entries[k].size = sizes[k]

\* Bound for TLC: the second symbol is dealt in at one price.
SymbolBound ==
  2 \in DOMAIN positions => positions[2].average # 2 /\ 2 \notin positions[2].mark

MCLogs == LET a == [data |-> "a", flags |-> 0]
              b == [data |-> "b", flags |-> 12]
          IN  {<<>>, <<b>>, <<b, a>>, <<a, b>>}
MCStrays == {[data |-> "c", flags |-> 12]}

MCPolicies ==
  [timeout : {3}, maxAge : {2}, dropTimedOut : {TRUE}, dropLate : BOOLEAN,
   maxLate : 0 .. 3, disables : BOOLEAN]

MCModelPolicies == {[timeout |-> 3, maxAge |-> 2, dropTimedOut |-> TRUE, dropLate |-> TRUE]}
Shapes == {<<1, 4>>, <<1, 3>>, <<1, 2, 4>>, <<1, -1>>}
MCFiles == [loads : {TRUE}, shape : Shapes] \cup {[loads |-> FALSE, shape |-> <<>>]}
MCMetadata == [features : {3, 4}, window : {1, 2}, version : {1, 2}, input : Shapes]

Idle(name, start) == subject # name => start

MCInit ==
  /\ subject \in Names
  /\ ComponentsInit
  /\ Idle("index", hash = [id \in Ids |-> 1])
  /\ \A id \in 1 .. 3 : hash[id] <= hash[id + 1]
  /\ Idle("rate", mode = "FixedWindow")
  /\ auditing /\ Idle("portfolio", limits.gross > 0)
  /\ Idle("gate", policy.maxLate = 0 /\ policy.dropLate /\ policy.disables)
  /\ Idle("model", runtime)

MCNext == StepOf(subject) /\ UNCHANGED subject /\ TrailBound' /\ SymbolBound'
MCSpec == MCInit /\ [][MCNext]_<<subject, allVars>>
===============================================================================
