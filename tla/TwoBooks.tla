------------------------------- MODULE TwoBooks -------------------------------
(***************************************************************************)
(* The two order books given the same calls.  MatchingEngine and the       *)
(* replay use OrderBook; PooledOrderBook is offered in its place where     *)
(* nothing may be allocated, so a caller must not be able to tell them     *)
(* apart.                                                                  *)
(***************************************************************************)
EXTENDS OrderBook

\* Order ids are 64-bit numbers.
ASSUME IdsFinite == IsFiniteSet(Ids)

VARIABLES
  pool,       \* the pooled book
  pooledOk    \* what its last call returned

bothVars == <<vars, pool, pooledOk>>

Pooled == INSTANCE PooledOrderBook WITH ok <- pooledOk

BothInit == Init /\ Pooled!Init

BothNext ==
  \/ \E o \in Orders : Add(o) /\ Pooled!Add(o)
  \/ \E id \in Ids \cup {0} :
        \/ Cancel(id) /\ Pooled!Cancel(id)
        \/ \E quantity \in Quantities \cup {0} :
              Reduce(id, quantity) /\ Pooled!Reduce(id, quantity)
        \/ \E price \in Prices \cup {0}, quantity \in Quantities \cup {0} :
              /\ Replace(id, price, quantity)
              /\ Pooled!Replace(id, price, quantity)
  \/ Clear /\ Pooled!Clear

BothSpec == BothInit /\ [][BothNext]_bothVars

-------------------------------------------------------------------------------
(* Properties.                                                             *)

\* check_invariants() of the pooled book never reports a violation, and no
\* node of its pool is lost or given out twice.
PooledBookSound ==
  /\ Pooled!TypeOK
  /\ Pooled!CheckInvariantsHolds
  /\ Pooled!PoolIsComplete

\* Whatever the calls, both books return the same and hold the same orders in
\* the same places, so that what is shown of one holds of the other.
BooksAgree ==
  /\ ok = pooledOk
  /\ \A side \in Sides, price \in Prices :
        Queued(book, side, price) = Pooled!QueueAt(side, price)
===============================================================================
