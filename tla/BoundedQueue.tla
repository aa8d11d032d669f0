---------------------------- MODULE BoundedQueue ----------------------------
(***************************************************************************)
(* What every FIFO of the library promises: first in, first out, nothing   *)
(* lost, doubled or invented, at most Capacity elements at a time.  The    *)
(* two sides may act in the same step.  A reset (or a clear) may empty it. *)
(***************************************************************************)
EXTENDS Naturals, Sequences

CONSTANTS Data,      \* the elements
          Capacity   \* the number of elements that fit

VARIABLE q

Init == q = <<>>

Enq(v) == Len(q) < Capacity /\ q' = Append(q, v)

Deq == q # <<>> /\ q' = Tail(q)

(* Full or not, an element that leaves makes room for one that enters. *)
EnqDeq(v) == q # <<>> /\ q' = Append(Tail(q), v)

Clear == q' = <<>>

Next == (\E v \in Data : Enq(v) \/ EnqDeq(v)) \/ Deq \/ Clear

Spec == Init /\ [][Next]_q
=============================================================================
