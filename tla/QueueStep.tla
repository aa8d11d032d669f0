----------------------------- MODULE QueueStep -----------------------------
(***************************************************************************)
(* What a clock edge does to the queue a single-clock FIFO stands for, as  *)
(* a function of the inputs alone.  The FIFO modules keep that queue in a  *)
(* history variable beside their registers.                                *)
(***************************************************************************)
EXTENDS Naturals, Sequences

CONSTANTS
  Data,    \* the elements
  None     \* no enqueue at this edge; the content of unwritten words

ASSUME ElementAssumption == None \notin Data

(* clear beats everything; otherwise the head leaves before v enters. *)
After(s, clear, deq, v) ==
  LET rest == IF deq THEN Tail(s) ELSE s
  IN  IF clear THEN <<>> ELSE IF v = None THEN rest ELSE Append(rest, v)

(***************************************************************************)
(* The calls that are no error (error_checks of the FIFOs): a dequeue      *)
(* needs an element, an enqueue needs room or, in a loopy or an unguarded  *)
(* FIFO, a dequeue at the same edge.  Callers of the others do less.       *)
(***************************************************************************)
Legal(notEmpty, notFull, deq, v) ==
  /\ deq => notEmpty
  /\ v # None => notFull \/ deq
=============================================================================
