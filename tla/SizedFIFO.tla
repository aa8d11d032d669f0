----------------------------- MODULE SizedFIFO -----------------------------
(***************************************************************************)
(* The FIFO of Verilog/SizedFIFO.v, and of SizedFIFOL.v, whose registers   *)
(* are the same: a ring of p2depth - 1 words and a register D_OUT in front *)
(* of it that holds the head.                                              *)
(***************************************************************************)
EXTENDS QueueStep

CONSTANT p2depth
ASSUME DepthAssumption == p2depth \in Nat /\ p2depth >= 2

VARIABLES
  arr, head, tail,             \* the ring and its pointers
  ring_empty, not_ring_full,   \* head = tail is either
  hasodata, D_OUT,             \* the register in front, and whether it is loaded
  queue                        \* history: the queue the inputs amount to

control == <<head, tail, ring_empty, not_ring_full, hasodata>>
vars    == <<arr, control, D_OUT, queue>>

depthLess2 == p2depth - 2
Slots      == 0 .. depthLess2

(* next_head and next_tail *)
MutNextSlot(p) == IF p = p2depth - 1 THEN 0 ELSE p + 1
NextSlot(p) == IF p = depthLess2 THEN 0 ELSE p + 1

Init ==
  /\ arr = [i \in Slots |-> None] /\ D_OUT = None
  /\ head = 0 /\ tail = 0
  /\ ring_empty = TRUE /\ not_ring_full = TRUE /\ hasodata = FALSE
  /\ queue = <<>>

(* The reset branch, and the clear operation, of the control block. *)
ClearControl ==
  /\ head' = 0 /\ tail' = 0
  /\ ring_empty' = TRUE /\ not_ring_full' = TRUE /\ hasodata' = FALSE

(* The rows of the casez of the control block, in its order. *)
EnqDeqRing ==
  /\ tail' = NextSlot(tail) /\ head' = NextSlot(head)
  /\ UNCHANGED <<ring_empty, not_ring_full, hasodata>>
DeqLast ==
  /\ hasodata' = FALSE
  /\ UNCHANGED <<head, tail, ring_empty, not_ring_full>>
DeqRing ==
  /\ head' = NextSlot(head)
  /\ not_ring_full' = TRUE
  /\ ring_empty' = (NextSlot(head) = tail)
  /\ UNCHANGED <<tail, hasodata>>
EnqFirst ==
  /\ hasodata' = TRUE
  /\ UNCHANGED <<head, tail, ring_empty, not_ring_full>>
EnqRing ==
  IF not_ring_full
    THEN /\ tail' = NextSlot(tail)
         /\ ring_empty' = FALSE
         /\ not_ring_full' = (NextSlot(tail) # head)
         /\ UNCHANGED <<head, hasodata>>
    ELSE UNCHANGED control

MoveControl(deq, enq) ==
  CASE deq /\ enq /\ ~ring_empty  -> EnqDeqRing
    [] deq /\ ~enq /\ ring_empty  -> DeqLast
    [] deq /\ ~enq /\ ~ring_empty -> DeqRing
    [] ~deq /\ enq /\ ~hasodata   -> EnqFirst
    [] ~deq /\ enq /\ hasodata    -> EnqRing
    [] OTHER                      -> UNCHANGED control

(* The block of the data out register; it has no reset. *)
MutLoadHead(deq, v) ==
  D_OUT' = IF deq /\ ~ring_empty THEN arr[head]
           ELSE IF v # None /\ ~hasodata THEN v ELSE D_OUT

LoadHead(deq, v) ==
  D_OUT' = IF deq /\ ~ring_empty THEN arr[head]
           ELSE IF v # None /\ (deq \/ ~hasodata) THEN v ELSE D_OUT

(* The block of the memory array; it has no reset. *)
WriteRing(deq, v) ==
  arr' = IF v # None /\ (IF deq THEN ~ring_empty ELSE hasodata /\ not_ring_full)
           THEN [arr EXCEPT ![tail] = v] ELSE arr

(***************************************************************************)
(* A clock edge.  The reset is synchronous.  Only the control block knows  *)
(* of it; the data blocks go by CLR.                                       *)
(***************************************************************************)
Edge(RST, CLR, deq, v) ==
  /\ IF RST \/ CLR THEN ClearControl ELSE MoveControl(deq, v # None)
  /\ IF CLR THEN UNCHANGED <<D_OUT, arr>> ELSE LoadHead(deq, v) /\ WriteRing(deq, v)

(* An edge with inputs that are no error. *)
Tick(RST, CLR, deq, v) ==
  /\ Legal(hasodata, not_ring_full, deq, v)
  /\ Edge(RST, CLR, deq, v)
  /\ queue' = After(queue, RST \/ CLR, deq, v)

(***************************************************************************)
(* An enqueue to a full FIFO is an error of the caller (an unguarded FIFO  *)
(* does not prevent it); "fifo overflow causes loss of new data" only      *)
(* (SizedFIFO.v:153-155).                                                  *)
(***************************************************************************)
Overflow(v) ==
  /\ ~not_ring_full /\ v # None
  /\ Edge(FALSE, FALSE, FALSE, v)
  /\ UNCHANGED queue

Next ==
  \/ \E RST, CLR, deq \in BOOLEAN, v \in Data \cup {None} : Tick(RST, CLR, deq, v)
  \/ \E v \in Data : Overflow(v)

Spec == Init /\ [][Next]_vars

-----------------------------------------------------------------------------
(* Elements in the ring, from the pointers and the flag that tells full    *)
(* from empty; and the word k places behind the head.                      *)
InRing ==
  IF ring_empty THEN 0
  ELSE IF head < tail THEN tail - head ELSE tail - head + depthLess2 + 1
RingSlot(k) == IF head + k <= depthLess2 THEN head + k ELSE head + k - depthLess2 - 1

Contents ==
  IF ~hasodata THEN <<>>
  ELSE [k \in 1 .. InRing + 1 |-> IF k = 1 THEN D_OUT ELSE arr[RingSlot(k - 2)]]

TypeOK ==
  /\ arr \in [Slots -> Data \cup {None}]
  /\ head \in Slots /\ tail \in Slots
  /\ ring_empty \in BOOLEAN /\ not_ring_full \in BOOLEAN /\ hasodata \in BOOLEAN
  /\ D_OUT \in Data \cup {None}
  /\ queue \in Seq(Data)

(***************************************************************************)
(* Through any sequence of enqueues, dequeues, both at once, clears,       *)
(* resets and overflows, the FIFO holds exactly the elements it was given  *)
(* and not yet asked for, in order; D_OUT shows the first of them.         *)
(***************************************************************************)
HoldsQueue == Contents = queue

(* EMPTY_N and FULL_N are exact: an element is shown if there is one, and  *)
(* room is shown as long as fewer than p2depth are held.                   *)
FlagsExact ==
  /\ hasodata <=> queue # <<>>
  /\ not_ring_full <=> Len(queue) < p2depth

(***************************************************************************)
(* The inductive strengthening: the two flags tell the cases of head =     *)
(* tail apart, and the ring is in use only behind a loaded register.       *)
(***************************************************************************)
RingConsistent ==
  /\ ring_empty => head = tail /\ not_ring_full
  /\ ~not_ring_full => head = tail
  /\ head = tail => ring_empty \/ ~not_ring_full
  /\ ~hasodata => ring_empty
=============================================================================
