----------------------------- MODULE SizedFIFO0 -----------------------------
(***************************************************************************)
(* The FIFO of Verilog/SizedFIFO0.v, whose elements have no bits: a count  *)
(* and two flags.  SizedFIFOL0.v has the same registers; FIFO10, FIFOL10,  *)
(* FIFO20 and FIFOL20 are FIFO1 and FIFO2 without the data block.          *)
(***************************************************************************)
EXTENDS QueueStep

CONSTANTS
  Token,      \* the one element, in Data
  truedepth   \* localparam: the depth asked for, or 2; two at least

VARIABLES
  count, not_empty, not_full,
  queue        \* history: the queue the inputs amount to

vars == <<count, not_empty, not_full, queue>>

ClearControl == count' = 0 /\ not_empty' = FALSE /\ not_full' = TRUE

Init == count = 0 /\ not_empty = FALSE /\ not_full = TRUE /\ queue = <<>>

Deq ==
  /\ not_full'  = TRUE
  /\ not_empty' = (count # 1)
  /\ count'     = count - 1

Enq ==
  /\ not_empty' = TRUE
  /\ not_full'  = (count # truedepth - 1)
  /\ count'     = count + 1

MoveControl(ENQ, DEQ) ==
  \/ DEQ /\ ~ENQ /\ not_empty /\ Deq
  \/ ENQ /\ ~DEQ /\ not_full /\ Enq
  \/ /\ ~(DEQ /\ ~ENQ /\ not_empty) /\ ~(ENQ /\ ~DEQ /\ not_full)
     /\ UNCHANGED <<count, not_empty, not_full>>

Tick(RST, CLR, deq, v) ==
  /\ Legal(not_empty, not_full, deq, v)
  /\ \/ (RST \/ CLR) /\ ClearControl
     \/ ~(RST \/ CLR) /\ MoveControl(v # None, deq)
  /\ queue' = After(queue, RST \/ CLR, deq, v)

Next == \E RST, CLR, deq \in BOOLEAN, v \in {Token, None} : Tick(RST, CLR, deq, v)

-----------------------------------------------------------------------------
(* The count is the number of elements, and the flags tell its two limits  *)
(* whatever came at one edge (SizedFIFO0.v:58-89).                         *)
HoldsQueue ==
  /\ count = Len(queue)
  /\ not_empty = (queue # <<>>)
  /\ not_full = (Len(queue) < truedepth)
=============================================================================
