------------------------------- MODULE FIFO1 -------------------------------
(***************************************************************************)
(* The one-place FIFO of Verilog/FIFO1.v, and of FIFOL1.v, whose registers *)
(* are the same.  empty_reg is the flag "not empty".                       *)
(***************************************************************************)
EXTENDS QueueStep

VARIABLES
  empty_reg, D_OUT,
  queue               \* history: the queue the inputs amount to

vars == <<empty_reg, D_OUT, queue>>

FULL_N == ~empty_reg

Init == empty_reg = FALSE /\ D_OUT = None /\ queue = <<>>

(* The control block: an enqueue wins over a dequeue. *)
Control(RST, CLR, ENQ, DEQ) ==
  empty_reg' = IF RST \/ CLR THEN FALSE
               ELSE IF ENQ THEN TRUE
               ELSE IF DEQ THEN FALSE ELSE empty_reg

(* The data block: neither reset nor clear touches it. *)
LoadData(v) == D_OUT' = IF v # None THEN v ELSE D_OUT

Tick(RST, CLR, deq, v) ==
  /\ Legal(empty_reg, FULL_N, deq, v)
  /\ Control(RST, CLR, v # None, deq)
  /\ LoadData(v)
  /\ queue' = After(queue, RST \/ CLR, deq, v)

Next == \E RST, CLR, deq \in BOOLEAN, v \in Data \cup {None} : Tick(RST, CLR, deq, v)

Spec == Init /\ [][Next]_vars

-----------------------------------------------------------------------------
Contents == IF empty_reg THEN <<D_OUT>> ELSE <<>>

TypeOK ==
  /\ empty_reg \in BOOLEAN
  /\ D_OUT \in Data \cup {None} /\ (empty_reg => D_OUT \in Data)
  /\ queue \in Seq(Data)

(* Through any sequence of enqueues, dequeues, both at once, clears and    *)
(* resets the FIFO holds exactly what it was given and not yet asked for.  *)
HoldsQueue == Contents = queue
=============================================================================
