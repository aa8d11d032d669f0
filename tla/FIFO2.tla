------------------------------- MODULE FIFO2 -------------------------------
(***************************************************************************)
(* The two-place FIFO of Verilog/FIFO2.v, and of FIFOL2.v, whose registers *)
(* are the same: the head in data0_reg, the element behind it in           *)
(* data1_reg.  empty_reg is "not empty", full_reg is "not full".           *)
(***************************************************************************)
EXTENDS QueueStep

VARIABLES
  full_reg, empty_reg, data0_reg, data1_reg,
  queue               \* history: the queue the inputs amount to

vars == <<full_reg, empty_reg, data0_reg, data1_reg, queue>>

(* Where data0_reg is loaded from: the input, data1_reg, itself. *)
Mutd0di(ENQ, DEQ) == ENQ /\ ~empty_reg
d0di(ENQ, DEQ) == (ENQ /\ ~empty_reg) \/ (ENQ /\ DEQ /\ full_reg)
d0d1(DEQ)      == DEQ /\ ~full_reg
d0h(ENQ, DEQ)  == (~DEQ /\ ~ENQ) \/ (~DEQ /\ empty_reg) \/ (~ENQ /\ full_reg)
d1di(ENQ)      == ENQ /\ empty_reg

Init ==
  /\ full_reg = TRUE /\ empty_reg = FALSE
  /\ data0_reg = None /\ data1_reg = None
  /\ queue = <<>>

(* The control block; with both enqueue and dequeue the level stays. *)
Control(RST, CLR, ENQ, DEQ) ==
  IF RST \/ CLR THEN empty_reg' = FALSE /\ full_reg' = TRUE
  ELSE IF ENQ /\ ~DEQ THEN empty_reg' = TRUE /\ full_reg' = ~empty_reg
  ELSE IF DEQ /\ ~ENQ THEN full_reg' = TRUE /\ empty_reg' = ~full_reg
  ELSE UNCHANGED <<full_reg, empty_reg>>

(***************************************************************************)
(* The data block.  data0_reg is an or of its masked sources: no element   *)
(* unless exactly one word is selected.                                    *)
(***************************************************************************)
LoadData(v, ENQ, DEQ) ==
  LET selected == {w \in {v, data1_reg, data0_reg} :
                     \/ w = v /\ d0di(ENQ, DEQ)
                     \/ w = data1_reg /\ d0d1(DEQ)
                     \/ w = data0_reg /\ d0h(ENQ, DEQ)}
  IN  /\ data0_reg' \in IF \E w \in selected : selected = {w} THEN selected ELSE {None}
      /\ data1_reg' = IF d1di(ENQ) THEN v ELSE data1_reg

Tick(RST, CLR, deq, v) ==
  /\ Legal(empty_reg, full_reg, deq, v)
  /\ Control(RST, CLR, v # None, deq)
  /\ LoadData(v, v # None, deq)
  /\ queue' = After(queue, RST \/ CLR, deq, v)

Next == \E RST, CLR, deq \in BOOLEAN, v \in Data \cup {None} : Tick(RST, CLR, deq, v)

Spec == Init /\ [][Next]_vars

-----------------------------------------------------------------------------
Contents ==
  IF ~empty_reg THEN <<>>
  ELSE IF full_reg THEN <<data0_reg>> ELSE <<data0_reg, data1_reg>>

(* Both flags down would be an empty FIFO that is full. *)
TypeOK ==
  /\ full_reg \in BOOLEAN /\ empty_reg \in BOOLEAN
  /\ full_reg \/ empty_reg
  /\ data0_reg \in Data \cup {None} /\ data1_reg \in Data \cup {None}
  /\ queue \in Seq(Data)

(* Through any sequence of enqueues, dequeues, both at once, clears and    *)
(* resets the FIFO holds exactly what it was given and not yet asked for,  *)
(* in order, although data0_reg is loaded by three overlapping conditions. *)
HoldsQueue == Contents = queue
=============================================================================
