----------------------------- MODULE SyncFIFO1 -----------------------------
(***************************************************************************)
(* The one-place FIFO between two clock domains of Verilog/SyncFIFO1.v     *)
(* (SyncFIFO10.v is the same without the word).  Each side flips a toggle  *)
(* when it acts and sees the other side's toggle through two flops: the    *)
(* place is taken while the toggles differ.  The word itself crosses to    *)
(* the output dD_OUT with no flop at all.                                  *)
(*                                                                         *)
(* Unlike the deeper FIFOs this one tests its flags before it acts, so the *)
(* inputs here are any: sENQ when full and dDEQ when empty do nothing.     *)
(***************************************************************************)
EXTENDS QueueStep

CONSTANT Zero      \* the word of a FIFO in reset

ASSUME ZeroAssumption == Zero \in Data

VARIABLES
  rst,                               \* the asynchronous reset, one for both domains
  syncFIFO1Data,                     \* the word, in the source domain
  sEnqToggle, sDeqToggle, sSyncReg1, \* source flops
  dEnqToggle, dDeqToggle, dSyncReg1, \* destination flops
  queue,     \* history: the queue the inputs amount to
  dEdges     \* history: destination edges since the word was written, up to EdgeCap

sRegs == <<syncFIFO1Data, sEnqToggle, sDeqToggle, sSyncReg1>>
dRegs == <<dEnqToggle, dDeqToggle, dSyncReg1>>
vars  == <<rst, sRegs, dRegs, queue, dEdges>>

EdgeCap == 2     \* bound of the history counter dEdges

sFULL_N  == sEnqToggle = sDeqToggle
dEMPTY_N == dEnqToggle # dDeqToggle

(* The FIFO is marked as full during reset: sDeqToggle alone starts at 1. *)
Init ==
  /\ rst = TRUE
  /\ syncFIFO1Data = Zero
  /\ sEnqToggle = FALSE /\ sSyncReg1 = FALSE /\ sDeqToggle = TRUE
  /\ dEnqToggle = FALSE /\ dDeqToggle = FALSE /\ dSyncReg1 = FALSE
  /\ queue = <<>> /\ dEdges = 0

MutEnqBlind(v) == v # None

(* The tests of the always blocks: v is sD_IN with sENQ, or None; deq is dDEQ. *)
Enqueues(v)   == v # None /\ sFULL_N
Dequeues(deq) == deq /\ dEMPTY_N

MutSrcNoReturnFlop(v, deqToggle) ==
  /\ syncFIFO1Data' = IF Enqueues(v) THEN v ELSE syncFIFO1Data
  /\ sEnqToggle' = (sEnqToggle # Enqueues(v))
  /\ sSyncReg1'  = deqToggle
  /\ UNCHANGED sDeqToggle

(* The source block; the first return flop captures deqToggle. *)
SrcEdge(v, deqToggle) ==
  /\ syncFIFO1Data' = IF Enqueues(v) THEN v ELSE syncFIFO1Data
  /\ sEnqToggle' = (sEnqToggle # Enqueues(v))
  /\ sSyncReg1'  = deqToggle
  /\ sDeqToggle' = sSyncReg1

MutDstOneFlop(deq, enqToggle) ==
  /\ dDeqToggle' = (dDeqToggle # Dequeues(deq))
  /\ dSyncReg1'  = enqToggle
  /\ dEnqToggle' = enqToggle

(* The destination block; its first flop captures enqToggle. *)
DstEdge(deq, enqToggle) ==
  /\ dDeqToggle' = (dDeqToggle # Dequeues(deq))
  /\ dSyncReg1'  = enqToggle
  /\ dEnqToggle' = dSyncReg1

Accepted(v) == IF Enqueues(v) THEN v ELSE None
CountEdge   == IF dEdges < EdgeCap THEN dEdges + 1 ELSE dEdges

SrcTick(v) ==
  /\ ~rst
  /\ SrcEdge(v, dDeqToggle)
  /\ queue' = After(queue, FALSE, FALSE, Accepted(v))
  /\ dEdges' = IF Enqueues(v) THEN 0 ELSE dEdges
  /\ UNCHANGED <<rst, dRegs>>

DstTick(deq) ==
  /\ ~rst
  /\ DstEdge(deq, sEnqToggle)
  /\ queue' = After(queue, FALSE, Dequeues(deq), None)
  /\ dEdges' = CountEdge
  /\ UNCHANGED <<rst, sRegs>>

(* Coincident edges: each crossing flop captures the old or the new toggle. *)
BothTick(v, deq) ==
  /\ ~rst
  /\ \E deqToggle \in {dDeqToggle, dDeqToggle # Dequeues(deq)} : SrcEdge(v, deqToggle)
  /\ \E enqToggle \in {sEnqToggle, sEnqToggle # Enqueues(v)} : DstEdge(deq, enqToggle)
  /\ queue' = After(queue, FALSE, Dequeues(deq), Accepted(v))
  /\ dEdges' = IF Enqueues(v) THEN 1 ELSE CountEdge
  /\ UNCHANGED rst

AssertReset ==
  /\ rst' = TRUE
  /\ syncFIFO1Data' = Zero
  /\ sEnqToggle' = FALSE /\ sSyncReg1' = FALSE /\ sDeqToggle' = TRUE
  /\ dEnqToggle' = FALSE /\ dDeqToggle' = FALSE /\ dSyncReg1' = FALSE
  /\ queue' = <<>> /\ dEdges' = 0

ReleaseReset == rst /\ rst' = FALSE /\ UNCHANGED <<sRegs, dRegs, queue, dEdges>>

Inputs == Data \cup {None}

Next ==
  \/ \E v \in Inputs : SrcTick(v)
  \/ \E deq \in BOOLEAN : DstTick(deq)
  \/ \E v \in Inputs, deq \in BOOLEAN : BothTick(v, deq)
  \/ AssertReset
  \/ ReleaseReset

(* Both clocks keep running; neither side is obliged to use the FIFO. *)
SrcClock == \E v \in Inputs : SrcTick(v) \/ \E deq \in BOOLEAN : BothTick(v, deq)
DstClock == \E deq \in BOOLEAN : DstTick(deq) \/ \E v \in Inputs : BothTick(v, deq)

Spec     == Init /\ [][Next]_vars
FairSpec == Spec /\ WF_vars(SrcClock) /\ WF_vars(DstClock)

-----------------------------------------------------------------------------
(* By the true toggles, the place is taken while they differ. *)
Contents == IF sEnqToggle = dDeqToggle THEN <<>> ELSE <<syncFIFO1Data>>

(* Toggles are bits, the word a word of the data. *)
TypeOK ==
  /\ rst \in BOOLEAN
  /\ syncFIFO1Data \in Data
  /\ sEnqToggle \in BOOLEAN /\ sDeqToggle \in BOOLEAN /\ sSyncReg1 \in BOOLEAN
  /\ dEnqToggle \in BOOLEAN /\ dDeqToggle \in BOOLEAN /\ dSyncReg1 \in BOOLEAN
  /\ dEdges \in 0 .. EdgeCap

(* The word and the toggles hold exactly the element accepted and not yet  *)
(* taken: none is lost, doubled or torn (SyncFIFO1.v:67-95).               *)
HoldsQueue == Contents = queue

(***************************************************************************)
(* dD_OUT is read with no flop between the domains (SyncFIFO1.v:63): an    *)
(* element that is shown was written two destination edges ago or more,    *)
(* and the source cannot overwrite it at the edge that takes it.           *)
(***************************************************************************)
WordSettled == dEMPTY_N => dEdges = EdgeCap /\ ~sFULL_N

(* An element accepted is eventually shown, and a place freed is           *)
(* eventually seen free, the "full" of the reset included                  *)
(* (SyncFIFO1.v:72): unless reset again.                                   *)
FlagsFollow ==
  /\ queue # <<>> ~> (dEMPTY_N \/ rst)
  /\ queue = <<>> /\ ~rst ~> (sFULL_N \/ rst)

(* Seen from outside it is a queue of one place. *)
Queue == INSTANCE BoundedQueue WITH q <- Contents, Capacity <- 1
IsQueue == Queue!Spec

(***************************************************************************)
(* The inductive strengthening: a ring of six toggles in the order         *)
(*   sEnqToggle, dSyncReg1, dEnqToggle, dDeqToggle, sSyncReg1, sDeqToggle  *)
(* in which one link at most carries a change, which moves on at the edges *)
(* of its side while dEdges counts them.                                   *)
(***************************************************************************)
OneWave ==
  /\ sEnqToggle # dSyncReg1 => dSyncReg1 = dEnqToggle /\ dEnqToggle = dDeqToggle
                                 /\ dDeqToggle = sSyncReg1 /\ sSyncReg1 = sDeqToggle
  /\ dSyncReg1 # dEnqToggle => dEnqToggle = dDeqToggle /\ dDeqToggle = sSyncReg1
                                 /\ sSyncReg1 = sDeqToggle
  /\ dEnqToggle # dDeqToggle => dDeqToggle = sSyncReg1 /\ sSyncReg1 = sDeqToggle
  /\ dDeqToggle # sSyncReg1  => sSyncReg1 = sDeqToggle

IInv ==
  /\ TypeOK
  /\ OneWave
  /\ HoldsQueue
  /\ dSyncReg1 # dEnqToggle  => dEdges >= 1
  /\ dEnqToggle # dDeqToggle => dEdges = 2
=============================================================================
