------------------------------ MODULE SyncFIFO ------------------------------
(***************************************************************************)
(* The FIFO between two clock domains of Verilog/SyncFIFO.v.  Each side    *)
(* owns a Gray counter; the other side sees it through two flops, late.    *)
(* The source compares its counter with the dequeue pointer it knows to    *)
(* tell that the memory is full, the destination likewise for empty.  The  *)
(* destination keeps the head of the FIFO in a register of its own.        *)
(*                                                                         *)
(* The Gray word of a pointer crosses bit by bit: at coincident edges each *)
(* bit is captured before or after the change.                             *)
(***************************************************************************)
EXTENDS FIFOPointers

VARIABLES
  rst,                    \* the asynchronous reset, one for both domains
  fifoMem,
  sGEnqPtr, sGEnqPtr1,    \* enqueue pointer and look-ahead
  sNotFullReg,            \* output sFULL_N
  sSyncReg1, sDeqPtr,     \* the dequeue pointer as the source sees it
  dGDeqPtr, dGDeqPtr1,    \* dequeue pointer and look-ahead
  dNotEmptyReg,           \* output dEMPTY_N
  dDoutReg,               \* output dD_OUT
  dSyncReg1, dEnqPtr,     \* the enqueue pointer as the destination sees it
  queue                   \* history: the queue the inputs amount to

sVars == <<fifoMem, sGEnqPtr, sGEnqPtr1, sNotFullReg, sSyncReg1, sDeqPtr>>
dVars == <<dGDeqPtr, dGDeqPtr1, dNotEmptyReg, dDoutReg, dSyncReg1, dEnqPtr>>
vars  == <<rst, sVars, dVars, queue>>

sNextNotFull   == FlipTop2(Width, Code[sGEnqPtr])  # sDeqPtr
sFutureNotFull == FlipTop2(Width, Code[sGEnqPtr1]) # sDeqPtr
dNextNotEmpty  == Code[dGDeqPtr] # dEnqPtr

MutFetchBlind(deq) == ~dNotEmptyReg \/ deq

(* The destination fetches the next element into the head register. *)
Fetch(deq) == (~dNotEmptyReg \/ deq) /\ dNextNotEmpty

MutResetForgetsSync ==
  /\ sGEnqPtr' = 0 /\ sGEnqPtr1' = 1 /\ sNotFullReg' = FALSE
  /\ dGDeqPtr' = 0 /\ dGDeqPtr1' = 1 /\ dNotEmptyReg' = FALSE
  /\ dSyncReg1' = Code[0] /\ dEnqPtr' = Code[0]
  /\ UNCHANGED <<sSyncReg1, sDeqPtr>>

(* Every register but the memory and the head has a reset value. *)
ResetRegs ==
  /\ sGEnqPtr' = 0 /\ sGEnqPtr1' = 1 /\ sNotFullReg' = FALSE
  /\ sSyncReg1' = Code[0] /\ sDeqPtr' = Code[0]
  /\ dGDeqPtr' = 0 /\ dGDeqPtr1' = 1 /\ dNotEmptyReg' = FALSE
  /\ dSyncReg1' = Code[0] /\ dEnqPtr' = Code[0]

Init ==
  /\ rst = TRUE
  /\ fifoMem = [a \in 0 .. Depth - 1 |-> None] /\ dDoutReg = None
  /\ sGEnqPtr = 0 /\ sGEnqPtr1 = 1 /\ sNotFullReg = FALSE
  /\ sSyncReg1 = Code[0] /\ sDeqPtr = Code[0]
  /\ dGDeqPtr = 0 /\ dGDeqPtr1 = 1 /\ dNotEmptyReg = FALSE
  /\ dSyncReg1 = Code[0] /\ dEnqPtr = Code[0]
  /\ queue = <<>>

(***************************************************************************)
(* The source always blocks: v is the element enqueued, or None; deqPtr is *)
(* the word the first return flop captures.                                *)
(***************************************************************************)
MutSrcLookAheadStays(v, deqPtr) ==
  /\ v # None => sNotFullReg
  /\ sSyncReg1' = deqPtr /\ sDeqPtr' = sSyncReg1
  /\ IF v # None
       THEN /\ fifoMem' = [fifoMem EXCEPT ![Addr(sGEnqPtr)] = v]
            /\ sGEnqPtr' = sGEnqPtr1 /\ UNCHANGED sGEnqPtr1
            /\ sNotFullReg' = sFutureNotFull
       ELSE sNotFullReg' = sNextNotFull /\ UNCHANGED <<fifoMem, sGEnqPtr, sGEnqPtr1>>
MutSrcFullLate(v, deqPtr) ==
  /\ v # None => sNotFullReg
  /\ sSyncReg1' = deqPtr /\ sDeqPtr' = sSyncReg1
  /\ sNotFullReg' = sNextNotFull
  /\ IF v # None
       THEN /\ fifoMem' = [fifoMem EXCEPT ![Addr(sGEnqPtr)] = v]
            /\ sGEnqPtr' = sGEnqPtr1 /\ sGEnqPtr1' = Succ(sGEnqPtr1)
       ELSE UNCHANGED <<fifoMem, sGEnqPtr, sGEnqPtr1>>
MutSrcNoSecondFlop(v, deqPtr) ==
  /\ v # None => sNotFullReg
  /\ sSyncReg1' = deqPtr /\ UNCHANGED sDeqPtr
  /\ IF v # None
       THEN /\ fifoMem' = [fifoMem EXCEPT ![Addr(sGEnqPtr)] = v]
            /\ sGEnqPtr' = sGEnqPtr1 /\ sGEnqPtr1' = Succ(sGEnqPtr1)
            /\ sNotFullReg' = sFutureNotFull
       ELSE sNotFullReg' = sNextNotFull /\ UNCHANGED <<fifoMem, sGEnqPtr, sGEnqPtr1>>

SrcEdge(v, deqPtr) ==
  /\ v # None => sNotFullReg
  /\ sSyncReg1' = deqPtr
  /\ sDeqPtr'   = sSyncReg1
  /\ IF v # None
       THEN /\ fifoMem'     = [fifoMem EXCEPT ![Addr(sGEnqPtr)] = v]
            /\ sGEnqPtr'    = sGEnqPtr1
            /\ sGEnqPtr1'   = Succ(sGEnqPtr1)
            /\ sNotFullReg' = sFutureNotFull
       ELSE /\ sNotFullReg' = sNextNotFull
            /\ UNCHANGED <<fifoMem, sGEnqPtr, sGEnqPtr1>>

(***************************************************************************)
(* The destination always blocks: deq is dDEQ, enqPtr the word captured by *)
(* the first flop, head the value read from the memory.                    *)
(***************************************************************************)
MutDstKeepsHead(deq, enqPtr, head) ==
  /\ deq => dNotEmptyReg
  /\ dSyncReg1' = enqPtr /\ dEnqPtr' = dSyncReg1
  /\ dDoutReg' = IF Fetch(deq) /\ ~dNotEmptyReg THEN head ELSE dDoutReg
  /\ IF Fetch(deq)
       THEN dGDeqPtr' = dGDeqPtr1 /\ dGDeqPtr1' = Succ(dGDeqPtr1) /\ dNotEmptyReg' = TRUE
       ELSE dNotEmptyReg' = (dNotEmptyReg /\ ~deq) /\ UNCHANGED <<dGDeqPtr, dGDeqPtr1>>
MutDstNoSecondFlop(deq, enqPtr, head) ==
  /\ deq => dNotEmptyReg
  /\ dSyncReg1' = enqPtr /\ UNCHANGED dEnqPtr
  /\ IF Fetch(deq)
       THEN /\ dGDeqPtr' = dGDeqPtr1 /\ dGDeqPtr1' = Succ(dGDeqPtr1)
            /\ dNotEmptyReg' = TRUE /\ dDoutReg' = head
       ELSE /\ dNotEmptyReg' = (dNotEmptyReg /\ ~deq)
            /\ UNCHANGED <<dGDeqPtr, dGDeqPtr1, dDoutReg>>

DstEdge(deq, enqPtr, head) ==
  /\ deq => dNotEmptyReg
  /\ dSyncReg1' = enqPtr
  /\ dEnqPtr'   = dSyncReg1
  /\ IF Fetch(deq)
       THEN /\ dGDeqPtr'     = dGDeqPtr1
            /\ dGDeqPtr1'    = Succ(dGDeqPtr1)
            /\ dNotEmptyReg' = TRUE
            /\ dDoutReg'     = head
       ELSE /\ dNotEmptyReg' = (dNotEmptyReg /\ ~deq)
            /\ UNCHANGED <<dGDeqPtr, dGDeqPtr1, dDoutReg>>

SrcTick(v) ==
  /\ ~rst
  /\ SrcEdge(v, Code[dGDeqPtr])
  /\ queue' = After(queue, FALSE, FALSE, v)
  /\ UNCHANGED <<rst, dVars>>

DstTick(deq) ==
  /\ ~rst
  /\ DstEdge(deq, Code[sGEnqPtr], fifoMem[Addr(dGDeqPtr)])
  /\ queue' = After(queue, FALSE, deq, None)
  /\ UNCHANGED <<rst, sVars>>

(***************************************************************************)
(* Coincident edges.  Were the word the head is read from the one being    *)
(* written, the head would be torn: any value.                             *)
(***************************************************************************)
BothTick(v, deq) ==
  /\ ~rst
  /\ \E deqPtr \in Capture(Code[dGDeqPtr],
                           IF Fetch(deq) THEN Code[dGDeqPtr1] ELSE Code[dGDeqPtr]) :
       SrcEdge(v, deqPtr)
  /\ \E enqPtr \in Capture(Code[sGEnqPtr],
                           IF v # None THEN Code[sGEnqPtr1] ELSE Code[sGEnqPtr]) :
     \E head \in IF v # None /\ Addr(sGEnqPtr) = Addr(dGDeqPtr)
                   THEN Data ELSE {fifoMem[Addr(dGDeqPtr)]} :
       DstEdge(deq, enqPtr, head)
  /\ queue' = After(queue, FALSE, deq, v)
  /\ UNCHANGED rst

AssertReset  == rst' = TRUE /\ ResetRegs /\ queue' = <<>> /\ UNCHANGED <<fifoMem, dDoutReg>>
ReleaseReset == rst /\ rst' = FALSE /\ UNCHANGED <<sVars, dVars, queue>>

Next ==
  \/ \E v \in Data \cup {None} : SrcTick(v)
  \/ \E deq \in BOOLEAN : DstTick(deq)
  \/ \E v \in Data \cup {None}, deq \in BOOLEAN : BothTick(v, deq)
  \/ AssertReset
  \/ ReleaseReset

(* Both clocks keep running; neither side is obliged to use the FIFO. *)
SrcClock == \E v \in Data \cup {None} : SrcTick(v) \/ \E deq \in BOOLEAN : BothTick(v, deq)
DstClock == \E deq \in BOOLEAN : DstTick(deq) \/ \E v \in Data \cup {None} : BothTick(v, deq)

Spec     == Init /\ [][Next]_vars
FairSpec == Spec /\ WF_vars(SrcClock) /\ WF_vars(DstClock)

-----------------------------------------------------------------------------
(* Elements in the memory, by the true pointers. *)
Stored == Behind(sGEnqPtr, dGDeqPtr)

(* The elements in the FIFO. *)
Contents == ContentsOf(fifoMem, sGEnqPtr, dGDeqPtr, dNotEmptyReg, dDoutReg)

(* Pointers are positions, crossing registers Gray words of positions, and *)
(* the look-aheads one step ahead.                                         *)
TypeOK ==
  /\ rst \in BOOLEAN /\ sNotFullReg \in BOOLEAN /\ dNotEmptyReg \in BOOLEAN
  /\ sGEnqPtr \in Positions /\ sGEnqPtr1 = Succ(sGEnqPtr)
  /\ dGDeqPtr \in Positions /\ dGDeqPtr1 = Succ(dGDeqPtr)
  /\ {sSyncReg1, sDeqPtr, dSyncReg1, dEnqPtr} \subseteq {Code[p] : p \in Positions}
  /\ fifoMem \in [0 .. Depth - 1 -> Data \cup {None}]
  /\ dDoutReg \in Data \cup {None}

(***************************************************************************)
(* "FULL and EMPTY signal are pessimistic" (SyncFIFO.v:27-29): an enqueue  *)
(* that is allowed finds a free word, and an element that is shown has     *)
(* been enqueued; the memory never holds more than Depth elements.         *)
(***************************************************************************)
Pessimistic ==
  /\ Stored <= Depth
  /\ sNotFullReg => Stored < Depth
  /\ Contents \in Seq(Data)

(* Whatever the clocks do, the FIFO holds exactly the elements enqueued    *)
(* and not yet dequeued since the last reset: nothing lost, doubled, torn  *)
(* or out of order (SyncFIFO.v:101-193).                                   *)
HoldsQueue == Contents = queue

(* Seen from outside it is a queue of Depth + 1 elements: it never takes   *)
(* more, and lets an element go only when it has one.                      *)
Queue == INSTANCE BoundedQueue WITH q <- Contents, Capacity <- Depth + 1
IsQueue == Queue!Spec

(* An element enqueued is eventually shown, unless reset.                  *)
ElementsArrive == Contents # <<>> ~> (dNotEmptyReg \/ rst)

(* Room made in the memory is eventually seen by the source.               *)
RoomReturns == Stored < Depth ~> (sNotFullReg \/ rst)

(***************************************************************************)
(* The inductive strengthening: seen from the enqueue pointer backwards,   *)
(* the pointers and their synchronized copies lie in the order             *)
(*   enqueue, its copies, dequeue, its copies                              *)
(* and the whole spans at most Depth.                                      *)
(***************************************************************************)
Lag(w) == Behind(sGEnqPtr, Position(w))

PointersOrdered ==
  /\ Lag(dSyncReg1) <= Lag(dEnqPtr)
  /\ Lag(dEnqPtr)   <= Stored
  /\ Stored         <= Lag(sSyncReg1)
  /\ Lag(sSyncReg1) <= Lag(sDeqPtr)
  /\ Lag(sDeqPtr)   <= Depth
  /\ sNotFullReg => Lag(sDeqPtr) < Depth
=============================================================================
