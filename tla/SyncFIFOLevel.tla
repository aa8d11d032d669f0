--------------------------- MODULE SyncFIFOLevel ---------------------------
(***************************************************************************)
(* The FIFO between two clock domains with counts and clears of            *)
(* Verilog/SyncFIFOLevel.v (SyncFIFOLevel0.v is the same without data).    *)
(* Its queue works as that of SyncFIFO.  Either side may clear it: the     *)
(* request crosses to the other side through a SyncHandshake, and each     *)
(* side holds its pointer at zero as long as its own request is under way. *)
(***************************************************************************)
EXTENDS FIFOPointers

CONSTANT Skew  \* flops of different synchronizers may capture a coincident
               \* edge differently, as in hardware; simulators capture the old
               \* value with all; and every word is the Code of a position,
               \* so that Position is defined

VARIABLES
  rst,                               \* the asynchronous reset, one for both domains
  fifoMem,
  sBEnqPtr, sNotFullReg, sCountReg,  \* enqueue pointer, outputs sFULL_N, sCOUNT
  sSyncReg1, sDeqPtr,                \* the dequeue pointer as the source sees it
  dBDeqPtr, dNotEmptyReg, dCountReg, \* dequeue pointer, outputs dEMPTY_N, dCOUNT
  dDoutReg,                          \* output dD_OUT
  dSyncReg1, dEnqPtr,                \* the enqueue pointer as the destination sees it
  sToggle, sAck1, sAck2, dReq1, dReq2, dDone,  \* flops of sClrSync
  dToggle, dAck1, dAck2, sReq1, sReq2, sDone,  \* flops of dClrSync
  queue                              \* history: the queue the inputs amount to

sClrSync == INSTANCE SyncHandshake
  WITH sToggleReg <- sToggle, sSyncReg1 <- sAck1, sSyncReg2 <- sAck2,
       dSyncReg1 <- dReq1, dSyncReg2 <- dReq2, dLastState <- dDone,
       DelayReturn <- TRUE, InitVal <- 0, MaxSends <- 0, sent <- 0, seen <- 0
dClrSync == INSTANCE SyncHandshake
  WITH sToggleReg <- dToggle, sSyncReg1 <- dAck1, sSyncReg2 <- dAck2,
       dSyncReg1 <- sReq1, dSyncReg2 <- sReq2, dLastState <- sDone,
       DelayReturn <- TRUE, InitVal <- 0, MaxSends <- 0, sent <- 0, seen <- 0

sVars == <<fifoMem, sBEnqPtr, sNotFullReg, sCountReg, sSyncReg1, sDeqPtr,
           sToggle, sAck1, sAck2, sReq1, sReq2, sDone>>
dVars == <<dBDeqPtr, dNotEmptyReg, dCountReg, dDoutReg, dSyncReg1, dEnqPtr,
           dToggle, dAck1, dAck2, dReq1, dReq2, dDone>>
vars  == <<rst, sVars, dVars, queue>>

sCLR_RDY == sClrSync!sRDY
dCLR_RDY == dClrSync!sRDY

MutClear(clr) == clr \/ dClrSync!dPulse
sClear(clr) == clr \/ ~sCLR_RDY \/ dClrSync!dPulse
dClear(clr) == clr \/ ~dCLR_RDY \/ sClrSync!dPulse

(* The flags compare Gray words, the counts subtract binary pointers. *)
NotFullAt(p)  == FlipTop2(Width, Code[p]) # sDeqPtr
MutCountLate(p) == Behind(sBEnqPtr, Position(sDeqPtr))
sCountAt(p)   == Behind(p, Position(sDeqPtr))
dNextNotEmpty == Code[dBDeqPtr] # dEnqPtr
dNextCnt      == Behind(Position(dEnqPtr), dBDeqPtr)
Fetch(deq)    == (~dNotEmptyReg \/ deq) /\ dNextNotEmpty

NextEnq(v, clr) ==
  IF sClear(clr) THEN 0 ELSE IF v # None THEN Succ(sBEnqPtr) ELSE sBEnqPtr
NextDeq(deq, clr) ==
  IF dClear(clr) THEN 0 ELSE IF Fetch(deq) THEN Succ(dBDeqPtr) ELSE dBDeqPtr

Init ==
  /\ rst = TRUE
  /\ fifoMem = [a \in 0 .. Depth - 1 |-> None] /\ dDoutReg = None
  /\ sBEnqPtr = 0 /\ sNotFullReg = FALSE /\ sCountReg = 0
  /\ dBDeqPtr = 0 /\ dNotEmptyReg = FALSE /\ dCountReg = 0
  /\ sSyncReg1 = Code[0] /\ sDeqPtr = Code[0] /\ dSyncReg1 = Code[0] /\ dEnqPtr = Code[0]
  /\ sToggle = 0 /\ sAck1 = 1 /\ sAck2 = 1 /\ dReq1 = 0 /\ dReq2 = 0 /\ dDone = 0
  /\ dToggle = 0 /\ dAck1 = 1 /\ dAck2 = 1 /\ sReq1 = 0 /\ sReq2 = 0 /\ sDone = 0
  /\ queue = <<>>

(***************************************************************************)
(* The source always blocks: v is sD_IN with sENQ, or None; clr is sCLR;   *)
(* deqPtr, ack and req are what the crossing flops capture.  The memory is *)
(* written under a clear too.                                              *)
(***************************************************************************)
SrcEdge(v, clr, deqPtr, ack, req) ==
  /\ v # None => sNotFullReg
  /\ clr => sCLR_RDY
  /\ fifoMem'     = IF v # None THEN [fifoMem EXCEPT ![Addr(sBEnqPtr)] = v] ELSE fifoMem
  /\ sBEnqPtr'    = NextEnq(v, clr)
  /\ sNotFullReg' = (~sClear(clr) /\ NotFullAt(NextEnq(v, clr)))
  /\ sCountReg'   = IF sClear(clr) THEN 0 ELSE sCountAt(NextEnq(v, clr))
  /\ sSyncReg1'   = deqPtr
  /\ sDeqPtr'     = sSyncReg1
  /\ sClrSync!SrcEdge(clr, ack)
  /\ dClrSync!DstEdge(req)

(***************************************************************************)
(* The destination always blocks; head is the value read from the memory,  *)
(* which loads dDoutReg under a clear too.                                 *)
(***************************************************************************)
DstEdge(deq, clr, enqPtr, head, ack, req) ==
  /\ deq => dNotEmptyReg
  /\ clr => dCLR_RDY
  /\ dBDeqPtr'     = NextDeq(deq, clr)
  /\ dNotEmptyReg' = (~dClear(clr) /\ (Fetch(deq) \/ (dNotEmptyReg /\ ~deq)))
  /\ dCountReg'    = IF dClear(clr) \/ (deq /\ ~dNextNotEmpty) THEN 0 ELSE dNextCnt
  /\ dDoutReg'     = IF Fetch(deq) THEN head ELSE dDoutReg
  /\ dSyncReg1'    = enqPtr
  /\ dEnqPtr'      = dSyncReg1
  /\ dClrSync!SrcEdge(clr, ack)
  /\ sClrSync!DstEdge(req)

(***************************************************************************)
(* A clear empties the queue when it is requested, and the source's side   *)
(* of it as long as it lasts.  What the destination still takes before a   *)
(* clear reaches it is no longer in the queue.                             *)
(***************************************************************************)
Takes(deq) == deq /\ queue # <<>>

SrcTick(v, clr) ==
  /\ ~rst
  /\ SrcEdge(v, clr, Code[dBDeqPtr], dDone, dToggle)
  /\ queue' = After(queue, sClear(clr), FALSE, v)
  /\ UNCHANGED <<rst, dVars>>

DstTick(deq, clr) ==
  /\ ~rst
  /\ DstEdge(deq, clr, Code[sBEnqPtr], fifoMem[Addr(dBDeqPtr)], sDone, sToggle)
  /\ queue' = After(queue, clr, Takes(deq), None)
  /\ UNCHANGED <<rst, sVars>>

(* What may be captured of a flop, and of a pointer, at coincident edges. *)
Seen(old, new)    == IF Skew THEN {old, new} ELSE {old}
SeenPtr(old, new) == IF Skew THEN Capture(Code[old], Code[new]) ELSE {Code[old]}

(* Coincident edges; a word of the memory read while written is torn. *)
BothTick(v, sclr, deq, dclr) ==
  /\ ~rst
  /\ \E deqPtr \in SeenPtr(dBDeqPtr, NextDeq(deq, dclr)),
        ack \in Seen(dDone, dReq2),
        req \in Seen(dToggle, IF dclr THEN 1 - dToggle ELSE dToggle) :
       SrcEdge(v, sclr, deqPtr, ack, req)
  /\ \E enqPtr \in SeenPtr(sBEnqPtr, NextEnq(v, sclr)),
        head \in IF v # None /\ Addr(sBEnqPtr) = Addr(dBDeqPtr)
                   THEN Data ELSE {fifoMem[Addr(dBDeqPtr)]},
        ack \in Seen(sDone, sReq2),
        req \in Seen(sToggle, IF sclr THEN 1 - sToggle ELSE sToggle) :
       DstEdge(deq, dclr, enqPtr, head, ack, req)
  /\ queue' = After(queue, sClear(sclr) \/ dclr, Takes(deq), v)
  /\ UNCHANGED rst

AssertReset ==
  /\ rst' = TRUE
  /\ sBEnqPtr' = 0 /\ sNotFullReg' = FALSE /\ sCountReg' = 0
  /\ dBDeqPtr' = 0 /\ dNotEmptyReg' = FALSE /\ dCountReg' = 0
  /\ sSyncReg1' = Code[0] /\ sDeqPtr' = Code[0] /\ dSyncReg1' = Code[0] /\ dEnqPtr' = Code[0]
  /\ sClrSync!ResetRegs /\ dClrSync!ResetRegs
  /\ queue' = <<>>
  /\ UNCHANGED <<fifoMem, dDoutReg>>

ReleaseReset == rst /\ rst' = FALSE /\ UNCHANGED <<sVars, dVars, queue>>

Inputs == Data \cup {None}

Next ==
  \/ \E v \in Inputs, clr \in BOOLEAN : SrcTick(v, clr)
  \/ \E deq, clr \in BOOLEAN : DstTick(deq, clr)
  \/ \E v \in Inputs, sclr, deq, dclr \in BOOLEAN : BothTick(v, sclr, deq, dclr)
  \/ AssertReset
  \/ ReleaseReset

Spec == Init /\ [][Next]_vars

-----------------------------------------------------------------------------
(* Elements in the memory, by the true pointers, and all elements. *)
Stored   == Behind(sBEnqPtr, dBDeqPtr)
Contents == ContentsOf(fifoMem, sBEnqPtr, dBDeqPtr, dNotEmptyReg, dDoutReg)

(* No clear is under way on either side. *)
Settled == ~rst /\ sCLR_RDY /\ dCLR_RDY

TypeOK ==
  /\ sBEnqPtr \in Positions /\ dBDeqPtr \in Positions
  /\ sCountReg \in Positions /\ dCountReg \in Positions
  /\ {sSyncReg1, sDeqPtr, dSyncReg1, dEnqPtr} \subseteq Word(Width)
  /\ queue \in Seq(Data)

(***************************************************************************)
(* Whenever no clear is under way the FIFO holds exactly the elements      *)
(* enqueued since the last clear and not yet dequeued: none from before    *)
(* the clear reappears, none from after it is lost, whichever side asked,  *)
(* or both (SyncFIFOLevel.v:131-164).                                      *)
(***************************************************************************)
LevelHoldsQueue == Settled => Contents = queue

(***************************************************************************)
(* "dCount and sCount are also delayed" (SyncFIFOLevel.v:30-31), but err   *)
(* on the safe side: the source never sees fewer elements than the memory  *)
(* holds, the destination never more than there are; and both flags are    *)
(* pessimistic.                                                            *)
(***************************************************************************)
CountsSafe ==
  Settled =>
    /\ Stored <= sCountReg /\ sCountReg <= Depth
    /\ dCountReg <= Stored + Bit(dNotEmptyReg)
    /\ sNotFullReg => Stored < Depth

(* "FULL and EMPTY signal are pessimistic" (SyncFIFOLevel.v:27): with no   *)
(* clear under way, an element is shown only if there is one.              *)
ShownIsHeld == Settled /\ dNotEmptyReg => queue # <<>>
=============================================================================
