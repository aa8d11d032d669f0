--------------------------- MODULE SyncFIFOProofs ---------------------------
(***************************************************************************)
(* The synchronizing FIFO never overflows its memory and is a queue, for   *)
(* every depth, every counter code that changes one bit per step, and any  *)
(* relation of the clocks.                                                 *)
(***************************************************************************)
EXTENDS SyncFIFO, FIFOPointersProofs

-----------------------------------------------------------------------------
(* The steps of the two sides.                                             *)

(* The invariant but for the data. *)
PInv == TypeOK /\ PointersOrdered

(* Under TypeOK every crossing register holds the word of its position. *)
LEMMA Copies ==
  ASSUME TypeOK
  PROVE  /\ Position(dSyncReg1) \in Positions /\ Code[Position(dSyncReg1)] = dSyncReg1
         /\ Position(dEnqPtr) \in Positions   /\ Code[Position(dEnqPtr)] = dEnqPtr
         /\ Position(sSyncReg1) \in Positions /\ Code[Position(sSyncReg1)] = sSyncReg1
         /\ Position(sDeqPtr) \in Positions   /\ Code[Position(sDeqPtr)] = sDeqPtr
BY PositionOfCode DEF TypeOK

(* PointersOrdered in terms of the positions. *)
LEMMA OrderedPointers ==
  PointersOrdered <=>
    /\ Ordered(sGEnqPtr, Position(dSyncReg1), Position(dEnqPtr), dGDeqPtr,
               Position(sSyncReg1), Position(sDeqPtr))
    /\ sNotFullReg => Behind(sGEnqPtr, Position(sDeqPtr)) < Depth
BY DEF PointersOrdered, Ordered, Lag, Stored

(* The source's part of a step, when the dequeue pointer has become d1 and *)
(* the destination's copies a1 and a2, and the source captures y.          *)
SrcBefore(v, a1, a2, d1, y) ==
  /\ SrcEdge(v, Code[y])
  /\ Ordered(sGEnqPtr, a1, a2, d1, Position(sSyncReg1), Position(sDeqPtr))
  /\ sNotFullReg => Behind(sGEnqPtr, Position(sDeqPtr)) < Depth
  /\ Behind(sGEnqPtr, d1) <= Behind(sGEnqPtr, y)
  /\ Behind(sGEnqPtr, y) <= Behind(sGEnqPtr, Position(sSyncReg1))

SrcAfter(v, a1, a2, d1, y) ==
  /\ sGEnqPtr' = IF v # None THEN Succ(sGEnqPtr) ELSE sGEnqPtr
  /\ sGEnqPtr1' = Succ(sGEnqPtr') /\ sGEnqPtr' \in Positions
  /\ sNotFullReg' \in BOOLEAN /\ fifoMem' \in Memory
  /\ sSyncReg1' = Code[y] /\ sDeqPtr' = sSyncReg1
  /\ Ordered(sGEnqPtr', a1, a2, d1, y, Position(sSyncReg1))
  /\ sNotFullReg' => Behind(sGEnqPtr', Position(sSyncReg1)) < Depth
  /\ v # None => Behind(sGEnqPtr, d1) < Depth
  /\ \A h : \A out \in Elements :
       ContentsOf(fifoMem', sGEnqPtr', d1, h, out)
         = IF v # None THEN Append(ContentsOf(fifoMem, sGEnqPtr, d1, h, out), v)
           ELSE ContentsOf(fifoMem, sGEnqPtr, d1, h, out)

(* What an edge of the source does, whether it enqueues or not.            *)
LEMMA SrcPart ==
  ASSUME TypeOK, NEW v \in Data \cup {None},
         NEW a1 \in Positions, NEW a2 \in Positions, NEW d1 \in Positions,
         NEW y \in Positions, SrcBefore(v, a1, a2, d1, y)
  PROVE  SrcAfter(v, a1, a2, d1, y)
<1> USE DEF SrcBefore, SrcAfter
<1> DEFINE e  == sGEnqPtr
           b1 == Position(sSyncReg1)
           b2 == Position(sDeqPtr)
<1>1. /\ e \in Positions /\ sGEnqPtr1 = Succ(e) /\ Succ(e) \in Positions
      /\ b1 \in Positions /\ b2 \in Positions /\ Code[b2] = sDeqPtr
      /\ sNotFullReg \in BOOLEAN /\ fifoMem \in Memory /\ Addr(e) \in 0 .. Depth - 1
      /\ sSyncReg1' = Code[y] /\ sDeqPtr' = sSyncReg1
  BY Copies, PositionTypes DEF TypeOK, Memory, Elements, SrcEdge
<1>2. CASE v = None
  <2>1. /\ sGEnqPtr' = e /\ sGEnqPtr1' = Succ(e) /\ fifoMem' = fifoMem
        /\ sNotFullReg' = (FlipTop2(Width, Code[e]) # Code[b2])
    BY <1>1, <1>2 DEF SrcEdge, sNextNotFull
  <2>2. sNotFullReg' = (b2 # Opposite(e))
    BY <1>1, <2>1, FullTest
  <2>3. /\ Ordered(e, a1, a2, d1, y, b1)
        /\ b2 # Opposite(e) => Behind(e, b1) < Depth
    BY <1>1, OrderedIdle
  <2>4. QED
    BY <1>1, <1>2, <2>1, <2>2, <2>3
<1>3. CASE v # None
  <2> DEFINE e1 == sGEnqPtr'
  <2>1. /\ e1 = Succ(e) /\ e1 \in Positions /\ sGEnqPtr1' = Succ(e1)
        /\ fifoMem' = [fifoMem EXCEPT ![Addr(e)] = v]
        /\ sNotFullReg /\ v \in Data
        /\ sNotFullReg' = (FlipTop2(Width, Code[e1]) # Code[b2])
    BY <1>1, <1>3 DEF SrcEdge, sFutureNotFull
  <2>2. sNotFullReg' = (b2 # Opposite(e1))
    BY <1>1, <2>1, FullTest
  <2>3. /\ Ordered(e1, a1, a2, d1, y, b1)
        /\ b2 # Opposite(e1) => Behind(e1, b1) < Depth
    <3>1. Behind(e, b2) < Depth
      BY <2>1
    <3>2. e \in Positions /\ b1 \in Positions /\ b2 \in Positions
      BY <1>1
    <3>3. MayEnqueue(e, a1, a2, d1, b1, b2, y)
      BY <3>1 DEF MayEnqueue
    <3>4. QED
      BY <2>1, <3>2, <3>3, OrderedEnq
  <2>4. Behind(e, d1) < Depth
    BY <1>1, <2>1, BehindNat, DepthAssumption DEF Ordered
  <2>5. fifoMem' \in Memory
    BY <1>1, <2>1 DEF Memory, Elements
  <2>6. \A h : \A out \in Elements :
          ContentsOf(fifoMem', e1, d1, h, out)
            = Append(ContentsOf(fifoMem, e, d1, h, out), v)
    <3>1. ASSUME NEW h, NEW out \in Elements
          PROVE  ContentsOf(fifoMem', e1, d1, h, out)
                   = Append(ContentsOf(fifoMem, e, d1, h, out), v)
      <4>1. Written(fifoMem', fifoMem, Addr(e), v)
        BY <2>1 DEF Written
      <4>2. e \in Positions /\ fifoMem \in Memory /\ v \in Data /\ e1 = Succ(e)
        BY <1>1, <2>1
      <4> HIDE DEF e, e1
      <4>3. QED
        BY <2>4, <4>1, <4>2, ContentsEnq
    <3>2. QED
      BY <2>1, <3>1
  <2>7. QED
    BY <1>1, <1>3, <2>1, <2>2, <2>3, <2>4, <2>5, <2>6
<1>4. QED
  BY <1>2, <1>3

(* The contents with the enqueue pointer still in place: as they were, or, *)
(* at a dequeue, without the first element.                                *)
Moved(deq) ==
  LET c1 == ContentsOf(fifoMem, sGEnqPtr, dGDeqPtr', dNotEmptyReg', dDoutReg')
  IN  IF deq THEN Contents # <<>> /\ c1 = Tail(Contents) ELSE c1 = Contents

(* The destination's part of a step, before the source's. *)
LEMMA DstPart ==
  ASSUME PInv, NEW deq \in BOOLEAN, NEW enqPtr, NEW head,
         DstEdge(deq, enqPtr, head), Fetch(deq) => head = fifoMem[Addr(dGDeqPtr)]
  PROVE  /\ dGDeqPtr' = IF Fetch(deq) THEN Succ(dGDeqPtr) ELSE dGDeqPtr
         /\ dGDeqPtr1' = Succ(dGDeqPtr') /\ dGDeqPtr' \in Positions
         /\ dNotEmptyReg' \in BOOLEAN /\ dDoutReg' \in Elements
         /\ dSyncReg1' = enqPtr /\ dEnqPtr' = dSyncReg1
         /\ Ordered(sGEnqPtr, sGEnqPtr, Position(dSyncReg1), dGDeqPtr',
                    Position(sSyncReg1), Position(sDeqPtr))
         /\ Behind(sGEnqPtr, dGDeqPtr') <= Stored
         /\ Moved(deq)
<1> DEFINE e  == sGEnqPtr
           d  == dGDeqPtr
           a1 == Position(dSyncReg1)
           a2 == Position(dEnqPtr)
           b1 == Position(sSyncReg1)
           b2 == Position(sDeqPtr)
<1>1. /\ e \in Positions /\ d \in Positions /\ dGDeqPtr1 = Succ(d) /\ Succ(d) \in Positions
      /\ a1 \in Positions /\ a2 \in Positions /\ Code[a2] = dEnqPtr
      /\ b1 \in Positions /\ b2 \in Positions
      /\ sNotFullReg \in BOOLEAN /\ fifoMem \in Memory /\ Addr(d) \in 0 .. Depth - 1
      /\ dNotEmptyReg \in BOOLEAN /\ dDoutReg \in Elements
      /\ dSyncReg1' = enqPtr /\ dEnqPtr' = dSyncReg1
  BY Copies, PositionTypes DEF PInv, TypeOK, Memory, Elements, DstEdge
<1>2. Ordered(e, a1, a2, d, b1, b2)
  BY OrderedPointers DEF PInv
<1>3. Behind(e, d) \in Nat /\ Behind(e, d) <= Depth
  BY <1>1, <1>2, BehindNat, DepthAssumption DEF Ordered
<1>4. CASE Fetch(deq)
  <2>1. /\ dGDeqPtr' = Succ(d) /\ dGDeqPtr1' = Succ(Succ(d)) /\ dNotEmptyReg' = TRUE
        /\ dDoutReg' = fifoMem[Addr(d)] /\ (deq => dNotEmptyReg) /\ (~dNotEmptyReg \/ deq)
    BY <1>1, <1>4 DEF DstEdge, Fetch
  <2>2. d # a2
    BY <1>1, <1>4 DEF Fetch, dNextNotEmpty
  <2>3. /\ Ordered(e, e, a1, Succ(d), b1, b2)
        /\ Behind(e, Succ(d)) = Behind(e, d) - 1
    BY <1>1, <1>2, <2>2, OrderedFetch, SMTT(30)
  <2>4. Behind(e, d) # 0
    BY <1>1, <1>3, <2>3, BehindNat
  <2>5. dDoutReg' \in Elements
    BY <1>1, <2>1 DEF Memory
  <2>6. HeadMoved(fifoMem, d, dNotEmptyReg, dDoutReg, deq, TRUE,
                  dGDeqPtr', dNotEmptyReg', dDoutReg')
    BY <2>1 DEF HeadMoved
  <2>7. Moved(deq)
    <3>1. MovedContents(fifoMem, e, d, dNotEmptyReg, dDoutReg, deq,
                        dGDeqPtr', dNotEmptyReg', dDoutReg')
      BY <1>1, <1>3, <2>4, <2>6, ContentsMoved, ZenonT(60)
    <3>2. QED
      BY <3>1 DEF Moved, MovedContents, Contents
  <2>8. QED
    BY <1>1, <1>3, <1>4, <2>1, <2>3, <2>5, <2>7 DEF Stored
<1>5. CASE ~Fetch(deq)
  <2>1. /\ dGDeqPtr' = d /\ dGDeqPtr1' = Succ(d) /\ dDoutReg' = dDoutReg
        /\ dNotEmptyReg' = (dNotEmptyReg /\ ~deq) /\ (deq => dNotEmptyReg)
    BY <1>1, <1>5 DEF DstEdge
  <2>2. Ordered(e, e, a1, d, b1, b2)
    BY <1>1, <1>2, OrderedWait
  <2>3. HeadMoved(fifoMem, d, dNotEmptyReg, dDoutReg, deq, FALSE,
                  dGDeqPtr', dNotEmptyReg', dDoutReg')
    BY <2>1 DEF HeadMoved
  <2>4. Moved(deq)
    <3>1. MovedContents(fifoMem, e, d, dNotEmptyReg, dDoutReg, deq,
                        dGDeqPtr', dNotEmptyReg', dDoutReg')
      BY <1>1, <1>3, <2>3, ContentsMoved, ZenonT(60)
    <3>2. QED
      BY <3>1 DEF Moved, MovedContents, Contents
  <2>5. QED
    BY <1>1, <1>3, <1>5, <2>1, <2>2, <2>4 DEF Stored
<1>6. QED
  BY <1>4, <1>5

-----------------------------------------------------------------------------
(* The actions.                                                            *)

(* What each of them has to keep and to do. *)
StepGoal ==
  /\ PInv'
  /\ Contents \in Seq(Data) => [Queue!Next]_Contents
  /\ HoldsQueue => HoldsQueue'

(* Rebuilding the invariant from its parts. *)
LEMMA PInvFromParts ==
  ASSUME NEW e \in Positions, NEW a1 \in Positions, NEW a2 \in Positions,
         NEW d \in Positions, NEW b1 \in Positions, NEW b2 \in Positions,
         (sGEnqPtr = e /\ sGEnqPtr1 = Succ(e) /\ dGDeqPtr = d /\ dGDeqPtr1 = Succ(d))',
         (dSyncReg1 = Code[a1] /\ dEnqPtr = Code[a2])',
         (sSyncReg1 = Code[b1] /\ sDeqPtr = Code[b2])',
         (rst \in BOOLEAN /\ sNotFullReg \in BOOLEAN /\ dNotEmptyReg \in BOOLEAN)',
         fifoMem' \in Memory, dDoutReg' \in Elements,
         Ordered(e, a1, a2, d, b1, b2),
         sNotFullReg' => Behind(e, b2) < Depth
  PROVE  PInv'
<1>1. TypeOK'
  BY DEF TypeOK, Memory, Elements
<1>2. /\ Position(dSyncReg1') = a1 /\ Position(dEnqPtr') = a2
      /\ Position(sSyncReg1') = b1 /\ Position(sDeqPtr') = b2
  BY PositionOfCode
<1>3. PointersOrdered'
  BY <1>2 DEF PointersOrdered, Ordered, Lag, Stored
<1>4. QED
  BY <1>1, <1>3 DEF PInv

(* The types and the order of the state before a step. *)
LEMMA PInvParts ==
  ASSUME PInv
  PROVE  /\ sGEnqPtr \in Positions /\ dGDeqPtr \in Positions
         /\ sGEnqPtr1 = Succ(sGEnqPtr) /\ dGDeqPtr1 = Succ(dGDeqPtr)
         /\ Position(dSyncReg1) \in Positions /\ Code[Position(dSyncReg1)] = dSyncReg1
         /\ Position(dEnqPtr) \in Positions   /\ Code[Position(dEnqPtr)] = dEnqPtr
         /\ Position(sSyncReg1) \in Positions /\ Code[Position(sSyncReg1)] = sSyncReg1
         /\ Position(sDeqPtr) \in Positions   /\ Code[Position(sDeqPtr)] = sDeqPtr
         /\ rst \in BOOLEAN /\ sNotFullReg \in BOOLEAN /\ dNotEmptyReg \in BOOLEAN
         /\ fifoMem \in Memory /\ dDoutReg \in Elements
         /\ Ordered(sGEnqPtr, Position(dSyncReg1), Position(dEnqPtr), dGDeqPtr,
                    Position(sSyncReg1), Position(sDeqPtr))
         /\ sNotFullReg => Behind(sGEnqPtr, Position(sDeqPtr)) < Depth
         /\ Stored \in Nat /\ Stored <= Behind(sGEnqPtr, Position(sSyncReg1))
         /\ Stored <= Depth
<1>1. TypeOK
  BY DEF PInv
<1>2. /\ sGEnqPtr \in Positions /\ dGDeqPtr \in Positions
      /\ sGEnqPtr1 = Succ(sGEnqPtr) /\ dGDeqPtr1 = Succ(dGDeqPtr)
      /\ rst \in BOOLEAN /\ sNotFullReg \in BOOLEAN /\ dNotEmptyReg \in BOOLEAN
      /\ fifoMem \in Memory /\ dDoutReg \in Elements
  BY <1>1 DEF TypeOK, Memory, Elements
<1>3. /\ Ordered(sGEnqPtr, Position(dSyncReg1), Position(dEnqPtr), dGDeqPtr,
                 Position(sSyncReg1), Position(sDeqPtr))
      /\ sNotFullReg => Behind(sGEnqPtr, Position(sDeqPtr)) < Depth
  BY OrderedPointers DEF PInv
<1>4. Stored \in Nat /\ Stored <= Behind(sGEnqPtr, Position(sSyncReg1)) /\ Stored <= Depth
  BY <1>1, <1>2, <1>3, BehindNat, Copies, DepthAssumption DEF Ordered, Stored
<1>5. QED
  BY <1>1, <1>2, <1>3, <1>4, Copies

(* Appending to a sequence of elements below the capacity, after removing  *)
(* the first element or not, is a step of the queue.                       *)
LEMMA IsQueueStep ==
  ASSUME PInv, Contents \in Seq(Data), NEW v \in Data \cup {None}, NEW c1,
         c1 = Contents \/ (Contents # <<>> /\ c1 = Tail(Contents)),
         v # None => Stored < Depth \/ c1 # Contents,
         Contents' = IF v # None THEN Append(c1, v) ELSE c1
  PROVE  [Queue!Next]_Contents
<1> USE DEF Queue!Next, Queue!Enq, Queue!Deq, Queue!EnqDeq
<1>1. CASE v = None
  BY <1>1
<1>2. CASE v # None /\ c1 = Contents
  <2>1. Stored < Depth /\ v \in Data
    BY <1>2
  <2>2. IsContents(Contents, fifoMem, sGEnqPtr, dGDeqPtr, dNotEmptyReg, dDoutReg)
    BY PInvParts, ContentsSeq DEF Contents, Stored
  <2>3. Len(Contents) = Stored + Bit(dNotEmptyReg)
    BY <2>2 DEF IsContents, Stored
  <2>4. Len(Contents) < Depth + 1
    BY <2>1, <2>3, PInvParts, DepthAssumption DEF Bit
  <2>5. Queue!Enq(v)
    BY <1>2, <2>4
  <2>6. QED
    BY <2>1, <2>5
<1>3. CASE v # None /\ c1 # Contents
  <2>1. v \in Data /\ Queue!EnqDeq(v)
    BY <1>3
  <2>2. QED
    BY <2>1
<1>4. QED
  BY <1>1, <1>2, <1>3

(* A source edge. *)
LEMMA SrcTickStep ==
  ASSUME PInv, NEW v \in Data \cup {None}, SrcTick(v)
  PROVE  StepGoal
<1> DEFINE e  == sGEnqPtr
           d  == dGDeqPtr
           a1 == Position(dSyncReg1)
           a2 == Position(dEnqPtr)
           b1 == Position(sSyncReg1)
<1>1. /\ TypeOK /\ SrcEdge(v, Code[d]) /\ rst' = rst
      /\ dGDeqPtr' = d /\ dGDeqPtr1' = dGDeqPtr1 /\ dNotEmptyReg' = dNotEmptyReg
      /\ dDoutReg' = dDoutReg /\ dSyncReg1' = dSyncReg1 /\ dEnqPtr' = dEnqPtr
  BY DEF SrcTick, dVars, PInv
<1>2. Behind(e, d) <= Behind(e, d) /\ Behind(e, d) <= Behind(e, b1)
  BY PInvParts DEF Stored
<1>3. /\ sGEnqPtr1' = Succ(sGEnqPtr') /\ sGEnqPtr' \in Positions
      /\ sNotFullReg' \in BOOLEAN /\ fifoMem' \in Memory
      /\ sSyncReg1' = Code[d] /\ sDeqPtr' = sSyncReg1
      /\ Ordered(sGEnqPtr', a1, a2, d, d, b1)
      /\ sNotFullReg' => Behind(sGEnqPtr', b1) < Depth
      /\ v # None => Behind(e, d) < Depth
      /\ ContentsOf(fifoMem', sGEnqPtr', d, dNotEmptyReg, dDoutReg)
           = IF v # None THEN Append(ContentsOf(fifoMem, e, d, dNotEmptyReg, dDoutReg), v)
             ELSE ContentsOf(fifoMem, e, d, dNotEmptyReg, dDoutReg)
  <2>1. SrcBefore(v, a1, a2, d, d)
    BY <1>1, <1>2, PInvParts DEF SrcBefore
  <2>2. SrcAfter(v, a1, a2, d, d)
    BY <1>1, <2>1, PInvParts, SrcPart
  <2>3. QED
    BY <2>2, PInvParts DEF SrcAfter
<1>4. PInv'
  BY <1>1, <1>3, PInvParts, PInvFromParts
<1>5. Contents' = IF v # None THEN Append(Contents, v) ELSE Contents
  BY <1>1, <1>3 DEF Contents
<1>6. ASSUME Contents \in Seq(Data) PROVE [Queue!Next]_Contents
  BY <1>3, <1>5, <1>6, IsQueueStep DEF Stored
<1>7. HoldsQueue => HoldsQueue'
  BY <1>5 DEF HoldsQueue, SrcTick, After
<1>8. QED
  BY <1>4, <1>6, <1>7 DEF StepGoal

(* A destination edge. *)
LEMMA DstTickStep ==
  ASSUME PInv, NEW deq \in BOOLEAN, DstTick(deq)
  PROVE  StepGoal
<1>1. /\ DstEdge(deq, Code[sGEnqPtr], fifoMem[Addr(dGDeqPtr)]) /\ rst' = rst
      /\ fifoMem' = fifoMem /\ sGEnqPtr' = sGEnqPtr /\ sGEnqPtr1' = sGEnqPtr1
      /\ sNotFullReg' = sNotFullReg /\ sSyncReg1' = sSyncReg1 /\ sDeqPtr' = sDeqPtr
  BY DEF DstTick, sVars
<1>2. /\ dGDeqPtr1' = Succ(dGDeqPtr') /\ dGDeqPtr' \in Positions
      /\ dNotEmptyReg' \in BOOLEAN /\ dDoutReg' \in Elements
      /\ dSyncReg1' = Code[sGEnqPtr] /\ dEnqPtr' = dSyncReg1
      /\ Ordered(sGEnqPtr, sGEnqPtr, Position(dSyncReg1), dGDeqPtr',
                 Position(sSyncReg1), Position(sDeqPtr))
      /\ Moved(deq)
  BY <1>1, DstPart
<1>3. PInv'
  BY <1>1, <1>2, PInvParts, PInvFromParts
<1>4. IF deq THEN Contents # <<>> /\ Contents' = Tail(Contents) ELSE Contents' = Contents
  <2>1. Contents' = ContentsOf(fifoMem, sGEnqPtr, dGDeqPtr', dNotEmptyReg', dDoutReg')
    BY <1>1 DEF Contents
  <2>2. QED
    BY <1>2, <2>1 DEF Moved
<1>5. [Queue!Next]_Contents
  BY <1>4 DEF Queue!Next, Queue!Deq
<1>6. HoldsQueue => HoldsQueue'
  BY <1>4 DEF HoldsQueue, DstTick, After
<1>7. QED
  BY <1>3, <1>5, <1>6 DEF StepGoal

(* Coincident edges: the destination's part, then the source's. *)
LEMMA BothTickStep ==
  ASSUME PInv, NEW v \in Data \cup {None}, NEW deq \in BOOLEAN, BothTick(v, deq)
  PROVE  StepGoal
<1> DEFINE e  == sGEnqPtr
           d  == dGDeqPtr
           a1 == Position(dSyncReg1)
           b1 == Position(sSyncReg1)
           b2 == Position(sDeqPtr)
           c1 == ContentsOf(fifoMem, e, dGDeqPtr', dNotEmptyReg', dDoutReg')
<1>1. PICK deqPtr \in Capture(Code[d], IF Fetch(deq) THEN Code[dGDeqPtr1] ELSE Code[d]) :
        SrcEdge(v, deqPtr)
  BY DEF BothTick
<1>2. PICK enqPtr \in Capture(Code[e], IF v # None THEN Code[sGEnqPtr1] ELSE Code[e]),
           head \in IF v # None /\ Addr(e) = Addr(d) THEN Data ELSE {fifoMem[Addr(d)]} :
        DstEdge(deq, enqPtr, head)
  BY DEF BothTick
<1>3. PICK y \in {d, IF Fetch(deq) THEN Succ(d) ELSE d} : deqPtr = Code[y]
  BY PInvParts, CaptureStep, CaptureStill
<1>4. PICK x \in {e, IF v # None THEN Succ(e) ELSE e} : enqPtr = Code[x]
  BY PInvParts, CaptureStep, CaptureStill
(* The head is read from another word than the one written.                *)
<1>5. Fetch(deq) => head = fifoMem[Addr(d)]
  <2>1. SUFFICES ASSUME Fetch(deq), v # None PROVE Addr(e) # Addr(d)
    OBVIOUS
  <2>2. d # Position(dEnqPtr)
    BY <2>1, PInvParts DEF Fetch, dNextNotEmpty
  <2>3. Behind(e, d) \in Nat /\ Behind(e, d) # 0
    <3>1. Behind(e, Succ(d)) = Behind(e, d) - 1
      BY <2>2, PInvParts, OrderedFetch
    <3>2. QED
      BY <3>1, PInvParts, PositionTypes, BehindNat
  <2>4. Behind(e, d) < Depth
    <3>1. sNotFullReg
      BY <1>1, <2>1 DEF SrcEdge
    <3>2. QED
      BY <3>1, PInvParts, BehindNat, DepthAssumption DEF Ordered
  <2>5. Ahead(d, 0) = d /\ Addr(Ahead(d, 0)) # Addr(e)
    <3>1. 0 \in 0 .. Behind(e, d) - 1 /\ Behind(e, d) <= Depth
      BY <2>3, <2>4, DepthAssumption
    <3>2. QED
      BY <2>4, <3>1, PInvParts, Walk
  <2>6. QED
    BY <2>5
<1>6. /\ dGDeqPtr' = (IF Fetch(deq) THEN Succ(d) ELSE d)
      /\ dGDeqPtr1' = Succ(dGDeqPtr') /\ dGDeqPtr' \in Positions
      /\ dNotEmptyReg' \in BOOLEAN /\ dDoutReg' \in Elements
      /\ dSyncReg1' = enqPtr /\ dEnqPtr' = dSyncReg1
      /\ Ordered(e, e, a1, dGDeqPtr', b1, b2)
      /\ Behind(e, dGDeqPtr') <= Stored
      /\ Moved(deq)
  BY <1>2, <1>5, DstPart
<1>7. y \in Positions /\ Behind(e, dGDeqPtr') <= Behind(e, y) /\ Behind(e, y) <= Behind(e, b1)
  <2>1. CASE y = d
    BY <1>6, <2>1, PInvParts DEF Stored
  <2>2. CASE y = dGDeqPtr'
    <3>1. Behind(e, y) \in Nat /\ Behind(e, b1) \in Nat
      BY <1>6, <2>2, PInvParts, BehindNat
    <3>2. QED
      BY <1>6, <2>2, <3>1, PInvParts
  <2>3. QED
    BY <1>3, <1>6, <2>1, <2>2
<1>8. /\ sGEnqPtr' = (IF v # None THEN Succ(e) ELSE e)
      /\ sGEnqPtr1' = Succ(sGEnqPtr') /\ sGEnqPtr' \in Positions
      /\ sNotFullReg' \in BOOLEAN /\ fifoMem' \in Memory
      /\ sSyncReg1' = Code[y] /\ sDeqPtr' = sSyncReg1
      /\ Ordered(sGEnqPtr', e, a1, dGDeqPtr', y, b1)
      /\ sNotFullReg' => Behind(sGEnqPtr', b1) < Depth
      /\ v # None => Behind(e, dGDeqPtr') < Depth
      /\ ContentsOf(fifoMem', sGEnqPtr', dGDeqPtr', dNotEmptyReg', dDoutReg')
           = IF v # None THEN Append(c1, v) ELSE c1
  <2>1. SrcBefore(v, e, a1, dGDeqPtr', y)
    BY <1>1, <1>3, <1>6, <1>7, PInvParts DEF SrcBefore
  <2>2. SrcAfter(v, e, a1, dGDeqPtr', y)
    BY <1>6, <1>7, <2>1, PInvParts, SrcPart DEF PInv
  <2>3. QED
    BY <1>6, <2>2 DEF SrcAfter
<1>9. x \in Positions /\ Ordered(sGEnqPtr', x, a1, dGDeqPtr', y, b1)
  <2>1. CASE x = e
    BY <1>8, <2>1, PInvParts
  <2>2. CASE x = sGEnqPtr'
    BY <1>6, <1>7, <1>8, <2>2, PInvParts, OrderedNewer
  <2>3. QED
    BY <1>4, <1>8, <2>1, <2>2
<1>10. PInv'
  <2>1. rst' \in BOOLEAN
    BY PInvParts DEF BothTick
  <2>2. QED
    BY <1>4, <1>6, <1>7, <1>8, <1>9, <2>1, PInvParts, PInvFromParts, ZenonT(60)
<1>11. /\ Contents' = IF v # None THEN Append(c1, v) ELSE c1
       /\ IF deq THEN Contents # <<>> /\ c1 = Tail(Contents) ELSE c1 = Contents
  <2>1. Contents' = IF v # None THEN Append(c1, v) ELSE c1
    BY <1>8 DEF Contents
  <2>2. QED
    BY <1>6, <2>1 DEF Moved
<1>12. ASSUME Contents \in Seq(Data) PROVE [Queue!Next]_Contents
  <2>1. Contents' = IF v # None THEN Append(c1, v) ELSE c1
    BY <1>11
  <2>2. c1 = Contents \/ (Contents # <<>> /\ c1 = Tail(Contents))
    BY <1>11
  <2>3. v # None => Stored < Depth
    <3>1. v # None => sNotFullReg
      BY <1>1 DEF SrcEdge
    <3>2. QED
      BY <3>1, PInvParts, BehindNat, DepthAssumption DEF Ordered, Stored
  <2> HIDE DEF c1
  <2>4. QED
    BY <1>12, <2>1, <2>2, <2>3, IsQueueStep
<1>13. HoldsQueue => HoldsQueue'
  <2> HIDE DEF c1
  <2>1. QED
    BY <1>11 DEF HoldsQueue, BothTick, After
<1>14. QED
  BY <1>10, <1>12, <1>13 DEF StepGoal

(* Asserting the reset empties the FIFO; releasing it moves no register. *)
LEMMA ResetStep ==
  ASSUME PInv, AssertReset \/ ReleaseReset
  PROVE  StepGoal
<1>1. CASE AssertReset
  <2>1. /\ sGEnqPtr' = 0 /\ sGEnqPtr1' = Succ(0) /\ dGDeqPtr' = 0 /\ dGDeqPtr1' = Succ(0)
        /\ sNotFullReg' = FALSE /\ dNotEmptyReg' = FALSE /\ rst' = TRUE
        /\ sSyncReg1' = Code[0] /\ sDeqPtr' = Code[0]
        /\ dSyncReg1' = Code[0] /\ dEnqPtr' = Code[0]
        /\ fifoMem' \in Memory /\ dDoutReg' \in Elements
    BY <1>1, PInvParts, PositionTypes DEF AssertReset, ResetRegs
  <2>2. Ordered(0, 0, 0, 0, 0, 0) /\ 0 \in Positions /\ Behind(0, 0) = 0
    BY DepthAssumption, PositionTypes DEF Ordered, Behind
  <2>3. PInv'
    BY <2>1, <2>2, PInvFromParts
  <2>4. Contents' = <<>>
    BY <2>1, ContentsNone DEF Contents
  <2>5. HoldsQueue'
    BY <1>1, <2>4 DEF AssertReset, HoldsQueue
  <2>6. QED
    BY <2>3, <2>4, <2>5 DEF StepGoal, Queue!Next, Queue!Clear
<1>2. CASE ReleaseReset
  <2>1. PInv'
    BY <1>2 DEF ReleaseReset, sVars, dVars, PInv, TypeOK, PointersOrdered, Lag, Stored
  <2>2. Contents' = Contents
    BY <1>2 DEF ReleaseReset, sVars, dVars, Contents
  <2>3. HoldsQueue => HoldsQueue'
    BY <1>2, <2>2 DEF ReleaseReset, HoldsQueue
  <2>4. QED
    BY <2>1, <2>2, <2>3 DEF StepGoal
<1>3. QED
  BY <1>1, <1>2

-----------------------------------------------------------------------------
(* The invariant and the theorems.                                         *)

IInv == PInv /\ Contents \in Seq(Data) /\ HoldsQueue

(* After reset the FIFO is empty. *)
LEMMA InitIInv == Init => IInv /\ Queue!Init
<1> SUFFICES ASSUME Init PROVE IInv /\ Queue!Init
  OBVIOUS
<1>1. /\ 0 \in Positions /\ Succ(0) = 1 /\ Behind(0, 0) = 0 /\ Position(Code[0]) = 0
      /\ 0 <= Depth
  BY PositionTypes, PositionOfCode, DepthAssumption DEF Behind
<1>2. TypeOK
  BY <1>1 DEF Init, TypeOK
<1>3. PointersOrdered
  BY <1>1 DEF Init, PointersOrdered, Lag, Stored
<1>4. Contents = <<>>
  <2>1. fifoMem \in Memory /\ dDoutReg \in Elements
    BY DEF Init, Memory, Elements
  <2>2. QED
    BY <2>1, ContentsNone DEF Init, Contents
<1>5. QED
  BY <1>2, <1>3, <1>4, EmptySeq DEF Init, IInv, PInv, HoldsQueue, Queue!Init

(* IInv is inductive, and every step is one of the queue. *)
LEMMA NextIInv == IInv /\ [Next]_vars => IInv' /\ [Queue!Next]_Contents
<1> SUFFICES ASSUME IInv, [Next]_vars
             PROVE  IInv' /\ [Queue!Next]_Contents
  OBVIOUS
<1>1. StepGoal
  <2>1. CASE \E v \in Data \cup {None} : SrcTick(v)
    BY <2>1, SrcTickStep DEF IInv
  <2>2. CASE \E deq \in BOOLEAN : DstTick(deq)
    BY <2>2, DstTickStep DEF IInv
  <2>3. CASE \E v \in Data \cup {None}, deq \in BOOLEAN : BothTick(v, deq)
    BY <2>3, BothTickStep DEF IInv
  <2>4. CASE AssertReset \/ ReleaseReset
    BY <2>4, ResetStep DEF IInv
  <2>5. CASE UNCHANGED vars
    <3>1. PInv'
      BY <2>5 DEF vars, sVars, dVars, IInv, PInv, TypeOK, PointersOrdered, Lag, Stored
    <3>2. Contents' = Contents
      BY <2>5 DEF vars, sVars, dVars, Contents
    <3>3. HoldsQueue => HoldsQueue'
      BY <2>5, <3>2 DEF vars, HoldsQueue
    <3>4. QED
      BY <3>1, <3>2, <3>3 DEF StepGoal
  <2>6. QED
    BY <2>1, <2>2, <2>3, <2>4, <2>5 DEF Next
<1>2. PInv' /\ [Queue!Next]_Contents /\ HoldsQueue'
  BY <1>1 DEF StepGoal, IInv
<1>3. Contents' \in Seq(Data)
  <2>1. Contents \in Seq(Data)
    BY DEF IInv
  <2>2. CASE \E v \in Data : Queue!Enq(v)
    BY <2>1, <2>2, AppendProperties DEF Queue!Enq
  <2>3. CASE \E v \in Data : Queue!EnqDeq(v)
    BY <2>1, <2>3, AppendProperties, HeadTailProperties DEF Queue!EnqDeq
  <2>4. CASE Queue!Deq
    BY <2>1, <2>4, HeadTailProperties DEF Queue!Deq
  <2>5. CASE Queue!Clear
    BY <2>5, EmptySeq DEF Queue!Clear
  <2>6. CASE UNCHANGED Contents
    BY <2>1, <2>6
  <2>7. QED
    BY <1>2, <2>2, <2>3, <2>4, <2>5, <2>6 DEF Queue!Next
<1>4. QED
  BY <1>2, <1>3 DEF IInv

(* The registers keep their types (SyncFIFO.v:101-208). *)
THEOREM FIFOTypes == Spec => []TypeOK
<1>1. IInv => TypeOK
  BY DEF IInv, PInv
<1>2. QED
  BY InitIInv, NextIInv, <1>1, PTL DEF Spec

(* Seen from the enqueue pointer the synchronized copies never overtake    *)
(* the pointers they are copies of, and all of them span at most the depth *)
(* (SyncFIFO.v:135-208).                                                   *)
THEOREM FIFOPointersOrdered == Spec => []PointersOrdered
<1>1. IInv => PointersOrdered
  BY DEF IInv, PInv
<1>2. QED
  BY InitIInv, NextIInv, <1>1, PTL DEF Spec

(* The flags are pessimistic, for every depth: the memory never overflows  *)
(* and what is shown is an element (SyncFIFO.v:27-29, 109-133, 155-176).   *)
THEOREM FIFOPessimistic == Spec => []Pessimistic
<1>1. IInv => Pessimistic
  <2> SUFFICES ASSUME IInv PROVE Pessimistic
    OBVIOUS
  <2>1. PInv
    BY DEF IInv
  <2>2. sNotFullReg => Stored < Depth
    BY <2>1, PInvParts, BehindNat, DepthAssumption DEF Ordered, Stored
  <2>3. QED
    BY <2>1, <2>2, PInvParts DEF Pessimistic, IInv
<1>2. QED
  BY InitIInv, NextIInv, <1>1, PTL DEF Spec

(* The FIFO holds what was enqueued and not dequeued since the last reset, *)
(* in order, for every depth and any relation of the clocks.               *)
THEOREM FIFOHoldsQueue == Spec => []HoldsQueue
<1>1. IInv => HoldsQueue
  BY DEF IInv
<1>2. QED
  BY InitIInv, NextIInv, <1>1, PTL DEF Spec

(* The FIFO between two clock domains is a queue of Depth + 1 elements,    *)
(* for every depth and any relation of the clocks (SyncFIFO.v:101-208).    *)
THEOREM FIFOIsQueue == Spec => IsQueue
BY InitIInv, NextIInv, PTL DEF Spec, IsQueue, Queue!Spec
=============================================================================
