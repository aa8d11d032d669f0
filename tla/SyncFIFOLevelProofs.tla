------------------------ MODULE SyncFIFOLevelProofs ------------------------
(***************************************************************************)
(* The FIFO with counts and clears is a queue whenever no clear is under   *)
(* way, and its counts err on the safe side: for every depth, every        *)
(* counter code that changes one bit per step, and any sequence of edges   *)
(* and of clears from both sides, where coincident edges capture the value *)
(* from before, as in the simulators.                                      *)
(*                                                                         *)
(* Each clear request runs round its handshake as a wave over six flops.   *)
(* How far the two waves have come, 0 .. 5, tells what each register has   *)
(* to hold; 5 is a handshake at rest.                                      *)
(*                                                                         *)
(* At the end, the Gray counters of the FIFOs, at every width.             *)
(***************************************************************************)
EXTENDS MCQueues, FIFOPointersProofs

-----------------------------------------------------------------------------
(* The waves.                                                              *)

(* The first k + 1 of the six flops hold the toggle's value, the others    *)
(* the other one.                                                          *)
Ring(k, t, r1, r2, dn, a1, a2) ==
  /\ t \in {0, 1}
  /\ r1 = IF k >= 1 THEN t ELSE 1 - t
  /\ r2 = IF k >= 2 THEN t ELSE 1 - t
  /\ dn = IF k >= 3 THEN t ELSE 1 - t
  /\ a1 = IF k >= 4 THEN t ELSE 1 - t
  /\ a2 = IF k >= 5 THEN t ELSE 1 - t

Rings(s, d) ==
  /\ Ring(s, sToggle, dReq1, dReq2, dDone, sAck1, sAck2)
  /\ Ring(d, dToggle, sReq1, sReq2, sDone, dAck1, dAck2)

(* Requests advance at edges of the other side, acknowledgements at edges  *)
(* of one's own, and a new request starts only from rest.                  *)
NextStage(k, own, other, clr) ==
  IF k = 5 THEN IF clr THEN 0 ELSE 5
  ELSE IF k >= 3 THEN IF own THEN k + 1 ELSE k
  ELSE IF other THEN k + 1 ELSE k

(* The flops of a ring after an edge are those of its next stage.          *)
LEMMA RingMoves ==
  ASSUME NEW k \in 0 .. 5, NEW own \in BOOLEAN, NEW other \in BOOLEAN, NEW clr \in BOOLEAN,
         NEW t, NEW r1, NEW r2, NEW dn, NEW a1, NEW a2,
         Ring(k, t, r1, r2, dn, a1, a2), clr => own /\ k = 5
  PROVE  /\ NextStage(k, own, other, clr) \in 0 .. 5
         /\ Ring(NextStage(k, own, other, clr),
                 IF clr THEN 1 - t ELSE t,
                 IF other THEN t ELSE r1, IF other THEN r1 ELSE r2, IF other THEN r2 ELSE dn,
                 IF own THEN dn ELSE a1, IF own THEN a1 ELSE a2)
BY DEF Ring, NextStage

(* Where a wave was, one edge before. *)
LEMMA RingWas ==
  ASSUME NEW k \in 0 .. 5, NEW own \in BOOLEAN, NEW other \in BOOLEAN, NEW clr \in BOOLEAN,
         NEW n, n = NextStage(k, own, other, clr)
  PROVE  /\ n \in 1 .. 4 => k < 5 /\ (other \/ k \in 1 .. 4)
         /\ n \in 2 .. 4 => k \in 1 .. 4 /\ (other \/ k \in 2 .. 4)
         /\ n \in 3 .. 4 => (other /\ k = 2) \/ k \in 3 .. 4
         /\ n = 4 => (own /\ k = 3) \/ (~own /\ k = 4)
BY DEF NextStage

(* A side is ready when its wave is at rest; the other side is told to     *)
(* clear when the wave has come to stage 2.                                *)
LEMMA RingOutputs ==
  ASSUME NEW k \in 0 .. 5, NEW t, NEW r1, NEW r2, NEW dn, NEW a1, NEW a2,
         Ring(k, t, r1, r2, dn, a1, a2)
  PROVE  (a2 = t <=> k = 5) /\ (r2 # dn <=> k = 2)
BY DEF Ring

(* When each side clears. *)
LEMMA Clears ==
  ASSUME NEW s \in 0 .. 5, NEW d \in 0 .. 5, Rings(s, d), NEW clr \in BOOLEAN
  PROVE  /\ sCLR_RDY <=> s = 5
         /\ dCLR_RDY <=> d = 5
         /\ sClear(clr) <=> clr \/ s # 5 \/ d = 2
         /\ dClear(clr) <=> clr \/ d # 5 \/ s = 2
<1>1. (sAck2 = sToggle <=> s = 5) /\ (dReq2 # dDone <=> s = 2)
  BY RingOutputs DEF Rings
<1>2. (dAck2 = dToggle <=> d = 5) /\ (sReq2 # sDone <=> d = 2)
  BY RingOutputs DEF Rings
<1>3. QED
  BY <1>1, <1>2 DEF sCLR_RDY, dCLR_RDY, sClear, dClear, sClrSync!sRDY, dClrSync!sRDY,
                    sClrSync!dPulse, dClrSync!dPulse

-----------------------------------------------------------------------------
(* The three kinds of edges as one.                                        *)

(* An edge: which clocks have one, the inputs, and the value read from the *)
(* memory.                                                                 *)
Edges == [src : BOOLEAN, v : Inputs, sclr : BOOLEAN,
          dst : BOOLEAN, deq : BOOLEAN, dclr : BOOLEAN, head : Elements]

SourceMoves(t) ==
  IF t.src THEN SrcEdge(t.v, t.sclr, Code[dBDeqPtr], dDone, dToggle)
  ELSE t.v = None /\ t.sclr = FALSE /\ UNCHANGED sVars

DestMoves(t) ==
  IF t.dst THEN DstEdge(t.deq, t.dclr, Code[sBEnqPtr], t.head, sDone, sToggle)
  ELSE t.deq = FALSE /\ t.dclr = FALSE /\ UNCHANGED dVars

(* The head read is torn only if its word is the one being written.        *)
Tick(t) ==
  /\ SourceMoves(t)
  /\ DestMoves(t)
  /\ t.head = fifoMem[Addr(dBDeqPtr)] \/ (t.v # None /\ Addr(sBEnqPtr) = Addr(dBDeqPtr))
  /\ queue' = After(queue, (t.src /\ sClear(t.sclr)) \/ t.dclr, Takes(t.deq), t.v)
  /\ rst' = rst

(* Without skew the three kinds of edges are one, with its inputs in t.    *)
LEMMA AllTicks ==
  ASSUME Skew = FALSE, fifoMem[Addr(dBDeqPtr)] \in Elements,
         \/ \E v \in Inputs, clr \in BOOLEAN : SrcTick(v, clr)
         \/ \E deq, clr \in BOOLEAN : DstTick(deq, clr)
         \/ \E v \in Inputs, sclr, deq, dclr \in BOOLEAN : BothTick(v, sclr, deq, dclr)
  PROVE  \E t \in Edges : Tick(t)
<1> DEFINE word == fifoMem[Addr(dBDeqPtr)]
           edge(src, v, sclr, dst, deq, dclr, head) ==
             [src |-> src, v |-> v, sclr |-> sclr, dst |-> dst, deq |-> deq,
              dclr |-> dclr, head |-> head]
<1>1. ASSUME NEW v \in Inputs, NEW clr \in BOOLEAN, SrcTick(v, clr)
      PROVE  \E t \in Edges : Tick(t)
  <2> DEFINE t == edge(TRUE, v, clr, FALSE, FALSE, FALSE, word)
  <2>1. t \in Edges
    BY DEF Edges
  <2>2. Tick(t)
    BY <1>1 DEF SrcTick, Tick, SourceMoves, DestMoves, Takes, After
  <2>3. QED
    BY <2>1, <2>2
<1>2. ASSUME NEW deq \in BOOLEAN, NEW clr \in BOOLEAN, DstTick(deq, clr)
      PROVE  \E t \in Edges : Tick(t)
  <2> DEFINE t == edge(FALSE, None, FALSE, TRUE, deq, clr, word)
  <2>1. t \in Edges
    BY DEF Edges, Inputs
  <2>2. Tick(t)
    BY <1>2 DEF DstTick, Tick, SourceMoves, DestMoves, After
  <2>3. QED
    BY <2>1, <2>2
<1>3. ASSUME NEW v \in Inputs, NEW sclr \in BOOLEAN, NEW deq \in BOOLEAN, NEW dclr \in BOOLEAN,
             BothTick(v, sclr, deq, dclr)
      PROVE  \E t \in Edges : Tick(t)
  <2>1. SrcEdge(v, sclr, Code[dBDeqPtr], dDone, dToggle)
    BY <1>3 DEF BothTick, Seen, SeenPtr
  <2>2. PICK head \in IF v # None /\ Addr(sBEnqPtr) = Addr(dBDeqPtr) THEN Data ELSE {word} :
          DstEdge(deq, dclr, Code[sBEnqPtr], head, sDone, sToggle)
    BY <1>3 DEF BothTick, Seen, SeenPtr
  <2> DEFINE t == edge(TRUE, v, sclr, TRUE, deq, dclr, head)
  <2>3. t \in Edges
    BY DEF Edges, Elements
  <2>4. Tick(t)
    BY <1>3, <2>1, <2>2 DEF BothTick, Tick, SourceMoves, DestMoves
  <2>5. QED
    BY <2>3, <2>4
<1>4. QED
  BY <1>1, <1>2, <1>3

-----------------------------------------------------------------------------
(* The invariant.                                                          *)

Words == {Code[p] : p \in Positions}

Types ==
  /\ rst \in BOOLEAN /\ sNotFullReg \in BOOLEAN /\ dNotEmptyReg \in BOOLEAN
  /\ sBEnqPtr \in Positions /\ dBDeqPtr \in Positions
  /\ sCountReg \in Positions /\ dCountReg \in Positions
  /\ sSyncReg1 \in Words /\ sDeqPtr \in Words /\ dSyncReg1 \in Words /\ dEnqPtr \in Words
  /\ fifoMem \in Memory /\ dDoutReg \in Elements
  /\ queue \in Seq(Data)

(* What the waves leave behind.  The pointer of a side at rest is seen as  *)
(* zero by the other side two edges after the request was, so before the   *)
(* acknowledgement is back.                                                *)
Cleared(s, d) ==
  /\ s < 5 => sBEnqPtr = 0 /\ ~sNotFullReg /\ sCountReg = 0 /\ queue = <<>>
  /\ s \in 1 .. 4 => dSyncReg1 = Code[0]
  /\ s \in 2 .. 4 => dEnqPtr = Code[0]
  /\ s \in 3 .. 4 => dBDeqPtr = 0 /\ ~dNotEmptyReg /\ dCountReg = 0
  /\ s = 4 => sSyncReg1 = Code[0]
  /\ d < 5 => dBDeqPtr = 0 /\ ~dNotEmptyReg /\ dCountReg = 0
  /\ d \in 1 .. 4 => sSyncReg1 = Code[0]
  /\ d \in 2 .. 4 => sDeqPtr = Code[0]

(* The copies of the enqueue pointer that count: those taken before the    *)
(* source has cleared for the destination, at stage 3, do not.             *)
Copy1(d) == IF d >= 4 THEN Position(dSyncReg1) ELSE sBEnqPtr
Copy2(d) == IF d = 5 THEN Position(dEnqPtr) ELSE Copy1(d)

(* The source is at rest and has cleared for the destination: the FIFO     *)
(* works as one without clears.                                            *)
Live(d) ==
  /\ Ordered(sBEnqPtr, Copy1(d), Copy2(d), dBDeqPtr, Position(sSyncReg1), Position(sDeqPtr))
  /\ sNotFullReg => Behind(sBEnqPtr, Position(sDeqPtr)) < Depth
  /\ Stored <= sCountReg /\ sCountReg <= Depth
  /\ dCountReg <= Stored + Bit(dNotEmptyReg)
  /\ Contents = queue

Inv(s, d) == Types /\ Rings(s, d) /\ Cleared(s, d) /\ (s = 5 /\ d >= 3 => Live(d))

IInv == \E s, d \in 0 .. 5 : Inv(s, d)

-----------------------------------------------------------------------------
(* The waves and the types at an edge.                                     *)

(* Both rings, at one edge.                                                *)
LEMMA RingsStep ==
  ASSUME NEW s \in 0 .. 5, NEW d \in 0 .. 5, Rings(s, d),
         NEW t \in Edges, Tick(t)
  PROVE  /\ NextStage(s, t.src, t.dst, t.sclr) \in 0 .. 5
         /\ NextStage(d, t.dst, t.src, t.dclr) \in 0 .. 5
         /\ Rings(NextStage(s, t.src, t.dst, t.sclr), NextStage(d, t.dst, t.src, t.dclr))'
         /\ t.sclr => t.src /\ s = 5
         /\ t.dclr => t.dst /\ d = 5
<1>1. t.sclr => t.src /\ s = 5
  BY Clears DEF Tick, SourceMoves, SrcEdge
<1>2. t.dclr => t.dst /\ d = 5
  BY Clears DEF Tick, DestMoves, DstEdge
<1>3. /\ sToggle' = IF t.sclr THEN 1 - sToggle ELSE sToggle
      /\ sAck1' = IF t.src THEN dDone ELSE sAck1
      /\ sAck2' = IF t.src THEN sAck1 ELSE sAck2
      /\ sReq1' = IF t.src THEN dToggle ELSE sReq1
      /\ sReq2' = IF t.src THEN sReq1 ELSE sReq2
      /\ sDone' = IF t.src THEN sReq2 ELSE sDone
  BY DEF Tick, SourceMoves, SrcEdge, sVars, sClrSync!SrcEdge, sClrSync!Flip, dClrSync!DstEdge
<1>4. /\ dToggle' = IF t.dclr THEN 1 - dToggle ELSE dToggle
      /\ dAck1' = IF t.dst THEN sDone ELSE dAck1
      /\ dAck2' = IF t.dst THEN dAck1 ELSE dAck2
      /\ dReq1' = IF t.dst THEN sToggle ELSE dReq1
      /\ dReq2' = IF t.dst THEN dReq1 ELSE dReq2
      /\ dDone' = IF t.dst THEN dReq2 ELSE dDone
  BY DEF Tick, DestMoves, DstEdge, dVars, dClrSync!SrcEdge, dClrSync!Flip, sClrSync!DstEdge
<1>5. /\ NextStage(s, t.src, t.dst, t.sclr) \in 0 .. 5
      /\ Ring(NextStage(s, t.src, t.dst, t.sclr), sToggle', dReq1', dReq2', dDone', sAck1', sAck2')
  BY <1>1, <1>3, <1>4, RingMoves DEF Rings, Edges
<1>6. /\ NextStage(d, t.dst, t.src, t.dclr) \in 0 .. 5
      /\ Ring(NextStage(d, t.dst, t.src, t.dclr), dToggle', sReq1', sReq2', sDone', dAck1', dAck2')
  BY <1>2, <1>3, <1>4, RingMoves DEF Rings, Edges
<1>7. QED
  BY <1>1, <1>2, <1>5, <1>6 DEF Rings

(* Under Types every crossing register holds the word of its position. *)
LEMMA Copies ==
  ASSUME Types
  PROVE  /\ Position(dSyncReg1) \in Positions /\ Code[Position(dSyncReg1)] = dSyncReg1
         /\ Position(dEnqPtr) \in Positions   /\ Code[Position(dEnqPtr)] = dEnqPtr
         /\ Position(sSyncReg1) \in Positions /\ Code[Position(sSyncReg1)] = sSyncReg1
         /\ Position(sDeqPtr) \in Positions   /\ Code[Position(sDeqPtr)] = sDeqPtr
BY PositionOfCode DEF Types, Words

(* Distances are positions themselves. *)
LEMMA BehindPosition == \A p, r \in Positions : Behind(p, r) \in Positions
BY DepthAssumption DEF Behind, Positions

(* What an edge does to the types. *)
LEMMA TypesStep ==
  ASSUME Types, NEW t \in Edges, Tick(t)
  PROVE  Types'
<1> USE DEF Edges
<1>1. /\ sNotFullReg' \in BOOLEAN /\ sBEnqPtr' \in Positions /\ sCountReg' \in Positions
      /\ sSyncReg1' \in Words /\ sDeqPtr' \in Words /\ fifoMem' \in Memory
  <2>1. CASE t.src
    <3>1. SrcEdge(t.v, t.sclr, Code[dBDeqPtr], dDone, dToggle)
      BY <2>1 DEF Tick, SourceMoves
    <3>2. NextEnq(t.v, t.sclr) \in Positions /\ sCountAt(NextEnq(t.v, t.sclr)) \in Positions
      BY PositionTypes, BehindPosition, Copies DEF NextEnq, sCountAt, Types
    <3>3. fifoMem' \in Memory
      BY <3>1, PositionTypes DEF SrcEdge, Types, Memory, Elements, Inputs
    <3>4. QED
      BY <3>1, <3>2, <3>3, PositionTypes DEF SrcEdge, Types, Words
  <2>2. CASE ~t.src
    BY <2>2 DEF Tick, SourceMoves, sVars, Types
  <2>3. QED
    BY <2>1, <2>2
<1>2. /\ dNotEmptyReg' \in BOOLEAN /\ dBDeqPtr' \in Positions /\ dCountReg' \in Positions
      /\ dSyncReg1' \in Words /\ dEnqPtr' \in Words /\ dDoutReg' \in Elements
  <2>1. CASE t.dst
    <3>1. DstEdge(t.deq, t.dclr, Code[sBEnqPtr], t.head, sDone, sToggle)
      BY <2>1 DEF Tick, DestMoves
    <3>2. NextDeq(t.deq, t.dclr) \in Positions /\ dNextCnt \in Positions
      BY PositionTypes, BehindPosition, Copies DEF NextDeq, dNextCnt, Types
    <3>3. QED
      BY <3>1, <3>2, PositionTypes DEF DstEdge, Types, Words
  <2>2. CASE ~t.dst
    BY <2>2 DEF Tick, DestMoves, dVars, Types
  <2>3. QED
    BY <2>1, <2>2
<1>3. queue' \in Seq(Data)
  <2>1. queue' = After(queue, (t.src /\ sClear(t.sclr)) \/ t.dclr, Takes(t.deq), t.v)
    BY DEF Tick
  <2>2. queue \in Seq(Data) /\ <<>> \in Seq(Data)
    BY EmptySeq DEF Types
  <2>3. Takes(t.deq) => Tail(queue) \in Seq(Data)
    BY <2>2, HeadTailProperties DEF Takes
  <2>4. \A q \in Seq(Data) : t.v # None => Append(q, t.v) \in Seq(Data)
    BY AppendProperties DEF Inputs
  <2>5. QED
    BY <2>1, <2>2, <2>3, <2>4 DEF After
<1>4. QED
  BY <1>1, <1>2, <1>3 DEF Tick, Types

-----------------------------------------------------------------------------
(* What the waves leave behind, at an edge.                                *)

(* The registers that cross, and those of a side without an edge. *)
LEMMA Crossing ==
  ASSUME NEW t \in Edges, Tick(t)
  PROVE  /\ sSyncReg1' = IF t.src THEN Code[dBDeqPtr] ELSE sSyncReg1
         /\ sDeqPtr' = IF t.src THEN sSyncReg1 ELSE sDeqPtr
         /\ dSyncReg1' = IF t.dst THEN Code[sBEnqPtr] ELSE dSyncReg1
         /\ dEnqPtr' = IF t.dst THEN dSyncReg1 ELSE dEnqPtr
         /\ ~t.src => /\ sBEnqPtr' = sBEnqPtr /\ sNotFullReg' = sNotFullReg
                    /\ sCountReg' = sCountReg /\ fifoMem' = fifoMem /\ t.v = None
         /\ ~t.dst => /\ dBDeqPtr' = dBDeqPtr /\ dNotEmptyReg' = dNotEmptyReg
                    /\ dCountReg' = dCountReg /\ dDoutReg' = dDoutReg /\ t.deq = FALSE
BY DEF Tick, SourceMoves, SrcEdge, sVars, DestMoves, DstEdge, dVars

(* A clear at an edge. *)
LEMMA ClearsAtEdge ==
  ASSUME NEW t \in Edges, Tick(t)
  PROVE  /\ t.src /\ sClear(t.sclr) =>
              sBEnqPtr' = 0 /\ ~sNotFullReg' /\ sCountReg' = 0 /\ queue' = <<>>
         /\ t.dst /\ dClear(t.dclr) => dBDeqPtr' = 0 /\ ~dNotEmptyReg' /\ dCountReg' = 0
         /\ t.dclr => queue' = <<>>
<1>1. ASSUME t.src, sClear(t.sclr)
      PROVE  sBEnqPtr' = 0 /\ ~sNotFullReg' /\ sCountReg' = 0 /\ queue' = <<>>
  BY <1>1 DEF Tick, SourceMoves, SrcEdge, NextEnq, After
<1>2. ASSUME t.dst, dClear(t.dclr)
      PROVE  dBDeqPtr' = 0 /\ ~dNotEmptyReg' /\ dCountReg' = 0
  BY <1>2 DEF Tick, DestMoves, DstEdge, NextDeq
<1>3. t.dclr => queue' = <<>>
  BY DEF Tick, After
<1>4. QED
  BY <1>1, <1>2, <1>3

(* A destination that sees the memory empty, and shows nothing, stays so. *)
LEMMA EmptyStays ==
  ASSUME Types, NEW t \in Edges, Tick(t),
         dBDeqPtr = 0, ~dNotEmptyReg, dCountReg = 0, dEnqPtr = Code[0]
  PROVE  dBDeqPtr' = 0 /\ ~dNotEmptyReg' /\ dCountReg' = 0
<1>1. CASE t.dst
  <2>1. DstEdge(t.deq, t.dclr, Code[sBEnqPtr], t.head, sDone, sToggle)
    BY <1>1 DEF Tick, DestMoves
  <2>2. ~Fetch(t.deq)
    BY DEF Fetch, dNextNotEmpty
  <2>3. dNextCnt = 0
    BY PositionTypes, PositionOfCode DEF dNextCnt, Behind
  <2>4. QED
    BY <2>1, <2>2, <2>3 DEF DstEdge, NextDeq
<1>2. CASE ~t.dst
  BY <1>2, Crossing
<1>3. QED
  BY <1>1, <1>2

(* What is known zero while a clear is on its way stays so, or is done with. *)
LEMMA ClearedStep ==
  ASSUME NEW s \in 0 .. 5, NEW d \in 0 .. 5, Types, Rings(s, d), Cleared(s, d),
         NEW t \in Edges, Tick(t),
         NEW s1, s1 = NextStage(s, t.src, t.dst, t.sclr),
         NEW d1, d1 = NextStage(d, t.dst, t.src, t.dclr)
  PROVE  Cleared(s1, d1)'
<1>1. /\ s1 \in 0 .. 5 /\ d1 \in 0 .. 5
      /\ t.sclr => t.src /\ s = 5
      /\ t.dclr => t.dst /\ d = 5
  BY RingsStep
<1>2. /\ sClear(t.sclr) <=> t.sclr \/ s # 5 \/ d = 2
      /\ dClear(t.dclr) <=> t.dclr \/ d # 5 \/ s = 2
  BY Clears DEF Edges
<1>3. ASSUME s1 < 5
      PROVE  sBEnqPtr' = 0 /\ ~sNotFullReg' /\ sCountReg' = 0 /\ queue' = <<>>
  <2>1. CASE t.src
    <3>1. sClear(t.sclr)
      BY <1>2, <1>3 DEF NextStage
    <3>2. QED
      BY <2>1, <3>1, ClearsAtEdge
  <2>2. CASE ~t.src
    <3>1. s < 5
      BY <1>1, <1>3, <2>2 DEF NextStage
    <3>2. sBEnqPtr' = 0 /\ ~sNotFullReg' /\ sCountReg' = 0 /\ queue = <<>>
      BY <2>2, <3>1, Crossing DEF Cleared
    <3>3. queue' = <<>>
      BY <2>2, <3>2, Crossing DEF Tick, After, Takes
    <3>4. QED
      BY <3>2, <3>3
  <2>3. QED
    BY <2>1, <2>2
<1> DEFINE was(k, n, own, other) ==
             /\ n \in 1 .. 4 => k < 5 /\ (other \/ k \in 1 .. 4)
             /\ n \in 2 .. 4 => k \in 1 .. 4 /\ (other \/ k \in 2 .. 4)
             /\ n \in 3 .. 4 => (other /\ k = 2) \/ k \in 3 .. 4
             /\ n = 4 => (own /\ k = 3) \/ (~own /\ k = 4)
<1>0. was(s, s1, t.src, t.dst) /\ was(d, d1, t.dst, t.src)
  BY RingWas DEF Edges
<1>4. s1 \in 1 .. 4 => dSyncReg1' = Code[0]
  BY <1>0, Crossing DEF Cleared
<1>5. s1 \in 2 .. 4 => dEnqPtr' = Code[0]
  BY <1>0, Crossing DEF Cleared
<1>6. ASSUME s1 \in 3 .. 4
      PROVE  dBDeqPtr' = 0 /\ ~dNotEmptyReg' /\ dCountReg' = 0
  <2>1. (s = 2 /\ t.dst) \/ s \in 3 .. 4
    BY <1>0, <1>6
  <2>2. CASE s = 2 /\ t.dst
    BY <1>2, <2>2, ClearsAtEdge
  <2>3. CASE s \in 3 .. 4
    <3>1. dBDeqPtr = 0 /\ ~dNotEmptyReg /\ dCountReg = 0 /\ dEnqPtr = Code[0]
      BY <2>3 DEF Cleared
    <3>2. QED
      BY <3>1, EmptyStays
  <2>4. QED
    BY <2>1, <2>2, <2>3
<1>7. s1 = 4 => sSyncReg1' = Code[0]
  <2>1. s = 3 => dBDeqPtr = 0
    BY DEF Cleared
  <2>2. s = 4 => sSyncReg1 = Code[0]
    BY DEF Cleared
  <2>3. s1 = 4 => (t.src /\ s = 3) \/ (~t.src /\ s = 4)
    BY <1>0
  <2>4. sSyncReg1' = IF t.src THEN Code[dBDeqPtr] ELSE sSyncReg1
    BY Crossing
  <2>5. QED
    BY <2>1, <2>2, <2>3, <2>4
<1>8. ASSUME d1 < 5
      PROVE  dBDeqPtr' = 0 /\ ~dNotEmptyReg' /\ dCountReg' = 0
  <2>1. CASE t.dst
    <3>1. dClear(t.dclr)
      BY <1>2, <1>8 DEF NextStage
    <3>2. QED
      BY <2>1, <3>1, ClearsAtEdge
  <2>2. CASE ~t.dst
    <3>1. d < 5
      BY <1>1, <1>8, <2>2 DEF NextStage
    <3>2. QED
      BY <2>2, <3>1, Crossing DEF Cleared
  <2>3. QED
    BY <2>1, <2>2
<1>9. d1 \in 1 .. 4 => sSyncReg1' = Code[0]
  BY <1>0, Crossing DEF Cleared
<1>10. d1 \in 2 .. 4 => sDeqPtr' = Code[0]
  BY <1>0, Crossing DEF Cleared
<1>11. QED
  BY <1>3, <1>4, <1>5, <1>6, <1>7, <1>8, <1>9, <1>10 DEF Cleared

-----------------------------------------------------------------------------
(* Coming to rest: a side that has just cleared leaves the FIFO empty.     *)

(* With all pointers at zero, the queue is empty and in order.             *)
LEMMA LiveFromZero ==
  ASSUME NEW d \in 0 .. 5, Types',
         (sBEnqPtr = 0 /\ ~sNotFullReg /\ sCountReg = 0 /\ queue = <<>>)',
         (dBDeqPtr = 0 /\ ~dNotEmptyReg /\ dCountReg = 0)',
         (sSyncReg1 = Code[0] /\ sDeqPtr = Code[0])',
         (d >= 4 => dSyncReg1 = Code[0] /\ dEnqPtr = Code[0])'
  PROVE  Live(d)'
<1>1. 0 \in Positions /\ Position(Code[0]) = 0 /\ Behind(0, 0) = 0 /\ 0 <= Depth
  BY PositionTypes, PositionOfCode, DepthAssumption DEF Behind
<1>2. Copy1(d)' = 0 /\ Copy2(d)' = 0
  BY <1>1 DEF Copy1, Copy2
<1>3. Ordered(sBEnqPtr, Copy1(d), Copy2(d), dBDeqPtr, Position(sSyncReg1), Position(sDeqPtr))'
  BY <1>1, <1>2 DEF Ordered
<1>4. Contents' = <<>>
  <2>1. dNotEmptyReg' = FALSE /\ fifoMem' \in Memory /\ dDoutReg' \in Elements
    BY DEF Types
  <2>2. QED
    BY <2>1, ContentsNone DEF Contents
<1>5. QED
  BY <1>1, <1>3, <1>4 DEF Live, Stored, Bit

(* That is the case when the source comes to rest.                         *)
LEMMA LiveEntry ==
  ASSUME NEW s \in 0 .. 5, NEW d \in 0 .. 5, Types, Rings(s, d), Cleared(s, d),
         NEW t \in Edges, Tick(t),
         5 = NextStage(s, t.src, t.dst, t.sclr),
         NEW d1 \in 3 .. 5, d1 = NextStage(d, t.dst, t.src, t.dclr),
         ~(s = 5 /\ d >= 3)
  PROVE  Live(d1)'
<1>1. Types' /\ Cleared(5, d1)'
  BY TypesStep, ClearedStep
<1>2. t.src /\ (s = 4 \/ (s = 5 /\ d = 2))
  BY DEF NextStage, Edges
<1>3. sBEnqPtr' = 0 /\ ~sNotFullReg' /\ sCountReg' = 0 /\ queue' = <<>>
  <2>1. sClear(t.sclr)
    BY <1>2, Clears DEF Edges
  <2>2. QED
    BY <1>2, <2>1, ClearsAtEdge
<1>4. CASE s = 4
  <2>1. /\ sBEnqPtr = 0 /\ dSyncReg1 = Code[0] /\ dEnqPtr = Code[0] /\ sSyncReg1 = Code[0]
        /\ dBDeqPtr = 0 /\ ~dNotEmptyReg /\ dCountReg = 0
    BY <1>4 DEF Cleared
  <2>2. dBDeqPtr' = 0 /\ ~dNotEmptyReg' /\ dCountReg' = 0
    BY <2>1, EmptyStays
  <2>3. /\ sSyncReg1' = Code[0] /\ sDeqPtr' = Code[0]
        /\ dSyncReg1' = Code[0] /\ dEnqPtr' = Code[0]
    BY <1>2, <2>1, Crossing
  <2>4. QED
    BY <1>1, <1>3, <2>2, <2>3, LiveFromZero
<1>5. CASE s = 5 /\ d = 2
  <2>1. d1 = 3
    BY <1>2, <1>5 DEF NextStage
  <2>2. dBDeqPtr' = 0 /\ ~dNotEmptyReg' /\ dCountReg' = 0
    BY <1>1, <2>1 DEF Cleared
  <2>3. sSyncReg1' = Code[0] /\ sDeqPtr' = Code[0]
    BY <1>1, <2>1 DEF Cleared
  <2>4. QED
    BY <1>1, <1>3, <2>1, <2>2, <2>3, LiveFromZero
<1>6. QED
  BY <1>2, <1>4, <1>5

-----------------------------------------------------------------------------
(* The FIFO at work: the destination's part of an edge, then the source's. *)

(* The types and the order of a live state. *)
LEMMA LiveParts ==
  ASSUME NEW d \in 3 .. 5, Types, Live(d)
  PROVE  /\ Copy1(d) \in Positions /\ Copy2(d) \in Positions
         /\ Position(sSyncReg1) \in Positions /\ Position(sDeqPtr) \in Positions
         /\ Ordered(sBEnqPtr, Copy1(d), Copy2(d), dBDeqPtr,
                    Position(sSyncReg1), Position(sDeqPtr))
         /\ sNotFullReg => Behind(sBEnqPtr, Position(sDeqPtr)) < Depth
         /\ Stored \in Nat /\ Stored <= Behind(sBEnqPtr, Position(sSyncReg1))
         /\ Stored <= Depth
         /\ sNotFullReg => Stored < Depth
<1>1. Copy1(d) \in Positions /\ Copy2(d) \in Positions
  BY Copies DEF Copy1, Copy2, Types
<1>2. Position(sSyncReg1) \in Positions /\ Position(sDeqPtr) \in Positions
  BY Copies
<1>3. /\ Ordered(sBEnqPtr, Copy1(d), Copy2(d), dBDeqPtr,
                 Position(sSyncReg1), Position(sDeqPtr))
      /\ sNotFullReg => Behind(sBEnqPtr, Position(sDeqPtr)) < Depth
  BY DEF Live
<1>4. sBEnqPtr \in Positions /\ dBDeqPtr \in Positions
  BY DEF Types
<1>5. /\ Stored \in Nat /\ Stored <= Behind(sBEnqPtr, Position(sSyncReg1))
      /\ Stored <= Depth
      /\ sNotFullReg => Stored < Depth
  BY <1>2, <1>3, <1>4, BehindNat, DepthAssumption DEF Ordered, Stored
<1>6. QED
  BY <1>1, <1>2, <1>3, <1>5

(* The head is read from another word than the one written.                *)
LEMMA NotTorn ==
  ASSUME Types, Live(5), NEW t \in Edges, Tick(t), Fetch(t.deq)
  PROVE  t.head = fifoMem[Addr(dBDeqPtr)] /\ Stored # 0 /\ dBDeqPtr # Position(dEnqPtr)
<1> DEFINE e == sBEnqPtr
           d == dBDeqPtr
<1>1. e \in Positions /\ d \in Positions /\ Copy2(5) = Position(dEnqPtr)
  BY DEF Types, Copy2
<1>2. d # Position(dEnqPtr)
  BY Copies DEF Fetch, dNextNotEmpty
<1>3. Behind(e, Succ(d)) = Behind(e, d) - 1
  BY <1>1, <1>2, LiveParts, OrderedFetch
<1>4. Stored \in Nat /\ Stored # 0
  <2>1. Behind(e, Succ(d)) \in Nat /\ Behind(e, d) \in Nat
    BY <1>1, PositionTypes, BehindNat
  <2>2. QED
    BY <1>3, <2>1 DEF Stored
<1>5. ASSUME t.v # None PROVE Addr(e) # Addr(d)
  <2>1. sNotFullReg
    BY <1>5 DEF Tick, SourceMoves, SrcEdge
  <2>2. Stored < Depth
    BY <2>1, LiveParts
  <2>3. 0 \in 0 .. Behind(e, d) - 1 /\ Behind(e, d) <= Depth
    BY <1>4, <2>2, DepthAssumption DEF Stored
  <2>4. Ahead(d, 0) = d /\ Addr(Ahead(d, 0)) # Addr(e)
    BY <1>1, <2>2, <2>3, Walk DEF Stored
  <2>5. QED
    BY <2>4
<1>6. QED
  BY <1>2, <1>4, <1>5 DEF Tick

(* The copies of the enqueue pointer after the edge that count. *)
Next1(d1) == IF d1 >= 4 THEN Position(dSyncReg1') ELSE sBEnqPtr
Next2(d1) == IF d1 = 5 THEN Position(dEnqPtr') ELSE Next1(d1)

(* What the destination does, the enqueue pointer still in place. *)
DestDone(t, d1) ==
  /\ Next1(d1) \in Positions /\ Next2(d1) \in Positions
  /\ Ordered(sBEnqPtr, Next1(d1), Next2(d1), dBDeqPtr',
             Position(sSyncReg1), Position(sDeqPtr))
  /\ Behind(sBEnqPtr, dBDeqPtr') <= Stored
  /\ dCountReg' <= Behind(sBEnqPtr, dBDeqPtr') + Bit(dNotEmptyReg')
  /\ MovedContents(fifoMem, sBEnqPtr, dBDeqPtr, dNotEmptyReg, dDoutReg, t.deq,
                   dBDeqPtr', dNotEmptyReg', dDoutReg')

(* What an edge does to the side of the destination.                       *)
LEMMA DestPart ==
  ASSUME NEW d \in 3 .. 5, Types, Rings(5, d), Cleared(5, d), Live(d),
         NEW t \in Edges, Tick(t), ~t.dclr,
         NEW d1, d1 = NextStage(d, t.dst, t.src, t.dclr)
  PROVE  DestDone(t, d1)
<1> DEFINE e  == sBEnqPtr
           p  == dBDeqPtr
           b1 == Position(sSyncReg1)
           b2 == Position(sDeqPtr)
<1>1. /\ e \in Positions /\ p \in Positions /\ fifoMem \in Memory /\ dDoutReg \in Elements
      /\ dNotEmptyReg \in BOOLEAN /\ t.deq \in BOOLEAN /\ t.dst \in BOOLEAN
      /\ b1 \in Positions /\ b2 \in Positions
      /\ Copy1(d) \in Positions /\ Copy2(d) \in Positions
      /\ Ordered(e, Copy1(d), Copy2(d), p, b1, b2)
      /\ Behind(e, p) = Stored /\ Stored \in Nat /\ Behind(e, p) <= Depth
  BY LiveParts DEF Types, Edges, Stored
<1>2. dCountReg <= Stored + Bit(dNotEmptyReg)
  BY DEF Live
<1>3. CASE ~t.dst
  <2>1. d1 = d /\ Next1(d1) = Copy1(d) /\ Next2(d1) = Copy2(d)
    <3>1. d1 = d
      BY <1>3 DEF NextStage
    <3>2. dSyncReg1' = dSyncReg1 /\ dEnqPtr' = dEnqPtr
      BY <1>3, Crossing
    <3>3. QED
      BY <3>1, <3>2 DEF Next1, Next2, Copy1, Copy2
  <2>2. /\ p' = p /\ dNotEmptyReg' = dNotEmptyReg /\ dDoutReg' = dDoutReg
        /\ dCountReg' = dCountReg /\ ~t.deq
    BY <1>3, Crossing
  <2>3. MovedContents(fifoMem, e, p, dNotEmptyReg, dDoutReg, t.deq, p', dNotEmptyReg', dDoutReg')
    BY <2>2 DEF MovedContents
  <2>4. QED
    BY <1>1, <1>2, <2>1, <2>2, <2>3 DEF DestDone
<1>4. CASE t.dst
  <2>1. /\ dSyncReg1' = Code[e] /\ dEnqPtr' = dSyncReg1
        /\ DstEdge(t.deq, t.dclr, Code[e], t.head, sDone, sToggle)
    BY <1>4, Crossing DEF Tick, DestMoves
  <2>2. /\ Next1(d1) = e /\ Next2(d1) = IF d1 = 5 THEN Position(dSyncReg1) ELSE e
        /\ d1 = IF d < 5 THEN d + 1 ELSE 5
    BY <1>1, <1>4, <2>1, PositionOfCode DEF NextStage, Next1, Next2
  <2>3. Ordered(e, e, Copy1(d), p, b1, b2)
    BY <1>1, OrderedWait
  <2>4. Next2(d1) = Copy1(d)
    BY <2>2 DEF Copy1
  <2>5. CASE d < 5
    <3>1. p = 0 /\ dNotEmptyReg = FALSE /\ ~t.deq
      BY <1>1, <2>1, <2>5 DEF Cleared, DstEdge
    <3>2. dClear(t.dclr)
      BY <1>1, <2>5, Clears DEF Edges
    <3>3. p' = p /\ dNotEmptyReg' = FALSE /\ dCountReg' = 0
      BY <1>4, <2>1, <3>1, <3>2, ClearsAtEdge DEF DstEdge
    <3>4. MovedContents(fifoMem, e, p, dNotEmptyReg, dDoutReg, t.deq, p', dNotEmptyReg', dDoutReg')
      BY <3>1, <3>3, ContentsUnloaded DEF MovedContents
    <3>5. QED
      BY <1>1, <2>2, <2>3, <2>4, <3>3, <3>4 DEF DestDone, Bit
  <2>6. CASE d = 5
    <3>1. ~dClear(t.dclr)
      BY <1>1, <2>6, Clears DEF Edges
    <3>2. /\ p' = IF Fetch(t.deq) THEN Succ(p) ELSE p
          /\ dNotEmptyReg' = (Fetch(t.deq) \/ (dNotEmptyReg /\ ~t.deq))
          /\ dDoutReg' = IF Fetch(t.deq) THEN t.head ELSE dDoutReg
          /\ dCountReg' = IF t.deq /\ ~dNextNotEmpty THEN 0 ELSE dNextCnt
          /\ t.deq => dNotEmptyReg
      BY <2>1, <3>1 DEF DstEdge, NextDeq
    <3>3. dNextCnt <= Behind(e, p) /\ dNextCnt \in Nat
      BY <1>1, <2>6, CountFromCopy, BehindNat DEF dNextCnt, Copy2
    <3>4. CASE Fetch(t.deq)
      <4>1. t.head = fifoMem[Addr(p)] /\ Stored # 0 /\ p # Copy2(d)
        BY <2>6, <3>4, NotTorn DEF Copy2
      <4>2. /\ p' = Succ(p) /\ dNotEmptyReg' = TRUE /\ dDoutReg' = fifoMem[Addr(p)]
            /\ (~dNotEmptyReg \/ t.deq)
        BY <3>2, <3>4, <4>1 DEF Fetch
      <4>3. /\ Ordered(e, e, Copy1(d), Succ(p), b1, b2)
            /\ Behind(e, Succ(p)) = Behind(e, p) - 1
        BY <1>1, <4>1, OrderedFetch
      <4>4. dCountReg' <= Behind(e, p') + Bit(dNotEmptyReg')
        BY <1>1, <3>2, <3>3, <4>2, <4>3 DEF Bit
      <4>5. HeadMoved(fifoMem, p, dNotEmptyReg, dDoutReg, t.deq, TRUE,
                      p', dNotEmptyReg', dDoutReg')
        BY <3>2, <4>2 DEF HeadMoved
      <4>6. MovedContents(fifoMem, e, p, dNotEmptyReg, dDoutReg, t.deq, p', dNotEmptyReg', dDoutReg')
        BY <1>1, <4>1, <4>5, ContentsMoved, ZenonT(60)
      <4>7. Behind(e, p') <= Stored
        BY <1>1, <4>2, <4>3
      <4>8. Ordered(e, Next1(d1), Next2(d1), p', b1, b2)
        BY <2>2, <2>4, <4>2, <4>3
      <4>9. QED
        BY <1>1, <2>2, <2>4, <4>4, <4>6, <4>7, <4>8 DEF DestDone
    <3>5. CASE ~Fetch(t.deq)
      <4>1. /\ p' = p /\ dNotEmptyReg' = (dNotEmptyReg /\ ~t.deq) /\ dDoutReg' = dDoutReg
        BY <3>2, <3>5
      <4>2. dCountReg' <= Behind(e, p') + Bit(dNotEmptyReg')
        BY <1>1, <3>2, <3>3, <4>1 DEF Bit
      <4>3. HeadMoved(fifoMem, p, dNotEmptyReg, dDoutReg, t.deq, FALSE,
                      p', dNotEmptyReg', dDoutReg')
        BY <3>2, <4>1 DEF HeadMoved
      <4>4. MovedContents(fifoMem, e, p, dNotEmptyReg, dDoutReg, t.deq, p', dNotEmptyReg', dDoutReg')
        BY <1>1, <4>3, ContentsMoved, ZenonT(60)
      <4>5. QED
        BY <1>1, <2>2, <2>3, <2>4, <4>1, <4>2, <4>4 DEF DestDone
    <3>6. QED
      BY <3>4, <3>5
  <2>7. QED
    BY <2>5, <2>6
<1>5. QED
  BY <1>3, <1>4

(* The source's part, the dequeue pointer now at p and the destination's   *)
(* copies at a1 and a2; the source captures the pointer from before.       *)
SourceBefore(a1, a2, p) ==
  /\ Ordered(sBEnqPtr, a1, a2, p, Position(sSyncReg1), Position(sDeqPtr))
  /\ sNotFullReg => Behind(sBEnqPtr, Position(sDeqPtr)) < Depth
  /\ Behind(sBEnqPtr, p) <= Stored /\ Stored <= Behind(sBEnqPtr, Position(sSyncReg1))
  /\ Stored <= sCountReg /\ sCountReg <= Depth

SourceDone(t, a1, a2, p) ==
  /\ Ordered(sBEnqPtr', a1, a2, p, Position(sSyncReg1'), Position(sDeqPtr'))
  /\ sNotFullReg' => Behind(sBEnqPtr', Position(sDeqPtr')) < Depth
  /\ Behind(sBEnqPtr, p) <= Behind(sBEnqPtr', p)
  /\ Behind(sBEnqPtr', p) <= sCountReg' /\ sCountReg' <= Depth
  /\ \A h : \A out \in Elements :
       ContentsOf(fifoMem', sBEnqPtr', p, h, out)
         = IF t.v # None THEN Append(ContentsOf(fifoMem, sBEnqPtr, p, h, out), t.v)
           ELSE ContentsOf(fifoMem, sBEnqPtr, p, h, out)

(* What it does to the side of the source.                                 *)
LEMMA SourcePart ==
  ASSUME Types, NEW t \in Edges, Tick(t), t.src => ~sClear(t.sclr),
         NEW a1 \in Positions, NEW a2 \in Positions, NEW p \in Positions,
         SourceBefore(a1, a2, p)
  PROVE  SourceDone(t, a1, a2, p)
<1> DEFINE e  == sBEnqPtr
           y  == dBDeqPtr
           b1 == Position(sSyncReg1)
           b2 == Position(sDeqPtr)
<1>1. /\ e \in Positions /\ y \in Positions /\ fifoMem \in Memory
      /\ b1 \in Positions /\ b2 \in Positions /\ Code[b2] = sDeqPtr
      /\ sNotFullReg \in BOOLEAN /\ Addr(e) \in 0 .. Depth - 1 /\ Succ(e) \in Positions
      /\ Behind(e, y) = Stored /\ Behind(e, p) \in Nat /\ Stored \in Nat
      /\ sCountReg \in Nat
  BY Copies, PositionTypes, BehindNat DEF Types, Stored, Positions
<1>2. /\ Ordered(e, a1, a2, p, b1, b2)
      /\ sNotFullReg => Behind(e, b2) < Depth
      /\ Behind(e, p) <= Behind(e, y) /\ Behind(e, y) <= Behind(e, b1)
      /\ Stored <= sCountReg /\ sCountReg <= Depth
  BY <1>1 DEF SourceBefore
<1>3. CASE ~t.src
  <2>1. /\ e' = e /\ sNotFullReg' = sNotFullReg /\ sCountReg' = sCountReg
        /\ fifoMem' = fifoMem /\ t.v = None
        /\ sSyncReg1' = sSyncReg1 /\ sDeqPtr' = sDeqPtr
    BY <1>3, Crossing
  <2>2. Behind(e, p) <= sCountReg
    BY <1>1, <1>2
  <2>3. QED
    BY <1>1, <1>2, <2>1, <2>2 DEF SourceDone
<1>4. CASE t.src
  <2>1. /\ sSyncReg1' = Code[y] /\ sDeqPtr' = sSyncReg1
        /\ Position(sSyncReg1') = y /\ Position(sDeqPtr') = b1
        /\ SrcEdge(t.v, t.sclr, Code[y], dDone, dToggle) /\ ~sClear(t.sclr)
    BY <1>1, <1>4, Crossing, PositionOfCode DEF Tick, SourceMoves
  <2>2. /\ e' = IF t.v # None THEN Succ(e) ELSE e
        /\ sNotFullReg' = (FlipTop2(Width, Code[e']) # Code[b2])
        /\ sCountReg' = Behind(e', b2)
    BY <1>1, <2>1 DEF SrcEdge, NextEnq, NotFullAt, sCountAt
  <2>3. e' \in Positions /\ (sNotFullReg' => b2 # Opposite(e'))
    BY <1>1, <2>2, FullTest
  <2>4. CASE t.v = None
    <3>1. e' = e /\ fifoMem' = fifoMem
      BY <2>1, <2>2, <2>4 DEF SrcEdge
    <3>2. /\ Ordered(e, a1, a2, p, y, b1)
          /\ b2 # Opposite(e) => Behind(e, b1) < Depth
      BY <1>1, <1>2, OrderedIdle
    <3>3. Behind(e, p) <= Behind(e, b2) /\ Behind(e, b2) <= Depth
      <4>1. Behind(e, b1) \in Nat /\ Behind(e, b2) \in Nat
        BY <1>1, BehindNat
      <4>2. QED
        BY <1>1, <1>2, <4>1 DEF Ordered
    <3>4. QED
      BY <1>1, <2>1, <2>2, <2>3, <2>4, <3>1, <3>2, <3>3 DEF SourceDone
  <2>5. CASE t.v # None
    <3>1. /\ sNotFullReg /\ t.v \in Data /\ e' = Succ(e)
          /\ Written(fifoMem', fifoMem, Addr(e), t.v)
      BY <2>1, <2>2, <2>5 DEF SrcEdge, Written, Edges, Inputs
    <3>2. Behind(e, b2) < Depth
      BY <1>2, <3>1
    <3>3. MayEnqueue(e, a1, a2, p, b1, b2, y)
      BY <1>2, <3>2 DEF MayEnqueue
    <3>4. /\ Ordered(e', a1, a2, p, y, b1)
          /\ b2 # Opposite(e') => Behind(e', b1) < Depth
      BY <1>1, <3>1, <3>3, OrderedEnq
    <3>5. /\ Behind(e', p) <= Behind(e', b2) /\ Behind(e', b2) <= Depth
          /\ Behind(e, p) <= Behind(e', p)
      BY <1>1, <3>1, <3>3, CountAfterEnq
    <3>6. Behind(e, p) < Depth
      BY <1>1, <1>2, <3>2, BehindNat, DepthAssumption DEF Ordered
    <3>7. ASSUME NEW h, NEW out \in Elements
          PROVE  ContentsOf(fifoMem', e', p, h, out)
                   = Append(ContentsOf(fifoMem, e, p, h, out), t.v)
      BY <1>1, <3>1, <3>6, ContentsEnq
    <3>8. QED
      BY <2>1, <2>2, <2>3, <2>5, <3>4, <3>5, <3>7 DEF SourceDone
  <2>6. QED
    BY <2>4, <2>5
<1>5. QED
  BY <1>3, <1>4

(* An edge without clears keeps the pointers in order and the queue held.  *)
LEMMA LiveStep ==
  ASSUME NEW d \in 3 .. 5, Types, Rings(5, d), Cleared(5, d), Live(d),
         NEW t \in Edges, Tick(t),
         5 = NextStage(5, t.src, t.dst, t.sclr),
         NEW d1 \in 3 .. 5, d1 = NextStage(d, t.dst, t.src, t.dclr)
  PROVE  Live(d1)'
<1> DEFINE p  == dBDeqPtr'
           e1 == sBEnqPtr'
           c1 == ContentsOf(fifoMem, sBEnqPtr, p, dNotEmptyReg', dDoutReg')
<1>1. ~t.sclr /\ ~t.dclr
  <2>1. t.dclr => d = 5
    BY RingsStep
  <2>2. QED
    BY <2>1 DEF NextStage
<1>2. ~sClear(t.sclr)
  BY <1>1, Clears DEF Edges
<1>3. Types' /\ p \in Positions /\ dDoutReg' \in Elements /\ e1 \in Positions
      /\ dNotEmptyReg' \in BOOLEAN
  BY TypesStep DEF Types
<1>4. DestDone(t, d1)
  BY <1>1, DestPart
<1>5. SourceDone(t, Next1(d1), Next2(d1), p)
  <2>1. SourceBefore(Next1(d1), Next2(d1), p)
    BY <1>4, LiveParts DEF SourceBefore, DestDone, Live
  <2>2. QED
    BY <1>2, <1>3, <1>4, <2>1, SourcePart DEF DestDone
<1>6. /\ Position(sSyncReg1') \in Positions /\ Position(sDeqPtr') \in Positions
      /\ Next1(d1) \in Positions /\ Next2(d1) \in Positions
      /\ Ordered(e1, Next1(d1), Next2(d1), p, Position(sSyncReg1'), Position(sDeqPtr'))
  BY <1>3, <1>4, <1>5, PositionOfCode DEF DestDone, SourceDone, Types, Words
<1>7. Ordered(e1, Copy1(d1)', Copy2(d1)', p, Position(sSyncReg1'), Position(sDeqPtr'))
  <2>1. CASE d1 = 3
    <3>1. Copy1(d1)' = e1 /\ Copy2(d1)' = e1
      BY <2>1 DEF Copy1, Copy2
    <3>2. QED
      BY <1>3, <1>6, <3>1, OrderedNewest
  <2>2. CASE d1 # 3
    <3>1. Copy1(d1)' = Next1(d1) /\ Copy2(d1)' = Next2(d1)
      BY <2>2 DEF Copy1, Copy2, Next1, Next2
    <3>2. QED
      BY <1>6, <3>1
  <2>3. QED
    BY <2>1, <2>2
<1>8. /\ Stored' = Behind(e1, p)
      /\ Behind(e1, p) <= sCountReg' /\ sCountReg' <= Depth
      /\ sNotFullReg' => Behind(e1, Position(sDeqPtr')) < Depth
  BY <1>5 DEF SourceDone, Stored
<1>9. dCountReg' <= Stored' + Bit(dNotEmptyReg')
  <2>1. /\ Behind(sBEnqPtr, p) <= Behind(e1, p)
        /\ dCountReg' <= Behind(sBEnqPtr, p) + Bit(dNotEmptyReg')
    BY <1>4, <1>5 DEF DestDone, SourceDone
  <2>2. /\ Behind(sBEnqPtr, p) \in Nat /\ Behind(e1, p) \in Nat
        /\ dCountReg' \in Nat /\ Bit(dNotEmptyReg') \in Nat
    BY <1>3, BehindNat DEF Types, Positions, Bit
  <2>3. QED
    BY <1>8, <2>1, <2>2
<1>10. Contents' = queue'
  <2>1. Contents' = IF t.v # None THEN Append(c1, t.v) ELSE c1
    BY <1>3, <1>5 DEF SourceDone, Contents
  <2>2. Contents = queue
    BY DEF Live
  <2>3. IF t.deq THEN queue # <<>> /\ c1 = Tail(queue) ELSE c1 = queue
    BY <1>4, <2>2 DEF DestDone, MovedContents, Contents
  <2>4. queue' = After(queue, (t.src /\ sClear(t.sclr)) \/ t.dclr, Takes(t.deq), t.v)
    BY DEF Tick
  <2> HIDE DEF c1
  <2>5. QED
    BY <1>1, <1>2, <2>1, <2>3, <2>4 DEF After, Takes
<1>11. QED
  BY <1>7, <1>8, <1>9, <1>10 DEF Live

-----------------------------------------------------------------------------
(* The invariant and the theorems.                                         *)

(* An edge keeps the invariant.                                            *)
LEMMA TickStep ==
  ASSUME NEW s \in 0 .. 5, NEW d \in 0 .. 5, Inv(s, d), NEW t \in Edges, Tick(t)
  PROVE  IInv'
<1> DEFINE s1 == NextStage(s, t.src, t.dst, t.sclr)
           d1 == NextStage(d, t.dst, t.src, t.dclr)
<1>1. Types /\ Rings(s, d) /\ Cleared(s, d)
  BY DEF Inv
<1>2. s1 \in 0 .. 5 /\ d1 \in 0 .. 5 /\ Rings(s1, d1)'
  BY <1>1, RingsStep
<1>3. Types' /\ Cleared(s1, d1)'
  BY <1>1, TypesStep, ClearedStep
<1>4. ASSUME s1 = 5, d1 >= 3 PROVE Live(d1)'
  <2>1. CASE s = 5 /\ d >= 3
    <3>1. Live(d)
      BY <2>1 DEF Inv
    <3>2. d \in 3 .. 5 /\ d1 \in 3 .. 5
      BY <1>2, <1>4, <2>1
    <3> HIDE DEF d1
    <3>3. QED
      BY <1>1, <1>4, <2>1, <3>1, <3>2, LiveStep DEF d1
  <2>2. CASE ~(s = 5 /\ d >= 3)
    BY <1>1, <1>2, <1>4, <2>2, LiveEntry
  <2>3. QED
    BY <2>1, <2>2
<1> HIDE DEF s1, d1
<1>5. Inv(s1, d1)'
  BY <1>2, <1>3, <1>4 DEF Inv
<1>6. QED
  BY <1>2, <1>5 DEF IInv

(* A reset leaves both handshakes waiting for the first acknowledgement,   *)
(* and the FIFO empty.                                                     *)
LEMMA InitIInv == Init => IInv
<1> SUFFICES ASSUME Init PROVE Inv(3, 3)
  BY DEF IInv
<1>1. Types
  BY PositionTypes, EmptySeq, DepthAssumption DEF Init, Types, Words, Memory, Elements
<1>2. Rings(3, 3)
  BY DEF Init, Rings, Ring
<1>3. Cleared(3, 3)
  BY DEF Init, Cleared
<1>4. QED
  BY <1>1, <1>2, <1>3 DEF Inv

(* Every step keeps it, ...                                                *)
LEMMA NextIInv == Skew = FALSE /\ IInv /\ [Next]_vars => IInv'
<1> SUFFICES ASSUME Skew = FALSE, IInv, [Next]_vars PROVE IInv'
  OBVIOUS
<1>1. PICK s \in 0 .. 5, d \in 0 .. 5 : Inv(s, d)
  BY DEF IInv
<1>2. CASE \/ \E v \in Inputs, clr \in BOOLEAN : SrcTick(v, clr)
           \/ \E deq, clr \in BOOLEAN : DstTick(deq, clr)
           \/ \E v \in Inputs, sclr, deq, dclr \in BOOLEAN : BothTick(v, sclr, deq, dclr)
  <2>1. fifoMem[Addr(dBDeqPtr)] \in Elements
    BY <1>1, PositionTypes DEF Inv, Types, Memory
  <2>2. PICK t \in Edges : Tick(t)
    BY <1>2, <2>1, AllTicks
  <2>3. QED
    BY <1>1, <2>2, TickStep
<1>3. CASE AssertReset
  <2>1. Types'
    BY <1>1, <1>3, PositionTypes, EmptySeq DEF AssertReset, Inv, Types, Words
  <2>2. Rings(3, 3)'
    BY <1>3 DEF AssertReset, Rings, Ring, sClrSync!ResetRegs, dClrSync!ResetRegs,
                sClrSync!Flip, dClrSync!Flip
  <2>3. Cleared(3, 3)'
    BY <1>3 DEF AssertReset, Cleared
  <2>4. QED
    BY <2>1, <2>2, <2>3 DEF Inv, IInv
<1>4. CASE ReleaseReset \/ UNCHANGED vars
  <2>1. UNCHANGED <<sVars, dVars, queue>> /\ rst' \in BOOLEAN
    BY <1>1, <1>4 DEF ReleaseReset, vars, Inv, Types
  <2>2. Types'
    BY <1>1, <2>1 DEF sVars, dVars, Inv, Types
  <2>3. Rings(s, d)'
    BY <1>1, <2>1 DEF sVars, dVars, Inv, Rings
  <2>4. Cleared(s, d)'
    BY <1>1, <2>1 DEF sVars, dVars, Inv, Cleared
  <2>5. Live(d) => Live(d)'
    BY <2>1 DEF sVars, dVars, Live, Copy1, Copy2, Stored, Contents
  <2>6. QED
    BY <1>1, <2>2, <2>3, <2>4, <2>5 DEF Inv, IInv
<1>5. QED
  BY <1>2, <1>3, <1>4 DEF Next

(* With no clear under way the state is a live one. *)
LEMMA SettledLive ==
  ASSUME IInv, Settled
  PROVE  Types /\ Live(5)
<1>1. PICK s \in 0 .. 5, d \in 0 .. 5 : Inv(s, d)
  BY DEF IInv
<1>2. s = 5 /\ d = 5
  BY <1>1, Clears DEF Inv, Settled
<1>3. QED
  BY <1>1, <1>2 DEF Inv

(* ... in the form in which the theorems use it.                           *)
LEMMA NextIInvUnskewed ==
  ASSUME Skew = FALSE
  PROVE  IInv /\ [Next]_vars => IInv'
BY NextIInv

(* The registers keep their types (SyncFIFOLevel.v:131-345). *)
THEOREM LevelTypes ==
  ASSUME Skew = FALSE
  PROVE  Spec => []TypeOK
<1>1. IInv => TypeOK
  BY CodeFacts DEF IInv, Inv, Types, TypeOK, Words
<1>2. QED
  BY InitIInv, NextIInvUnskewed, <1>1, PTL DEF Spec

(* With no clear under way the FIFO holds exactly the elements enqueued    *)
(* since the last clear and not yet dequeued, for every depth, and         *)
(* whichever side clears, or both (SyncFIFOLevel.v:131-164, 300-345).      *)
THEOREM LevelIsQueue ==
  ASSUME Skew = FALSE
  PROVE  Spec => []LevelHoldsQueue
<1>1. IInv => LevelHoldsQueue
  BY SettledLive DEF LevelHoldsQueue, Live
<1>2. QED
  BY InitIInv, NextIInvUnskewed, <1>1, PTL DEF Spec

(* And the counts and flags err on the safe side                           *)
(* (SyncFIFOLevel.v:27-31, 174-295).                                       *)
THEOREM LevelCountsSafe ==
  ASSUME Skew = FALSE
  PROVE  Spec => []CountsSafe
<1>1. IInv => CountsSafe
  <2> SUFFICES ASSUME IInv, Settled PROVE
        /\ Stored <= sCountReg /\ sCountReg <= Depth
        /\ dCountReg <= Stored + Bit(dNotEmptyReg)
        /\ sNotFullReg => Stored < Depth
    BY DEF CountsSafe
  <2>1. Types /\ Live(5)
    BY SettledLive
  <2>2. QED
    BY <2>1, LiveParts DEF Live
<1>2. QED
  BY InitIInv, NextIInvUnskewed, <1>1, PTL DEF Spec

(* An element shown while no clear is under way is one of the queue        *)
(* (SyncFIFOLevel.v:27): what a coincident edge that is captured unevenly  *)
(* can break.                                                              *)
THEOREM LevelShownIsHeld ==
  ASSUME Skew = FALSE
  PROVE  Spec => []ShownIsHeld
<1>1. IInv => ShownIsHeld
  <2> SUFFICES ASSUME IInv, Settled, dNotEmptyReg PROVE queue # <<>>
    BY DEF ShownIsHeld
  <2>1. Types /\ Live(5) /\ Contents = queue /\ dNotEmptyReg = TRUE
    BY SettledLive DEF Live, Types
  <2>2. IsContents(Contents, fifoMem, sBEnqPtr, dBDeqPtr, TRUE, dDoutReg)
    <3>1. /\ fifoMem \in Memory /\ sBEnqPtr \in Positions /\ dBDeqPtr \in Positions
          /\ dDoutReg \in Elements
      BY <2>1 DEF Types
    <3>2. Behind(sBEnqPtr, dBDeqPtr) <= Depth
      BY <2>1, LiveParts DEF Stored
    <3>3. IsContents(ContentsOf(fifoMem, sBEnqPtr, dBDeqPtr, TRUE, dDoutReg),
                     fifoMem, sBEnqPtr, dBDeqPtr, TRUE, dDoutReg)
      BY <3>1, <3>2, ContentsSeq
    <3>4. QED
      BY <2>1, <3>3 DEF Contents
  <2>3. Len(queue) = Stored + 1 /\ Stored \in Nat
    BY <2>1, <2>2, LiveParts DEF IsContents, Bit, Stored
  <2>4. Len(<<>>) = 0
    BY EmptySeq
  <2>5. QED
    BY <2>3, <2>4
<1>2. QED
  BY InitIInv, NextIInvUnskewed, <1>1, PTL DEF Spec

-----------------------------------------------------------------------------
(* The Gray counters that address the memories.                            *)

(* The operators of GrayCode, as GrayCounter sees them. *)
LEMMA GrayOperators ==
  ASSUME NEW w, NEW c, NEW g, NEW n
  PROVE  /\ Gray!ResetPtr(w) = ResetPtr(w) /\ Gray!ResetPtr1(w) = ResetPtr1(w)
         /\ Gray!incrGrayP(w, c) = incrGrayP(w, c) /\ Gray!GrayWord(w, n) = GrayWord(w, n)
         /\ Gray!FlipTop2(w, g) = FlipTop2(w, g) /\ Gray!Index(w, c) = Index(w, c)
         /\ Gray!grayToBinary(w, g) = grayToBinary(w, g)
<1>1. Gray!ResetPtr(w) = ResetPtr(w) /\ Gray!ResetPtr1(w) = ResetPtr1(w)
  BY DEF Gray!ResetPtr, Gray!ResetPtr1, ResetPtr, ResetPtr1, Gray!Bit, Bit
<1>2. Gray!incrGrayP(w, c) = incrGrayP(w, c)
  BY DEF Gray!incrGrayP, incrGrayP, Gray!incrGray, incrGray, Gray!Xor, Xor, Gray!Bit, Bit,
         Gray!ClearBelow, ClearBelow
<1>3. Gray!GrayWord(w, n) = GrayWord(w, n)
  BY DEF Gray!GrayWord, GrayWord
<1>4. Gray!FlipTop2(w, g) = FlipTop2(w, g) /\ Gray!Index(w, c) = Index(w, c)
  BY DEF Gray!FlipTop2, FlipTop2, Gray!Index, Index
<1>5. Gray!grayToBinary(w, g) = grayToBinary(w, g)
  BY DEF Gray!grayToBinary, grayToBinary, Gray!binaryBit, binaryBit
<1>6. QED
  BY <1>1, <1>2, <1>3, <1>4, <1>5

(* The pointer stands at the count, the look-ahead at the next number. *)
NextCount == (count + 1) % 2 ^ (width + 1)
GrayInv ==
  /\ width \in Nat \ {0} /\ count \in Numbers(width)
  /\ ptr = CounterAt(width, count) /\ ptr1 = CounterAt(width, NextCount)

LEMMA InitGrayInv ==
  ASSUME MaxWidth \in Nat
  PROVE  Gray!Init => GrayInv
<1> SUFFICES ASSUME Gray!Init PROVE GrayInv
  OBVIOUS
<1>1. /\ width \in Nat \ {0} /\ count = 0 /\ ptr = Gray!ResetPtr(width) /\ ptr1 = Gray!ResetPtr1(width)
  BY DEF Gray!Init
<1>2. ptr = ResetPtr(width) /\ ptr1 = ResetPtr1(width)
  BY <1>1, GrayOperators
<1>3. QED
  BY <1>1, <1>2, ResetCounters DEF GrayInv, NextCount

LEMMA NextGrayInv == GrayInv /\ [Gray!Next]_(Gray!vars) => GrayInv'
<1> SUFFICES ASSUME GrayInv, [Gray!Next]_(Gray!vars) PROVE GrayInv'
  OBVIOUS
<1>1. /\ width \in Nat \ {0} /\ count \in Numbers(width)
      /\ ptr = CounterAt(width, count) /\ ptr1 = CounterAt(width, NextCount)
  BY DEF GrayInv
<1>2. CASE Gray!Step
  <2>1. /\ width' = width /\ ptr' = ptr1 /\ ptr1' = incrGrayP(width, ptr1) /\ count' = NextCount
    BY <1>2, GrayOperators DEF Gray!Step, NextCount
  <2>2. NextCount \in Numbers(width)
    BY <1>1, CounterNext DEF NextCount
  <2>3. incrGrayP(width, ptr1) = CounterAt(width, (NextCount + 1) % 2 ^ (width + 1))
    BY <1>1, <2>2, CounterNext
  <2>4. QED
    BY <1>1, <2>1, <2>2, <2>3 DEF GrayInv, NextCount
<1>3. CASE Gray!Reset
  <2>1. width' = width /\ ptr' = ResetPtr(width) /\ ptr1' = ResetPtr1(width) /\ count' = 0
    BY <1>3, GrayOperators DEF Gray!Reset
  <2>2. /\ ResetPtr(width) = CounterAt(width, 0) /\ ResetPtr1(width) = CounterAt(width, 1)
        /\ 0 \in Numbers(width) /\ (0 + 1) % 2 ^ (width + 1) = 1
    BY <1>1, ResetCounters
  <2>3. QED
    BY <1>1, <2>1, <2>2 DEF GrayInv, NextCount
<1>4. CASE UNCHANGED Gray!vars
  BY <1>1, <1>4 DEF Gray!vars, GrayInv, NextCount
<1>5. QED
  BY <1>2, <1>3, <1>4 DEF Gray!Next

(* Every width: the counters enumerate the Gray code, grayToBinary inverts *)
(* it, the full test and the memory index tell positions apart as they     *)
(* must (SyncFIFO.v:60-98, 274-308; SyncFIFOLevel.v, grayToBinary).        *)
THEOREM GrayCountersExact ==
  ASSUME MaxWidth \in Nat
  PROVE  Gray!Spec => []CountersExact
<1>1. GrayInv => CountersExact
  <2> SUFFICES ASSUME GrayInv PROVE CountersExact
    OBVIOUS
  <2>1. /\ width \in Nat \ {0} /\ width \in Nat /\ count \in Numbers(width) /\ count \in Nat
        /\ ptr = CounterAt(width, count) /\ ptr1 = CounterAt(width, NextCount)
    BY NumbersFrom DEF GrayInv
  <2>2. NextCount % 2 = (count + 1) % 2
    BY <2>1, CounterNext DEF NextCount
  <2>3. \A n : Gray!CodeOf(n) = GrayWord(width, n)
    BY GrayOperators DEF Gray!CodeOf
  <2>4. Gray!CountsInGray
    <3>1. grayToBinary(width, ptr.g) = count
      <4>1. ptr.g = GrayWord(width, count)
        BY <2>1 DEF CounterAt
      <4>2. QED
        BY <2>1, <4>1, BinaryInverts
    <3>2. Gray!grayToBinary(width, ptr.g) = count
      BY <3>1, GrayOperators
    <3>3. ptr = [g |-> Gray!CodeOf(count), p |-> count % 2]
      BY <2>1, <2>3 DEF CounterAt
    <3>4. ptr1 = [g |-> Gray!CodeOf((count + 1) % Gray!Period), p |-> (count + 1) % 2]
      BY <2>1, <2>2, <2>3 DEF CounterAt, NextCount, Gray!Period
    <3>5. QED
      BY <3>2, <3>3, <3>4 DEF Gray!CountsInGray
  <2>5. 0 .. Gray!Period - 1 = Numbers(width)
    BY DEF Gray!Period, Numbers
  <2>6. Gray!FullTestExact
    <3>1. SUFFICES ASSUME NEW n \in Numbers(width)
                   PROVE  Gray!FlipTop2(width, ptr.g) = Gray!CodeOf(n)
                            <=> n = (count + 2 ^ width) % Gray!Period
      BY <2>5 DEF Gray!FullTestExact
    <3>2. /\ Gray!FlipTop2(width, ptr.g) = FlipTop2(width, GrayWord(width, count))
          /\ Gray!CodeOf(n) = GrayWord(width, n)
      BY <2>1, <2>3, GrayOperators DEF CounterAt
    <3>3. FlipTop2(width, GrayWord(width, count)) = GrayWord(width, n)
            <=> n = (count + 2 ^ width) % 2 ^ (width + 1)
      BY <2>1, GrayFullTest
    <3>4. QED
      BY <3>2, <3>3 DEF Gray!Period
  <2>7. Gray!IndexExact
    <3>1. SUFFICES ASSUME NEW n \in Numbers(width)
                   PROVE  Gray!Index(width, ptr) = Gray!Index(width, [g |-> Gray!CodeOf(n), p |-> n % 2])
                            <=> n % 2 ^ width = count % 2 ^ width
      BY <2>5 DEF Gray!IndexExact
    <3>2. Gray!Index(width, ptr) = Index(width, [g |-> GrayWord(width, count), p |-> count % 2])
      BY <2>1, GrayOperators DEF CounterAt
    <3>3. Gray!Index(width, [g |-> Gray!CodeOf(n), p |-> n % 2])
            = Index(width, [g |-> GrayWord(width, n), p |-> n % 2])
      BY <2>3, GrayOperators
    <3>4. QED
      BY <2>1, <3>2, <3>3, SameIndex
  <2>8. QED
    BY <2>4, <2>6, <2>7 DEF CountersExact, Gray!AddressesExact
<1>2. QED
  BY InitGrayInv, NextGrayInv, <1>1, PTL DEF Gray!Spec

(* At every width a step of a counter flips a single bit of its word, so   *)
(* that a flop of the other domain captures the old word or the new one    *)
(* (SyncFIFO.v:112-149).                                                   *)
THEOREM GrayOneBitPerStep ==
  ASSUME MaxWidth \in Nat
  PROVE  Gray!Spec => OneBitPerStep
<1> DEFINE OneBit == \E i \in 0 .. width : ptr'.g = [ptr.g EXCEPT ![i] = 1 - @]
<1>1. GrayInv /\ [Gray!Next]_(Gray!vars) => [Gray!Step => OneBit]_(Gray!vars)
  <2>1. SUFFICES ASSUME GrayInv, Gray!Step PROVE OneBit
    BY Zenon
  <2>2. /\ width \in Nat \ {0} /\ count \in Numbers(width)
        /\ ptr = CounterAt(width, count) /\ ptr' = CounterAt(width, NextCount)
    BY <2>1 DEF GrayInv, Gray!Step
  <2>3. ptr.g = GrayWord(width, count) /\ ptr'.g = GrayWord(width, NextCount)
    BY <2>2 DEF CounterAt
  <2>4. \E i \in 0 .. width :
          GrayWord(width, (count + 1) % 2 ^ (width + 1)) = [GrayWord(width, count) EXCEPT ![i] = 1 - @]
    BY <2>2, NextFlipsOne
  <2>5. QED
    BY <2>3, <2>4 DEF NextCount
<1>2. QED
  BY InitGrayInv, NextGrayInv, <1>1, PTL DEF Gray!Spec, OneBitPerStep, Gray!OneBitPerStep
=============================================================================
