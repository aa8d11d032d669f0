-------------------------- MODULE CrossingsProofs --------------------------
(***************************************************************************)
(* What is small and between two clocks, proved.  The one-place FIFO holds *)
(* its queue and shows only settled words, over any data and any relation  *)
(* of the clocks, and so is a bounded queue of one place; the handshake    *)
(* that acknowledges early carries every pulse once; the serial probes     *)
(* report whole reports, of any length, and forget no trigger or value;    *)
(* the logic analyser dumps the newest samples, from a ring of any size.   *)
(***************************************************************************)
EXTENDS MCCrossings, TLAPS

-----------------------------------------------------------------------------
(* The one-place FIFO.                                                     *)
(* The flops start with a quiet ring but for the return path of the reset. *)
LEMMA InitIInv == Init => IInv
<1> SUFFICES ASSUME Init PROVE IInv
  OBVIOUS
<1>1. TypeOK
  <2>1. syncFIFO1Data \in Data /\ dEdges \in 0 .. EdgeCap
    BY ZeroAssumption DEF Init, EdgeCap
  <2>2. QED
    BY <2>1, Zenon DEF Init, TypeOK
<1>2. OneWave
  BY DEF Init, OneWave
<1>3. Contents = queue
  BY DEF Init, Contents
<1>4. QED
  BY <1>1, <1>2, <1>3 DEF Init, IInv, HoldsQueue

(* What the flags say of the ring while the invariant holds. *)
LEMMA FlagsOfRing ==
  ASSUME IInv
  PROVE  /\ sFULL_N => sEnqToggle = dSyncReg1 /\ dSyncReg1 = dEnqToggle
                         /\ dEnqToggle = dDeqToggle /\ dDeqToggle = sSyncReg1
         /\ dEMPTY_N => sEnqToggle = dSyncReg1 /\ dSyncReg1 = dEnqToggle
                          /\ dDeqToggle = sSyncReg1 /\ sSyncReg1 = sDeqToggle
BY DEF IInv, TypeOK, OneWave, sFULL_N, dEMPTY_N

(* A step of either clock moves the one change of the ring by one link,    *)
(* whichever side has the edge and whatever the crossing flops capture.    *)
LEMMA RingMoves ==
  ASSUME IInv, NEW v, NEW deq \in BOOLEAN,
         NEW deqToggle \in {dDeqToggle, dDeqToggle # Dequeues(deq)},
         NEW enqToggle \in {sEnqToggle, sEnqToggle # Enqueues(v)}
  PROVE  /\ SrcEdge(v, dDeqToggle) /\ UNCHANGED dRegs => OneWave'
         /\ DstEdge(deq, sEnqToggle) /\ UNCHANGED sRegs => OneWave'
         /\ SrcEdge(v, deqToggle) /\ DstEdge(deq, enqToggle) => OneWave'
<1>1. ASSUME SrcEdge(v, dDeqToggle), UNCHANGED dRegs PROVE OneWave'
  BY <1>1, FlagsOfRing DEF IInv, TypeOK, OneWave, SrcEdge, dRegs, Enqueues, sFULL_N
<1>2. ASSUME DstEdge(deq, sEnqToggle), UNCHANGED sRegs PROVE OneWave'
  BY <1>2, FlagsOfRing DEF IInv, TypeOK, OneWave, DstEdge, sRegs, Dequeues, dEMPTY_N
<1>3. ASSUME SrcEdge(v, deqToggle), DstEdge(deq, enqToggle) PROVE OneWave'
  BY <1>3, FlagsOfRing DEF IInv, TypeOK, OneWave, SrcEdge, DstEdge, Enqueues, Dequeues, sFULL_N, dEMPTY_N
<1>4. QED
  BY <1>1, <1>2, <1>3

(* The cases of a step: what each leaves of the registers' types. *)
LEMMA TypesKept == IInv /\ [Next]_vars => TypeOK'
<1> SUFFICES ASSUME IInv, [Next]_vars PROVE TypeOK'
  OBVIOUS
<1> USE DEF TypeOK, EdgeCap
<1>1. TypeOK
  BY DEF IInv
<1>2. ASSUME NEW v \in Inputs, NEW b, SrcEdge(v, b), b \in BOOLEAN
      PROVE  /\ syncFIFO1Data' \in Data
             /\ sEnqToggle' \in BOOLEAN /\ sSyncReg1' \in BOOLEAN /\ sDeqToggle' \in BOOLEAN
  BY <1>1, <1>2 DEF SrcEdge, Inputs, Enqueues
<1>3. ASSUME NEW deq \in BOOLEAN, NEW b, DstEdge(deq, b), b \in BOOLEAN
      PROVE  dEnqToggle' \in BOOLEAN /\ dSyncReg1' \in BOOLEAN /\ dDeqToggle' \in BOOLEAN
  BY <1>1, <1>3 DEF DstEdge
<1>4. CountEdge \in 0 .. EdgeCap
  BY <1>1 DEF CountEdge
<1>5. ASSUME NEW v \in Inputs, SrcTick(v) PROVE TypeOK'
  BY <1>1, <1>2, <1>5 DEF SrcTick, dRegs
<1>6. ASSUME NEW deq \in BOOLEAN, DstTick(deq) PROVE TypeOK'
  BY <1>1, <1>3, <1>4, <1>6 DEF DstTick, sRegs
<1>7. ASSUME NEW v \in Inputs, NEW deq \in BOOLEAN, BothTick(v, deq) PROVE TypeOK'
  <2>1. PICK b \in BOOLEAN : SrcEdge(v, b)
    BY <1>1, <1>7 DEF BothTick
  <2>2. PICK c \in BOOLEAN : DstEdge(deq, c)
    BY <1>1, <1>7 DEF BothTick
  <2>3. rst' \in BOOLEAN /\ dEdges' \in 0 .. EdgeCap
    BY <1>1, <1>4, <1>7 DEF BothTick
  <2>4. QED
    BY <1>2, <1>3, <2>1, <2>2, <2>3
<1>8. CASE AssertReset
  <2>1. syncFIFO1Data' \in Data /\ dEdges' \in 0 .. EdgeCap
    BY <1>8, ZeroAssumption DEF AssertReset
  <2>2. QED
    BY <1>8, <2>1, Zenon DEF AssertReset
<1>9. CASE ReleaseReset
  BY <1>1, <1>9 DEF ReleaseReset, sRegs, dRegs
<1>10. CASE UNCHANGED vars
  BY <1>1, <1>10 DEF vars, sRegs, dRegs
<1>11. QED
  BY <1>5, <1>6, <1>7, <1>8, <1>9, <1>10 DEF Next

(* The same for the ring. *)
LEMMA RingKept == IInv /\ [Next]_vars => OneWave'
<1> SUFFICES ASSUME IInv, [Next]_vars PROVE OneWave'
  OBVIOUS
<1>1. ASSUME NEW v \in Inputs, SrcTick(v) PROVE OneWave'
  BY <1>1, RingMoves DEF SrcTick
<1>2. ASSUME NEW deq \in BOOLEAN, DstTick(deq) PROVE OneWave'
  BY <1>2, RingMoves DEF DstTick
<1>3. ASSUME NEW v \in Inputs, NEW deq \in BOOLEAN, BothTick(v, deq) PROVE OneWave'
  BY <1>3, RingMoves DEF BothTick
<1>4. CASE AssertReset
  BY <1>4 DEF AssertReset, OneWave
<1>5. CASE ReleaseReset
  BY <1>5 DEF ReleaseReset, sRegs, dRegs, IInv, OneWave
<1>6. CASE UNCHANGED vars
  BY <1>6 DEF vars, sRegs, dRegs, IInv, OneWave
<1>7. QED
  BY <1>1, <1>2, <1>3, <1>4, <1>5, <1>6 DEF Next

(***************************************************************************)
(* What a step does to the contents: an accepted word enters an empty      *)
(* FIFO, a word is taken from a full one, and both never at one edge.      *)
(***************************************************************************)
LEMMA NotBoth == ASSUME IInv, NEW v, NEW deq, Enqueues(v) PROVE ~Dequeues(deq)
BY FlagsOfRing DEF Enqueues, Dequeues, sFULL_N, dEMPTY_N

(* The empty queue.                                                        *)
LEMMA NoPlaces == Len(<<>>) = 0
OBVIOUS

(* An accepted enqueue finds the FIFO empty, and appends.                  *)
LEMMA EnqContents ==
  ASSUME IInv, NEW v \in Data, Enqueues(v),
         syncFIFO1Data' = v, sEnqToggle' = ~sEnqToggle, UNCHANGED dDeqToggle
  PROVE  Contents = <<>> /\ Contents' = Append(Contents, v)
<1>1. sEnqToggle = dDeqToggle /\ sEnqToggle \in BOOLEAN
  BY FlagsOfRing DEF Enqueues, IInv, TypeOK
<1>2. Contents = <<>> /\ Contents' = <<v>>
  BY <1>1 DEF Contents
<1>3. QED
  BY <1>2

(* A dequeue finds an element, and takes it.                               *)
LEMMA DeqContents ==
  ASSUME IInv, NEW deq, Dequeues(deq),
         UNCHANGED sEnqToggle, dDeqToggle' = ~dDeqToggle
  PROVE  Contents # <<>> /\ Contents' = Tail(Contents)
<1>1. sEnqToggle # dDeqToggle /\ sEnqToggle \in BOOLEAN /\ dDeqToggle \in BOOLEAN
  BY FlagsOfRing DEF Dequeues, dEMPTY_N, IInv, TypeOK
<1>2. Contents = <<syncFIFO1Data>> /\ Contents' = <<>>
  BY <1>1 DEF Contents
<1>3. QED
  BY <1>2

(***************************************************************************)
(* A step of the FIFO is a step of the queue of one place, with the queue  *)
(* of the history in the same state before and after.                      *)
(***************************************************************************)
LEMMA QueueStepTaken ==
  ASSUME IInv, [Next]_vars
  PROVE  HoldsQueue' /\ [Queue!Next]_Contents
<1>1. Contents = queue
  BY DEF IInv, HoldsQueue
<1>2. sEnqToggle \in BOOLEAN /\ dDeqToggle \in BOOLEAN
  BY DEF IInv, TypeOK
<1>3. ASSUME NEW v \in Inputs, NEW b, SrcEdge(v, b), UNCHANGED dDeqToggle,
             queue' = After(queue, FALSE, FALSE, Accepted(v))
      PROVE  HoldsQueue' /\ [Queue!Next]_Contents
  <2>1. CASE Enqueues(v)
    <3>1. v \in Data /\ v # None
      BY <2>1 DEF Enqueues, Inputs
    <3>2. Contents = <<>> /\ Contents' = Append(Contents, v)
      BY <1>2, <1>3, <2>1, <3>1, EnqContents DEF SrcEdge
    <3>3. queue' = Append(queue, v)
      BY <1>3, <2>1, <3>1 DEF After, Accepted
    <3>4. Queue!Enq(v)
      BY <3>2, NoPlaces DEF Queue!Enq
    <3>5. Queue!Next
      BY <3>1, <3>4, Zenon DEF Queue!Next
    <3>6. QED
      BY <1>1, <3>2, <3>3, <3>5 DEF HoldsQueue
  <2>2. CASE ~Enqueues(v)
    <3>1. UNCHANGED <<syncFIFO1Data, sEnqToggle, dDeqToggle>>
      BY <1>2, <1>3, <2>2 DEF SrcEdge, Enqueues
    <3>2. UNCHANGED Contents
      BY <3>1 DEF Contents
    <3>3. queue' = queue
      BY <1>3, <2>2 DEF After, Accepted
    <3>4. QED
      BY <1>1, <3>2, <3>3 DEF HoldsQueue
  <2>3. QED
    BY <2>1, <2>2
<1>4. ASSUME NEW deq \in BOOLEAN, NEW b, DstEdge(deq, b), UNCHANGED <<syncFIFO1Data, sEnqToggle>>,
             queue' = After(queue, FALSE, Dequeues(deq), None)
      PROVE  HoldsQueue' /\ [Queue!Next]_Contents
  <2>1. CASE Dequeues(deq)
    <3>1. Contents # <<>> /\ Contents' = Tail(Contents)
      BY <1>2, <1>4, <2>1, DeqContents DEF DstEdge
    <3>2. queue' = Tail(queue)
      BY <1>4, <2>1 DEF After
    <3>3. Queue!Deq
      BY <3>1 DEF Queue!Deq
    <3>4. Queue!Next
      BY <3>3, Zenon DEF Queue!Next
    <3>5. QED
      BY <1>1, <3>1, <3>2, <3>4 DEF HoldsQueue
  <2>2. CASE ~Dequeues(deq)
    <3>1. UNCHANGED <<syncFIFO1Data, sEnqToggle, dDeqToggle>>
      BY <1>2, <1>4, <2>2 DEF DstEdge, Dequeues
    <3>2. UNCHANGED Contents
      BY <3>1 DEF Contents
    <3>3. queue' = queue
      BY <1>4, <2>2 DEF After
    <3>4. QED
      BY <1>1, <3>2, <3>3 DEF HoldsQueue
  <2>3. QED
    BY <2>1, <2>2
<1>5. ASSUME NEW v \in Inputs, NEW deq \in BOOLEAN, BothTick(v, deq)
      PROVE  HoldsQueue' /\ [Queue!Next]_Contents
  <2>1. PICK b, c : SrcEdge(v, b) /\ DstEdge(deq, c)
    BY <1>5 DEF BothTick
  <2>2. CASE Enqueues(v)
    <3>1. ~Dequeues(deq)
      BY <2>2, NotBoth
    <3>2. UNCHANGED dDeqToggle
      BY <1>2, <2>1, <3>1 DEF DstEdge, Dequeues
    <3>3. queue' = After(queue, FALSE, FALSE, Accepted(v))
      <4>1. queue' = After(queue, FALSE, Dequeues(deq), Accepted(v))
        BY <1>5 DEF BothTick
      <4>2. QED
        BY <3>1, <4>1, Zenon DEF After
    <3>4. QED
      BY <1>3, <2>1, <3>2, <3>3
  <2>3. CASE ~Enqueues(v)
    <3>1. UNCHANGED <<syncFIFO1Data, sEnqToggle>>
      BY <1>2, <2>1, <2>3 DEF SrcEdge, Enqueues
    <3>2. queue' = After(queue, FALSE, Dequeues(deq), None)
      <4>1. queue' = After(queue, FALSE, Dequeues(deq), Accepted(v))
        BY <1>5 DEF BothTick
      <4>2. QED
        BY <2>3, <4>1, Zenon DEF Accepted
    <3>3. QED
      BY <1>4, <2>1, <3>1, <3>2
  <2>4. QED
    BY <2>2, <2>3
<1>6. ASSUME NEW v \in Inputs, SrcTick(v) PROVE HoldsQueue' /\ [Queue!Next]_Contents
  BY <1>3, <1>6 DEF SrcTick, dRegs
<1>7. ASSUME NEW deq \in BOOLEAN, DstTick(deq) PROVE HoldsQueue' /\ [Queue!Next]_Contents
  BY <1>4, <1>7 DEF DstTick, sRegs
<1>8. CASE AssertReset
  <2>1. Contents' = <<>> /\ queue' = <<>>
    BY <1>8 DEF AssertReset, Contents
  <2>2. QED
    BY <2>1 DEF HoldsQueue, Queue!Next, Queue!Clear
<1>9. CASE ReleaseReset \/ UNCHANGED vars
  <2>1. UNCHANGED <<syncFIFO1Data, sEnqToggle, dDeqToggle, queue>>
    BY <1>9 DEF ReleaseReset, vars, sRegs, dRegs
  <2>2. QED
    BY <1>1, <2>1 DEF HoldsQueue, Contents
<1>10. QED
  BY <1>5, <1>6, <1>7, <1>8, <1>9 DEF Next

(* The count of destination edges keeps up with the change on its way. *)
LEMMA EdgesKept ==
  ASSUME IInv, [Next]_vars
  PROVE  /\ (dSyncReg1 # dEnqToggle)'  => dEdges' >= 1
         /\ (dEnqToggle # dDeqToggle)' => dEdges' = 2
<1> DEFINE Kept == /\ (dSyncReg1 # dEnqToggle)'  => dEdges' >= 1
                   /\ (dEnqToggle # dDeqToggle)' => dEdges' = 2
<1>1. dEdges \in 0 .. 2 /\ dSyncReg1 \in BOOLEAN /\ dEnqToggle \in BOOLEAN /\ dDeqToggle \in BOOLEAN
  BY DEF IInv, TypeOK, EdgeCap
<1>2. /\ dSyncReg1 # dEnqToggle  => dEdges >= 1
      /\ dEnqToggle # dDeqToggle => dEdges = 2
  BY DEF IInv
<1>3. ASSUME NEW deq \in BOOLEAN, NEW b, DstEdge(deq, b), dEdges' = CountEdge PROVE Kept
  <2>1. dEdges' >= 1 /\ (dEdges >= 1 => dEdges' = 2)
    BY <1>1, <1>3 DEF CountEdge, EdgeCap
  <2>2. dEnqToggle' # dDeqToggle' => dSyncReg1 # dEnqToggle \/ dEnqToggle # dDeqToggle
    BY <1>1, <1>3 DEF DstEdge, Dequeues, dEMPTY_N
  <2>3. QED
    BY <1>1, <1>2, <2>1, <2>2
<1>4. ASSUME NEW v, Enqueues(v)
      PROVE  dSyncReg1 = dEnqToggle /\ dEnqToggle = dDeqToggle
  BY <1>4, FlagsOfRing DEF Enqueues
<1>5. ASSUME NEW v \in Inputs, SrcTick(v) PROVE Kept
  <2>1. CASE Enqueues(v)
    BY <1>4, <1>5, <2>1 DEF SrcTick, dRegs
  <2>2. CASE ~Enqueues(v)
    BY <1>2, <1>5, <2>2 DEF SrcTick, dRegs
  <2>3. QED
    BY <2>1, <2>2
<1>6. ASSUME NEW deq \in BOOLEAN, DstTick(deq) PROVE Kept
  BY <1>3, <1>6 DEF DstTick
<1>7. ASSUME NEW v \in Inputs, NEW deq \in BOOLEAN, BothTick(v, deq) PROVE Kept
  <2>1. PICK c : DstEdge(deq, c)
    BY <1>7 DEF BothTick
  <2>2. CASE Enqueues(v)
    <3>1. ~Dequeues(deq) /\ dEdges' = 1
      BY <1>7, <2>2, NotBoth DEF BothTick
    <3>2. dEnqToggle' = dDeqToggle'
      BY <1>1, <1>4, <2>1, <2>2, <3>1 DEF DstEdge, Dequeues
    <3>3. QED
      BY <3>1, <3>2
  <2>3. CASE ~Enqueues(v)
    BY <1>3, <1>7, <2>1, <2>3 DEF BothTick
  <2>4. QED
    BY <2>2, <2>3
<1>8. CASE AssertReset
  BY <1>8 DEF AssertReset
<1>9. CASE ReleaseReset \/ UNCHANGED vars
  BY <1>2, <1>9 DEF ReleaseReset, vars, dRegs
<1>10. QED
  BY <1>5, <1>6, <1>7, <1>8, <1>9 DEF Next

(* IInv is inductive. *)
LEMMA NextIInv == IInv /\ [Next]_vars => IInv'
BY TypesKept, RingKept, QueueStepTaken, EdgesKept DEF IInv

(* The invariant, at all times.                                            *)
LEMMA AlwaysIInv == Spec => []IInv
BY InitIInv, NextIInv, PTL DEF Spec

(* Type correctness, for every set of words. *)
THEOREM OnePlaceTypes == Spec => []TypeOK
<1>1. IInv => TypeOK
  BY DEF IInv
<1>2. QED
  BY <1>1, AlwaysIInv, PTL

(* The FIFO holds exactly the element accepted and not yet taken, whatever *)
(* the clocks, the inputs and the resets do.                               *)
THEOREM OnePlaceHoldsQueue == Spec => []HoldsQueue
<1>1. IInv => HoldsQueue
  BY DEF IInv
<1>2. QED
  BY <1>1, AlwaysIInv, PTL

(* A word that is shown has settled and cannot be overwritten. *)
THEOREM OnePlaceSettled == Spec => []WordSettled
<1>1. IInv => WordSettled
  <2>1. SUFFICES ASSUME IInv, dEMPTY_N PROVE dEdges = EdgeCap /\ ~sFULL_N
    BY DEF WordSettled
  <2>2. dEdges = EdgeCap
    BY <2>1 DEF IInv, dEMPTY_N, EdgeCap
  <2>3. ~sFULL_N
    BY <2>1, FlagsOfRing DEF sFULL_N, dEMPTY_N
  <2>4. QED
    BY <2>2, <2>3
<1>2. QED
  BY <1>1, AlwaysIInv, PTL

(* Seen from outside the FIFO is a bounded queue of one place. *)
THEOREM OnePlaceIsQueue == Spec => IsQueue
<1>1. Init => Queue!Init
  BY DEF Init, Contents, Queue!Init
<1>2. IInv /\ [Next]_vars => [Queue!Next]_Contents
  BY QueueStepTaken
<1>3. QED
  BY <1>1, <1>2, AlwaysIInv, PTL DEF Spec, IsQueue, Queue!Spec

-----------------------------------------------------------------------------
(* The handshake that acknowledges before the pulse is sampled.  Its ring   *)
(* closes one flop earlier: see SyncHandshakeProofs, whose lemmas these are *)
(* for this value of DelayReturn.                                           *)
LEMMA EarlyStarts == Handshake!Init => Handshake!IInv
BY CrossingsAssumption
   DEF Handshake!Init, Handshake!IInv, Handshake!TypeOK, Handshake!OneWave, Handshake!InFlight,
       Handshake!Differ, Handshake!Flip, Handshake!ackValue

(* Every edge and the reset keep one wave in the ring.                      *)
LEMMA EarlyStep ==
  ASSUME Handshake!IInv, Handshake!Next PROVE Handshake!IInv'
<1> USE CrossingsAssumption
<1> USE DEF Handshake!IInv, Handshake!TypeOK, Handshake!OneWave, Handshake!InFlight, Handshake!Differ,
            Handshake!Flip, Handshake!ackValue
<1>1. ASSUME NEW en \in BOOLEAN, Handshake!SrcTick(en) PROVE Handshake!IInv'
  BY <1>1 DEF Handshake!SrcTick, Handshake!SrcEdge, Handshake!CanSend, Handshake!CountSend,
              Handshake!sRDY, Handshake!dRegs
<1>2. ASSUME Handshake!DstTick PROVE Handshake!IInv'
  BY <1>2 DEF Handshake!DstTick, Handshake!DstEdge, Handshake!CountPulse, Handshake!dPulse, Handshake!sRegs
<1>3. ASSUME NEW en \in BOOLEAN, Handshake!BothTick(en) PROVE Handshake!IInv'
  <2>1. PICK toggle \in {sToggleReg, IF en THEN Handshake!Flip(sToggleReg) ELSE sToggleReg} :
          Handshake!DstEdge(toggle)
    BY <1>3 DEF Handshake!BothTick
  <2>2. PICK ack \in {dSync2, dSync1} : Handshake!SrcEdge(en, ack)
    BY <1>3 DEF Handshake!BothTick
  <2>3. Handshake!TypeOK'
    BY <1>3, <2>1, <2>2
       DEF Handshake!BothTick, Handshake!DstEdge, Handshake!SrcEdge, Handshake!CanSend,
           Handshake!CountSend, Handshake!CountPulse
  <2>4. Handshake!OneWave' /\ (sent = seen + Handshake!InFlight)'
    BY <1>3, <2>1, <2>2
       DEF Handshake!BothTick, Handshake!DstEdge, Handshake!SrcEdge, Handshake!CanSend,
           Handshake!CountSend, Handshake!CountPulse, Handshake!dPulse, Handshake!sRDY
  <2>5. QED
    BY <2>3, <2>4
<1>4. CASE Handshake!AssertReset
  BY <1>4 DEF Handshake!AssertReset, Handshake!ResetRegs
<1>5. CASE Handshake!ReleaseReset
  BY <1>5 DEF Handshake!ReleaseReset, Handshake!sRegs, Handshake!dRegs
<1>6. QED
  BY <1>1, <1>2, <1>3, <1>4, <1>5 DEF Handshake!Next

(***************************************************************************)
(* The handshake that acknowledges early neither loses nor doubles a pulse *)
(* (SyncHandshake.v:47-49), for any number of them.                        *)
(***************************************************************************)
THEOREM EarlyHandshakeExact == MCSpec => []EarlyPulseExactlyOnce
<1>1. MCInit => Handshake!IInv
  BY EarlyStarts DEF MCInit
<1>2. ASSUME Handshake!IInv, [MCNext /\ UNCHANGED which]_allVars PROVE Handshake!IInv'
  <2>1. CASE UNCHANGED hsVars
    BY <1>2, <2>1
       DEF hsVars, Handshake!IInv, Handshake!TypeOK, Handshake!OneWave, Handshake!InFlight,
           Handshake!Differ, Handshake!ackValue
  <2>2. QED
    BY <1>2, <2>1, EarlyStep DEF MCNext, allVars
<1>3. Handshake!IInv => EarlyPulseExactlyOnce
  BY CrossingsAssumption
     DEF EarlyPulseExactlyOnce, Handshake!IInv, Handshake!TypeOK, Handshake!OneWave, Handshake!InFlight,
         Handshake!Differ, Handshake!PulseExactlyOnce, Handshake!sRDY, Handshake!dPulse, Handshake!ackValue
<1>4. QED
  BY <1>1, <1>2, <1>3, PTL DEF MCSpec

-----------------------------------------------------------------------------
(* The serial probes.  A report is under way once the multiplexer has its  *)
(* header; the word that went up last, or is about to.                     *)
TriggerUnderWay == tSending /\ wordCount # NumWords
ValueUnderWay   == vSending /\ remaining # ProbeWords
Newest == IF mSending THEN mUp ELSE last

(* A word at the end of a report. *)
Final(w) ==
  IF w.probe = "Trigger" THEN w.n \in Nat /\ w.n >= NumWords ELSE w.n = ProbeWords

SerialTypes ==
  /\ {triggerToggle, sentToggle, tEnabled, tSending, sendDisable, waiting, cut} \subseteq BOOLEAN
  /\ {probeChanged, captureChanged, vEnabled, forced, sentOne, sendOnce, vSending} \subseteq BOOLEAN
  /\ {fresh, reported, crossed, AorB, mSending} \subseteq BOOLEAN
  /\ wordCount \in 0 .. NumWords /\ remaining \in 0 .. ProbeWords

(* The word on offer is the one that the counter stands for.               *)
TriggerOffers ==
  tSending => \/ tUp = Serial!TriggerWord(NumWords - wordCount)
              \/ wordCount = 0 /\ tUp = Serial!DisabledWord /\ ~sendDisable
ValueOffers ==
  vSending => vUp = Serial!ValueWord(ProbeWords - remaining,
                                     IF remaining = ProbeWords THEN NoValue ELSE captured)

(* A report under way has the multiplexer on its side, and its words are   *)
(* not taken before the one in front has gone up.                          *)
WordsInOrder ==
  /\ TriggerOffers /\ ValueOffers
  /\ TriggerUnderWay => mSending /\ ~AorB /\ Serial!Follows(mUp, tUp)
  /\ ValueUnderWay => mSending /\ AorB /\ Serial!Follows(mUp, vUp)
  /\ ~TriggerUnderWay /\ ~ValueUnderWay => Final(Newest)
  /\ Serial!ReportsWhole

(* Until the last word of a report that is not cut short its trigger holds *)
(* up DELAY, and with the last word the multiplexer does: no trigger comes *)
(* that would be taken for the one reported.                               *)
TriggersKept ==
  /\ tSending /\ ~cut => tEnabled
  /\ tSending /\ ~cut /\ wordCount # 0 => Serial!triggered
  /\ waiting => ~tSending /\ Serial!triggered

(* A value that came while listening is new, as a start would have been    *)
(* made of an earlier one.                                                 *)
ValuesKept == fresh => ~vSending /\ Serial!newData

(* The registers that commands set. *)
ModeKept ==
  /\ mode \in {"ENABLE", "SENDONCE", "DISABLED"}
  /\ vEnabled <=> mode \in {"ENABLE", "SENDONCE"}
  /\ sendOnce <=> mode = "SENDONCE"
  /\ ~crossed => (sentOne <=> mode = "SENDONCE" /\ reported)

SerialInv == SerialTypes /\ WordsInOrder /\ TriggersKept /\ ValuesKept /\ ModeKept

(* An edge of UCLK, with what it needs of its inputs. *)
AnEdge(URST, ACK, cmd, clk) ==
  /\ URST \in BOOLEAN /\ ACK \in {FALSE, mSending} /\ cmd \in Serial!Commands
  /\ URST => cmd = Serial!NoCommand
  /\ clk.TRIGGER \in BOOLEAN /\ (clk.TRIGGER => ~Serial!DELAY)
  /\ Serial!Edge(URST, ACK, cmd, clk)

(* Initially nothing is under way, and the last word was the end of a report. *)
LEMMA SerialStarts == Serial!SerialInit => SerialInv
<1> SUFFICES ASSUME Serial!SerialInit PROVE SerialInv
  OBVIOUS
<1> USE CrossingsAssumption
<1> USE DEF Serial!SerialInit, Serial!TriggerInit, Serial!ValueInit, Serial!MuxInit
<1>1. SerialTypes
  <2>1. {triggerToggle, sentToggle, tEnabled, tSending, sendDisable, waiting, cut} \subseteq BOOLEAN
    OBVIOUS
  <2>2. {probeChanged, captureChanged, vEnabled, forced, sentOne, sendOnce, vSending} \subseteq BOOLEAN
    OBVIOUS
  <2>3. {fresh, reported, crossed, AorB, mSending} \subseteq BOOLEAN
    OBVIOUS
  <2>4. QED
    BY <2>1, <2>2, <2>3 DEF SerialTypes
<1>2. WordsInOrder
  BY DEF WordsInOrder, TriggerOffers, ValueOffers, TriggerUnderWay, ValueUnderWay, Final, Newest,
         Serial!TriggerWord, Serial!ReportsWhole
<1>3. TriggersKept /\ ValuesKept
  BY DEF TriggersKept, ValuesKept
<1>4. ModeKept
  <2>1. \/ mode = "ENABLE" /\ vEnabled = TRUE
        \/ mode = "DISABLED" /\ vEnabled = FALSE
    OBVIOUS
  <2>2. sendOnce = FALSE /\ sentOne = FALSE
    OBVIOUS
  <2>3. QED
    BY <2>1, <2>2 DEF ModeKept
<1>5. QED
  BY <1>1, <1>2, <1>3, <1>4 DEF SerialInv

(* A step is an edge, with no TRIGGER while DELAY is high.                 *)
LEMMA SerialEdges ==
  ASSUME Serial!SerialNext
  PROVE  \E URST \in BOOLEAN, ACK \in {FALSE, mSending}, cmd \in Serial!Commands :
           \E clk : AnEdge(URST, ACK, cmd, clk)
<1>1. PICK clk \in Serial!Clks, ACK \in {FALSE, mSending} :
        \/ Serial!Edge(TRUE, ACK, Serial!NoCommand, clk)
        \/ \E cmd \in Serial!Commands : Serial!Edge(FALSE, ACK, cmd, clk)
  BY DEF Serial!SerialNext
<1>2. clk.TRIGGER \in BOOLEAN /\ (clk.TRIGGER => ~Serial!DELAY)
  <2>1. CASE Serial!DELAY
    <3>1. clk = Serial!NoClk
      BY <1>1, <2>1 DEF Serial!Clks
    <3>2. QED
      BY <3>1 DEF Serial!NoClk
  <2>2. CASE ~Serial!DELAY
    <3>1. clk \in [TRIGGER : BOOLEAN, PROBEIN : (Values \ {probeData}) \cup {NoValue}]
      BY <1>1, <2>2 DEF Serial!Clks
    <3>2. QED
      BY <2>2, <3>1
  <2>3. QED
    BY <2>1, <2>2
<1>3. Serial!NoCommand \in Serial!Commands
  BY DEF Serial!Commands, Serial!NoCommand
<1>4. CASE Serial!Edge(TRUE, ACK, Serial!NoCommand, clk)
  BY <1>2, <1>3, <1>4 DEF AnEdge
<1>5. ASSUME NEW cmd \in Serial!Commands, Serial!Edge(FALSE, ACK, cmd, clk)
      PROVE  \E c \in Serial!Commands : AnEdge(FALSE, ACK, c, clk)
  BY <1>2, <1>5 DEF AnEdge
<1>6. QED
  BY <1>1, <1>4, <1>5

-----------------------------------------------------------------------------
(* The registers keep their types at an edge.                              *)
LEMMA SerialTypesKept ==
  ASSUME SerialTypes, NEW URST, NEW ACK, NEW cmd, NEW clk, AnEdge(URST, ACK, cmd, clk)
  PROVE  SerialTypes'
<1>1. /\ Serial!TriggerUClk(URST, cmd.trigger, Serial!ACKA(ACK))
      /\ Serial!TriggerClk(clk.TRIGGER) /\ Serial!TriggerRecord(URST, clk.TRIGGER)
      /\ Serial!ValueUClk(URST, cmd.value, Serial!ACKB(ACK))
      /\ Serial!ValueClk(clk.PROBEIN) /\ Serial!ValueRecord(URST, cmd.value, clk.PROBEIN)
      /\ Serial!MuxEdge(URST, ACK, tSending, tUp, vSending, vUp)
      /\ URST \in BOOLEAN
  BY DEF AnEdge, Serial!Edge, Serial!TriggerEdge, Serial!ValueEdge
<1>2. tSending' \in BOOLEAN /\ wordCount' \in 0 .. NumWords
  <2>1. tSending' \in BOOLEAN
    BY <1>1, Zenon DEF SerialTypes, Serial!TriggerUClk, Serial!Ship
  <2>2. wordCount' \in {0, NumWords, wordCount} \/ (wordCount # 0 /\ wordCount' = wordCount - 1)
    BY <1>1, Zenon DEF Serial!TriggerUClk, Serial!Ship, Serial!wordCountZero
  <2>3. wordCount' \in 0 .. NumWords
    BY <2>2, CrossingsAssumption DEF SerialTypes
  <2>4. QED
    BY <2>1, <2>3
<1>3. sendDisable' \in BOOLEAN /\ tEnabled' \in BOOLEAN /\ sentToggle' \in BOOLEAN
  BY <1>1, Zenon DEF SerialTypes, Serial!TriggerUClk, Serial!RememberDisable, Serial!TriggerCommand
<1>4. triggerToggle' \in BOOLEAN /\ waiting' \in BOOLEAN /\ cut' \in BOOLEAN
  BY <1>1, Zenon DEF Serial!TriggerClk, Serial!TriggerRecord
<1>5. vSending' \in BOOLEAN /\ captureChanged' \in BOOLEAN /\ remaining' \in 0 .. ProbeWords
  <2>1. vSending' \in BOOLEAN /\ captureChanged' \in BOOLEAN
    BY <1>1, Zenon
       DEF SerialTypes, Serial!ValueUClk, Serial!Start, Serial!NextWord, Serial!Finish, Serial!Rest
  <2>2. remaining' \in {0, ProbeWords, remaining} \/ (remaining # 0 /\ remaining' = remaining - 1)
    BY <1>1, Zenon DEF Serial!ValueUClk, Serial!Start, Serial!NextWord, Serial!Finish, Serial!Rest
  <2>3. remaining' \in 0 .. ProbeWords
    BY <2>2, CrossingsAssumption DEF SerialTypes
  <2>4. QED
    BY <2>1, <2>3
<1>6. vEnabled' \in BOOLEAN /\ forced' \in BOOLEAN /\ sendOnce' \in BOOLEAN
  <2>1. InitiallyEnabled \in BOOLEAN
    BY CrossingsAssumption
  <2>2. QED
    BY <1>1, <2>1, Zenon DEF SerialTypes, Serial!ValueUClk, Serial!Commanded
<1>7. sentOne' \in BOOLEAN
  BY <1>1, Zenon DEF SerialTypes, Serial!ValueUClk, Serial!SentOne
<1>8. probeChanged' \in BOOLEAN /\ fresh' \in BOOLEAN /\ reported' \in BOOLEAN /\ crossed' \in BOOLEAN
  BY <1>1, Zenon DEF SerialTypes, Serial!ValueClk, Serial!ValueRecord
<1>9. AorB' \in BOOLEAN /\ mSending' \in BOOLEAN
  BY <1>1, Zenon DEF SerialTypes, Serial!MuxEdge, Serial!muxVars
<1>10. QED
  BY <1>2, <1>3, <1>4, <1>5, <1>6, <1>7, <1>8, <1>9 DEF SerialTypes

(* The last command decides what the registers of commands say.            *)
LEMMA ModeKeptStep ==
  ASSUME SerialTypes, ModeKept, NEW URST, NEW ACK, NEW cmd, NEW clk, AnEdge(URST, ACK, cmd, clk)
  PROVE  ModeKept'
<1>1. /\ Serial!ValueUClk(URST, cmd.value, Serial!ACKB(ACK)) /\ Serial!ValueRecord(URST, cmd.value, clk.PROBEIN)
      /\ URST \in BOOLEAN /\ cmd \in Serial!Commands
  BY DEF AnEdge, Serial!Edge, Serial!ValueEdge
<1>2. CASE URST
  BY <1>1, <1>2, CrossingsAssumption DEF Serial!ValueUClk, Serial!ValueRecord, ModeKept
<1>3. CASE ~URST
  <2>1. cmd.value \in {"NONE", "ENABLE", "DISABLED", "SENDONCE"}
    BY <1>1 DEF Serial!Commands
  <2>2. CASE cmd.value = "NONE"
    BY <1>1, <1>3, <2>2
       DEF ModeKept, SerialTypes, Serial!ValueUClk, Serial!ValueRecord, Serial!Commanded, Serial!SentOne
  <2>3. CASE cmd.value # "NONE"
    BY <1>1, <1>3, <2>1, <2>3
       DEF ModeKept, SerialTypes, Serial!ValueUClk, Serial!ValueRecord, Serial!Commanded, Serial!SentOne
  <2>4. QED
    BY <2>2, <2>3
<1>4. QED
  BY <1>1, <1>2, <1>3

(* A new value between reports waits for the report that it starts.        *)
LEMMA ValuesKeptStep ==
  ASSUME SerialTypes, ValuesKept, NEW URST, NEW ACK, NEW cmd, NEW clk, AnEdge(URST, ACK, cmd, clk)
  PROVE  ValuesKept'
<1>1. /\ Serial!ValueUClk(URST, cmd.value, Serial!ACKB(ACK)) /\ Serial!ValueClk(clk.PROBEIN)
      /\ Serial!ValueRecord(URST, cmd.value, clk.PROBEIN)
  BY DEF AnEdge, Serial!Edge, Serial!ValueEdge
<1>2. SUFFICES ASSUME fresh' PROVE ~vSending' /\ probeChanged' # captureChanged'
  BY DEF ValuesKept, Serial!newData
<1>3. ~URST /\ ~vSending' /\ Serial!Listening /\ (fresh \/ Serial!IsNew(clk.PROBEIN))
  BY <1>1, <1>2 DEF Serial!ValueRecord
<1>4. ~Serial!Starts
  BY <1>1, <1>3 DEF Serial!ValueUClk, Serial!Start, Serial!NextWord, Serial!Finish, Serial!Rest, SerialTypes
<1>5. Serial!IsNew(clk.PROBEIN)
  BY <1>3, <1>4 DEF ValuesKept, Serial!Starts
<1>6. captureChanged' = probeChanged
  BY <1>1, <1>3, <1>4 DEF SerialTypes, Serial!ValueUClk, Serial!Start, Serial!NextWord, Serial!Finish, Serial!Rest,
     Serial!Starts, Serial!newData
<1>7. probeChanged' = ~probeChanged
  BY <1>1, <1>5 DEF Serial!ValueClk, SerialTypes
<1>8. QED
  BY <1>3, <1>6, <1>7 DEF SerialTypes

(* A trigger can only come while no other is held up, and then waits.      *)
LEMMA TriggersKeptStep ==
  ASSUME SerialTypes, WordsInOrder, TriggersKept,
         NEW URST, NEW ACK, NEW cmd, NEW clk, AnEdge(URST, ACK, cmd, clk)
  PROVE  TriggersKept'
<1>1. /\ Serial!TriggerUClk(URST, cmd.trigger, Serial!ACKA(ACK))
      /\ Serial!TriggerClk(clk.TRIGGER) /\ Serial!TriggerRecord(URST, clk.TRIGGER)
      /\ URST \in BOOLEAN /\ clk.TRIGGER \in BOOLEAN
      /\ clk.TRIGGER => ~mSending /\ ~(tEnabled /\ triggerToggle # sentToggle)
  BY DEF AnEdge, Serial!Edge, Serial!TriggerEdge, Serial!DELAY, Serial!tDelay, Serial!triggered
<1>2. tSending /\ wordCount # NumWords => mSending
  BY DEF WordsInOrder, TriggerUnderWay
<1>3. TriggersKept!1'
  <2>1. cut' <=> tSending' /\ (cut \/ ~tEnabled')
    BY <1>1 DEF Serial!TriggerRecord
  <2>2. QED
    BY <2>1
<1>4. ASSUME URST PROVE TriggersKept'
  BY <1>1, <1>3, <1>4 DEF Serial!TriggerUClk, Serial!TriggerRecord, TriggersKept
<1>5. ASSUME ~URST PROVE TriggersKept'
  <2> DEFINE a == Serial!ACKA(ACK)
  <2>1. /\ Serial!Ship(a)
        /\ sentToggle' = (sentToggle # Serial!GiveBack) /\ triggerToggle' = (triggerToggle # clk.TRIGGER)
    BY <1>1, <1>5 DEF Serial!TriggerUClk, Serial!TriggerClk
  <2> HIDE DEF a
  <2>2. cut' <=> tSending' /\ (cut \/ ~tEnabled')
    BY <1>1 DEF Serial!TriggerRecord
  <2>3. ASSUME tSending', ~cut', wordCount' # 0 PROVE Serial!triggered'
    <3>1. ~cut
      BY <2>2, <2>3
    <3>2. Serial!Reports \/ (tSending /\ wordCount # 0)
      BY <2>1, <2>3 DEF Serial!Ship, Serial!wordCountZero
    <3>3. tEnabled /\ triggerToggle # sentToggle
      BY <3>1, <3>2 DEF TriggersKept, Serial!Reports, Serial!tDelay, Serial!triggered
    <3>4. ~clk.TRIGGER /\ ~Serial!GiveBack
      BY <1>1, <3>2, <3>3 DEF Serial!GiveBack, Serial!wordCountZero, Serial!Reports
    <3>5. triggerToggle' = triggerToggle
      BY <1>1, <2>1, <3>4 DEF SerialTypes
    <3>6. sentToggle' = sentToggle
      BY <2>1, <3>4 DEF SerialTypes, Serial!GiveBack, Serial!triggered, Serial!wordCountZero
    <3>7. QED
      BY <3>3, <3>5, <3>6 DEF Serial!triggered
  <2>4. ASSUME waiting' PROVE ~tSending' /\ Serial!triggered'
    <3>1. tEnabled /\ ((clk.TRIGGER /\ ~cut) \/ (waiting /\ ~Serial!Reports))
      BY <1>1, <2>4 DEF Serial!TriggerRecord
    <3>2. clk.TRIGGER /\ ~cut
      BY <3>1 DEF TriggersKept, Serial!Reports, Serial!tDelay
    <3>3. ~mSending /\ triggerToggle = sentToggle
      BY <1>1, <3>1, <3>2
    <3>4. ~tSending
      BY <1>2, <3>2, <3>3, CrossingsAssumption DEF TriggersKept, Serial!triggered, SerialTypes
    <3>5. ~tSending' /\ ~Serial!GiveBack
      BY <2>1, <3>3, <3>4 DEF Serial!Ship, Serial!Reports, Serial!tDelay, Serial!triggered, Serial!GiveBack
    <3>6. triggerToggle' # triggerToggle
      BY <1>1, <2>1, <3>2 DEF SerialTypes
    <3>7. sentToggle' = sentToggle
      BY <2>1, <3>5 DEF SerialTypes, Serial!GiveBack, Serial!triggered, Serial!wordCountZero
    <3>8. QED
      BY <3>3, <3>5, <3>6, <3>7 DEF Serial!triggered
  <2>5. QED
    BY <1>3, <2>3, <2>4 DEF TriggersKept
<1>6. QED
  BY <1>1, <1>4, <1>5

(* What each probe offers after an edge, by whether its word was taken.    *)
LEMMA TriggerWords ==
  ASSUME SerialTypes, TriggerOffers, NEW a \in BOOLEAN, Serial!Ship(a), Serial!RememberDisable(a)
  PROVE  /\ TriggerOffers'
         /\ ~(tSending /\ a) => (TriggerUnderWay' <=> TriggerUnderWay) /\ (TriggerUnderWay => tUp' = tUp)
         /\ tSending /\ a => \/ TriggerUnderWay' /\ Serial!Follows(tUp, tUp')
                             \/ ~TriggerUnderWay' /\ Final(tUp)
         /\ tSending /\ ~TriggerUnderWay => Serial!Header(tUp)
<1> USE CrossingsAssumption
<1> USE DEF SerialTypes, TriggerOffers, TriggerUnderWay, Serial!Header
<1>0. /\ \A n : Serial!TriggerWord(n).probe = "Trigger" /\ Serial!TriggerWord(n).n = n
      /\ Serial!DisabledWord = Serial!TriggerWord(NumWords + 1)
  BY DEF Serial!TriggerWord, Serial!DisabledWord
<1>1. CASE Serial!Reports
  <2>1. tUp' = Serial!TriggerWord(0) /\ tSending' /\ wordCount' = NumWords /\ ~tSending
    BY <1>1 DEF Serial!Ship, Serial!Reports
  <2>2. QED
    BY <2>1
<1>2. CASE tSending /\ a /\ wordCount # 0
  <2>1. /\ tUp' = Serial!TriggerWord(NumWords - wordCount + 1)
        /\ wordCount' = wordCount - 1 /\ tSending' /\ tUp = Serial!TriggerWord(NumWords - wordCount)
    BY <1>2 DEF Serial!Ship, Serial!Reports, Serial!wordCountZero
  <2>2. Serial!Follows(tUp, tUp')
    BY <1>0, <1>2, <2>1 DEF Serial!Follows
  <2>3. NumWords - wordCount + 1 = NumWords - (wordCount - 1)
    OBVIOUS
  <2>4. TriggerOffers'
    BY <2>1, <2>3
  <2>5. QED
    BY <1>0, <1>2, <2>1, <2>2, <2>4
<1>3. CASE tSending /\ a /\ wordCount = 0 /\ sendDisable
  <2>1. /\ tUp' = Serial!DisabledWord /\ tSending' /\ wordCount' = 0 /\ ~sendDisable'
        /\ tUp = Serial!TriggerWord(NumWords)
    <3>1. tUp' = Serial!DisabledWord /\ tSending' = tSending /\ wordCount' = wordCount
      BY <1>3 DEF Serial!Ship, Serial!Reports, Serial!wordCountZero
    <3>2. ~sendDisable'
      BY <1>3 DEF Serial!wordCountZero, Serial!RememberDisable
    <3>3. NumWords - wordCount = NumWords
      BY <1>3
    <3>4. QED
      BY <1>3, <3>1, <3>2, <3>3
  <2>2. Serial!Follows(tUp, tUp')
    BY <1>0, <2>1 DEF Serial!Follows
  <2>3. QED
    BY <1>3, <2>1, <2>2
<1>4. CASE tSending /\ a /\ wordCount = 0 /\ ~sendDisable
  <2>1. ~tSending' /\ tUp \in {Serial!TriggerWord(NumWords), Serial!TriggerWord(NumWords + 1)}
    <3>1. ~tSending'
      BY <1>4 DEF Serial!Ship, Serial!Reports, Serial!wordCountZero
    <3>2. NumWords - wordCount = NumWords
      BY <1>4
    <3>3. QED
      BY <1>0, <1>4, <3>1, <3>2
  <2>2. Final(tUp)
    BY <1>0, <2>1 DEF Final
  <2>3. QED
    BY <1>4, <2>1, <2>2
<1>5. CASE ~Serial!Reports /\ ~(tSending /\ a)
  <2>1. UNCHANGED <<tUp, tSending, wordCount>> /\ (tSending => ~sendDisable' = ~sendDisable)
    BY <1>5 DEF Serial!Ship, Serial!RememberDisable
  <2>2. tSending /\ wordCount = NumWords => Serial!Header(tUp)
    BY <1>0
  <2>3. QED
    BY <1>5, <2>1, <2>2
<1>6. QED
  BY <1>1, <1>2, <1>3, <1>4, <1>5

(* The same of the value probe.                                            *)
LEMMA ValueWords ==
  ASSUME SerialTypes, ValueOffers, NEW a \in BOOLEAN,
         Serial!Start \/ Serial!NextWord(a) \/ Serial!Finish(a) \/ Serial!Rest(a)
  PROVE  /\ ValueOffers'
         /\ ~(vSending /\ a) => (ValueUnderWay' <=> ValueUnderWay) /\ (ValueUnderWay => vUp' = vUp)
         /\ vSending /\ a => \/ ValueUnderWay' /\ Serial!Follows(vUp, vUp')
                             \/ ~ValueUnderWay' /\ Final(vUp)
         /\ vSending /\ ~ValueUnderWay => Serial!Header(vUp)
<1> USE CrossingsAssumption
<1> USE DEF SerialTypes, ValueOffers, ValueUnderWay, Serial!Header
<1>0. \A n, v : /\ Serial!ValueWord(n, v).probe = "Value" /\ Serial!ValueWord(n, v).n = n
                /\ Serial!ValueWord(n, v).value = v
  BY DEF Serial!ValueWord
<1>1. CASE Serial!Start
  <2>1. vUp' = Serial!ValueWord(0, NoValue) /\ vSending' /\ remaining' = ProbeWords /\ ~vSending
    BY <1>1 DEF Serial!Start, Serial!Starts
  <2>2. QED
    BY <2>1
<1>2. CASE Serial!NextWord(a)
  <2>1. /\ vUp' = Serial!ValueWord(ProbeWords - remaining + 1, captured) /\ vSending /\ vSending' /\ a
        /\ remaining # 0 /\ remaining' = remaining - 1 /\ captured' = captured
    BY <1>2 DEF Serial!NextWord
  <2>2. Serial!Follows(vUp, vUp')
    BY <1>0, <2>1 DEF Serial!Follows
  <2>3. ProbeWords - remaining + 1 = ProbeWords - (remaining - 1)
    OBVIOUS
  <2>4. ValueOffers'
    BY <2>1, <2>3
  <2>5. QED
    BY <1>0, <2>1, <2>2, <2>4
<1>3. CASE Serial!Finish(a)
  <2>1. ~vSending' /\ vSending /\ a /\ remaining = 0
    BY <1>3 DEF Serial!Finish
  <2>2. Final(vUp)
    BY <1>0, <2>1 DEF Final
  <2>3. QED
    BY <2>1, <2>2
<1>4. CASE Serial!Rest(a)
  <2>1. UNCHANGED <<remaining, captured, vUp, vSending>> /\ ~(a /\ vSending)
    BY <1>4 DEF Serial!Rest
  <2>2. vSending /\ remaining = ProbeWords => Serial!Header(vUp)
    BY <1>0
  <2>3. QED
    BY <2>1, <2>2
<1>5. QED
  BY <1>1, <1>2, <1>3, <1>4

(* A word follows the last one of a report if it begins another. *)
LEMMA HeaderFollows ==
  ASSUME NEW v, NEW w, Final(v), Serial!Header(w) PROVE Serial!Follows(v, w)
BY CrossingsAssumption DEF Final, Serial!Header, Serial!Follows

(* The multiplexer takes the word of its side as the next, or turns.       *)
LEMMA WordsInOrderStep ==
  ASSUME SerialTypes, WordsInOrder, NEW URST, NEW ACK, NEW cmd, NEW clk, AnEdge(URST, ACK, cmd, clk)
  PROVE  WordsInOrder'
<1>1. /\ Serial!TriggerUClk(URST, cmd.trigger, Serial!ACKA(ACK))
      /\ Serial!ValueUClk(URST, cmd.value, Serial!ACKB(ACK))
      /\ Serial!MuxEdge(URST, ACK, tSending, tUp, vSending, vUp)
      /\ last' = IF URST THEN Serial!TriggerWord(NumWords) ELSE IF ACK THEN mUp ELSE last
      /\ URST \in BOOLEAN
  BY DEF AnEdge, Serial!Edge, Serial!TriggerEdge, Serial!ValueEdge
<1>0. ACK \in BOOLEAN /\ (ACK => mSending)
  <2>1. ACK = FALSE \/ ACK = mSending
    BY DEF AnEdge
  <2>2. mSending \in BOOLEAN
    BY DEF SerialTypes
  <2>3. ACK \in BOOLEAN
    BY <2>1, <2>2
  <2>4. ACK => mSending
    BY <2>1, Zenon
  <2>5. QED
    BY <2>3, <2>4
<1>2. CASE URST
  <2>1. ~tSending' /\ ~vSending' /\ ~mSending' /\ last' = Serial!TriggerWord(NumWords)
    BY <1>1, <1>2 DEF Serial!TriggerUClk, Serial!ValueUClk, Serial!MuxEdge
  <2>2. Final(Newest)'
    BY <2>1, CrossingsAssumption DEF Final, Newest, Serial!TriggerWord
  <2>3. QED
    BY <2>1, <2>2
       DEF WordsInOrder, TriggerOffers, ValueOffers, TriggerUnderWay, ValueUnderWay, Serial!ReportsWhole
<1>3. CASE ~URST
  <2> DEFINE a == Serial!ACKA(ACK)
             b == Serial!ACKB(ACK)
  <2>1. /\ Serial!Ship(a) /\ Serial!RememberDisable(a)
        /\ Serial!Start \/ Serial!NextWord(b) \/ Serial!Finish(b) \/ Serial!Rest(b)
        /\ last' = IF ACK THEN mUp ELSE last
    BY <1>1, <1>3 DEF Serial!TriggerUClk, Serial!ValueUClk
  <2>2. a \in BOOLEAN /\ b \in BOOLEAN /\ (a <=> (ACK \/ ~mSending) /\ ~AorB) /\ (b <=> (ACK \/ ~mSending) /\ AorB)
    BY <1>0 DEF Serial!ACKA, Serial!ACKB, Serial!free
  <2> HIDE DEF a, b
  <2>3. /\ TriggerOffers'
        /\ ~(tSending /\ a) => (TriggerUnderWay' <=> TriggerUnderWay) /\ (TriggerUnderWay => tUp' = tUp)
        /\ tSending /\ a => \/ TriggerUnderWay' /\ Serial!Follows(tUp, tUp')
                            \/ ~TriggerUnderWay' /\ Final(tUp)
        /\ tSending /\ ~TriggerUnderWay => Serial!Header(tUp)
    BY <2>1, <2>2, TriggerWords DEF WordsInOrder
  <2>4. /\ ValueOffers'
        /\ ~(vSending /\ b) => (ValueUnderWay' <=> ValueUnderWay) /\ (ValueUnderWay => vUp' = vUp)
        /\ vSending /\ b => \/ ValueUnderWay' /\ Serial!Follows(vUp, vUp')
                            \/ ~ValueUnderWay' /\ Final(vUp)
        /\ vSending /\ ~ValueUnderWay => Serial!Header(vUp)
    BY <2>1, <2>2, ValueWords DEF WordsInOrder
  <2>5. /\ TriggerUnderWay => mSending /\ ~AorB /\ tSending /\ Serial!Follows(mUp, tUp)
        /\ ValueUnderWay => mSending /\ AorB /\ vSending /\ Serial!Follows(mUp, vUp)
        /\ ~TriggerUnderWay /\ ~ValueUnderWay => Final(Newest)
        /\ mSending => Serial!Follows(last, mUp)
        /\ Newest = IF mSending THEN mUp ELSE last
    BY DEF WordsInOrder, TriggerUnderWay, ValueUnderWay, Serial!ReportsWhole, Newest
  <2> DEFINE Kept == /\ TriggerUnderWay' => mSending' /\ ~AorB' /\ Serial!Follows(mUp', tUp')
                     /\ ValueUnderWay' => mSending' /\ AorB' /\ Serial!Follows(mUp', vUp')
                     /\ ~TriggerUnderWay' /\ ~ValueUnderWay' => Final(IF mSending' THEN mUp' ELSE last')
                     /\ mSending' => Serial!Follows(last', mUp')
  <2>6. CASE ~(ACK \/ ~mSending)
    <3>1. AorB' = AorB /\ mSending' = mSending /\ mUp' = mUp /\ last' = last /\ ~a /\ ~b
      BY <1>1, <1>3, <2>1, <2>2, <2>6 DEF Serial!MuxEdge, Serial!free, Serial!muxVars
    <3>2. Kept
      BY <2>3, <2>4, <2>5, <3>1
    <3>3. QED
      BY <2>3, <2>4, <3>2 DEF WordsInOrder, Newest, Serial!ReportsWhole
  <2>7. CASE ACK \/ ~mSending
    <3>1. last' = Newest
      BY <1>0, <2>1, <2>7 DEF Newest
    <3>2. CASE ~AorB /\ tSending
      <4>1. mSending' /\ mUp' = tUp /\ ~AorB'
        <5>1. mSending' /\ mUp' = tUp
          BY <1>1, <1>3, <2>7, <3>2 DEF Serial!MuxEdge, Serial!free
        <5>2. ~AorB'
          BY <1>1, <1>3, <2>7, <3>2 DEF Serial!MuxEdge, Serial!free, SerialTypes
        <5>3. QED
          BY <5>1, <5>2
      <4>2. Serial!Follows(Newest, tUp)
        BY <2>3, <2>5, <3>2, HeaderFollows
      <4>3. Kept
        BY <2>2, <2>3, <2>4, <2>5, <2>7, <3>1, <3>2, <4>1, <4>2
      <4>4. QED
        BY <2>3, <2>4, <4>3 DEF WordsInOrder, Newest, Serial!ReportsWhole
    <3>3. CASE AorB /\ vSending
      <4>1. mSending' /\ mUp' = vUp /\ AorB'
        BY <1>1, <1>3, <2>7, <3>3 DEF Serial!MuxEdge, Serial!free
      <4>2. Serial!Follows(Newest, vUp)
        BY <2>4, <2>5, <3>3, HeaderFollows
      <4>3. Kept
        BY <2>2, <2>3, <2>4, <2>5, <2>7, <3>1, <3>3, <4>1, <4>2
      <4>4. QED
        BY <2>3, <2>4, <4>3 DEF WordsInOrder, Newest, Serial!ReportsWhole
    <3>4. CASE ~(~AorB /\ tSending) /\ ~(AorB /\ vSending)
      <4>1. ~mSending' /\ ~(tSending /\ a) /\ ~(vSending /\ b) /\ ~TriggerUnderWay /\ ~ValueUnderWay
        BY <1>1, <1>3, <2>2, <2>5, <2>7, <3>4 DEF Serial!MuxEdge, Serial!free
      <4>2. Kept
        BY <2>3, <2>4, <2>5, <3>1, <4>1
      <4>3. QED
        BY <2>3, <2>4, <4>2 DEF WordsInOrder, Newest, Serial!ReportsWhole
    <3>5. QED
      BY <3>2, <3>3, <3>4
  <2>8. QED
    BY <2>6, <2>7
<1>4. QED
  BY <1>1, <1>2, <1>3

(* A step of the other components leaves these variables alone. *)
LEMMA SerialStays == SerialInv /\ UNCHANGED serialVars => SerialInv'
BY DEF serialVars, SerialInv, SerialTypes, WordsInOrder, TriggerOffers, ValueOffers, TriggerUnderWay, ValueUnderWay, Newest, Final,
       Serial!ReportsWhole, TriggersKept, ValuesKept, ModeKept, Serial!triggered, Serial!newData

(* The parts of the invariant are what ReportsTrue is made of.             *)
LEMMA SerialTrue == SerialInv => ReportsTrue
<1> SUFFICES ASSUME SerialInv PROVE ReportsTrue
  OBVIOUS
<1>1. Serial!ReportsWhole /\ Serial!NoTriggerLost /\ Serial!NoValueLost
  BY DEF SerialInv, WordsInOrder, TriggersKept, ValuesKept, Serial!NoTriggerLost, Serial!NoValueLost
<1>2. Serial!ListensAsCommanded
  BY DEF SerialInv, ModeKept, SerialTypes, Serial!ListensAsCommanded, Serial!Listening
<1>3. QED
  BY <1>1, <1>2 DEF ReportsTrue, Serial!ReportsTrue

(***************************************************************************)
(* The reports of triggers and values go up whole, one after the other,    *)
(* and no trigger or value is lost, with reports of any length and any     *)
(* values, whatever commands and acknowledgements come                     *)
(* (ProbeTrigger.v:97-164, ProbeValue.v:85-139, ProbeMux.v:73-102).        *)
(***************************************************************************)
THEOREM ProbesReport == MCSpec => []ReportsTrue
<1>1. MCInit => SerialInv
  BY SerialStarts DEF MCInit
<1>2. ASSUME SerialInv, [MCNext /\ UNCHANGED which]_allVars PROVE SerialInv'
  <2>1. CASE Serial!SerialNext
    <3>1. PICK URST \in BOOLEAN, ACK \in {FALSE, mSending}, cmd \in Serial!Commands :
            \E clk : AnEdge(URST, ACK, cmd, clk)
      BY <2>1, SerialEdges
    <3>2. PICK clk : AnEdge(URST, ACK, cmd, clk)
      BY <3>1
    <3>3. QED
      BY <1>2, <3>2, SerialTypesKept, WordsInOrderStep, TriggersKeptStep, ValuesKeptStep, ModeKeptStep
         DEF SerialInv
  <2>2. CASE UNCHANGED serialVars
    BY <1>2, <2>2, SerialStays
  <2>3. QED
    BY <1>2, <2>1, <2>2 DEF MCNext, allVars
<1>3. QED
  BY <1>1, <1>2, SerialTrue, PTL DEF MCSpec

-----------------------------------------------------------------------------
(* The logic analyser.  Of the samples those that a dump has not begun to  *)
(* send lie in the ring, newest first, backwards from memAddr.             *)
Places == 0 .. MemSize - 1
Begun  == IF Analyser!Dumping THEN Len(samples) - regs.sampleCount ELSE 0

(* The place k before the place p of the ring.                             *)
Back(p, k) == IF k <= p THEN p - k ELSE p + MemSize - k

(* As many samples as are kept of n and one more.                          *)
OneMore(n) == IF n < MemSize - 1 THEN n + 1 ELSE MemSize - 1

Samples == [value : Values, time : Nat]

RegNames == {"enabled", "capstate", "memAddr", "sampleCount", "ctimer", "ttimer", "captureChanged",
             "remaining", "dataOut"}

Typed(r) ==
  /\ DOMAIN r = RegNames
  /\ r.enabled \in BOOLEAN /\ r.capstate \in {"COLLECTING", "TRIGGERED", "DUMPING"}
  /\ r.memAddr \in Places /\ r.sampleCount \in Nat /\ r.ctimer \in 0 .. RunLenMax
  /\ r.ttimer \in Nat /\ r.captureChanged \in BOOLEAN /\ r.remaining \in Nat
  /\ DOMAIN r.dataOut = {"sample", "n"}

RingTypes ==
  /\ Typed(regs)
  /\ probed \in Values /\ flipped \in BOOLEAN /\ DOMAIN ring = Places
  /\ changes \in 0 .. 2 /\ blurred \in BOOLEAN /\ dumped \in Nat /\ since \in Nat
  /\ samples \in Seq(Samples) /\ Len(samples) < MemSize

InRing ==
  /\ \A k \in 1 .. Len(samples) : k > Begun => samples[k] = ring[Back(regs.memAddr, k - 1 - Begun)]
  /\ Analyser!Dumping /\ Begun < Len(samples) => samples[Begun + 1] = memdata

(* While it collects: what is due next, and what the toggle tells of the   *)
(* changes since the last tick.                                            *)
Collects ==
  Analyser!Active =>
    /\ regs.sampleCount = OneMore(Len(samples))
    /\ regs.ctimer = IF samples = <<>> THEN RunLenMax ELSE since
    /\ samples # <<>> =>
         /\ changes = 0 => probed = lastTick /\ flipped = regs.captureChanged
         /\ changes = 1 => flipped # regs.captureChanged
         /\ ~blurred => samples[1].value = lastTick

(* While it dumps: the word on offer is the one its counters stand for.    *)
Dumps ==
  Analyser!Dumping =>
    /\ regs.sampleCount <= Len(samples) /\ regs.remaining < ProbeWords
    /\ Begun = 0 =>
         dumped = 0 /\ regs.remaining = 0 /\ regs.dataOut = Analyser!Header(ProbeWords * Len(samples))
    /\ Begun # 0 =>
         /\ dumped + regs.remaining = ProbeWords * Begun
         /\ regs.dataOut = Analyser!Word(samples[Begun], ProbeWords - regs.remaining)

Rests ==
  ~Analyser!Dumping => dumped = 0 /\ (~Analyser!Active => samples = <<>>)

RingInv == RingTypes /\ InRing /\ Collects /\ Dumps /\ Rests

(* The block saves a sample; it is to dump at the next tick; it takes the  *)
(* next sample for the dump; it has sent the last one.                     *)
Saves(CTIMER) == Analyser!memWrite(CTIMER)
Ends          == Analyser!Triggered /\ regs.ttimer = 0
Takes(ACK)    == Analyser!memRead(ACK)
Drained       == regs.remaining = 0 /\ regs.sampleCount = 0

(* A ring's places.                                                        *)
LEMMA PlacesOfRing ==
  ASSUME NEW p \in Places
  PROVE  /\ (p + 1) % MemSize \in Places /\ (p + 1) % MemSize = (IF p = MemSize - 1 THEN 0 ELSE p + 1)
         /\ (p + MemSize - 1) % MemSize \in Places /\ (p + MemSize - 1) % MemSize = Back(p, 1)
         /\ Back(p, 0) = p
         /\ \A k \in 0 .. MemSize - 2 :
              /\ Back((p + 1) % MemSize, k + 1) = Back(p, k)
              /\ Back(Back(p, 1), k) = Back(p, k + 1)
              /\ Back(p, k) # (p + 1) % MemSize
         /\ \A k \in Places : Back(p, k) \in Places
<1>1. MemSize \in Nat /\ MemSize > 1 /\ p \in 0 .. MemSize - 1
  BY CrossingsAssumption DEF Places
<1>2. (p + 1) % MemSize = (IF p = MemSize - 1 THEN 0 ELSE p + 1)
  <2>1. CASE p = MemSize - 1
    BY <1>1, <2>1
  <2>2. CASE p # MemSize - 1
    BY <1>1, <2>2
  <2>3. QED
    BY <2>1, <2>2
<1>3. (p + MemSize - 1) % MemSize = Back(p, 1)
  <2>1. CASE p = 0
    BY <1>1, <2>1 DEF Back
  <2>2. CASE p # 0
    BY <1>1, <2>2 DEF Back
  <2>3. QED
    BY <2>1, <2>2
<1>4. QED
  BY <1>1, <1>2, <1>3 DEF Places, Back

(* The samples with one more: the ring has room for all but its last.      *)
LEMMA SampleKept ==
  ASSUME NEW s \in Seq(Samples), Len(s) < MemSize, NEW x \in Samples
  PROVE  LET t == Analyser!Keep(<<x>> \o s)
         IN  /\ t \in Seq(Samples) /\ Len(t) = OneMore(Len(s)) /\ Len(t) < MemSize
             /\ t[1] = x /\ \A k \in 2 .. Len(t) : t[k] = s[k - 1]
<1> DEFINE m == <<x>> \o s
           n == IF Len(m) < MemSize THEN Len(m) ELSE MemSize - 1
<1>1. MemSize \in Nat /\ MemSize > 1
  BY CrossingsAssumption
<1>2. m \in Seq(Samples) /\ Len(m) = Len(s) + 1 /\ m[1] = x /\ \A k \in 2 .. Len(m) : m[k] = s[k - 1]
  OBVIOUS
<1>3. Len(s) \in Nat /\ n \in 1 .. Len(m) /\ n = OneMore(Len(s)) /\ n < MemSize
  BY <1>1, <1>2 DEF OneMore
<1>4. Analyser!Keep(m) = SubSeq(m, 1, n)
  BY DEF Analyser!Keep
<1> HIDE DEF m, n
<1>5. SubSeq(m, 1, n) \in Seq(Samples) /\ Len(SubSeq(m, 1, n)) = n
        /\ \A k \in 1 .. n : SubSeq(m, 1, n)[k] = m[k]
  BY <1>2, <1>3
<1>6. \A k \in 2 .. n : k \in 1 .. n /\ k \in 2 .. Len(m)
  BY <1>2, <1>3
<1>7. 1 \in 1 .. n
  BY <1>3
<1>8. QED
  BY <1>2, <1>3, <1>4, <1>5, <1>6, <1>7 DEF m

(* The registers but those moved are as they were.                         *)
Else(r, moved) == DOMAIN r = RegNames /\ \A x \in RegNames \ moved : r[x] = regs[x]

(* A tick that may save a sample.                                          *)
Ticked(r, CTIMER) ==
  /\ CTIMER /\ Analyser!saveNow =>
       /\ r.memAddr = Analyser!nextPlace /\ r.captureChanged = flipped
       /\ r.ctimer = 0 /\ r.sampleCount = Analyser!incrSampleCount
  /\ CTIMER /\ ~Analyser!saveNow =>
       r.ctimer = regs.ctimer + 1 /\ Else(r, {"ctimer", "enabled", "capstate", "ttimer"})
  /\ ~CTIMER => Else(r, {"enabled", "capstate", "ttimer"})

(* The next registers, phase by phase: not enabled, ...                    *)
LEMMA ComboIdle ==
  ASSUME RingTypes, ~Analyser!Active, ~Analyser!Dumping,
         NEW cmd, NEW CTIMER, NEW TRIGGER, NEW ACK, NEW r, r = Analyser!combo(cmd, CTIMER, TRIGGER, ACK)
  PROVE  /\ Else(r, {"enabled", "sampleCount", "ctimer"}) /\ r.enabled \in BOOLEAN
         /\ r.sampleCount = 1 /\ r.ctimer = RunLenMax
<1>1. regs.capstate = "COLLECTING" /\ ~regs.enabled
  BY DEF RingTypes, Typed, Analyser!Active, Analyser!Collecting, Analyser!Triggered, Analyser!Dumping
<1>2. r = [regs EXCEPT !.enabled = cmd = "ENABLED" \/ (@ /\ cmd # "DISABLED"), !.sampleCount = 1,
                       !.ctimer = RunLenMax]
  BY <1>1 DEF Analyser!combo, Analyser!Collecting, Analyser!Triggered, Analyser!Dumping, Analyser!Restart,
     Analyser!Command, RingTypes, Typed, RegNames
<1>3. QED
  BY <1>2 DEF RingTypes, Typed, RegNames, Else

(* ... collecting, until the last tick after the trigger, ...              *)
LEMMA ComboCollects ==
  ASSUME RingTypes, Analyser!Active,
         NEW cmd, NEW CTIMER \in BOOLEAN, NEW TRIGGER \in BOOLEAN, NEW ACK,
         CTIMER => ~Ends,
         NEW r, r = Analyser!combo(cmd, CTIMER, TRIGGER, ACK)
  PROVE  /\ Else(r, {"enabled", "capstate", "ttimer", "memAddr", "captureChanged", "ctimer", "sampleCount"})
         /\ r.enabled \in BOOLEAN /\ r.capstate \in {"COLLECTING", "TRIGGERED"} /\ r.ttimer \in Nat
         /\ Ticked(r, CTIMER) /\ (Saves(CTIMER) <=> CTIMER /\ Analyser!saveNow)
<1> DEFINE kept == IF CTIMER THEN Analyser!Timing ELSE regs
           on   == cmd = "ENABLED" \/ (regs.enabled /\ cmd # "DISABLED")
<1>1. /\ DOMAIN kept = RegNames
      /\ Ticked(kept, CTIMER) /\ kept.enabled = regs.enabled /\ kept.capstate = regs.capstate
      /\ kept.ttimer = regs.ttimer
      /\ Else(kept, {"memAddr", "captureChanged", "ctimer", "sampleCount"})
  BY DEF Analyser!Timing, Analyser!Saving, Ticked, Else, RingTypes, Typed, RegNames
<1> HIDE DEF kept
<1>2. CASE Analyser!Collecting
  <2>1. PICK state \in {"COLLECTING", "TRIGGERED"} : r = [kept EXCEPT !.capstate = state, !.enabled = on]
    <3> DEFINE hit == (CTIMER /\ TRIGGER) \/ cmd = "TRIGGERED"
    <3>1. Analyser!combo(cmd, CTIMER, TRIGGER, ACK)
            = [[kept EXCEPT !.capstate = IF hit THEN "TRIGGERED" ELSE @] EXCEPT !.enabled = on]
      <4>1. Analyser!combo(cmd, CTIMER, TRIGGER, ACK)
              = Analyser!Restart(Analyser!Command(Analyser!Collect(CTIMER, hit), cmd))
        <5>1. ~Analyser!Triggered /\ ~Analyser!Dumping
          BY <1>2 DEF Analyser!Collecting, Analyser!Triggered, Analyser!Dumping
        <5>2. QED
          BY <1>2, <5>1, Zenon DEF Analyser!combo
      <4> HIDE DEF hit
      <4>2. Analyser!Collect(CTIMER, hit) = [kept EXCEPT !.capstate = IF hit THEN "TRIGGERED" ELSE @]
        BY Zenon DEF Analyser!Collect, kept
      <4>3. \A g : Analyser!Restart(g) = g
        BY <1>2 DEF Analyser!Restart, Analyser!Collecting
      <4>4. DOMAIN Analyser!Collect(CTIMER, hit) = RegNames /\ Analyser!Collect(CTIMER, hit).enabled = regs.enabled
        BY <1>1, <4>2 DEF RegNames
      <4>5. \A g : DOMAIN g = RegNames /\ g.enabled = regs.enabled => Analyser!Command(g, cmd) = [g EXCEPT !.enabled = on]
        BY DEF Analyser!Command, RegNames
      <4>6. QED
        BY <4>1, <4>2, <4>3, <4>4, <4>5
    <3>2. regs.capstate = "COLLECTING"
      BY <1>2 DEF Analyser!Collecting
    <3>3. (IF hit THEN "TRIGGERED" ELSE kept.capstate) \in {"COLLECTING", "TRIGGERED"}
      BY <1>1, <3>2
    <3>4. QED
      BY <1>1, <3>1, <3>3 DEF RegNames
  <2>2. ~Analyser!Triggered
    BY <1>2 DEF Analyser!Collecting, Analyser!Triggered
  <2>3. on \in BOOLEAN /\ regs.ttimer \in Nat
    BY DEF RingTypes, Typed
  <2>4. /\ DOMAIN r = RegNames /\ r.enabled = on /\ r.capstate = state
        /\ \A x \in RegNames \ {"enabled", "capstate"} : r[x] = kept[x]
    BY <1>1, <2>1 DEF RegNames
  <2>5. QED
    BY <1>1, <1>2, <2>2, <2>3, <2>4 DEF Ticked, Else, Saves, Analyser!memWrite, RegNames
<1>3. CASE Analyser!Triggered
  <2>1. ~Analyser!Collecting /\ regs.capstate = "TRIGGERED"
    BY <1>3 DEF Analyser!Collecting, Analyser!Triggered
  <2>2. CTIMER => regs.ttimer # 0
    BY <1>3 DEF Ends
  <2>3. r = IF CTIMER THEN [[kept EXCEPT !.ttimer = @ - 1] EXCEPT !.enabled = on] ELSE [kept EXCEPT !.enabled = on]
    BY <1>1, <1>3, <2>1, <2>2 DEF Analyser!combo, Analyser!RunOut, Analyser!Dumping, Analyser!Triggered,
       Analyser!Restart, Analyser!Command, RingTypes, Typed, RegNames, kept
  <2>4. on \in BOOLEAN /\ regs.ttimer \in Nat /\ (regs.ttimer # 0 => regs.ttimer - 1 \in Nat)
    BY DEF RingTypes, Typed
  <2>5. /\ DOMAIN r = RegNames /\ r.enabled = on /\ r.ttimer = IF CTIMER THEN regs.ttimer - 1 ELSE regs.ttimer
        /\ \A x \in RegNames \ {"enabled", "ttimer"} : r[x] = kept[x]
    BY <1>1, <2>3 DEF RegNames
  <2>6. QED
    BY <1>1, <1>3, <2>1, <2>2, <2>4, <2>5 DEF Ticked, Else, Saves, Analyser!memWrite, RegNames
<1>4. QED
  BY <1>2, <1>3 DEF Analyser!Active

(* ... at that tick, ...                                                   *)
RanOut(r) ==
  /\ Else(r, {"enabled", "memAddr", "captureChanged", "ctimer", "remaining", "capstate", "dataOut", "ttimer"})
  /\ r.enabled \in BOOLEAN /\ r.memAddr = Analyser!nextPlace /\ r.captureChanged = flipped
  /\ r.ctimer = RunLenMax /\ r.remaining = 0 /\ r.capstate = "DUMPING" /\ r.ttimer = TriggerToDump
  /\ r.dataOut = Analyser!Header(ProbeWords * regs.sampleCount)

LEMMA ComboRunsOut ==
  ASSUME RingTypes, Ends,
         NEW cmd, NEW CTIMER \in BOOLEAN, CTIMER, NEW TRIGGER, NEW ACK,
         NEW r, r = Analyser!combo(cmd, CTIMER, TRIGGER, ACK)
  PROVE  RanOut(r) /\ Saves(CTIMER)
<1> DEFINE on == cmd = "ENABLED" \/ (regs.enabled /\ cmd # "DISABLED")
           header == Analyser!Header(ProbeWords * regs.sampleCount)
<1>1. regs.capstate = "TRIGGERED" /\ regs.ttimer = 0 /\ ~Analyser!Collecting /\ ~Analyser!Dumping
  BY DEF Ends, Analyser!Triggered, Analyser!Collecting, Analyser!Dumping
<1>2. Analyser!combo(cmd, CTIMER, TRIGGER, ACK) = Analyser!Restart(Analyser!Command(Analyser!RunOut, cmd))
  BY <1>1 DEF Analyser!combo, Analyser!Triggered
<1>3. r = [[[regs EXCEPT !.memAddr = Analyser!nextPlace, !.captureChanged = flipped]
              EXCEPT !.ctimer = RunLenMax, !.remaining = 0, !.capstate = "DUMPING", !.dataOut = header,
                     !.ttimer = TriggerToDump]
             EXCEPT !.enabled = on]
  BY <1>1, <1>2 DEF Analyser!RunOut, Analyser!Saving, Analyser!Restart, Analyser!Command, RingTypes, Typed, RegNames
<1> HIDE DEF header
<1>4. QED
  <2>1. Saves(CTIMER)
    BY <1>1 DEF Ends, Saves, Analyser!memWrite
  <2>2. QED
    BY <1>1, <1>3, <2>1 DEF RingTypes, Typed, RegNames, Else, RanOut, header

(* ... and dumping.                                                        *)
Over(r) ==
  /\ Else(r, {"enabled", "capstate", "sampleCount", "ctimer"})
  /\ r.capstate = "COLLECTING" /\ r.sampleCount = 1 /\ r.ctimer = RunLenMax

LEMMA ComboDumps ==
  ASSUME RingTypes, Analyser!Dumping, NEW cmd, NEW CTIMER, NEW TRIGGER, NEW ACK \in BOOLEAN,
         NEW r, r = Analyser!combo(cmd, CTIMER, TRIGGER, ACK)
  PROVE  /\ r.enabled \in BOOLEAN /\ DOMAIN r = RegNames
         /\ ~ACK => Else(r, {"enabled"})
         /\ ACK /\ regs.remaining # 0 =>
              /\ Else(r, {"enabled", "remaining", "dataOut"}) /\ r.remaining = regs.remaining - 1
              /\ r.dataOut = [regs.dataOut EXCEPT !.n = @ + 1]
         /\ Takes(ACK) =>
              /\ Else(r, {"enabled", "remaining", "dataOut", "sampleCount", "memAddr"})
              /\ r.sampleCount = regs.sampleCount - 1 /\ r.remaining = ProbeWords - 1
              /\ r.dataOut = Analyser!Word(memdata, 1)
              /\ r.memAddr = (regs.memAddr + MemSize - 1) % MemSize
         /\ ACK /\ Drained => Over(r)
<1> DEFINE on == cmd = "ENABLED" \/ (regs.enabled /\ cmd # "DISABLED")
           word == Analyser!Word(memdata, 1)
           place == (regs.memAddr + MemSize - 1) % MemSize
<1>1. regs.capstate = "DUMPING" /\ ~Analyser!Collecting /\ ~Analyser!Triggered
  BY DEF Analyser!Triggered, Analyser!Collecting, Analyser!Dumping
<1>2. r = [(IF ACK THEN Analyser!Dump ELSE regs) EXCEPT !.enabled = on]
  <2> DEFINE kept == IF ACK THEN Analyser!Dump ELSE regs
  <2>1. DOMAIN kept = RegNames /\ kept.enabled = regs.enabled
    BY DEF Analyser!Dump, RingTypes, Typed, RegNames
  <2>2. r = Analyser!Restart(Analyser!Command(kept, cmd))
    BY <1>1, Zenon DEF Analyser!combo
  <2> HIDE DEF kept
  <2>3. \A g : Analyser!Restart(g) = g
    BY <1>1 DEF Analyser!Restart
  <2>4. \A g : DOMAIN g = RegNames /\ g.enabled = regs.enabled => Analyser!Command(g, cmd) = [g EXCEPT !.enabled = on]
    BY DEF Analyser!Command, RegNames
  <2>5. r = [kept EXCEPT !.enabled = on]
    BY <2>1, <2>2, <2>3, <2>4
  <2>6. QED
    BY <2>5 DEF kept
<1>4. ~ACK => Else(r, {"enabled"}) /\ DOMAIN r = RegNames
  BY <1>2 DEF Else, RingTypes, Typed, RegNames
<1>5. ASSUME ACK, regs.remaining # 0
      PROVE  /\ Else(r, {"enabled", "remaining", "dataOut"}) /\ r.remaining = regs.remaining - 1
             /\ r.dataOut = [regs.dataOut EXCEPT !.n = @ + 1] /\ DOMAIN r = RegNames
  <2>1. r = [Analyser!Dump EXCEPT !.enabled = on]
    BY <1>2, <1>5
  <2>2. Analyser!Dump = [regs EXCEPT !.dataOut.n = @ + 1, !.remaining = @ - 1]
    BY <1>5, Zenon DEF Analyser!Dump, Analyser!SampleDone
  <2>3. QED
    BY <2>1, <2>2 DEF Else, RingTypes, Typed, RegNames
<1>6. ASSUME Takes(ACK)
      PROVE  /\ Else(r, {"enabled", "remaining", "dataOut", "sampleCount", "memAddr"})
             /\ r.sampleCount = regs.sampleCount - 1 /\ r.remaining = ProbeWords - 1
             /\ r.dataOut = word /\ r.memAddr = place /\ DOMAIN r = RegNames
  <2>1. r = [[regs EXCEPT !.sampleCount = @ - 1, !.remaining = ProbeWords - 1, !.dataOut = word, !.memAddr = place]
               EXCEPT !.enabled = on]
    BY <1>2, <1>6 DEF Analyser!Dump, Analyser!SampleDone, Takes, Analyser!memRead
  <2> HIDE DEF word, place
  <2>2. QED
    BY <2>1 DEF Else, RingTypes, Typed, RegNames
<1>7. ASSUME ACK, Drained
      PROVE  Over(r) /\ DOMAIN r = RegNames
  <2>1. r = [[regs EXCEPT !.capstate = "COLLECTING", !.sampleCount = 1, !.ctimer = RunLenMax] EXCEPT !.enabled = on]
    BY <1>2, <1>7 DEF Analyser!Dump, Analyser!SampleDone, Drained
  <2>2. QED
    BY <2>1 DEF Over, Else, RingTypes, Typed, RegNames
<1>8. r.enabled \in BOOLEAN /\ DOMAIN r = RegNames
  BY <1>2 DEF Analyser!Dump, RingTypes, Typed, RegNames
<1>9. QED
  BY <1>4, <1>5, <1>6, <1>7, <1>8, Zenon

(* An edge, and what it does besides moving the block's registers to r.    *)
CaptureEdge(URST, cmd, CTIMER, TRIGGER, ACK, PROBEIN) ==
  /\ URST \in BOOLEAN /\ CTIMER \in BOOLEAN /\ TRIGGER \in BOOLEAN /\ ACK \in BOOLEAN
  /\ (CTIMER => Analyser!Active) /\ (ACK => Analyser!Dumping) /\ PROBEIN \in Values \cup {NoValue}
  /\ Analyser!UClk(URST, cmd, CTIMER, TRIGGER, ACK)
  /\ Analyser!Clk(PROBEIN)
  /\ Analyser!Record(CTIMER, ACK, PROBEIN)

(* What the edge finds in the phases.                                      *)
LEMMA Phases ==
  ASSUME RingTypes
  PROVE  /\ Analyser!Active \in BOOLEAN /\ Analyser!Dumping \in BOOLEAN
         /\ ~(Analyser!Active /\ Analyser!Dumping)
         /\ Analyser!Dumping => Begun = Len(samples) - regs.sampleCount
         /\ ~Analyser!Dumping => Begun = 0
         /\ \A CTIMER, ACK : ~Analyser!Active => ~Saves(CTIMER)
BY DEF Analyser!Active, Analyser!Dumping, Analyser!Collecting, Analyser!Triggered, RingTypes, Typed, Begun,
   Saves, Analyser!memWrite

(* The block's registers keep their types.                                 *)
LEMMA ComboTyped ==
  ASSUME RingTypes, NEW cmd, NEW CTIMER \in BOOLEAN, NEW TRIGGER \in BOOLEAN, NEW ACK \in BOOLEAN,
         CTIMER => Analyser!Active, NEW r, r = Analyser!combo(cmd, CTIMER, TRIGGER, ACK)
  PROVE  Typed(r)
<1>1. MemSize \in Nat /\ MemSize > 1 /\ RunLenMax \in Nat \ {0} /\ TriggerToDump \in Nat /\ ProbeWords \in Nat \ {0}
  BY CrossingsAssumption
<1>2. Typed(regs) /\ flipped \in BOOLEAN /\ CTIMER \in BOOLEAN /\ ACK \in BOOLEAN
  BY Phases DEF RingTypes
<1>3. Analyser!nextPlace \in Places /\ (regs.memAddr + MemSize - 1) % MemSize \in Places
  BY <1>2, PlacesOfRing DEF Analyser!nextPlace, Typed
<1>4. CASE ~Analyser!Active /\ ~Analyser!Dumping
  <2>1. Else(r, {"enabled", "sampleCount", "ctimer"}) /\ r.enabled \in BOOLEAN /\ r.sampleCount = 1 /\ r.ctimer = RunLenMax
    BY <1>4, ComboIdle
  <2>2. QED
    BY <1>1, <1>2, <2>1 DEF Else, Typed, RegNames
<1>5. CASE Analyser!Active /\ (CTIMER => ~Ends)
  <2>1. /\ Else(r, {"enabled", "capstate", "ttimer", "memAddr", "captureChanged", "ctimer", "sampleCount"})
        /\ r.enabled \in BOOLEAN /\ r.capstate \in {"COLLECTING", "TRIGGERED"} /\ r.ttimer \in Nat
        /\ Ticked(r, CTIMER)
    BY <1>2, <1>5, ComboCollects
  <2>2. Analyser!incrSampleCount \in Nat
    BY <1>1, <1>2 DEF Analyser!incrSampleCount, Typed
  <2>3. ~Analyser!saveNow => regs.ctimer + 1 \in 0 .. RunLenMax
    BY <1>1, <1>2 DEF Analyser!saveNow, Typed
  <2>4. r.memAddr \in Places /\ r.captureChanged \in BOOLEAN /\ r.ctimer \in 0 .. RunLenMax /\ r.sampleCount \in Nat
    <3>1. CASE CTIMER /\ Analyser!saveNow
      <4>1. /\ r.memAddr = Analyser!nextPlace /\ r.captureChanged = flipped
            /\ r.ctimer = 0 /\ r.sampleCount = Analyser!incrSampleCount
        BY <2>1, <3>1 DEF Ticked
      <4>2. QED
        BY <1>1, <1>2, <1>3, <2>2, <4>1
    <3>2. CASE CTIMER /\ ~Analyser!saveNow
      BY <1>2, <2>1, <2>3, <3>2 DEF Ticked, Else, Typed, RegNames
    <3>3. CASE ~CTIMER
      BY <1>2, <2>1, <3>3 DEF Ticked, Else, Typed, RegNames
    <3>4. QED
      BY <3>1, <3>2, <3>3
  <2>5. QED
    BY <1>2, <2>1, <2>4 DEF Else, Typed, RegNames
<1>6. CASE CTIMER /\ Ends
  <2>1. RanOut(r)
    BY <1>2, <1>6, ComboRunsOut
  <2>2. DOMAIN r.dataOut = {"sample", "n"}
    BY <2>1 DEF RanOut, Analyser!Header, Analyser!Word
  <2>3. QED
    BY <1>1, <1>2, <1>3, <2>1, <2>2 DEF RanOut, Else, Typed, RegNames
<1>7. CASE Analyser!Dumping
  <2>3. CASE ~ACK
    <3>1. Else(r, {"enabled"}) /\ r.enabled \in BOOLEAN
      BY <1>2, <1>7, <2>3, ComboDumps
    <3>2. QED
      BY <1>2, <3>1 DEF Else, Typed, RegNames
  <2>4. CASE ACK /\ regs.remaining # 0
    <3>1. /\ Else(r, {"enabled", "remaining", "dataOut"}) /\ r.remaining = regs.remaining - 1
          /\ r.dataOut = [regs.dataOut EXCEPT !.n = @ + 1] /\ r.enabled \in BOOLEAN
      BY <1>2, <1>7, <2>4, ComboDumps
    <3>2. DOMAIN r.dataOut = {"sample", "n"} /\ r.remaining \in Nat
      <4>1. DOMAIN r.dataOut = DOMAIN regs.dataOut
        BY <3>1
      <4>2. DOMAIN regs.dataOut = {"sample", "n"} /\ regs.remaining \in Nat
        BY <1>2 DEF Typed
      <4>3. QED
        <5>1. regs.remaining # 0 /\ r.remaining = regs.remaining - 1
          BY <2>4, <3>1
        <5>2. QED
          BY <4>1, <4>2, <5>1
    <3>3. QED
      BY <1>2, <3>1, <3>2 DEF Else, Typed, RegNames
  <2>5. CASE Takes(ACK)
    <3>1. /\ Else(r, {"enabled", "remaining", "dataOut", "sampleCount", "memAddr"})
          /\ r.sampleCount = regs.sampleCount - 1 /\ r.remaining = ProbeWords - 1
          /\ r.dataOut = Analyser!Word(memdata, 1)
          /\ r.memAddr = (regs.memAddr + MemSize - 1) % MemSize /\ r.enabled \in BOOLEAN
      BY <1>2, <1>7, <2>5, ComboDumps
    <3>2. DOMAIN r.dataOut = {"sample", "n"} /\ r.remaining \in Nat /\ r.sampleCount \in Nat /\ r.memAddr \in Places
      <4>1. regs.sampleCount # 0
        BY <2>5 DEF Takes, Analyser!memRead
      <4>2. DOMAIN r.dataOut = {"sample", "n"}
        BY <3>1 DEF Analyser!Word
      <4>3. QED
        BY <1>1, <1>2, <1>3, <3>1, <4>1, <4>2 DEF Typed
    <3>3. QED
      BY <1>2, <3>1, <3>2 DEF Else, Typed, RegNames
  <2>6. CASE ACK /\ Drained
    <3>1. Over(r) /\ r.enabled \in BOOLEAN
      BY <1>2, <1>7, <2>6, ComboDumps
    <3>2. QED
      BY <1>1, <1>2, <3>1 DEF Over, Else, Typed, RegNames
  <2>7. QED
    BY <1>7, <2>3, <2>4, <2>5, <2>6 DEF Drained, Takes, Analyser!memRead, Analyser!SampleDone
<1>8. QED
  BY <1>4, <1>5, <1>6, <1>7 DEF Analyser!Active

(* The rest keeps its types, but for the samples.                          *)
LEMMA RecordTyped ==
  ASSUME RingTypes, NEW URST, NEW cmd, NEW CTIMER, NEW TRIGGER, NEW ACK, NEW PROBEIN,
         CaptureEdge(URST, cmd, CTIMER, TRIGGER, ACK, PROBEIN)
  PROVE  /\ Typed(regs') /\ probed' \in Values /\ flipped' \in BOOLEAN /\ DOMAIN ring' = Places
         /\ changes' \in 0 .. 2 /\ blurred' \in BOOLEAN /\ dumped' \in Nat /\ since' \in Nat
         /\ Analyser!Changes(PROBEIN) \in BOOLEAN
<1>1. probed' \in Values /\ flipped' \in BOOLEAN /\ Analyser!Changes(PROBEIN) \in BOOLEAN
  BY DEF CaptureEdge, Analyser!Clk, Analyser!Changes, RingTypes
<1>2. DOMAIN ring' = Places
  BY DEF CaptureEdge, Analyser!UClk, RingTypes
<1>3. changes' \in 0 .. 2
  BY <1>1 DEF CaptureEdge, Analyser!Record, RingTypes
<1>4. dumped' \in Nat
  BY DEF CaptureEdge, Analyser!Record, RingTypes
<1>5. since' \in Nat
  BY DEF CaptureEdge, Analyser!Record, RingTypes
<1>6. blurred' \in BOOLEAN
  BY DEF CaptureEdge, Analyser!Record
<1>7. PICK r : r = Analyser!combo(cmd, CTIMER, TRIGGER, ACK)
  OBVIOUS
<1>8. Typed(r)
  BY <1>7, ComboTyped DEF CaptureEdge
<1>9. regs' = IF URST THEN Analyser!ResetRegs(r) ELSE r
  BY <1>7 DEF CaptureEdge, Analyser!UClk
<1>10. Typed(Analyser!ResetRegs(r))
  BY <1>8, CrossingsAssumption DEF Typed, RegNames, Analyser!ResetRegs, Places
<1>11. QED
  BY <1>1, <1>2, <1>3, <1>4, <1>5, <1>6, <1>8, <1>9, <1>10

(* No sample is left of a collection that is over.                         *)
LEMMA RingRests ==
  ASSUME RingInv, NEW URST, NEW cmd, NEW CTIMER, NEW TRIGGER, NEW ACK, NEW PROBEIN,
         CaptureEdge(URST, cmd, CTIMER, TRIGGER, ACK, PROBEIN), ~Analyser!Active', ~Analyser!Dumping'
  PROVE  RingInv'
<1>1. samples' = <<>> /\ dumped' = 0
  BY DEF CaptureEdge, Analyser!Record
<1>2. RingTypes'
  BY <1>1, RecordTyped, CrossingsAssumption DEF RingInv, RingTypes
<1>3. InRing'
  BY <1>1 DEF InRing
<1>4. QED
  BY <1>1, <1>2, <1>3 DEF RingInv, Collects, Dumps, Rests

(* A collection begins with none.                                          *)
LEMMA RingStarts ==
  ASSUME RingInv, NEW URST, NEW cmd, NEW CTIMER, NEW TRIGGER, NEW ACK, NEW PROBEIN,
         CaptureEdge(URST, cmd, CTIMER, TRIGGER, ACK, PROBEIN), ~Analyser!Active, Analyser!Active'
  PROVE  RingInv'
<1>1. MemSize \in Nat /\ MemSize > 1 /\ RingTypes
  BY CrossingsAssumption DEF RingInv
<1>2. Typed(regs')
  BY <1>1, RecordTyped
<1>3. ~Analyser!Dumping'
  BY DEF Analyser!Active, Analyser!Collecting, Analyser!Triggered, Analyser!Dumping
<1>4. ~Saves(CTIMER) /\ CTIMER = FALSE
  BY <1>1, Phases DEF CaptureEdge
<1>5. samples' = <<>> /\ dumped' = 0
  BY <1>3, <1>4 DEF CaptureEdge, Analyser!Record, RingInv, Rests, Saves
<1>6. RingTypes'
  BY <1>1, <1>5, RecordTyped DEF RingTypes
<1>7. PICK r : r = Analyser!combo(cmd, CTIMER, TRIGGER, ACK)
  OBVIOUS
<1>8. regs' = r
  BY <1>7 DEF CaptureEdge, Analyser!UClk, Analyser!ResetRegs, Analyser!Active, Analyser!Collecting, Analyser!Triggered
<1>9. r.sampleCount = 1 /\ r.ctimer = RunLenMax
  <2>1. CASE ~Analyser!Dumping
    BY <1>1, <1>7, <2>1, ComboIdle
  <2>2. CASE Analyser!Dumping
    <3>1. ACK \in BOOLEAN
      BY <1>1, Phases DEF CaptureEdge
    <3>2. r.capstate # "DUMPING" /\ regs.capstate = "DUMPING"
      BY <1>3, <1>8, <2>2 DEF Analyser!Dumping
    <3>3. ACK /\ Drained
      <4>1. CASE ~ACK
        <5>1. Else(r, {"enabled"})
          BY <1>1, <1>7, <2>2, <3>1, <4>1, ComboDumps
        <5>2. QED
          BY <3>2, <5>1 DEF Else, RegNames
      <4>2. CASE ACK /\ regs.remaining # 0
        <5>1. Else(r, {"enabled", "remaining", "dataOut"})
          BY <1>1, <1>7, <2>2, <3>1, <4>2, ComboDumps
        <5>2. QED
          BY <3>2, <5>1 DEF Else, RegNames
      <4>3. CASE Takes(ACK)
        <5>1. Else(r, {"enabled", "remaining", "dataOut", "sampleCount", "memAddr"})
          BY <1>1, <1>7, <2>2, <3>1, <4>3, ComboDumps
        <5>2. QED
          BY <3>2, <5>1 DEF Else, RegNames
      <4>4. QED
        BY <2>2, <3>1, <4>1, <4>2, <4>3 DEF Drained, Takes, Analyser!memRead, Analyser!SampleDone
    <3>4. Over(r)
      BY <1>1, <1>7, <2>2, <3>1, <3>3, ComboDumps
    <3>5. QED
      BY <3>4 DEF Over
  <2>3. QED
    BY <2>1, <2>2
<1>10. InRing' /\ Rests' /\ Dumps'
  BY <1>3, <1>5 DEF InRing, Rests, Dumps
<1>11. Collects'
  BY <1>1, <1>5, <1>8, <1>9 DEF Collects, OneMore
<1>12. QED
  BY <1>6, <1>10, <1>11 DEF RingInv

(* A step within the collection: what moves besides the registers.         *)
LEMMA CollectingStep ==
  ASSUME RingInv, NEW URST, NEW cmd, NEW CTIMER, NEW TRIGGER, NEW ACK, NEW PROBEIN,
         CaptureEdge(URST, cmd, CTIMER, TRIGGER, ACK, PROBEIN), Analyser!Active, Analyser!Active'
  PROVE  /\ CTIMER \in BOOLEAN /\ Analyser!Changes(PROBEIN) \in BOOLEAN
         /\ ~Analyser!Dumping /\ ~Analyser!Dumping' /\ Begun = 0 /\ Begun' = 0 /\ Len(samples) \in Nat
         /\ Else(regs', {"enabled", "capstate", "ttimer", "memAddr", "captureChanged", "ctimer", "sampleCount"})
         /\ Ticked(regs', CTIMER) /\ (Saves(CTIMER) <=> CTIMER /\ Analyser!saveNow)
         /\ ring' = IF Saves(CTIMER) THEN [ring EXCEPT ![regs'.memAddr] = Analyser!memin] ELSE ring
         /\ samples' = IF Saves(CTIMER) THEN Analyser!Keep(<<Analyser!Sample>> \o samples) ELSE samples
         /\ since' = IF Saves(CTIMER) THEN 0 ELSE IF CTIMER /\ samples # <<>> THEN since + 1 ELSE since
         /\ lastTick' = IF CTIMER THEN probed ELSE lastTick
         /\ dumped' = 0
<1>1. RingTypes /\ CTIMER \in BOOLEAN /\ TRIGGER \in BOOLEAN /\ ACK \in BOOLEAN
  BY DEF CaptureEdge, RingInv
<1>2. ~Analyser!Dumping /\ ~Analyser!Dumping'
  BY DEF Analyser!Active, Analyser!Collecting, Analyser!Triggered, Analyser!Dumping
<1>3. Begun = 0 /\ Begun' = 0
  BY <1>2 DEF Begun
<1>4. PICK r : r = Analyser!combo(cmd, CTIMER, TRIGGER, ACK)
  OBVIOUS
<1>5. regs' = r
  BY <1>4 DEF CaptureEdge, Analyser!UClk, Analyser!ResetRegs, Analyser!Active, Analyser!Collecting, Analyser!Triggered
<1>6. CTIMER => ~Ends
  <2>1. SUFFICES ASSUME CTIMER, Ends PROVE FALSE
    OBVIOUS
  <2>2. RanOut(r)
    BY <1>1, <1>4, <2>1, ComboRunsOut
  <2>3. QED
    BY <1>2, <1>5, <2>2 DEF RanOut, Analyser!Dumping
<1>7. /\ Else(r, {"enabled", "capstate", "ttimer", "memAddr", "captureChanged", "ctimer", "sampleCount"})
      /\ Ticked(r, CTIMER) /\ (Saves(CTIMER) <=> CTIMER /\ Analyser!saveNow)
  BY <1>1, <1>4, <1>6, ComboCollects
<1>8. ring' = IF Saves(CTIMER) THEN [ring EXCEPT ![r.memAddr] = Analyser!memin] ELSE ring
  BY <1>4 DEF CaptureEdge, Analyser!UClk, Saves
<1>9. samples' = IF Saves(CTIMER) THEN Analyser!Keep(<<Analyser!Sample>> \o samples) ELSE samples
  BY <1>2 DEF CaptureEdge, Analyser!Record, Saves
<1>10. since' = IF Saves(CTIMER) THEN 0 ELSE IF CTIMER /\ samples # <<>> THEN since + 1 ELSE since
  BY <1>2 DEF CaptureEdge, Analyser!Record, Saves
<1>11. lastTick' = (IF CTIMER THEN probed ELSE lastTick) /\ dumped' = 0
  BY <1>2 DEF CaptureEdge, Analyser!Record
<1>12. Analyser!Changes(PROBEIN) \in BOOLEAN /\ Len(samples) \in Nat
  BY <1>1 DEF Analyser!Changes, RingTypes
<1>13. QED
  BY <1>1, <1>2, <1>3, <1>5, <1>7, <1>8, <1>9, <1>10, <1>11, <1>12

(* ... and what is noted of the changes.                                   *)
Noted(CTIMER, more) ==
  /\ more \in BOOLEAN
  /\ more => (flipped' <=> ~flipped)
  /\ ~more => probed' = probed /\ flipped' = flipped
  /\ CTIMER => changes' = IF more THEN 1 ELSE 0
  /\ ~CTIMER /\ changes' = 0 => changes = 0 /\ ~more
  /\ ~CTIMER /\ changes' = 1 => (changes = 1 /\ ~more) \/ (changes = 0 /\ more)
  /\ Saves(CTIMER) => ~blurred'
  /\ ~Saves(CTIMER) => (blurred' <=> blurred \/ (CTIMER /\ changes = 2))

(* The toggle and the count of changes agree so far as the block relies on. *)
LEMMA ChangesNoted ==
  ASSUME RingInv, NEW URST, NEW cmd, NEW CTIMER, NEW TRIGGER, NEW ACK, NEW PROBEIN,
         CaptureEdge(URST, cmd, CTIMER, TRIGGER, ACK, PROBEIN), Analyser!Active, Analyser!Active'
  PROVE  Noted(CTIMER, Analyser!Changes(PROBEIN))
<1>1. RingTypes /\ Analyser!Changes(PROBEIN) \in BOOLEAN /\ CTIMER \in BOOLEAN
  BY DEF CaptureEdge, RingInv, Analyser!Changes
<1>2. /\ Analyser!Changes(PROBEIN) => (flipped' <=> ~flipped)
      /\ ~Analyser!Changes(PROBEIN) => probed' = probed /\ flipped' = flipped
  BY <1>1 DEF CaptureEdge, Analyser!Clk, RingTypes
<1>3. changes' = IF CTIMER THEN IF Analyser!Changes(PROBEIN) THEN 1 ELSE 0
                 ELSE IF changes + (IF Analyser!Changes(PROBEIN) THEN 1 ELSE 0) > 2 THEN 2
                 ELSE changes + (IF Analyser!Changes(PROBEIN) THEN 1 ELSE 0)
  BY DEF CaptureEdge, Analyser!Record
<1>4. changes \in 0 .. 2
  BY <1>1 DEF RingTypes
<1>5. /\ CTIMER => changes' = IF Analyser!Changes(PROBEIN) THEN 1 ELSE 0
      /\ ~CTIMER /\ changes' = 0 => changes = 0 /\ ~Analyser!Changes(PROBEIN)
      /\ ~CTIMER /\ changes' = 1 => \/ changes = 1 /\ ~Analyser!Changes(PROBEIN)
                                    \/ changes = 0 /\ Analyser!Changes(PROBEIN)
  <2>1. CASE Analyser!Changes(PROBEIN)
    BY <1>3, <1>4, <2>1
  <2>2. CASE ~Analyser!Changes(PROBEIN)
    BY <1>3, <1>4, <2>2
  <2>3. QED
    BY <1>1, <2>1, <2>2
<1>6. blurred' <=> Analyser!Active' /\ ~Saves(CTIMER) /\ (blurred \/ (CTIMER /\ Analyser!Active /\ changes = 2))
  BY <1>1, Zenon DEF CaptureEdge, Analyser!Record, Saves
<1>7. QED
  BY <1>1, <1>2, <1>5, <1>6 DEF Noted

(* A sample that is saved comes before the others, in the ring too.        *)
LEMMA SampleStored ==
  ASSUME RingInv, Analyser!Active, regs'.memAddr = Analyser!nextPlace,
         ring' = [ring EXCEPT ![regs'.memAddr] = Analyser!memin],
         samples' = Analyser!Keep(<<Analyser!Sample>> \o samples)
  PROVE  /\ samples' \in Seq(Samples) /\ Len(samples') = OneMore(Len(samples)) /\ Len(samples') \in 1 .. MemSize - 1
         /\ samples'[1] = Analyser!memin
         /\ \A k \in 1 .. Len(samples') : samples'[k] = ring'[Back(regs'.memAddr, k - 1)]
<1> DEFINE newest == Analyser!Sample
           old    == regs.memAddr
           new    == (old + 1) % MemSize
<1>1. MemSize \in Nat /\ MemSize > 1 /\ RunLenMax \in Nat \ {0} /\ RingTypes /\ old \in Places
  BY CrossingsAssumption DEF RingInv, RingTypes, Typed
<1>2. ~Analyser!Dumping /\ Begun = 0
  BY DEF Analyser!Active, Analyser!Collecting, Analyser!Triggered, Analyser!Dumping, Begun
<1>3. regs'.memAddr = new /\ ring' = [ring EXCEPT ![new] = Analyser!memin]
  BY DEF Analyser!nextPlace
<1>4. regs.ctimer = IF samples = <<>> THEN RunLenMax ELSE since
  BY DEF RingInv, Collects
<1>5. newest = Analyser!memin /\ newest \in Samples
  BY <1>1, <1>4 DEF Analyser!Sample, Analyser!memin, Samples, RingTypes
<1>6. samples \in Seq(Samples) /\ Len(samples) < MemSize /\ Len(samples) \in Nat
  BY <1>1 DEF RingTypes
<1>7. samples' = Analyser!Keep(<<newest>> \o samples)
  OBVIOUS
<1> HIDE DEF newest
<1>8. /\ samples' \in Seq(Samples) /\ Len(samples') = OneMore(Len(samples)) /\ Len(samples') < MemSize
      /\ samples'[1] = newest /\ \A k \in 2 .. Len(samples') : samples'[k] = samples[k - 1]
  <2> DEFINE kept == Analyser!Keep(<<newest>> \o samples)
  <2>1. /\ kept \in Seq(Samples) /\ Len(kept) = OneMore(Len(samples)) /\ Len(kept) < MemSize
        /\ kept[1] = newest /\ \A k \in 2 .. Len(kept) : kept[k] = samples[k - 1]
    BY <1>5, <1>6, SampleKept, Zenon
  <2>2. samples' = kept
    BY <1>7
  <2> HIDE DEF kept
  <2>3. QED
    BY <2>1, <2>2, Zenon
<1>9. Len(samples') \in 1 .. MemSize - 1 /\ Len(samples') <= Len(samples) + 1
  BY <1>1, <1>6, <1>8 DEF OneMore
<1>10. /\ new \in Places /\ Back(new, 0) = new
       /\ \A k \in 0 .. MemSize - 2 : /\ Back(new, k + 1) = Back(old, k) /\ Back(old, k) # new
                                      /\ Back(old, k) \in Places
  <2>1. new \in Places
    BY <1>1, PlacesOfRing
  <2>2. Back(new, 0) = new
    BY <2>1, PlacesOfRing
  <2>3. \A k \in 0 .. MemSize - 2 : k \in Places
    BY <1>1 DEF Places
  <2>4. QED
    BY <1>1, <2>1, <2>2, <2>3, PlacesOfRing
<1>11. ring'[new] = newest /\ \A q \in Places : q # new => ring'[q] = ring[q]
  BY <1>1, <1>3, <1>5, <1>10 DEF RingTypes
<1> HIDE DEF new, old
<1>12. \A k \in 1 .. Len(samples') : samples'[k] = ring'[Back(new, k - 1)]
  <2>1. TAKE k \in 1 .. Len(samples')
  <2>2. CASE k = 1
    BY <1>8, <1>10, <1>11, <2>2
  <2>3. CASE k # 1
    <3>1. k - 2 \in 0 .. MemSize - 2 /\ k - 1 \in 1 .. Len(samples) /\ (k - 2) + 1 = k - 1
          /\ (k - 1) - 1 = k - 2 /\ k \in 2 .. Len(samples')
      BY <1>1, <1>6, <1>9, <2>1, <2>3
    <3>2. samples[k - 1] = ring[Back(old, k - 2)]
      <4>1. \A j \in 1 .. Len(samples) : samples[j] = ring[Back(old, j - 1)]
        BY <1>2 DEF RingInv, InRing, old
      <4>2. QED
        BY <3>1, <4>1
    <3>3. Back(new, k - 1) = Back(old, k - 2) /\ Back(old, k - 2) # new /\ Back(old, k - 2) \in Places
      BY <1>10, <3>1
    <3>4. QED
      BY <1>8, <1>11, <3>1, <3>2, <3>3
  <2>4. QED
    BY <2>2, <2>3
<1>13. QED
  BY <1>3, <1>5, <1>8, <1>9, <1>12

(* A tick within the collection that saves one.                            *)
LEMMA RingSaves ==
  ASSUME RingInv, NEW URST, NEW cmd, NEW CTIMER, NEW TRIGGER, NEW ACK, NEW PROBEIN,
         CaptureEdge(URST, cmd, CTIMER, TRIGGER, ACK, PROBEIN), Analyser!Active, Analyser!Active',
         Saves(CTIMER)
  PROVE  samples' \in Seq(Samples) /\ Len(samples') < MemSize /\ InRing' /\ Collects'
<1>1. MemSize \in Nat /\ MemSize > 1 /\ RingTypes
  BY CrossingsAssumption DEF RingInv
<1>2. /\ CTIMER /\ Analyser!saveNow /\ ~Analyser!Dumping' /\ Begun' = 0 /\ Len(samples) \in Nat
      /\ Ticked(regs', CTIMER)
      /\ ring' = [ring EXCEPT ![regs'.memAddr] = Analyser!memin]
      /\ samples' = Analyser!Keep(<<Analyser!Sample>> \o samples)
      /\ since' = 0 /\ lastTick' = probed
  BY CollectingStep, Zenon
<1>3. /\ regs'.memAddr = Analyser!nextPlace /\ regs'.captureChanged = flipped
      /\ regs'.ctimer = 0 /\ regs'.sampleCount = Analyser!incrSampleCount
  BY <1>2 DEF Ticked
<1>4. /\ samples' \in Seq(Samples) /\ Len(samples') = OneMore(Len(samples)) /\ Len(samples') \in 1 .. MemSize - 1
      /\ samples'[1] = Analyser!memin
      /\ \A k \in 1 .. Len(samples') : samples'[k] = ring'[Back(regs'.memAddr, k - 1)]
  BY <1>2, <1>3, SampleStored
<1>5. Len(samples') < MemSize /\ samples' # <<>>
  BY <1>1, <1>4
<1>6. InRing'
  <2>1. \A k \in 1 .. Len(samples') : k - 1 - 0 = k - 1
    OBVIOUS
  <2>2. QED
    BY <1>2, <1>4, <2>1 DEF InRing
<1>7. Collects'
  <2>1. PICK more \in BOOLEAN : Noted(CTIMER, more)
    BY ChangesNoted DEF Noted
  <2>2. Analyser!incrSampleCount = OneMore(Len(samples'))
    <3>1. regs.sampleCount = OneMore(Len(samples))
      BY DEF RingInv, Collects
    <3>2. QED
      BY <1>1, <1>2, <1>4, <3>1 DEF Analyser!incrSampleCount, OneMore
  <2>3. changes' = 0 => probed' = lastTick' /\ flipped' = regs'.captureChanged
    BY <1>2, <1>3, <2>1 DEF Noted
  <2>4. changes' = 1 => flipped' # regs'.captureChanged
    BY <1>1, <1>2, <1>3, <2>1 DEF RingTypes, Noted
  <2>5. samples'[1].value = lastTick'
    BY <1>2, <1>4 DEF Analyser!memin
  <2>6. QED
    BY <1>2, <1>3, <1>5, <2>2, <2>3, <2>4, <2>5 DEF Collects
<1>8. QED
  BY <1>4, <1>5, <1>6, <1>7

(* One that saves none.                                                    *)
LEMMA RingWaits ==
  ASSUME RingInv, NEW URST, NEW cmd, NEW CTIMER, NEW TRIGGER, NEW ACK, NEW PROBEIN,
         CaptureEdge(URST, cmd, CTIMER, TRIGGER, ACK, PROBEIN), Analyser!Active, Analyser!Active',
         ~Saves(CTIMER)
  PROVE  samples' = samples /\ InRing' /\ Collects'
<1>1. RunLenMax \in Nat \ {0} /\ RingTypes
  BY CrossingsAssumption DEF RingInv
<1>2. /\ CTIMER \in BOOLEAN /\ ~Analyser!Dumping /\ ~Analyser!Dumping' /\ Begun = 0 /\ Begun' = 0
      /\ Else(regs', {"enabled", "capstate", "ttimer", "memAddr", "captureChanged", "ctimer", "sampleCount"})
      /\ Ticked(regs', CTIMER) /\ (CTIMER => ~Analyser!saveNow)
      /\ ring' = ring /\ samples' = samples
      /\ since' = (IF CTIMER /\ samples # <<>> THEN since + 1 ELSE since)
      /\ lastTick' = IF CTIMER THEN probed ELSE lastTick
  BY CollectingStep, Zenon
<1>3. regs.sampleCount = OneMore(Len(samples)) /\ regs.ctimer = IF samples = <<>> THEN RunLenMax ELSE since
  BY DEF RingInv, Collects
<1>4. CTIMER => /\ samples # <<>> /\ regs'.ctimer = regs.ctimer + 1 /\ flipped = regs.captureChanged
                /\ regs'.memAddr = regs.memAddr /\ regs'.captureChanged = regs.captureChanged
                /\ regs'.sampleCount = regs.sampleCount
  BY <1>2, <1>3 DEF Ticked, Else, RegNames, Analyser!saveNow
<1>5. ~CTIMER => /\ regs'.ctimer = regs.ctimer
                 /\ regs'.memAddr = regs.memAddr /\ regs'.captureChanged = regs.captureChanged
                 /\ regs'.sampleCount = regs.sampleCount
  BY <1>2 DEF Ticked, Else, RegNames
<1>6. InRing'
  BY <1>2, <1>4, <1>5 DEF InRing, RingInv
<1>7. /\ regs'.sampleCount = OneMore(Len(samples'))
      /\ regs'.ctimer = IF samples' = <<>> THEN RunLenMax ELSE since'
  BY <1>2, <1>3, <1>4, <1>5
<1>8. ASSUME samples' # <<>>
      PROVE  /\ changes' = 0 => probed' = lastTick' /\ flipped' = regs'.captureChanged
             /\ changes' = 1 => flipped' # regs'.captureChanged
             /\ ~blurred' => samples'[1].value = lastTick'
  <2>0. PICK more \in BOOLEAN : Noted(CTIMER, more)
    BY ChangesNoted DEF Noted
  <2>1. /\ changes = 0 => probed = lastTick /\ flipped = regs.captureChanged
        /\ changes = 1 => flipped # regs.captureChanged
        /\ ~blurred => samples[1].value = lastTick
    BY <1>2, <1>8 DEF RingInv, Collects
  <2>2. flipped \in BOOLEAN /\ regs.captureChanged \in BOOLEAN /\ changes \in 0 .. 2 /\ blurred \in BOOLEAN
    BY <1>1 DEF RingTypes, Typed
  <2>3. CASE CTIMER
    <3>1. changes' = 0 => probed' = probed /\ flipped' = flipped
      BY <2>0, <2>3 DEF Noted
    <3>2. changes' = 1 => (flipped' <=> ~flipped)
      BY <2>0, <2>3 DEF Noted
    <3>3. ~blurred' => ~blurred /\ changes # 2
      BY <2>0, <2>3 DEF Noted
    <3>4. ~blurred' => changes = 0
      BY <1>4, <2>1, <2>2, <2>3, <3>3
    <3>5. QED
      BY <1>2, <1>4, <2>1, <2>2, <2>3, <3>1, <3>2, <3>3, <3>4
  <2>4. CASE ~CTIMER
    <3>1. changes' = 0 => changes = 0 /\ probed' = probed /\ flipped' = flipped
      BY <2>0, <2>4 DEF Noted
    <3>2. changes' = 1 => \/ changes = 1 /\ flipped' = flipped
                          \/ changes = 0 /\ (flipped' <=> ~flipped)
      BY <2>0, <2>4 DEF Noted
    <3>3. ~blurred' => ~blurred
      BY <2>0, <2>4 DEF Noted
    <3>4. QED
      BY <1>2, <1>5, <2>1, <2>2, <2>4, <3>1, <3>2, <3>3
  <2>5. QED
    BY <1>2, <2>3, <2>4
<1>9. Collects'
  BY <1>7, <1>8 DEF Collects
<1>10. QED
  BY <1>2, <1>6, <1>9

(* A step within the collection, with a sample saved or not.               *)
LEMMA RingCollects ==
  ASSUME RingInv, NEW URST, NEW cmd, NEW CTIMER, NEW TRIGGER, NEW ACK, NEW PROBEIN,
         CaptureEdge(URST, cmd, CTIMER, TRIGGER, ACK, PROBEIN), Analyser!Active, Analyser!Active'
  PROVE  RingInv'
<1>1. RingTypes
  BY DEF RingInv
<1>2. samples' \in Seq(Samples) /\ Len(samples') < MemSize /\ InRing' /\ Collects'
  <2>1. CASE Saves(CTIMER)
    BY <2>1, RingSaves
  <2>2. CASE ~Saves(CTIMER)
    BY <1>1, <2>2, RingWaits DEF RingTypes
  <2>3. QED
    BY <2>1, <2>2
<1>3. ~Analyser!Dumping' /\ dumped' = 0
  BY CollectingStep, Zenon
<1>4. RingTypes'
  BY <1>1, <1>2, RecordTyped DEF RingTypes
<1>5. QED
  BY <1>2, <1>3, <1>4 DEF RingInv, Dumps, Rests

(* The last tick after the trigger: the header is on offer.                *)
LEMMA RingRunsOut ==
  ASSUME RingInv, NEW URST, NEW cmd, NEW CTIMER, NEW TRIGGER, NEW ACK, NEW PROBEIN,
         CaptureEdge(URST, cmd, CTIMER, TRIGGER, ACK, PROBEIN), Analyser!Active, Analyser!Dumping'
  PROVE  RingInv'
<1>1. /\ RingTypes /\ CTIMER \in BOOLEAN /\ TRIGGER \in BOOLEAN /\ ACK \in BOOLEAN
      /\ MemSize \in Nat /\ MemSize > 1 /\ ProbeWords \in Nat \ {0}
  BY CrossingsAssumption DEF CaptureEdge, RingInv
<1>2. ~Analyser!Dumping /\ ~Analyser!Active'
  BY DEF Analyser!Active, Analyser!Collecting, Analyser!Triggered, Analyser!Dumping
<1>3. PICK r : r = Analyser!combo(cmd, CTIMER, TRIGGER, ACK)
  OBVIOUS
<1>4. ~URST
  BY <1>1, <1>2 DEF CaptureEdge, Analyser!UClk, Analyser!ResetRegs, Analyser!Dumping
<1>5. regs' = r
  BY <1>3, <1>4 DEF CaptureEdge, Analyser!UClk
<1>6. CTIMER /\ Ends
  <2>1. SUFFICES ASSUME CTIMER => ~Ends PROVE FALSE
    BY <1>1
  <2>2. r.capstate \in {"COLLECTING", "TRIGGERED"}
    BY <1>1, <1>3, <2>1, ComboCollects
  <2>3. QED
    BY <1>5, <2>2 DEF Analyser!Dumping
<1>7. RanOut(r) /\ Saves(CTIMER)
  BY <1>1, <1>3, <1>6, ComboRunsOut
<1>8. regs'.memAddr = Analyser!nextPlace /\ ring' = [ring EXCEPT ![regs'.memAddr] = Analyser!memin]
  BY <1>3, <1>5, <1>7 DEF CaptureEdge, Analyser!UClk, Saves, RanOut
<1>9. memdata' = Analyser!memin
  BY <1>7 DEF CaptureEdge, Analyser!UClk, Saves
<1>10. samples' = Analyser!Keep(<<Analyser!Sample>> \o samples)
  BY <1>2, <1>7 DEF CaptureEdge, Analyser!Record, Saves
<1>11. dumped' = 0
  BY <1>2 DEF CaptureEdge, Analyser!Record, RingInv, Rests
<1>12. /\ samples' \in Seq(Samples) /\ Len(samples') = OneMore(Len(samples)) /\ Len(samples') \in 1 .. MemSize - 1
       /\ samples'[1] = Analyser!memin
       /\ \A k \in 1 .. Len(samples') : samples'[k] = ring'[Back(regs'.memAddr, k - 1)]
  BY <1>8, <1>10, SampleStored
<1>13. /\ regs'.sampleCount = Len(samples') /\ regs'.remaining = 0
       /\ regs'.dataOut = Analyser!Header(ProbeWords * Len(samples'))
  BY <1>5, <1>7, <1>12 DEF RanOut, Else, RegNames, RingInv, Collects
<1>14. Begun' = 0
  BY <1>12, <1>13 DEF Begun
<1>15. RingTypes'
  BY <1>1, <1>12, RecordTyped DEF RingTypes
<1>16. InRing'
  <2>1. \A k \in 1 .. Len(samples') : k - 1 - 0 = k - 1
    OBVIOUS
  <2>2. QED
    BY <1>9, <1>12, <1>14, <2>1 DEF InRing
<1>17. Dumps'
  BY <1>1, <1>11, <1>12, <1>13, <1>14 DEF Dumps
<1>18. QED
  BY <1>2, <1>15, <1>16, <1>17 DEF RingInv, Collects, Rests

(* Within the dump, a word at a time, and a sample from the ring when the  *)
(* words of the one before have been sent.                                 *)
DumpMoves(ACK) ==
  /\ ACK \in BOOLEAN /\ ring' = ring /\ samples' = samples /\ dumped' = IF ACK THEN dumped + 1 ELSE dumped
  /\ ~ACK => Else(regs', {"enabled"}) /\ memdata' = memdata
  /\ ACK => regs.remaining # 0 \/ Takes(ACK)
  /\ ACK /\ regs.remaining # 0 =>
       /\ Else(regs', {"enabled", "remaining", "dataOut"}) /\ regs'.remaining = regs.remaining - 1
       /\ regs'.dataOut = [regs.dataOut EXCEPT !.n = @ + 1] /\ memdata' = memdata
  /\ Takes(ACK) =>
       /\ Else(regs', {"enabled", "remaining", "dataOut", "sampleCount", "memAddr"})
       /\ regs'.sampleCount = regs.sampleCount - 1 /\ regs'.remaining = ProbeWords - 1
       /\ regs'.dataOut = Analyser!Word(memdata, 1)
       /\ regs'.memAddr = Back(regs.memAddr, 1) /\ memdata' = ring[regs'.memAddr]

(* A step within the dump is one of these. *)
LEMMA DumpStep ==
  ASSUME RingInv, NEW URST, NEW cmd, NEW CTIMER, NEW TRIGGER, NEW ACK, NEW PROBEIN,
         CaptureEdge(URST, cmd, CTIMER, TRIGGER, ACK, PROBEIN), Analyser!Dumping, Analyser!Dumping'
  PROVE  DumpMoves(ACK)
<1>1. /\ RingTypes /\ ACK \in BOOLEAN /\ TRIGGER \in BOOLEAN /\ ~Analyser!Active
      /\ regs.memAddr \in Places
  BY Phases DEF CaptureEdge, RingInv, RingTypes, Typed
<1>2. ~CTIMER /\ ~Saves(CTIMER)
  BY <1>1, Phases DEF CaptureEdge
<1>3. PICK r : r = Analyser!combo(cmd, CTIMER, TRIGGER, ACK)
  OBVIOUS
<1>4. ~URST
  BY DEF CaptureEdge, Analyser!UClk, Analyser!ResetRegs, Analyser!Dumping
<1>5. regs' = r
  BY <1>3, <1>4 DEF CaptureEdge, Analyser!UClk
<1>6. ring' = ring /\ memdata' = IF Takes(ACK) THEN ring[r.memAddr] ELSE memdata
  BY <1>2, <1>3 DEF CaptureEdge, Analyser!UClk, Saves, Takes
<1>7. samples' = samples /\ dumped' = IF ACK THEN dumped + 1 ELSE dumped
  BY <1>2 DEF CaptureEdge, Analyser!Record, Saves
<1>8. ACK => regs.remaining # 0 \/ Takes(ACK)
  <2>1. SUFFICES ASSUME ACK, regs.remaining = 0, ~Takes(ACK) PROVE FALSE
    OBVIOUS
  <2>2. Drained
    BY <2>1 DEF Drained, Takes, Analyser!memRead, Analyser!SampleDone
  <2>3. Over(r)
    BY <1>1, <1>3, <2>1, <2>2, ComboDumps
  <2>4. QED
    BY <1>5, <2>3 DEF Over, Analyser!Dumping
<1>9. ~ACK => Else(r, {"enabled"})
  BY <1>1, <1>3, ComboDumps
<1>10. ACK /\ regs.remaining # 0 =>
         /\ Else(r, {"enabled", "remaining", "dataOut"}) /\ r.remaining = regs.remaining - 1
         /\ r.dataOut = [regs.dataOut EXCEPT !.n = @ + 1]
  BY <1>1, <1>3, ComboDumps
<1>11. Takes(ACK) =>
         /\ Else(r, {"enabled", "remaining", "dataOut", "sampleCount", "memAddr"})
         /\ r.sampleCount = regs.sampleCount - 1 /\ r.remaining = ProbeWords - 1
         /\ r.dataOut = Analyser!Word(memdata, 1)
         /\ r.memAddr = Back(regs.memAddr, 1)
  BY <1>1, <1>3, ComboDumps, PlacesOfRing
<1>12. (~ACK => ~Takes(ACK)) /\ (regs.remaining # 0 => ~Takes(ACK))
  BY DEF Takes, Analyser!memRead, Analyser!SampleDone
<1>13. QED
  <2>1. ACK \in BOOLEAN /\ ring' = ring /\ samples' = samples /\ dumped' = IF ACK THEN dumped + 1 ELSE dumped
    BY <1>1, <1>6, <1>7
  <2>2. ~ACK => Else(regs', {"enabled"}) /\ memdata' = memdata
    BY <1>5, <1>6, <1>9, <1>12
  <2>3. ACK /\ regs.remaining # 0 =>
          /\ Else(regs', {"enabled", "remaining", "dataOut"}) /\ regs'.remaining = regs.remaining - 1
          /\ regs'.dataOut = [regs.dataOut EXCEPT !.n = @ + 1] /\ memdata' = memdata
    BY <1>5, <1>6, <1>10, <1>12
  <2>4. Takes(ACK) =>
          /\ Else(regs', {"enabled", "remaining", "dataOut", "sampleCount", "memAddr"})
          /\ regs'.sampleCount = regs.sampleCount - 1 /\ regs'.remaining = ProbeWords - 1
          /\ regs'.dataOut = Analyser!Word(memdata, 1)
          /\ regs'.memAddr = Back(regs.memAddr, 1) /\ memdata' = ring[regs'.memAddr]
    BY <1>5, <1>6, <1>11
  <2>5. QED
    BY <1>8, <2>1, <2>2, <2>3, <2>4, Zenon DEF DumpMoves

(* The words of the dump stay those of the samples.                        *)
LEMMA RingDumps ==
  ASSUME RingInv, NEW URST, NEW cmd, NEW CTIMER, NEW TRIGGER, NEW ACK, NEW PROBEIN,
         CaptureEdge(URST, cmd, CTIMER, TRIGGER, ACK, PROBEIN), Analyser!Dumping, Analyser!Dumping'
  PROVE  RingInv'
<1> DEFINE gone  == Len(samples) - regs.sampleCount
           goneN == Len(samples) - regs'.sampleCount
<1>1. /\ RingTypes /\ MemSize \in Nat /\ MemSize > 1 /\ ProbeWords \in Nat \ {0}
      /\ ~Analyser!Active /\ ~Analyser!Active' /\ Begun = gone
  BY CrossingsAssumption DEF RingInv, Begun, Analyser!Active, Analyser!Collecting, Analyser!Triggered, Analyser!Dumping
<1>0. DumpMoves(ACK)
  BY DumpStep
<1>2. ACK \in BOOLEAN /\ ring' = ring /\ samples' = samples /\ dumped' = IF ACK THEN dumped + 1 ELSE dumped
  BY <1>0 DEF DumpMoves
<1>3. Begun' = goneN
  BY <1>2 DEF Begun
<1>4. /\ samples \in Seq(Samples) /\ Len(samples) \in Nat /\ Len(samples) < MemSize /\ dumped \in Nat
      /\ regs.memAddr \in Places /\ regs.sampleCount \in Nat /\ regs.remaining \in Nat
  BY <1>1 DEF RingTypes, Typed
<1>5. /\ regs.sampleCount <= Len(samples) /\ regs.remaining < ProbeWords
      /\ gone = 0 => dumped = 0 /\ regs.remaining = 0 /\ regs.dataOut = Analyser!Header(ProbeWords * Len(samples))
      /\ gone # 0 => /\ dumped + regs.remaining = ProbeWords * gone
                     /\ regs.dataOut = Analyser!Word(samples[gone], ProbeWords - regs.remaining)
  BY <1>1 DEF RingInv, Dumps
<1>6. /\ \A k \in 1 .. Len(samples) : k > gone => samples[k] = ring[Back(regs.memAddr, k - 1 - gone)]
      /\ gone < Len(samples) => samples[gone + 1] = memdata
  BY <1>1 DEF RingInv, InRing
<1>7. RingTypes'
  BY <1>1, <1>2, RecordTyped DEF RingTypes
<1>8. SUFFICES InRing' /\ Dumps'
  BY <1>1, <1>7 DEF RingInv, Collects, Rests
<1>9. CASE ~ACK
  <2>1. Else(regs', {"enabled"}) /\ memdata' = memdata
    BY <1>0, <1>9 DEF DumpMoves
  <2>2. /\ regs'.memAddr = regs.memAddr /\ regs'.sampleCount = regs.sampleCount
        /\ regs'.remaining = regs.remaining /\ regs'.dataOut = regs.dataOut
    BY <2>1 DEF Else, RegNames
  <2>3. InRing'
    BY <1>2, <1>3, <1>6, <2>1, <2>2 DEF InRing
  <2>4. Dumps'
    BY <1>2, <1>3, <1>5, <1>9, <2>2 DEF Dumps
  <2>5. QED
    BY <2>3, <2>4
<1>10. CASE ACK /\ regs.remaining # 0
  <2>1. /\ Else(regs', {"enabled", "remaining", "dataOut"}) /\ regs'.remaining = regs.remaining - 1
        /\ regs'.dataOut = [regs.dataOut EXCEPT !.n = @ + 1] /\ memdata' = memdata
    BY <1>0, <1>10 DEF DumpMoves
  <2>2. regs'.memAddr = regs.memAddr /\ regs'.sampleCount = regs.sampleCount
    BY <2>1 DEF Else, RegNames
  <2>3. InRing'
    BY <1>2, <1>3, <1>6, <2>1, <2>2 DEF InRing
  <2>4. gone # 0
    BY <1>5, <1>10
  <2>5. regs'.dataOut = Analyser!Word(samples[gone], ProbeWords - regs'.remaining)
    <3>1. ProbeWords - regs'.remaining = (ProbeWords - regs.remaining) + 1
      BY <1>1, <1>4, <2>1
    <3>2. regs.dataOut = Analyser!Word(samples[gone], ProbeWords - regs.remaining)
      BY <1>5, <2>4
    <3>3. QED
      BY <2>1, <3>1, <3>2 DEF Analyser!Word
  <2>6. regs'.remaining < ProbeWords /\ dumped' + regs'.remaining = ProbeWords * gone
    BY <1>1, <1>2, <1>4, <1>5, <1>10, <2>1, <2>4
  <2>7. Dumps'
    BY <1>2, <1>3, <1>5, <2>2, <2>4, <2>5, <2>6 DEF Dumps
  <2>8. QED
    BY <2>3, <2>7
<1>11. CASE Takes(ACK)
  <2>1. /\ Else(regs', {"enabled", "remaining", "dataOut", "sampleCount", "memAddr"})
        /\ regs'.sampleCount = regs.sampleCount - 1 /\ regs'.remaining = ProbeWords - 1
        /\ regs'.dataOut = Analyser!Word(memdata, 1)
        /\ regs'.memAddr = Back(regs.memAddr, 1) /\ memdata' = ring[regs'.memAddr]
    BY <1>0, <1>11 DEF DumpMoves
  <2>2. ACK /\ regs.remaining = 0 /\ regs.sampleCount # 0
    BY <1>11 DEF Takes, Analyser!memRead, Analyser!SampleDone
  <2>3. /\ gone \in Nat /\ gone < Len(samples) /\ goneN = gone + 1 /\ goneN # 0 /\ goneN <= Len(samples)
        /\ regs'.sampleCount <= Len(samples)
    BY <1>4, <1>5, <2>1, <2>2
  <2>4. memdata = samples[goneN]
    BY <1>6, <2>3
  <2>5. dumped = ProbeWords * gone
    <3>1. CASE gone = 0
      BY <1>1, <1>5, <3>1
    <3>2. CASE gone # 0
      BY <1>4, <1>5, <2>2, <3>2
    <3>3. QED
      BY <3>1, <3>2
  <2> HIDE DEF gone, goneN
  <2>6. dumped' + regs'.remaining = ProbeWords * goneN
    <3>1. ProbeWords * goneN = ProbeWords * gone + ProbeWords
      BY <1>1, <2>3
    <3>2. dumped' = dumped + 1
      BY <1>2, <2>2
    <3>3. QED
      BY <1>1, <1>4, <2>1, <2>5, <3>1, <3>2
  <2>7. regs'.dataOut = Analyser!Word(samples[goneN], ProbeWords - regs'.remaining)
    <3>1. ProbeWords - (ProbeWords - 1) = 1
      BY <1>1
    <3>2. QED
      BY <2>1, <2>4, <3>1
  <2>8. Dumps'
    <3>1. regs'.remaining < ProbeWords
      BY <1>1, <2>1
    <3>2. QED
      BY <1>2, <1>3, <2>3, <2>6, <2>7, <3>1 DEF Dumps
  <2>9. ASSUME NEW k \in 1 .. Len(samples), k > goneN
        PROVE  samples[k] = ring[Back(regs'.memAddr, k - 1 - goneN)]
    <3>1. k > gone /\ k - 1 - goneN \in 0 .. MemSize - 2 /\ (k - 1 - goneN) + 1 = k - 1 - gone
      <4>1. k \in Nat /\ k <= Len(samples) /\ k > gone + 1 /\ goneN = gone + 1
        BY <1>4, <2>3, <2>9
      <4>2. QED
        BY <1>1, <1>4, <2>3, <4>1
    <3>2. Back(regs'.memAddr, k - 1 - goneN) = Back(regs.memAddr, (k - 1 - goneN) + 1)
      BY <1>4, <2>1, <3>1, PlacesOfRing
    <3>3. QED
      BY <1>6, <3>1, <3>2
  <2>10. goneN < Len(samples) => samples[goneN + 1] = memdata'
    <3>1. SUFFICES ASSUME goneN < Len(samples) PROVE samples[goneN + 1] = memdata'
      OBVIOUS
    <3>2. goneN + 1 \in 1 .. Len(samples) /\ goneN + 1 > goneN /\ (goneN + 1) - 1 - goneN = 0
      BY <1>4, <2>3, <3>1
    <3>3. samples[goneN + 1] = ring[Back(regs'.memAddr, 0)]
      BY <2>9, <3>2
    <3>4. Back(regs'.memAddr, 0) = regs'.memAddr
      <4>1. regs'.memAddr \in Places
        BY <1>7 DEF RingTypes, Typed
      <4>2. QED
        BY <4>1, PlacesOfRing
    <3>5. QED
      BY <2>1, <3>3, <3>4
  <2>11. InRing'
    BY <1>2, <1>3, <2>9, <2>10 DEF InRing
  <2>12. QED
    BY <2>8, <2>11
<1>12. ACK => regs.remaining # 0 \/ Takes(ACK)
  BY <1>0 DEF DumpMoves
<1>13. QED
  BY <1>2, <1>9, <1>10, <1>11, <1>12

(* Every edge is one of the above.                                         *)
LEMMA CaptureKept ==
  ASSUME RingInv, Analyser!CaptureNext
  PROVE  RingInv'
<1>1. RingTypes
  BY DEF RingInv
<1>2. PICK URST \in BOOLEAN, CTIMER \in {FALSE, Analyser!Active}, TRIGGER \in {FALSE, Analyser!Collecting},
           ACK \in {FALSE, Analyser!Dumping}, PROBEIN \in Values \cup {NoValue},
           cmd \in {"NONE", "ENABLED", "DISABLED", "TRIGGERED"} :
        /\ Analyser!LookedAt(URST, cmd, CTIMER, TRIGGER, PROBEIN)
        /\ Analyser!UClk(URST, cmd, CTIMER, TRIGGER, ACK)
        /\ Analyser!Clk(PROBEIN)
        /\ Analyser!Record(CTIMER, ACK, PROBEIN)
  BY Zenon DEF Analyser!CaptureNext
<1>3. Analyser!Active \in BOOLEAN /\ Analyser!Dumping \in BOOLEAN /\ Analyser!Collecting \in BOOLEAN
  BY <1>1, Phases DEF Analyser!Collecting, RingTypes, Typed
<1>4. CTIMER \in BOOLEAN /\ TRIGGER \in BOOLEAN /\ ACK \in BOOLEAN /\ (CTIMER => Analyser!Active) /\ (ACK => Analyser!Dumping)
  <2>1. /\ CTIMER = FALSE \/ CTIMER = Analyser!Active
        /\ TRIGGER = FALSE \/ TRIGGER = Analyser!Collecting
        /\ ACK = FALSE \/ ACK = Analyser!Dumping
    OBVIOUS
  <2>2. CTIMER \in BOOLEAN /\ (CTIMER => Analyser!Active)
    <3>1. CASE CTIMER = FALSE
      BY <3>1, Zenon
    <3>2. CASE CTIMER = Analyser!Active
      BY <1>3, <3>2, Zenon
    <3>3. QED
      BY <2>1, <3>1, <3>2
  <2>3. TRIGGER \in BOOLEAN
    BY <1>3, <2>1
  <2>4. ACK \in BOOLEAN /\ (ACK => Analyser!Dumping)
    <3>1. CASE ACK = FALSE
      BY <3>1, Zenon
    <3>2. CASE ACK = Analyser!Dumping
      BY <1>3, <3>2, Zenon
    <3>3. QED
      BY <2>1, <3>1, <3>2
  <2>5. QED
    BY <2>2, <2>3, <2>4
<1>5. CaptureEdge(URST, cmd, CTIMER, TRIGGER, ACK, PROBEIN)
  BY <1>2, <1>4 DEF CaptureEdge
<1>6. CASE ~Analyser!Active' /\ ~Analyser!Dumping'
  BY <1>5, <1>6, RingRests
<1>7. CASE Analyser!Active'
  <2>1. CASE Analyser!Active
    BY <1>5, <1>7, <2>1, RingCollects
  <2>2. CASE ~Analyser!Active
    BY <1>5, <1>7, <2>2, RingStarts
  <2>3. QED
    BY <2>1, <2>2
<1>8. CASE Analyser!Dumping'
  <2>1. CASE Analyser!Active
    BY <1>5, <1>8, <2>1, RingRunsOut
  <2>2. CASE Analyser!Dumping
    BY <1>5, <1>8, <2>2, RingDumps
  <2>3. CASE ~Analyser!Active /\ ~Analyser!Dumping
    <3>1. PICK r : r = Analyser!combo(cmd, CTIMER, TRIGGER, ACK)
      OBVIOUS
    <3>2. Else(r, {"enabled", "sampleCount", "ctimer"})
      BY <1>1, <2>3, <3>1, ComboIdle
    <3>3. regs' = Analyser!ResetRegs(r) \/ regs' = r
      BY <1>2, <3>1 DEF Analyser!UClk
    <3>4. QED
      BY <1>8, <2>3, <3>2, <3>3 DEF Else, RegNames, Analyser!ResetRegs, Analyser!Dumping
  <2>4. QED
    BY <2>1, <2>2, <2>3
<1>9. QED
  BY <1>6, <1>7, <1>8

(* It starts at rest.                                                      *)
LEMMA RingInit == MCInit => RingInv
<1> SUFFICES ASSUME MCInit PROVE RingInv
  OBVIOUS
<1>1. MemSize \in Nat /\ MemSize > 1 /\ RunLenMax \in Nat \ {0}
  BY CrossingsAssumption
<1>2. Analyser!CaptureInit
  BY DEF MCInit
<1>3. probed \in Values
  <2>1. \E v \in Values : TRUE
    BY DEF MCInit, Serial!SerialInit, Serial!ValueInit
  <2>2. (CHOOSE v \in Values : TRUE) \in Values
    BY <2>1
  <2>3. QED
    BY <1>2, <2>2 DEF Analyser!CaptureInit
<1>4. regs = [enabled |-> FALSE, capstate |-> "COLLECTING", memAddr |-> 0, sampleCount |-> 1,
              ctimer |-> RunLenMax, ttimer |-> 0, captureChanged |-> FALSE, remaining |-> 0,
              dataOut |-> Analyser!Header(0)]
  BY <1>2 DEF Analyser!CaptureInit
<1>5. Typed(regs)
  BY <1>1, <1>4 DEF Typed, RegNames, Places, Analyser!Header, Analyser!Word
<1>6. RingTypes
  <2>1. flipped = FALSE /\ changes = 0 /\ blurred = FALSE /\ dumped = 0 /\ since = 0 /\ DOMAIN ring = Places
    BY <1>2 DEF Analyser!CaptureInit, Places
  <2>2. samples \in Seq(Samples) /\ Len(samples) = 0
    BY <1>2 DEF Analyser!CaptureInit
  <2>3. flipped \in BOOLEAN /\ changes \in 0 .. 2 /\ blurred \in BOOLEAN /\ dumped \in Nat /\ since \in Nat
    <3>1. flipped \in BOOLEAN /\ blurred \in BOOLEAN
      BY <2>1, Zenon
    <3>2. changes \in 0 .. 2 /\ dumped \in Nat /\ since \in Nat
      BY <1>2 DEF Analyser!CaptureInit
    <3>3. QED
      BY <3>1, <3>2
  <2>4. Len(samples) < MemSize
    BY <1>1, <2>2
  <2>5. QED
    BY <1>3, <1>5, <2>1, <2>2, <2>3, <2>4, Zenon DEF RingTypes
<1>7. ~Analyser!Dumping /\ ~Analyser!Active
  BY <1>4 DEF Analyser!Dumping, Analyser!Active, Analyser!Collecting, Analyser!Triggered
<1>8. samples = <<>> /\ dumped = 0
  BY <1>2 DEF Analyser!CaptureInit
<1>9. QED
  BY <1>6, <1>7, <1>8 DEF RingInv, InRing, Collects, Dumps, Rests

(* A step of the other components leaves the analyser alone.               *)
LEMMA RingStays == RingInv /\ UNCHANGED ringVars => RingInv'
BY DEF ringVars, RingInv, RingTypes, InRing, Collects, Dumps, Rests, Begun, Analyser!Active, Analyser!Dumping,
   Analyser!Collecting, Analyser!Triggered

(* A multiple and a rest, divided.                                         *)
LEMMA Quotient ==
  ASSUME NEW m \in Nat \ {0}, NEW q \in Nat, NEW k \in 0 .. m - 1, NEW n, n = m * q + k
  PROVE  n \div m = q /\ n % m = k
OBVIOUS

(* What the invariant says of the dump and of the samples.                 *)
LEMMA RingExact == RingInv => CaptureExact
<1> SUFFICES ASSUME RingInv PROVE CaptureExact
  OBVIOUS
<1>1. Analyser!SamplesTrue
  BY DEF RingInv, Collects, Analyser!SamplesTrue
<1>2. Analyser!DumpExact
  <2>1. SUFFICES ASSUME Analyser!Dumping
        PROVE  /\ dumped + regs.remaining + ProbeWords * regs.sampleCount = ProbeWords * Len(samples)
               /\ regs.dataOut = IF dumped = 0 THEN Analyser!Header(ProbeWords * Len(samples))
                                 ELSE Analyser!Word(samples[((dumped - 1) \div ProbeWords) + 1],
                                                    ((dumped - 1) % ProbeWords) + 1)
    BY DEF Analyser!DumpExact
  <2>2. /\ ProbeWords \in Nat \ {0} /\ dumped \in Nat /\ regs.remaining \in Nat /\ regs.sampleCount \in Nat
        /\ Len(samples) \in Nat
    BY CrossingsAssumption DEF RingInv, RingTypes, Typed
  <2>3. regs.sampleCount <= Len(samples) /\ regs.remaining < ProbeWords
    BY <2>1 DEF RingInv, Dumps
  <2>4. Begun = 0 =>
          dumped = 0 /\ regs.remaining = 0 /\ regs.dataOut = Analyser!Header(ProbeWords * Len(samples))
    BY <2>1 DEF RingInv, Dumps
  <2>5. Begun # 0 =>
          /\ dumped + regs.remaining = ProbeWords * Begun
          /\ regs.dataOut = Analyser!Word(samples[Begun], ProbeWords - regs.remaining)
    BY <2>1 DEF RingInv, Dumps
  <2>6. Begun \in Nat /\ Len(samples) = Begun + regs.sampleCount
    <3>1. Begun = Len(samples) - regs.sampleCount
      BY <2>1 DEF Begun
    <3>2. QED
      BY <2>2, <2>3, <3>1
  <2>7. ProbeWords * Len(samples) = ProbeWords * Begun + ProbeWords * regs.sampleCount
    BY <2>2, <2>6
  <2>8. CASE Begun = 0
    BY <2>2, <2>4, <2>6, <2>8
  <2>9. CASE Begun # 0
    <3> DEFINE before == Begun - 1
               at     == ProbeWords - regs.remaining - 1
    <3>1. before \in Nat /\ at \in 0 .. ProbeWords - 1 /\ Begun = before + 1 /\ ProbeWords = at + 1 + regs.remaining
      BY <2>2, <2>3, <2>6, <2>9
    <3> HIDE DEF before, at
    <3>2. ProbeWords * Begun = ProbeWords * before + ProbeWords /\ ProbeWords * before \in Nat
      BY <2>2, <3>1
    <3>3. dumped - 1 = ProbeWords * before + at /\ dumped # 0
      <4>1. dumped + regs.remaining = ProbeWords * before + ProbeWords
        BY <2>5, <2>9, <3>2
      <4> DEFINE whole == ProbeWords * before
      <4>2. whole \in Nat /\ dumped + regs.remaining = whole + ProbeWords
        BY <3>2, <4>1
      <4> HIDE DEF whole
      <4>3. dumped - 1 = whole + at /\ dumped # 0
        BY <2>2, <3>1, <4>2
      <4>4. QED
        BY <4>3 DEF whole
    <3>4. (dumped - 1) \div ProbeWords = before /\ (dumped - 1) % ProbeWords = at
      BY <2>2, <3>1, <3>3, Quotient
    <3>5. at + 1 = ProbeWords - regs.remaining
      BY <2>2, <3>1
    <3>6. regs.dataOut = Analyser!Word(samples[((dumped - 1) \div ProbeWords) + 1], ((dumped - 1) % ProbeWords) + 1)
      BY <2>5, <2>9, <3>1, <3>4, <3>5
    <3>7. QED
      BY <2>5, <2>7, <2>9, <3>3, <3>6
  <2>10. QED
    BY <2>8, <2>9
<1>3. QED
  BY <1>1, <1>2 DEF CaptureExact

(***************************************************************************)
(* The samples of the logic analyser tell the probed value at every tick,  *)
(* and a dump is the last of them, newest first, with a ring of any size,  *)
(* samples of any width and any length of run, whenever the trigger and    *)
(* the acknowledgements come (ProbeCapture.v:131-273).                     *)
(***************************************************************************)
THEOREM CaptureIsExact == MCSpec => []CaptureExact
<1>1. MCInit => RingInv
  BY RingInit
<1>2. ASSUME RingInv, [MCNext /\ UNCHANGED which]_allVars PROVE RingInv'
  <2>1. CASE Analyser!CaptureNext
    BY <1>2, <2>1, CaptureKept
  <2>2. CASE UNCHANGED ringVars
    BY <1>2, <2>2, RingStays
  <2>3. QED
    BY <1>2, <2>1, <2>2 DEF MCNext, allVars
<1>3. QED
  BY <1>1, <1>2, RingExact, PTL DEF MCSpec
=============================================================================
