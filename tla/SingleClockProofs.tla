------------------------- MODULE SingleClockProofs --------------------------
(***************************************************************************)
(* One clock domain.  First the FIFOs hold the queue of their inputs for   *)
(* every depth and every set of elements: SizedFIFO, the FIFOs of one and  *)
(* of two places and of elements without bits, and the Bluesim class that  *)
(* stands for all of them.  The invariants relate the queue to the         *)
(* registers place by place, which spares the proofs the sequence Contents *)
(* until the end.                                                          *)
(*                                                                         *)
(* Then the Bluesim classes of one clock domain do what the Verilog does,  *)
(* and show what it shows, for every width and set of values: wires,       *)
(* counters, registers and memories.  Each has an inductive invariant of   *)
(* its own, which its own steps keep and those of the others do not        *)
(* disturb.                                                                *)
(***************************************************************************)
EXTENDS MCSingleClock, SequenceTheorems, TLAPS, WellFoundedInduction

-----------------------------------------------------------------------------
(* SizedFIFO: a ring and, before it, a register for the first element.     *)

Elements == Data \cup {None}

(* The registers hold the queue held: the head in D_OUT, the rest in the ring. *)
Holds(held) ==
  /\ held \in Seq(Data)
  /\ Len(held) = IF hasodata THEN InRing + 1 ELSE 0
  /\ hasodata => held[1] = D_OUT
  /\ \A k \in 2 .. Len(held) : held[k] = arr[RingSlot(k - 2)]

IInv == TypeOK /\ RingConsistent /\ Holds(queue)

(* How the ring's places follow one another.  *)
LEMMA SlotTypes ==
  /\ depthLess2 \in Nat
  /\ \A p \in Slots : NextSlot(p) \in Slots
BY DepthAssumption DEF depthLess2, Slots, NextSlot

(* The empty queue. *)
LEMMA NoPlaces ==
  /\ <<>> \in Seq(Data) /\ Len(<<>>) = 0
  /\ \A s \in Seq(Data) : s # <<>> <=> Len(s) # 0
<1>1. \A s \in Seq(Data) : s # <<>> => Len(s) \in Nat \ {0}
  BY EmptySeq
<1>2. <<>> \in Seq(Data) /\ Len(<<>>) = 0
  BY EmptySeq
<1>3. QED
  BY <1>1, <1>2

(* An append, place by place. *)
LEMMA AppendPlaces ==
  ASSUME NEW s \in Seq(Data), NEW v \in Data
  PROVE  /\ Append(s, v) \in Seq(Data)
         /\ Len(Append(s, v)) = Len(s) + 1
         /\ \A k \in 1 .. Len(s) : Append(s, v)[k] = s[k]
         /\ Append(s, v)[Len(s) + 1] = v
BY AppendProperties

(* A tail, place by place. *)
LEMMA TailPlaces ==
  ASSUME NEW s \in Seq(Data), Len(s) > 0
  PROVE  /\ Tail(s) \in Seq(Data)
         /\ Len(Tail(s)) = Len(s) - 1
         /\ \A k \in 1 .. Len(s) - 1 : Tail(s)[k] = s[k + 1]
<1>1. s # <<>>
  BY EmptySeq
<1>2. QED
  BY <1>1, HeadTailProperties

(* The level of the ring, from its pointers and flags. *)
LEMMA RingLevel ==
  ASSUME TypeOK, RingConsistent
  PROVE  /\ InRing \in 0 .. depthLess2 + 1
         /\ InRing = 0 <=> ring_empty
         /\ InRing = depthLess2 + 1 <=> ~not_ring_full
         /\ ~ring_empty => RingSlot(0) = head
         /\ \A k \in 0 .. depthLess2 : RingSlot(k) \in Slots
         /\ InRing <= depthLess2 => RingSlot(InRing) = tail
         /\ \A k \in 0 .. depthLess2 : RingSlot(k) = tail => k = InRing \/ (k = 0 /\ InRing = depthLess2 + 1)
BY SlotTypes, SMTT(30) DEF TypeOK, RingConsistent, InRing, RingSlot, Slots

(* The ring moves on by one place when the head leaves. *)
LEMMA RingShifts ==
  ASSUME TypeOK, head' = NextSlot(head)
  PROVE  \A k \in 0 .. depthLess2 : RingSlot(k)' = RingSlot(k + 1)
BY SlotTypes DEF TypeOK, RingSlot, NextSlot, Slots

(* Dequeue and enqueue at once, the ring not empty. *)
LEMMA EnqDeqRingStep ==
  ASSUME IInv, NEW v \in Data, EnqDeqRing, ~ring_empty,
         D_OUT' = arr[head], arr' = [arr EXCEPT ![tail] = v],
         queue' = Append(Tail(queue), v)
  PROVE  IInv'
<1> DEFINE n == InRing
<1> USE DEF IInv
<1>1. /\ n \in 1 .. depthLess2 + 1 /\ hasodata /\ Len(queue) = n + 1
      /\ Tail(queue) \in Seq(Data) /\ Len(Tail(queue)) = n
      /\ \A k \in 1 .. n : Tail(queue)[k] = queue[k + 1]
  BY RingLevel, SlotTypes, TailPlaces DEF Holds, RingConsistent
<1>2. /\ queue' \in Seq(Data) /\ Len(queue') = n + 1
      /\ \A k \in 1 .. n : queue'[k] = queue[k + 1]
      /\ queue'[n + 1] = v
  BY <1>1, AppendPlaces
<1>3. TypeOK' /\ RingConsistent' /\ InRing' = n
  BY <1>1, <1>2, SlotTypes DEF TypeOK, RingConsistent, EnqDeqRing, InRing, NextSlot, Slots
<1>4. queue'[1] = D_OUT'
  BY <1>1, <1>2, RingLevel DEF Holds
<1>5. ASSUME NEW k \in 2 .. n + 1 PROVE queue'[k] = arr'[RingSlot(k - 2)']
  <2>1. RingSlot(k - 2)' = RingSlot(k - 1)
    BY <1>1, SlotTypes, RingShifts DEF EnqDeqRing
  <2>2. CASE k = n + 1
    <3>1. RingSlot(n) = tail
      <4>1. CASE n <= depthLess2
        BY <4>1, RingLevel
      <4>2. CASE n = depthLess2 + 1
        <5>1. head = tail /\ head \in Slots
          BY <4>2, RingLevel DEF TypeOK, RingConsistent
        <5>2. QED
          BY <4>2, <5>1, SlotTypes DEF RingSlot, Slots
      <4>3. QED
        BY <1>1, <4>1, <4>2, SlotTypes
    <3>2. k - 1 = n /\ tail \in Slots
      BY <1>1, <2>2, SlotTypes DEF TypeOK
    <3>3. QED
      BY <1>2, <2>1, <2>2, <3>1, <3>2 DEF TypeOK
  <2>3. CASE k # n + 1
    <3>1. k - 1 \in 1 .. depthLess2 /\ k - 1 # n
      BY <1>1, <2>3, SlotTypes
    <3>2. RingSlot(k - 1) # tail /\ RingSlot(k - 1) \in Slots
      BY <1>1, <3>1, RingLevel
    <3>3. queue'[k] = arr[RingSlot(k - 1)]
      BY <1>1, <1>2, <2>3 DEF Holds
    <3>4. QED
      BY <2>1, <3>2, <3>3 DEF TypeOK
  <2>4. QED
    BY <2>2, <2>3
<1>6. hasodata'
  BY <1>1 DEF EnqDeqRing
<1>7. QED
  BY <1>1, <1>2, <1>3, <1>4, <1>5, <1>6 DEF Holds

(* Dequeue alone, the ring not empty. *)
LEMMA DeqRingStep ==
  ASSUME IInv, DeqRing, ~ring_empty,
         D_OUT' = arr[head], arr' = arr, queue' = Tail(queue)
  PROVE  IInv'
<1> DEFINE n == InRing
<1> USE DEF IInv
<1>1. /\ n \in 1 .. depthLess2 + 1 /\ hasodata /\ Len(queue) = n + 1
      /\ queue' \in Seq(Data) /\ Len(queue') = n
      /\ \A k \in 1 .. n : queue'[k] = queue[k + 1]
  BY RingLevel, SlotTypes, TailPlaces DEF Holds, RingConsistent
<1>2. TypeOK'
  BY <1>1, SlotTypes DEF TypeOK, DeqRing, Slots
<1>3. RingConsistent' /\ InRing' = n - 1
  BY <1>1, SlotTypes DEF TypeOK, RingConsistent, DeqRing, InRing, NextSlot, Slots
<1>4. queue'[1] = D_OUT'
  BY <1>1, RingLevel DEF Holds
<1>5. ASSUME NEW k \in 2 .. n PROVE queue'[k] = arr'[RingSlot(k - 2)']
  <2>1. RingSlot(k - 2)' = RingSlot(k - 1)
    BY <1>1, SlotTypes, RingShifts DEF DeqRing
  <2>2. QED
    BY <1>1, <2>1 DEF Holds
<1>6. hasodata'
  BY <1>1 DEF DeqRing
<1>7. QED
  BY <1>1, <1>2, <1>3, <1>4, <1>5, <1>6 DEF Holds

(* Enqueue alone behind a loaded register, the ring not full. *)
LEMMA EnqRingStep ==
  ASSUME IInv, NEW v \in Data, EnqRing, hasodata, not_ring_full,
         D_OUT' = D_OUT, arr' = [arr EXCEPT ![tail] = v], queue' = Append(queue, v)
  PROVE  IInv'
<1> DEFINE n == InRing
<1> USE DEF IInv
<1>1. /\ n \in 0 .. depthLess2 /\ Len(queue) = n + 1
      /\ queue' \in Seq(Data) /\ Len(queue') = n + 2
      /\ \A k \in 1 .. n + 1 : queue'[k] = queue[k]
      /\ queue'[n + 2] = v
  <2>1. n \in 0 .. depthLess2
    BY RingLevel, SlotTypes
  <2>2. QED
    BY <2>1, AppendPlaces, SlotTypes DEF Holds
<1>2. TypeOK'
  BY <1>1, SlotTypes DEF TypeOK, EnqRing, Slots
<1>3. /\ head \in Slots /\ tail \in Slots
      /\ head' = head /\ tail' = NextSlot(tail) /\ ~ring_empty' /\ hasodata'
      /\ not_ring_full' <=> NextSlot(tail) # head
      /\ ring_empty <=> head = tail
  BY DEF TypeOK, RingConsistent, EnqRing
<1>4. RingConsistent'
  BY <1>3 DEF RingConsistent
<1>5. InRing' = n + 1
  BY <1>3, SlotTypes DEF InRing, NextSlot, Slots
<1>6. queue'[1] = D_OUT'
  BY <1>1 DEF Holds, EnqRing
<1>7. ASSUME NEW k \in 2 .. n + 2 PROVE queue'[k] = arr'[RingSlot(k - 2)']
  <2>1. RingSlot(k - 2)' = RingSlot(k - 2)
    BY DEF RingSlot, EnqRing
  <2>2. CASE k = n + 2
    BY <1>1, <2>1, <2>2, RingLevel DEF TypeOK
  <2>3. CASE k # n + 2
    <3>1. RingSlot(k - 2) # tail /\ RingSlot(k - 2) \in Slots
      BY <1>1, <2>3, RingLevel, SlotTypes
    <3>2. QED
      BY <1>1, <2>1, <2>3, <3>1, SMTT(30) DEF Holds, TypeOK
  <2>4. QED
    BY <2>2, <2>3
<1>8. QED
  BY <1>1, <1>2, <1>3, <1>4, <1>5, <1>6, <1>7 DEF Holds

(* The FIFO ends up empty: a clear, a reset, or the last dequeue. *)
LEMMA EmptyStep ==
  ASSUME head' \in Slots, head' = tail', ring_empty' = TRUE, not_ring_full' = TRUE,
         hasodata' = FALSE, arr' \in [Slots -> Elements], D_OUT' \in Elements,
         queue' = <<>>
  PROVE  IInv'
<1>1. queue' \in Seq(Data) /\ Len(queue') = 0
  BY NoPlaces
<1>2. TypeOK' /\ RingConsistent'
  BY <1>1 DEF TypeOK, RingConsistent, Elements
<1>3. Holds(queue)'
  BY <1>1 DEF Holds
<1>4. QED
  BY <1>2, <1>3 DEF IInv

(* The FIFO ends up with the element v alone. *)
LEMMA SingleStep ==
  ASSUME NEW v \in Data,
         head' \in Slots, head' = tail', ring_empty' = TRUE, not_ring_full' = TRUE,
         hasodata' = TRUE, arr' \in [Slots -> Elements], D_OUT' = v, queue' = <<v>>
  PROVE  IInv'
<1>1. queue' \in Seq(Data) /\ Len(queue') = 1 /\ queue'[1] = v
  OBVIOUS
<1>2. TypeOK' /\ RingConsistent' /\ InRing' = 0
  BY <1>1 DEF TypeOK, RingConsistent, InRing, Elements
<1>3. QED
  BY <1>1, <1>2 DEF IInv, Holds

(* Nothing moves. *)
LEMMA IdleStep ==
  ASSUME IInv, UNCHANGED vars
  PROVE  IInv'
BY DEF IInv, vars, control, TypeOK, RingConsistent, Holds, InRing, RingSlot

(* Whatever the inputs, the data blocks keep their types. *)
LEMMA DataTypes ==
  ASSUME IInv, NEW RST, NEW CLR, NEW deq, NEW v \in Elements, Edge(RST, CLR, deq, v)
  PROVE  arr' \in [Slots -> Elements] /\ D_OUT' \in Elements
<1>1. arr \in [Slots -> Elements] /\ D_OUT \in Elements /\ head \in Slots
  BY DEF IInv, TypeOK, Elements
<1>2. CASE CLR
  BY <1>1, <1>2 DEF Edge
<1>3. CASE ~CLR
  BY <1>1, <1>3 DEF Edge, LoadHead, WriteRing
<1>4. QED
  BY <1>2, <1>3

(* An edge with legal inputs. *)
LEMMA TickStep ==
  ASSUME IInv, NEW RST, NEW CLR, NEW deq, NEW v \in Elements, Tick(RST, CLR, deq, v)
  PROVE  IInv'
<1> USE DEF Tick, Edge
<1>1. /\ arr \in [Slots -> Elements] /\ D_OUT \in Elements
      /\ arr' \in [Slots -> Elements] /\ D_OUT' \in Elements
  BY DataTypes DEF IInv, TypeOK, Elements
<1>2. CASE RST \/ CLR
  <2>1. ClearControl /\ queue' = <<>>
    BY <1>2 DEF After
  <2>2. QED
    BY <1>1, <2>1, SlotTypes, EmptyStep, SMTT(30) DEF ClearControl, Slots
<1>3. CASE ~(RST \/ CLR)
  <2>1. /\ MoveControl(deq, v # None) /\ LoadHead(deq, v) /\ WriteRing(deq, v)
        /\ queue' = After(queue, FALSE, deq, v) /\ Legal(hasodata, not_ring_full, deq, v)
    BY <1>3 DEF After
  <2>2. /\ head \in Slots /\ ring_empty \in BOOLEAN /\ hasodata \in BOOLEAN
        /\ ring_empty => head = tail /\ not_ring_full = TRUE /\ InRing = 0
    BY DEF IInv, TypeOK, RingConsistent, InRing
  <2>3. CASE deq /\ v = None /\ ring_empty
    <3>1. queue' = <<>>
      <4>1. queue \in Seq(Data) /\ Len(queue) = 1 /\ queue' = Tail(queue)
        BY <2>1, <2>2, <2>3 DEF IInv, Holds, After, Legal
      <4>2. Tail(queue) \in Seq(Data) /\ Len(Tail(queue)) = 0
        BY <4>1, TailPlaces
      <4>3. QED
        BY <4>1, <4>2, EmptySeq
    <3>2. DeqLast
      BY <2>1, <2>3 DEF MoveControl
    <3>3. QED
      BY <1>1, <2>2, <2>3, <3>1, <3>2, EmptyStep DEF DeqLast
  <2>4. CASE deq /\ v = None /\ ~ring_empty
    <3>1. DeqRing
      BY <2>1, <2>4 DEF MoveControl
    <3>2. QED
      BY <2>1, <2>4, <3>1, DeqRingStep DEF LoadHead, WriteRing, After
  <2>5. CASE deq /\ v # None /\ ring_empty
    <3>1. queue' = <<v>>
      <4>1. queue \in Seq(Data) /\ Len(queue) = 1 /\ queue' = Append(Tail(queue), v)
        BY <2>1, <2>2, <2>5 DEF IInv, Holds, After, Legal
      <4>2. Tail(queue) = <<>>
        BY <4>1, TailPlaces, EmptySeq
      <4>3. QED
        BY <4>1, <4>2
    <3>2. UNCHANGED control
      BY <2>1, <2>5 DEF MoveControl
    <3>3. v \in Data /\ D_OUT' = v /\ hasodata = TRUE
      BY <2>1, <2>2, <2>5 DEF LoadHead, Legal, Elements
    <3>4. QED
      BY <1>1, <2>2, <2>5, <3>1, <3>2, <3>3, SingleStep DEF control
  <2>6. CASE deq /\ v # None /\ ~ring_empty
    <3>1. EnqDeqRing /\ v \in Data
      BY <2>1, <2>6 DEF MoveControl, Elements
    <3>2. QED
      BY <2>1, <2>6, <3>1, EnqDeqRingStep DEF LoadHead, WriteRing, After
  <2>7. CASE ~deq /\ v # None /\ ~hasodata
    <3>1. ring_empty = TRUE /\ queue = <<>> /\ v \in Data
      BY <2>7, EmptySeq DEF IInv, TypeOK, RingConsistent, Holds, Elements
    <3>2. EnqFirst /\ D_OUT' = v /\ queue' = Append(queue, v)
      BY <2>1, <2>7 DEF MoveControl, LoadHead, After
    <3>3. queue' = <<v>>
      BY <3>1, <3>2
    <3>4. QED
      BY <1>1, <2>2, <3>1, <3>2, <3>3, SingleStep DEF EnqFirst
  <2>8. CASE ~deq /\ v # None /\ hasodata
    <3>1. EnqRing /\ v \in Data /\ not_ring_full
      BY <2>1, <2>8 DEF MoveControl, Elements, Legal
    <3>2. QED
      BY <2>1, <2>8, <3>1, EnqRingStep DEF LoadHead, WriteRing, After
  <2>9. CASE ~deq /\ v = None
    BY <2>1, <2>9, IdleStep DEF MoveControl, LoadHead, WriteRing, After, vars
  <2>10. QED
    BY <2>3, <2>4, <2>5, <2>6, <2>7, <2>8, <2>9
<1>4. QED
  BY <1>2, <1>3

(* An enqueue to a full FIFO changes nothing. *)
LEMMA OverflowStep ==
  ASSUME IInv, NEW v \in Data, Overflow(v)
  PROVE  IInv'
<1>1. hasodata
  BY DEF Overflow, IInv, RingConsistent
<1>2. UNCHANGED vars
  BY <1>1 DEF Overflow, Edge, MoveControl, EnqRing, LoadHead, WriteRing, vars, control
<1>3. QED
  BY <1>2, IdleStep

(* IInv holds in every state. *)
LEMMA Inductive == Spec => []IInv
<1>1. Init => IInv
  <2>1. SUFFICES ASSUME Init PROVE IInv
    OBVIOUS
  <2>2. arr \in [Slots -> Elements] /\ 0 \in Slots
    BY <2>1, SlotTypes DEF Init, Elements, Slots
  <2>3. queue \in Seq(Data) /\ Len(queue) = 0
    BY <2>1, NoPlaces DEF Init
  <2>4. TypeOK /\ RingConsistent
    BY <2>1, <2>2, <2>3 DEF Init, TypeOK, RingConsistent, Elements
  <2>5. Holds(queue)
    BY <2>1, <2>3 DEF Init, Holds
  <2>6. QED
    BY <2>4, <2>5 DEF IInv
<1>2. IInv /\ [Next]_vars => IInv'
  <2>1. SUFFICES ASSUME IInv, [Next]_vars PROVE IInv'
    OBVIOUS
  <2>2. CASE UNCHANGED vars
    BY <2>1, <2>2, IdleStep
  <2>3. ASSUME NEW RST \in BOOLEAN, NEW CLR \in BOOLEAN, NEW deq \in BOOLEAN,
               NEW v \in Data \cup {None}, Tick(RST, CLR, deq, v)
        PROVE  IInv'
    BY <2>1, <2>3, TickStep DEF Elements
  <2>4. ASSUME NEW v \in Data, Overflow(v) PROVE IInv'
    BY <2>1, <2>4, OverflowStep
  <2>5. QED
    BY <2>1, <2>2, <2>3, <2>4 DEF Next
<1>3. QED
  BY <1>1, <1>2, PTL DEF Spec

(* The registers of SizedFIFO.v keep their types whatever the depth. *)
THEOREM TypeCorrect == Spec => []TypeOK
BY Inductive, PTL DEF IInv

(***************************************************************************)
(* For every depth and every set of elements, the ring and the register in *)
(* front of it hold the queue that the enqueues, dequeues, clears, resets  *)
(* and overflows amount to.                                                *)
(***************************************************************************)
THEOREM KeepsOrder == Spec => []HoldsQueue
<1>1. IInv => HoldsQueue
  <2>1. SUFFICES ASSUME IInv PROVE Contents = queue
    BY DEF HoldsQueue
  <2>2. queue \in Seq(Data) /\ InRing \in Nat
    <3>1. InRing \in 0 .. depthLess2 + 1
      BY <2>1, RingLevel DEF IInv
    <3>2. QED
      BY <2>1, <3>1, SlotTypes DEF IInv, Holds
  <2>3. CASE ~hasodata
    BY <2>1, <2>2, <2>3, EmptySeq DEF Contents, IInv, Holds
  <2>4. CASE hasodata
    <3>1. /\ Len(queue) = InRing + 1 /\ DOMAIN queue = 1 .. InRing + 1
          /\ \A k \in 1 .. InRing + 1 :
               queue[k] = IF k = 1 THEN D_OUT ELSE arr[RingSlot(k - 2)]
      BY <2>1, <2>2, <2>4 DEF IInv, Holds
    <3>2. queue = [k \in 1 .. InRing + 1 |-> queue[k]]
      BY <2>2, <3>1
    <3>3. QED
      BY <2>4, <3>1, <3>2 DEF Contents
  <2>5. QED
    BY <2>3, <2>4
<1>2. QED
  BY <1>1, Inductive, PTL

(* For every depth, EMPTY_N and FULL_N tell the level of that queue. *)
THEOREM FlagsTell == Spec => []FlagsExact
<1>1. IInv => FlagsExact
  <2>1. SUFFICES ASSUME IInv PROVE FlagsExact
    OBVIOUS
  <2>2. /\ queue \in Seq(Data)
        /\ Len(queue) = IF hasodata THEN InRing + 1 ELSE 0
        /\ ~hasodata => ring_empty
    BY <2>1 DEF IInv, Holds, RingConsistent
  <2>3. /\ InRing \in 0 .. p2depth - 1
        /\ InRing = 0 <=> ring_empty
        /\ InRing = p2depth - 1 <=> ~not_ring_full
    BY <2>1, RingLevel, DepthAssumption DEF IInv, depthLess2
  <2>4. hasodata <=> Len(queue) # 0
    <3>1. CASE hasodata
      BY <2>2, <2>3, <3>1, DepthAssumption
    <3>2. CASE ~hasodata
      BY <2>2, <3>2
    <3>3. QED
      BY <3>1, <3>2
  <2>5. queue # <<>> <=> Len(queue) # 0
    BY <2>2, NoPlaces
  <2>6. not_ring_full <=> Len(queue) < p2depth
    <3>1. CASE hasodata
      BY <2>2, <2>3, <3>1, DepthAssumption
    <3>2. CASE ~hasodata
      <4>1. InRing = 0 /\ Len(queue) = 0
        BY <2>2, <2>3, <3>2
      <4>2. QED
        BY <2>3, <4>1, DepthAssumption
    <3>3. QED
      BY <3>1, <3>2
  <2>7. QED
    BY <2>4, <2>5, <2>6 DEF FlagsExact
<1>2. QED
  BY <1>1, Inductive, PTL

-----------------------------------------------------------------------------
(* Sequences, place by place.                                              *)

(* The empty queue. *)
LEMMA NoElements ==
  ASSUME NEW S
  PROVE  /\ <<>> \in Seq(S) /\ Len(<<>>) = 0
         /\ \A s \in Seq(S) : Len(s) \in Nat /\ (s # <<>> <=> Len(s) # 0)
<1>1. \A s \in Seq(S) : s # <<>> => Len(s) \in Nat \ {0}
  BY EmptySeq
<1>2. <<>> \in Seq(S) /\ Len(<<>>) = 0
  BY EmptySeq
<1>3. QED
  BY <1>1, <1>2

(* An append, place by place. *)
LEMMA AppendedElements ==
  ASSUME NEW S, NEW s \in Seq(S), NEW v \in S
  PROVE  /\ Append(s, v) \in Seq(S) /\ Append(s, v) # <<>>
         /\ Len(Append(s, v)) = Len(s) + 1
         /\ \A k \in 1 .. Len(s) : Append(s, v)[k] = s[k]
         /\ Append(s, v)[Len(s) + 1] = v
<1>1. /\ Append(s, v) \in Seq(S) /\ Len(Append(s, v)) = Len(s) + 1
      /\ \A k \in 1 .. Len(s) : Append(s, v)[k] = s[k]
      /\ Append(s, v)[Len(s) + 1] = v
  BY AppendProperties
<1>2. QED
  BY <1>1, NoElements

(* A tail, place by place. *)
LEMMA TailElements ==
  ASSUME NEW S, NEW s \in Seq(S), s # <<>>
  PROVE  /\ Tail(s) \in Seq(S)
         /\ Len(Tail(s)) = Len(s) - 1
         /\ \A k \in 1 .. Len(s) - 1 : Tail(s)[k] = s[k + 1]
         /\ Head(s) = s[1]
BY HeadTailProperties

(* Queues of one and of two elements. *)
LEMMA ShortQueues ==
  ASSUME NEW v, NEW w
  PROVE  /\ Append(<<>>, v) = <<v>> /\ Append(<<v>>, w) = <<v, w>>
         /\ Tail(<<v>>) = <<>> /\ Tail(<<v, w>>) = <<w>>
         /\ <<v>> # <<>> /\ <<v, w>> # <<>>
<1>1. <<v>> \in Seq({v, w}) /\ w \in {v, w} /\ Len(<<v>>) = 1 /\ <<v>>[1] = v
  OBVIOUS
<1>2. /\ Append(<<v>>, w) \in Seq({v, w}) /\ Len(Append(<<v>>, w)) = 2
      /\ Append(<<v>>, w)[1] = v /\ Append(<<v>>, w)[2] = w
  BY <1>1, AppendProperties
<1>3. /\ <<v, w>> \in Seq({v, w}) /\ Len(<<v, w>>) = 2
      /\ <<v, w>>[1] = v /\ <<v, w>>[2] = w
  OBVIOUS
<1>4. \A i \in 1 .. 2 : Append(<<v>>, w)[i] = <<v, w>>[i]
  BY <1>2, <1>3
<1>5. Append(<<v>>, w) = <<v, w>>
  BY <1>2, <1>3, <1>4, SeqEqual
<1>6. Append(<<>>, v) = <<v>> /\ Tail(<<v>>) = <<>> /\ Tail(<<v, w>>) = <<w>>
  OBVIOUS
<1>7. <<v>> # <<>> /\ <<v, w>> # <<>>
  BY <1>1, <1>3, EmptySeq
<1>8. QED
  BY <1>5, <1>6, <1>7

(* Their elements are elements. *)
LEMMA ShortTypes ==
  ASSUME NEW S, NEW v, NEW w
  PROVE  (<<v>> \in Seq(S) <=> v \in S) /\ (<<v, w>> \in Seq(S) <=> v \in S /\ w \in S)
<1>1. v \in S => <<v>> \in Seq(S)
  OBVIOUS
<1>2. v \in S /\ w \in S => <<v, w>> \in Seq(S)
  OBVIOUS
<1>3. <<v>> \in Seq(S) => v \in S
  OBVIOUS
<1>4. <<v, w>> \in Seq(S) => v \in S /\ w \in S
  OBVIOUS
<1>5. QED
  BY <1>1, <1>2, <1>3, <1>4

-----------------------------------------------------------------------------
(* FIFO1, FIFO2 and SizedFIFO0.                                            *)

OneInv == One!TypeOK /\ One!HoldsQueue

TwoInv == Two!TypeOK /\ Two!HoldsQueue

(* All that can be in a FIFO of elements without bits. *)
Tokens == {CHOOSE x \in Data : TRUE}

ZeroInv == queue0 \in Seq(Tokens) /\ Len(queue0) <= p2depth /\ Zero!HoldsQueue

(* FIFO1 keeps its invariant.                                              *)
LEMMA OneStep == OneInv /\ [One!Next]_oneVars => OneInv'
<1> USE DEF OneInv, One!TypeOK, One!HoldsQueue, One!Contents, oneVars
<1>1. ASSUME OneInv, NEW RST \in BOOLEAN, NEW CLR \in BOOLEAN, NEW deq \in BOOLEAN,
             NEW v \in Data \cup {None}, One!Tick(RST, CLR, deq, v)
      PROVE  OneInv'
  <2> USE <1>1 DEF One!Tick, One!Control, One!LoadData, One!After, One!Legal, One!FULL_N
  <2>1. CASE RST \/ CLR
    <3>1. oneQueue' = <<>> /\ oneEmpty' = FALSE
      BY <2>1
    <3>2. QED
      BY <3>1, NoElements
  <2>2. CASE ~(RST \/ CLR) /\ v # None
    <3>1. v \in Data /\ oneEmpty' = TRUE /\ oneData' = v
      BY <2>2
    <3>2. (IF deq THEN Tail(oneQueue) ELSE oneQueue) = <<>>
      BY <2>2, ShortQueues
    <3>3. oneQueue' = <<v>>
      BY <2>2, <3>2, ShortQueues
    <3>4. oneQueue' \in Seq(Data)
      BY <3>1, <3>3, ShortTypes
    <3>5. QED
      BY <3>1, <3>3, <3>4
  <2>3. CASE ~(RST \/ CLR) /\ v = None
    <3>1. CASE deq
      <4>1. oneQueue = <<oneData>> /\ oneEmpty' = FALSE /\ oneData' = oneData
        BY <2>3, <3>1
      <4>2. oneQueue' = <<>>
        BY <2>3, <3>1, <4>1
      <4>3. QED
        BY <4>1, <4>2, NoElements
    <3>2. CASE ~deq
      BY <2>3, <3>2
    <3>3. QED
      BY <3>1, <3>2
  <2>4. QED
    BY <2>1, <2>2, <2>3
<1>2. ASSUME OneInv, UNCHANGED oneVars PROVE OneInv'
  BY <1>2
<1>3. QED
  BY <1>1, <1>2 DEF One!Next

(* FIFO2 keeps its invariant.                                              *)
LEMMA TwoStep == TwoInv /\ [Two!Next]_twoVars => TwoInv'
<1> USE DEF TwoInv, Two!TypeOK, Two!HoldsQueue, Two!Contents, twoVars
<1>1. ASSUME TwoInv, NEW RST \in BOOLEAN, NEW CLR \in BOOLEAN, NEW deq \in BOOLEAN,
             NEW v \in Data \cup {None}, Two!Tick(RST, CLR, deq, v)
      PROVE  TwoInv'
  <2> DEFINE selected == {w \in {v, twoData1, twoData0} :
                            \/ w = v /\ Two!d0di(v # None, deq)
                            \/ w = twoData1 /\ Two!d0d1(deq)
                            \/ w = twoData0 /\ Two!d0h(v # None, deq)}
  <2>1. /\ Two!Legal(twoEmpty, twoFull, deq, v)
        /\ Two!Control(RST, CLR, v # None, deq)
        /\ twoData0' \in IF \E w \in selected : selected = {w} THEN selected ELSE {None}
        /\ twoData1' = IF Two!d1di(v # None) THEN v ELSE twoData1
        /\ twoQueue' = Two!After(twoQueue, RST \/ CLR, deq, v)
    BY <1>1 DEF Two!Tick, Two!LoadData
  <2>2. twoData0' \in Data \cup {None} /\ twoData1' \in Data \cup {None}
    <3>1. selected \subseteq Data \cup {None}
      BY <1>1
    <3>2. QED
      BY <1>1, <2>1, <3>1
  <2> USE DEF Two!Control, Two!After, Two!Legal, Two!d0di, Two!d0d1, Two!d0h, Two!d1di
  <2>3. CASE RST \/ CLR
    <3>1. twoQueue' = <<>> /\ twoEmpty' = FALSE /\ twoFull' = TRUE
      BY <2>1, <2>3
    <3>2. QED
      BY <2>2, <3>1, NoElements
  <2>4. CASE ~(RST \/ CLR) /\ v # None /\ deq
    <3>1. v \in Data /\ twoEmpty = TRUE /\ UNCHANGED <<twoFull, twoEmpty>>
      BY <1>1, <2>1, <2>4
    <3>2. CASE twoFull
      <4>1. selected = {v}
        BY <2>4, <3>1, <3>2
      <4>2. twoData0' = v
        BY <2>1, <4>1
      <4>3. twoQueue = <<twoData0>> /\ twoQueue' = Append(Tail(twoQueue), v)
        BY <1>1, <2>1, <2>4, <3>1, <3>2
      <4>4. twoQueue' = <<v>> /\ twoQueue' \in Seq(Data)
        BY <3>1, <4>3, ShortQueues, ShortTypes
      <4>5. QED
        BY <2>2, <3>1, <3>2, <4>2, <4>4
    <3>3. CASE ~twoFull
      <4>1. selected = {twoData1}
        BY <2>4, <3>1, <3>3
      <4>2. twoData0' = twoData1 /\ twoData1' = v
        BY <2>1, <2>4, <3>1, <4>1
      <4>3. twoQueue' = <<twoData1, v>> /\ twoQueue' \in Seq(Data)
        <5>1. twoQueue = <<twoData0, twoData1>> /\ twoQueue \in Seq(Data)
          BY <1>1, <3>1, <3>3
        <5>2. twoQueue' = Append(Tail(twoQueue), v)
          BY <2>1, <2>4
        <5>3. Tail(twoQueue) = <<twoData1>> /\ twoData1 \in Data
          BY <5>1, ShortQueues, ShortTypes
        <5>4. twoQueue' = <<twoData1, v>>
          BY <5>2, <5>3, ShortQueues
        <5>5. QED
          BY <3>1, <5>3, <5>4, ShortTypes
      <4>4. QED
        BY <1>1, <2>2, <3>1, <3>3, <4>2, <4>3
    <3>4. QED
      BY <3>2, <3>3
  <2>5. CASE ~(RST \/ CLR) /\ v # None /\ ~deq
    <3>1. v \in Data /\ twoFull = TRUE /\ twoEmpty' = TRUE /\ twoFull' = ~twoEmpty
      BY <1>1, <2>1, <2>5
    <3>2. CASE twoEmpty
      <4>1. selected = {twoData0}
        BY <2>5, <3>1, <3>2
      <4>2. twoData0' = twoData0 /\ twoData1' = v
        BY <2>1, <2>5, <3>2, <4>1
      <4>3. twoQueue = <<twoData0>> /\ twoQueue' = Append(twoQueue, v)
        BY <1>1, <2>1, <2>5, <3>1, <3>2
      <4>4. twoQueue' = <<twoData0, v>> /\ twoQueue' \in Seq(Data)
        <5>1. twoQueue' = <<twoData0, v>> /\ twoData0 \in Data
          BY <1>1, <4>3, ShortQueues, ShortTypes
        <5>2. QED
          BY <3>1, <5>1, ShortTypes
      <4>5. QED
        BY <2>2, <3>1, <3>2, <4>2, <4>4
    <3>3. CASE ~twoEmpty
      <4>1. selected = {v}
        BY <2>5, <3>1, <3>3
      <4>2. twoData0' = v
        BY <2>1, <4>1
      <4>3. twoQueue = <<>> /\ twoQueue' = Append(twoQueue, v)
        BY <1>1, <2>1, <2>5, <3>3
      <4>4. twoQueue' = <<v>> /\ twoQueue' \in Seq(Data)
        BY <3>1, <4>3, ShortQueues, ShortTypes
      <4>5. QED
        BY <2>2, <3>1, <3>3, <4>2, <4>4
    <3>4. QED
      BY <3>2, <3>3
  <2>6. CASE ~(RST \/ CLR) /\ v = None /\ deq
    <3>1. twoEmpty = TRUE /\ twoFull' = TRUE /\ twoEmpty' = ~twoFull /\ twoQueue' = Tail(twoQueue)
      BY <1>1, <2>1, <2>6
    <3>2. CASE twoFull
      <4>1. twoQueue' = <<>>
        BY <1>1, <3>1, <3>2, ShortQueues
      <4>2. QED
        BY <2>2, <3>1, <3>2, <4>1, NoElements
    <3>3. CASE ~twoFull
      <4>1. selected = {twoData1}
        BY <2>6, <3>1, <3>3
      <4>2. twoData0' = twoData1
        BY <2>1, <4>1
      <4>3. twoQueue' = <<twoData1>> /\ twoQueue' \in Seq(Data)
        <5>1. twoQueue = <<twoData0, twoData1>>
          BY <1>1, <3>1, <3>3
        <5>2. QED
          BY <1>1, <3>1, <5>1, ShortQueues, ShortTypes
      <4>4. QED
        BY <2>2, <3>1, <3>3, <4>2, <4>3
    <3>4. QED
      BY <3>2, <3>3
  <2>7. CASE ~(RST \/ CLR) /\ v = None /\ ~deq
    <3>1. UNCHANGED <<twoFull, twoEmpty, twoQueue, twoData1>>
      BY <2>1, <2>7
    <3>2. selected = {twoData0}
      BY <2>7
    <3>3. twoData0' = twoData0
      BY <2>1, <3>2
    <3>4. QED
      BY <1>1, <3>1, <3>3
  <2>8. QED
    BY <2>3, <2>4, <2>5, <2>6, <2>7
<1>2. ASSUME TwoInv, UNCHANGED twoVars PROVE TwoInv'
  BY <1>2
<1>3. QED
  BY <1>1, <1>2 DEF Two!Next

(* The same, with the flags as formulas. *)
ZeroFlags ==
  /\ queue0 \in Seq(Tokens) /\ Len(queue0) \in 0 .. p2depth /\ count0 = Len(queue0)
  /\ not_empty \in BOOLEAN /\ (not_empty <=> Len(queue0) # 0)
  /\ not_full \in BOOLEAN /\ (not_full <=> Len(queue0) < p2depth)

(* A flag that equals a formula. *)
LEMMA Flag == \A b \in BOOLEAN : \A x : x = b <=> (x \in BOOLEAN /\ (x <=> b))
OBVIOUS

(* The flags of SizedFIFO0, as formulas.                                   *)
LEMMA ZeroFlagsFormulas == ZeroInv <=> ZeroFlags
<1>1. queue0 \in Seq(Tokens) => Len(queue0) \in Nat /\ (queue0 # <<>> <=> Len(queue0) # 0)
  BY NoElements
<1>2. not_empty = (queue0 # <<>>) <=> not_empty \in BOOLEAN /\ (not_empty <=> queue0 # <<>>)
  OBVIOUS
<1>3. ASSUME NEW n \in Nat
      PROVE  not_full = (n < p2depth) <=> not_full \in BOOLEAN /\ (not_full <=> n < p2depth)
  <2>1. (n < p2depth) \in BOOLEAN
    BY DepthAssumption
  <2>2. QED
    BY <2>1, Flag
<1>4. QED
  BY <1>1, <1>2, <1>3, DepthAssumption, SMTT(30) DEF ZeroInv, Zero!HoldsQueue, ZeroFlags

(* SizedFIFO0 keeps its invariant.                                         *)
LEMMA ZeroStep == ZeroInv /\ [Zero!Next]_zeroVars => ZeroInv'
<1> USE DepthAssumption
<1>1. ASSUME ZeroFlags, NEW RST \in BOOLEAN, NEW CLR \in BOOLEAN, NEW deq \in BOOLEAN,
             NEW v \in Tokens \cup {None}, Zero!Tick(RST, CLR, deq, v)
      PROVE  ZeroFlags'
  <2> USE DEF Zero!Tick, Zero!MoveControl, Zero!ClearControl, Zero!Enq, Zero!Deq, Zero!After, Zero!Legal
  <2>1. queue0 # <<>> <=> Len(queue0) # 0
    BY <1>1, NoElements DEF ZeroFlags
  <2>2. CASE RST \/ CLR
    <3>1. count0' = 0 /\ not_empty' = FALSE /\ not_full' = TRUE
      BY <1>1, <2>2
    <3>2. queue0' = <<>>
      BY <1>1, <2>2
    <3>3. queue0' \in Seq(Tokens) /\ Len(queue0') = 0
      BY <3>2, NoElements
    <3>4. Len(queue0') \in 0 .. p2depth /\ count0' = Len(queue0')
      BY <3>1, <3>3
    <3>5. not_empty' \in BOOLEAN /\ (not_empty' <=> Len(queue0') # 0)
      BY <3>1, <3>3
    <3>6. not_full' \in BOOLEAN /\ (not_full' <=> Len(queue0') < p2depth)
      BY <3>1, <3>3
    <3>7. QED
      BY <3>3, <3>4, <3>5, <3>6 DEF ZeroFlags
  <2>3. CASE ~(RST \/ CLR) /\ v # None /\ deq
    <3>1. /\ queue0 # <<>> /\ queue0' = Append(Tail(queue0), v)
          /\ UNCHANGED <<count0, not_empty, not_full>>
      BY <1>1, <2>1, <2>3 DEF ZeroFlags
    <3>2. Tail(queue0) \in Seq(Tokens) /\ Len(Tail(queue0)) = Len(queue0) - 1
      BY <1>1, <3>1, TailElements DEF ZeroFlags
    <3>3. queue0' \in Seq(Tokens) /\ Len(queue0') = Len(queue0)
      BY <1>1, <2>3, <3>1, <3>2, AppendedElements DEF ZeroFlags
    <3>4. Len(queue0') \in 0 .. p2depth /\ count0' = Len(queue0')
      BY <1>1, <3>1, <3>3 DEF ZeroFlags
    <3>5. not_empty' \in BOOLEAN /\ (not_empty' <=> Len(queue0') # 0)
      BY <1>1, <3>1, <3>3 DEF ZeroFlags
    <3>6. not_full' \in BOOLEAN /\ (not_full' <=> Len(queue0') < p2depth)
      BY <1>1, <3>1, <3>3 DEF ZeroFlags
    <3>7. QED
      BY <3>3, <3>4, <3>5, <3>6 DEF ZeroFlags
  <2>4. CASE ~(RST \/ CLR) /\ v # None /\ ~deq
    <3>1. not_full /\ not_empty' = TRUE /\ not_full' = (count0 # p2depth - 1) /\ count0' = count0 + 1
      BY <1>1, <2>4
    <3>2. queue0' = Append(queue0, v)
      BY <1>1, <2>4
    <3>3. queue0' \in Seq(Tokens) /\ Len(queue0') = Len(queue0) + 1
      BY <1>1, <2>4, <3>2, AppendedElements DEF ZeroFlags
    <3>4. Len(queue0') \in 0 .. p2depth /\ count0' = Len(queue0')
      BY <1>1, <3>1, <3>3 DEF ZeroFlags
    <3>5. not_empty' \in BOOLEAN /\ (not_empty' <=> Len(queue0') # 0)
      BY <1>1, <3>1, <3>3 DEF ZeroFlags
    <3>6. not_full' \in BOOLEAN /\ (not_full' <=> Len(queue0') < p2depth)
      <4>1. not_full' \in BOOLEAN /\ (not_full' <=> count0 # p2depth - 1)
        BY <3>1, Flag
      <4>2. QED
        BY <1>1, <3>1, <3>3, <4>1 DEF ZeroFlags
    <3>7. QED
      BY <3>3, <3>4, <3>5, <3>6 DEF ZeroFlags
  <2>5. CASE ~(RST \/ CLR) /\ v = None /\ deq
    <3>1. not_full' = TRUE /\ not_empty' = (count0 # 1) /\ count0' = count0 - 1
      BY <1>1, <2>1, <2>5 DEF ZeroFlags
    <3>2. queue0 # <<>> /\ queue0' = Tail(queue0) /\ Len(queue0) # 0
      BY <1>1, <2>1, <2>5 DEF ZeroFlags
    <3>3. queue0' \in Seq(Tokens) /\ Len(queue0') = Len(queue0) - 1 /\ Len(queue0) # 0
      BY <1>1, <3>2, TailElements DEF ZeroFlags
    <3>4. Len(queue0') \in 0 .. p2depth /\ count0' = Len(queue0')
      BY <1>1, <3>1, <3>3 DEF ZeroFlags
    <3>5. not_empty' \in BOOLEAN /\ (not_empty' <=> Len(queue0') # 0)
      <4>1. not_empty' \in BOOLEAN /\ (not_empty' <=> count0 # 1)
        BY <3>1, Flag
      <4>2. QED
        BY <1>1, <3>1, <3>3, <4>1 DEF ZeroFlags
    <3>6. not_full' \in BOOLEAN /\ (not_full' <=> Len(queue0') < p2depth)
      BY <1>1, <3>1, <3>3 DEF ZeroFlags
    <3>7. QED
      BY <3>3, <3>4, <3>5, <3>6 DEF ZeroFlags
  <2>6. CASE ~(RST \/ CLR) /\ v = None /\ ~deq
    <3>1. UNCHANGED zeroVars
      BY <1>1, <2>6 DEF zeroVars
    <3>2. QED
      BY <1>1, <3>1 DEF zeroVars, ZeroFlags
  <2>7. QED
    BY <2>2, <2>3, <2>4, <2>5, <2>6
<1>2. ASSUME ZeroFlags, UNCHANGED zeroVars PROVE ZeroFlags'
  BY <1>2 DEF ZeroFlags, zeroVars
<1>3. ZeroFlags /\ [Zero!Next]_zeroVars => ZeroFlags'
  BY <1>1, <1>2 DEF Zero!Next, Tokens
<1>4. (ZeroInv <=> ZeroFlags) /\ (ZeroInv <=> ZeroFlags)'
  BY ZeroFlagsFormulas, PTL
<1>5. QED
  BY <1>3, <1>4

-----------------------------------------------------------------------------
(* MOD_Fifo.  Within a cycle the array holds what the calls so far make of *)
(* the queue from before them: all of it while writes are suppressed.      *)

(* The place k behind f, without the remainder. *)
Place(f, k) == IF f + k < size THEN f + k ELSE f + k - size

(* Places are distinct, and one step moves each to the next.               *)
LEMMA Places ==
  ASSUME NEW f \in 0 .. size - 1
  PROVE  /\ \A k \in 0 .. size : (f + k) % size = Place(f, k) /\ Place(f, k) \in 0 .. size - 1
         /\ \A j, k \in 0 .. size - 1 : Place(f, j) = Place(f, k) => j = k
         /\ \A k \in 0 .. size - 1 : Place(Place(f, 1), k) = Place(f, k + 1) \/ k = size - 1
         /\ Place(f, 0) = f
BY FifoAssumption DEF Place

(* The array d, of which the place f is the first, holds s. *)
Stores(d, f, s) ==
  /\ d \in [0 .. size - 1 -> Data \cup {None}] /\ f \in 0 .. size - 1
  /\ s \in Seq(Data) /\ Len(s) \in 0 .. size
  /\ \A k \in 1 .. Len(s) : s[k] = d[Place(f, k - 1)]

(* An empty queue is held at any first place.                              *)
LEMMA StoresNothing ==
  ASSUME NEW d \in [0 .. size - 1 -> Data \cup {None}], NEW f \in 0 .. size - 1
  PROVE  Stores(d, f, <<>>) /\ Len(<<>>) = 0
<1>1. <<>> \in Seq(Data) /\ Len(<<>>) = 0
  BY NoElements
<1>2. \A k \in 1 .. 0 : FALSE
  OBVIOUS
<1>3. QED
  BY <1>1, <1>2, FifoAssumption DEF Stores

(* A dequeue moves the first place.                                        *)
LEMMA StoresTail ==
  ASSUME NEW d, NEW f, NEW s, Stores(d, f, s), s # <<>>
  PROVE  Stores(d, (f + 1) % size, Tail(s)) /\ Len(Tail(s)) = Len(s) - 1
<1> DEFINE t == Tail(s)
<1>1. /\ t \in Seq(Data) /\ Len(t) = Len(s) - 1
      /\ \A k \in 1 .. Len(s) - 1 : t[k] = s[k + 1]
  BY TailElements DEF Stores
<1>2. Len(s) \in 1 .. size /\ (f + 1) % size = Place(f, 1) /\ Place(f, 1) \in 0 .. size - 1
  <2>1. f \in 0 .. size - 1 /\ Len(s) \in 1 .. size /\ 1 \in 0 .. size
    BY NoElements, FifoAssumption DEF Stores
  <2>2. QED
    BY <2>1, Places
<1> HIDE DEF t
<1>3. ASSUME NEW k \in 1 .. Len(t) PROVE t[k] = d[Place(Place(f, 1), k - 1)]
  <2>1. Place(Place(f, 1), k - 1) = Place(f, k)
    BY <1>1, <1>2, Places, FifoAssumption DEF Stores
  <2>2. t[k] = s[k + 1] /\ k + 1 \in 1 .. Len(s) /\ k + 1 - 1 = k
    BY <1>1, <1>2
  <2>3. s[k + 1] = d[Place(f, k + 1 - 1)]
    BY <2>2 DEF Stores
  <2>4. QED
    BY <2>1, <2>2, <2>3
<1>4. Stores(d, Place(f, 1), t)
  BY <1>1, <1>2, <1>3, FifoAssumption DEF Stores
<1>5. QED
  BY <1>1, <1>2, <1>4 DEF t

(* An enqueue writes the place behind the last.                            *)
LEMMA StoresAppend ==
  ASSUME NEW d, NEW f, NEW s, Stores(d, f, s), Len(s) < size, NEW x \in Data
  PROVE  /\ Stores([d EXCEPT ![(f + Len(s)) % size] = x], f, Append(s, x))
         /\ Len(Append(s, x)) = Len(s) + 1
<1> DEFINE t == Append(s, x)
           e == [d EXCEPT ![(f + Len(s)) % size] = x]
           n == Len(s)
<1>1. /\ t \in Seq(Data) /\ Len(t) = n + 1 /\ t[n + 1] = x
      /\ \A k \in 1 .. n : t[k] = s[k]
  BY AppendedElements DEF Stores
<1>0. f \in 0 .. size - 1 /\ n \in 0 .. size - 1 /\ n \in 0 .. size
  BY FifoAssumption DEF Stores
<1>2. n \in 0 .. size - 1 /\ (f + n) % size = Place(f, n) /\ Place(f, n) \in 0 .. size - 1
  BY <1>0, Places
<1>3. /\ e \in [0 .. size - 1 -> Data \cup {None}] /\ e[Place(f, n)] = x
      /\ \A p \in 0 .. size - 1 : p # Place(f, n) => e[p] = d[p]
  BY <1>2 DEF Stores
<1> HIDE DEF t, e
<1>4. ASSUME NEW k \in 1 .. n + 1 PROVE t[k] = e[Place(f, k - 1)]
  <2>1. CASE k = n + 1
    BY <1>1, <1>2, <1>3, <2>1
  <2>2. CASE k # n + 1
    <3>1. k \in 1 .. n /\ k - 1 \in 0 .. size - 1 /\ k - 1 # n /\ k - 1 \in 0 .. size
      BY <1>0, <2>2, FifoAssumption
    <3>2. Place(f, k - 1) # Place(f, n) /\ Place(f, k - 1) \in 0 .. size - 1
      BY <1>0, <3>1, Places
    <3>3. QED
      BY <1>1, <1>3, <3>1, <3>2 DEF Stores
  <2>3. QED
    BY <2>1, <2>2
<1>5. Stores(e, f, t)
  BY <1>1, <1>2, <1>3, <1>4, FifoAssumption DEF Stores
<1>6. QED
  BY <1>1, <1>5 DEF t, e

(* The test bench overwrites an element in its place.                      *)
LEMMA StoresWritten ==
  ASSUME NEW d, NEW f, NEW s, Stores(d, f, s), NEW addr \in 1 .. Len(s), NEW x \in Data
  PROVE  /\ Stores([d EXCEPT ![(f + addr - 1) % size] = x], f, [s EXCEPT ![addr] = x])
         /\ Len([s EXCEPT ![addr] = x]) = Len(s)
<1> DEFINE t == [s EXCEPT ![addr] = x]
           e == [d EXCEPT ![(f + addr - 1) % size] = x]
<1>1. /\ t \in Seq(Data) /\ Len(t) = Len(s) /\ t[addr] = x
      /\ \A k \in 1 .. Len(s) : k # addr => t[k] = s[k]
  BY ExceptSeq DEF Stores
<1>0. f \in 0 .. size - 1 /\ addr \in Int /\ addr - 1 \in 0 .. size - 1 /\ addr - 1 \in 0 .. size
  BY FifoAssumption DEF Stores
<1>2. addr - 1 \in 0 .. size - 1 /\ (f + addr - 1) % size = Place(f, addr - 1)
  <2>1. f + addr - 1 = f + (addr - 1)
    BY <1>0
  <2>2. QED
    BY <1>0, <2>1, Places
<1>3. /\ e \in [0 .. size - 1 -> Data \cup {None}] /\ e[Place(f, addr - 1)] = x
      /\ \A p \in 0 .. size - 1 : p # Place(f, addr - 1) => e[p] = d[p]
  <2>1. Place(f, addr - 1) \in 0 .. size - 1
    BY <1>0, Places
  <2>2. QED
    BY <1>2, <2>1 DEF Stores
<1> HIDE DEF t, e
<1>4. ASSUME NEW k \in 1 .. Len(s) PROVE t[k] = e[Place(f, k - 1)]
  <2>1. CASE k = addr
    BY <1>1, <1>3, <2>1
  <2>2. CASE k # addr
    <3>1. k - 1 \in 0 .. size - 1 /\ k - 1 # addr - 1 /\ k - 1 \in 0 .. size
      BY <1>0, <2>2, FifoAssumption DEF Stores
    <3>2. Place(f, k - 1) # Place(f, addr - 1) /\ Place(f, k - 1) \in 0 .. size - 1
      BY <1>0, <3>1, Places
    <3>3. QED
      BY <1>1, <1>3, <2>2, <3>2 DEF Stores
  <2>3. QED
    BY <2>1, <2>2
<1>5. Stores(e, f, t)
  BY <1>1, <1>3, <1>4 DEF Stores
<1>6. QED
  BY <1>1, <1>5 DEF t, e

(* "Normal FIFOs have enq CF deq" (bs_prim_mod_fifo.h:118). *)
LEMMA TailOfAppend ==
  ASSUME NEW s \in Seq(Data), s # <<>>, NEW x \in Data
  PROVE  Tail(Append(s, x)) = Append(Tail(s), x)
<1> DEFINE t == Tail(Append(s, x))
           u == Append(Tail(s), x)
<1>1. /\ Append(s, x) \in Seq(Data) /\ Append(s, x) # <<>> /\ Len(Append(s, x)) = Len(s) + 1
      /\ \A k \in 1 .. Len(s) : Append(s, x)[k] = s[k]
      /\ Append(s, x)[Len(s) + 1] = x
  BY AppendedElements
<1>2. /\ Tail(s) \in Seq(Data) /\ Len(Tail(s)) = Len(s) - 1
      /\ \A k \in 1 .. Len(s) - 1 : Tail(s)[k] = s[k + 1]
  BY TailElements
<1>3. /\ t \in Seq(Data) /\ Len(t) = Len(Append(s, x)) - 1
      /\ \A k \in 1 .. Len(Append(s, x)) - 1 : t[k] = Append(s, x)[k + 1]
  BY <1>1, TailElements
<1>4. /\ u \in Seq(Data) /\ Len(u) = Len(Tail(s)) + 1 /\ u[Len(Tail(s)) + 1] = x
      /\ \A k \in 1 .. Len(Tail(s)) : u[k] = Tail(s)[k]
  BY <1>2, AppendedElements
<1> HIDE DEF t, u
<1>5. Len(s) \in Nat \ {0}
  BY NoElements
<1>6. Len(t) = Len(s) /\ Len(u) = Len(s)
  BY <1>1, <1>2, <1>3, <1>4, <1>5
<1>7. ASSUME NEW k \in 1 .. Len(s) PROVE t[k] = u[k]
  <2>1. CASE k = Len(s)
    BY <1>1, <1>2, <1>3, <1>4, <1>5, <2>1
  <2>2. CASE k # Len(s)
    <3>1. k \in 1 .. Len(s) - 1 /\ k + 1 \in 1 .. Len(s)
      BY <1>5, <2>2
    <3>2. t[k] = s[k + 1] /\ u[k] = s[k + 1]
      BY <1>1, <1>2, <1>3, <1>4, <1>5, <3>1
    <3>3. QED
      BY <3>2
  <2>3. QED
    BY <2>1, <2>2
<1>8. t = u
  BY <1>3, <1>4, <1>6, <1>7, SeqEqual
<1>9. QED
  BY <1>8 DEF t, u

(* What the calls so far make of the queue. *)
Now == IF suppress_writes THEN <<>> ELSE Fifo!After(fifoQueue, clrd, deqd, enqd)

FifoInv ==
  /\ fifoQueue \in Seq(Data) /\ Len(fifoQueue) \in 0 .. size
  /\ fifoReset \in BOOLEAN /\ suppress_writes \in BOOLEAN
  /\ deqd \in BOOLEAN /\ clrd \in BOOLEAN /\ enqd \in Data \cup {None}
  /\ enq_at \in BOOLEAN /\ deq_at \in BOOLEAN /\ clear_at \in BOOLEAN
  /\ ~warned
  /\ suppress_writes => fifoReset /\ fifoQueue = <<>>
  /\ deq_at <=> deqd /\ ~suppress_writes
  /\ enq_at <=> enqd # None /\ ~suppress_writes
  /\ clear_at <=> clrd /\ ~suppress_writes
  /\ deqd => fifoQueue # <<>>
  /\ enq_at \/ deq_at \/ clear_at => saved_elems = Len(fifoQueue)
  /\ Stores(data, fst, Now) /\ elems = Len(Now)

(* The queue before, and after, the calls. *)
LEMMA NowLength ==
  ASSUME FifoInv
  PROVE  /\ ~suppress_writes /\ ~clrd /\ ~deqd /\ enqd = None => Now = fifoQueue
         /\ ~clrd => Len(Now) = Len(fifoQueue) - (IF deqd THEN 1 ELSE 0)
                                + (IF enqd # None /\ ~suppress_writes THEN 1 ELSE 0)
         /\ suppress_writes \/ clrd => Len(Now) = 0
         /\ fifoQueue # <<>> <=> Len(fifoQueue) # 0
<1> USE DEF Now, Fifo!After
<1>1. Len(fifoQueue) \in Nat /\ (fifoQueue # <<>> <=> Len(fifoQueue) # 0) /\ Len(<<>>) = 0
  BY NoElements DEF FifoInv
<1>2. CASE suppress_writes
  BY <1>1, <1>2 DEF FifoInv
<1>3. CASE ~suppress_writes /\ clrd
  BY <1>1, <1>3 DEF FifoInv
<1>4. CASE ~suppress_writes /\ ~clrd
  <2> DEFINE rest == IF deqd THEN Tail(fifoQueue) ELSE fifoQueue
  <2>1. rest \in Seq(Data) /\ Len(rest) = Len(fifoQueue) - (IF deqd THEN 1 ELSE 0)
    BY <1>1, TailElements DEF FifoInv
  <2>2. /\ enqd = None => Now = rest
        /\ enqd # None => Now = Append(rest, enqd) /\ enqd \in Data
    BY <1>4 DEF FifoInv
  <2>3. ~deqd /\ enqd = None => Now = fifoQueue
    BY <1>4
  <2> HIDE DEF rest, Now
  <2>4. Len(rest) \in Nat /\ (enqd # None => Len(Now) = Len(rest) + 1)
    BY <2>1, <2>2, AppendedElements
  <2>5. CASE enqd = None
    BY <1>1, <1>4, <2>1, <2>2, <2>3, <2>4, <2>5
  <2>6. CASE enqd # None
    BY <1>1, <1>4, <2>1, <2>3, <2>4, <2>6
  <2>7. QED
    BY <2>5, <2>6
<1>5. QED
  BY <1>2, <1>3, <1>4 DEF FifoInv

(* What the implicit conditions tell of a FIFO that was not cleared. *)
LEMMA LevelTells ==
  ASSUME FifoInv, ~clrd
  PROVE  /\ ~Fifo!LOOPY => Fifo!Level = Len(fifoQueue)
         /\ Fifo!LOOPY => Fifo!Level = Len(Now)
BY NowLength DEF FifoInv, Fifo!Level

(* A call of deq keeps the invariant of MOD_Fifo, ...                      *)
LEMMA FifoDeqStep ==
  ASSUME FifoInv, guard = TRUE, Fifo!CallDeq
  PROVE  FifoInv'
<1>1. /\ ~deqd /\ ~clrd /\ (Fifo!LOOPY => enqd = None)
      /\ Fifo!Level # 0 /\ deqd' = TRUE
      /\ UNCHANGED <<fifoReset, suppress_writes, fifoQueue, enqd, clrd>>
  BY DEF Fifo!CallDeq, Fifo!METH_i_notEmpty, Fifo!reset
<1>2. ~suppress_writes /\ fifoQueue # <<>> /\ Len(fifoQueue) # 0
  BY <1>1, LevelTells, NowLength DEF FifoInv
<1>3. elems = Len(Now) /\ elems # 0 /\ Now # <<>>
  <2>1. Len(Now) # 0
    BY <1>1, <1>2, NowLength DEF FifoInv
  <2>2. QED
    BY <2>1, NoElements DEF FifoInv
<1>4. saved_elems' = Len(fifoQueue)
  BY <1>1, <1>2, <1>3, NowLength DEF FifoInv, Fifo!CallDeq, Fifo!METH_deq, Fifo!SaveBefore
<1>5. /\ deq_at' = TRUE /\ UNCHANGED <<data, enq_at, clear_at>>
      /\ ~warned' /\ fst' = (fst + 1) % size /\ elems' = elems - 1
  BY <1>1, <1>2, <1>3, <1>4 DEF FifoInv, Fifo!CallDeq, Fifo!METH_deq
<1>6. Now' = Tail(Now)
  <2>1. Now = IF enqd = None THEN fifoQueue ELSE Append(fifoQueue, enqd)
    BY <1>1, <1>2 DEF Now, Fifo!After
  <2>2. Now' = IF enqd = None THEN Tail(fifoQueue) ELSE Append(Tail(fifoQueue), enqd)
    BY <1>1, <1>2 DEF Now, Fifo!After, FifoInv
  <2>3. QED
    BY <1>2, <2>1, <2>2, TailOfAppend DEF FifoInv
<1>7. Stores(data, (fst + 1) % size, Tail(Now)) /\ Len(Tail(Now)) = Len(Now) - 1
  BY <1>3, StoresTail DEF FifoInv
<1>8. Stores(data, fst, Now)' /\ elems' = Len(Now')
  BY <1>3, <1>5, <1>6, <1>7
<1>9. QED
  BY <1>1, <1>2, <1>4, <1>5, <1>8 DEF FifoInv

(* ... one of enq, ...                                                     *)
LEMMA FifoEnqStep ==
  ASSUME FifoInv, guard = TRUE, NEW x \in Data, Fifo!CallEnq(x)
  PROVE  FifoInv'
<1>1. /\ enqd = None /\ ~clrd /\ Fifo!Level < size /\ enqd' = x /\ x # None
      /\ UNCHANGED <<fifoReset, suppress_writes, fifoQueue, deqd, clrd>>
  BY ElementAssumption DEF Fifo!CallEnq, Fifo!METH_i_notFull, Fifo!reset
<1>2. CASE suppress_writes
  <2>1. UNCHANGED <<data, fst, elems, saved_elems, enq_at, deq_at, clear_at, warned>> /\ Now' = Now
    BY <1>1, <1>2 DEF Fifo!CallEnq, Fifo!METH_enq, Fifo!store, Fifo!stamp, Now
  <2>2. QED
    BY <1>1, <1>2, <2>1 DEF FifoInv
<1>3. CASE ~suppress_writes
  <2>1. elems = Len(Now) /\ Len(Now) < size
    BY <1>1, <1>3, LevelTells, NowLength, FifoAssumption DEF FifoInv
  <2>2. saved_elems' = Len(fifoQueue)
    BY <1>1, <1>3, NowLength DEF FifoInv, Fifo!CallEnq, Fifo!METH_enq, Fifo!SaveBefore
  <2>3. ~Fifo!EnqError
    BY <1>1, <1>3, <2>1, <2>2, LevelTells, FifoAssumption DEF FifoInv, Fifo!EnqError
  <2>4. /\ enq_at' = TRUE /\ UNCHANGED <<fst, deq_at, clear_at>>
        /\ ~warned' /\ elems' = elems + 1
        /\ data' = [data EXCEPT ![(fst + elems) % size] = x]
    BY <1>3, <2>3 DEF FifoInv, Fifo!CallEnq, Fifo!METH_enq, Fifo!Last
  <2>5. Now' = Append(Now, x)
    BY <1>1, <1>3 DEF Now, Fifo!After
  <2>6. /\ Stores([data EXCEPT ![(fst + Len(Now)) % size] = x], fst, Append(Now, x))
        /\ Len(Append(Now, x)) = Len(Now) + 1
    BY <2>1, StoresAppend DEF FifoInv
  <2>7. Stores(data, fst, Now)' /\ elems' = Len(Now')
    BY <2>1, <2>4, <2>5, <2>6
  <2>8. QED
    BY <1>1, <1>3, <2>2, <2>4, <2>7 DEF FifoInv
<1>4. QED
  BY <1>2, <1>3 DEF FifoInv

(* ... one of clear, ...                                                   *)
LEMMA FifoClearStep ==
  ASSUME FifoInv, Fifo!CallClear
  PROVE  FifoInv'
<1>1. /\ ~clrd /\ clrd' = TRUE
      /\ UNCHANGED <<fifoReset, suppress_writes, fifoQueue, deqd, enqd>>
  BY DEF Fifo!CallClear, Fifo!reset
<1>2. CASE suppress_writes
  <2>1. UNCHANGED <<data, fst, elems, saved_elems, enq_at, deq_at, clear_at, warned>> /\ Now' = Now
    BY <1>1, <1>2 DEF Fifo!CallClear, Fifo!METH_clear, Fifo!store, Fifo!stamp, Now
  <2>2. QED
    BY <1>1, <1>2, <2>1 DEF FifoInv
<1>3. CASE ~suppress_writes
  <2>1. /\ clear_at' = TRUE /\ fst' = 0 /\ elems' = 0 /\ UNCHANGED <<data, enq_at, deq_at, warned>>
        /\ saved_elems' = IF enq_at \/ deq_at THEN saved_elems ELSE elems
    BY <1>3 DEF Fifo!CallClear, Fifo!METH_clear, Fifo!SaveBefore
  <2>2. saved_elems' = Len(fifoQueue)
    BY <1>1, <1>3, <2>1, NowLength DEF FifoInv
  <2>3. Now' = <<>>
    BY <1>1, <1>3 DEF Now, Fifo!After
  <2>4. Stores(data, 0, <<>>) /\ Len(<<>>) = 0
    <3>1. data \in [0 .. size - 1 -> Data \cup {None}] /\ 0 \in 0 .. size - 1
      BY FifoAssumption DEF FifoInv, Stores
    <3>2. QED
      BY <3>1, StoresNothing
  <2>5. Stores(data, fst, Now)' /\ elems' = Len(Now')
    BY <2>1, <2>3, <2>4
  <2>6. QED
    BY <1>1, <1>3, <2>1, <2>2, <2>5 DEF FifoInv
<1>4. QED
  BY <1>2, <1>3 DEF FifoInv

(* Between two cycles the array holds the queue. *)
LEMMA NowBetween ==
  ASSUME FifoInv, Fifo!Idle
  PROVE  Now = fifoQueue /\ ~enq_at /\ ~deq_at /\ ~clear_at
BY DEF Fifo!Idle, FifoInv, Now, Fifo!After

(* ... the end of the cycle, ...                                           *)
LEMMA FifoEndStep ==
  ASSUME FifoInv, Fifo!EndCycle
  PROVE  FifoInv'
<1>1. /\ fifoQueue' = Fifo!After(fifoQueue, fifoReset \/ clrd, deqd, enqd)
      /\ suppress_writes' = fifoReset /\ fifoReset' = fifoReset /\ warned' = warned /\ data' = data
      /\ enq_at' = FALSE /\ deq_at' = FALSE /\ clear_at' = FALSE
      /\ deqd' = FALSE /\ enqd' = None /\ clrd' = FALSE
  BY DEF Fifo!EndCycle
<1>2. CASE ~fifoReset
  <2>1. fifoQueue' = Now /\ fst' = fst /\ elems' = elems
    BY <1>1, <1>2 DEF FifoInv, Fifo!EndCycle, Now, Fifo!After
  <2>2. Now' = fifoQueue'
    BY <1>1, <1>2 DEF Now, Fifo!After
  <2>3. /\ Stores(data, fst, Now)' /\ elems' = Len(Now')
        /\ fifoQueue' \in Seq(Data) /\ Len(fifoQueue') \in 0 .. size
    BY <1>1, <2>1, <2>2 DEF FifoInv, Stores
  <2>4. QED
    BY <1>1, <1>2, <2>3 DEF FifoInv
<1>3. CASE fifoReset
  <2>1. fifoQueue' = <<>> /\ Now' = <<>>
    BY <1>1, <1>3 DEF Now, Fifo!After
  <2>2. /\ elems' = 0 /\ fst' \in 0 .. size - 1
        /\ data' \in [0 .. size - 1 -> Data \cup {None}]
    <3>1. suppress_writes => elems = 0
      BY NowLength DEF FifoInv
    <3>2. QED
      BY <1>1, <1>3, <3>1, FifoAssumption DEF FifoInv, Stores, Fifo!EndCycle
  <2>3. Stores(data', fst', <<>>) /\ Len(<<>>) = 0
    BY <2>2, StoresNothing
  <2>4. Stores(data, fst, Now)' /\ elems' = Len(Now')
    BY <2>1, <2>2, <2>3
  <2>5. fifoQueue' \in Seq(Data) /\ Len(fifoQueue') = 0
    BY <2>1, NoElements
  <2>6. Len(fifoQueue') \in 0 .. size
    BY <2>5, FifoAssumption
  <2>7. QED
    BY <1>1, <1>3, <2>1, <2>4, <2>5, <2>6 DEF FifoInv
<1>4. QED
  BY <1>2, <1>3 DEF FifoInv

(* ... a reset or its release, ...                                         *)
LEMMA FifoResetStep ==
  ASSUME FifoInv, Fifo!AssertReset \/ Fifo!ReleaseReset
  PROVE  FifoInv'
<1>1. /\ Fifo!Idle /\ Fifo!Idle' /\ fifoReset' \in BOOLEAN /\ suppress_writes' \in BOOLEAN
      /\ suppress_writes' => suppress_writes /\ fifoReset'
      /\ UNCHANGED <<data, fst, elems, saved_elems, enq_at, deq_at, clear_at, fifoQueue, deqd, enqd, clrd, warned>>
  <2> USE DEF Fifo!Idle, Fifo!store, Fifo!stamp, Fifo!calls, FifoInv
  <2>1. CASE Fifo!AssertReset
    BY <2>1 DEF Fifo!AssertReset
  <2>2. CASE Fifo!ReleaseReset
    BY <2>2 DEF Fifo!ReleaseReset
  <2>3. QED
    BY <2>1, <2>2
<1>2. Now = fifoQueue /\ ~enq_at /\ ~deq_at /\ ~clear_at
  BY <1>1, NowBetween
<1>3. Now' = fifoQueue
  BY <1>1 DEF Now, Fifo!After, Fifo!Idle, FifoInv
<1>4. QED
  BY <1>1, <1>2, <1>3 DEF FifoInv, Fifo!Idle

(* ... and a write by the test bench.                                      *)
LEMMA FifoProbeStep ==
  ASSUME FifoInv, NEW addr \in 0 .. size, NEW x \in Data, Fifo!ProbeWrite(addr, x)
  PROVE  FifoInv'
<1>1. /\ Fifo!Idle /\ ~fifoReset /\ ~suppress_writes
      /\ UNCHANGED <<fst, saved_elems, enq_at, deq_at, clear_at, fifoReset, suppress_writes, deqd, enqd, clrd, warned>>
  BY DEF Fifo!ProbeWrite, Fifo!stamp, Fifo!reset, Fifo!calls, FifoInv
<1>2. Now = fifoQueue /\ ~enq_at /\ ~deq_at /\ ~clear_at
  BY <1>1, NowBetween
<1>3. Now' = fifoQueue'
  BY <1>1 DEF Now, Fifo!After, Fifo!Idle
<1>4. Stores(data', fst, fifoQueue') /\ elems' = Len(fifoQueue')
  <2>1. Stores(data, fst, fifoQueue) /\ elems = Len(fifoQueue)
    BY <1>2 DEF FifoInv
  <2>2. CASE addr \in 1 .. elems
    <3>1. /\ data' = [data EXCEPT ![(fst + addr - 1) % size] = x]
          /\ fifoQueue' = [fifoQueue EXCEPT ![addr] = x] /\ elems' = elems
      BY <2>2 DEF Fifo!ProbeWrite
    <3>2. QED
      BY <2>1, <2>2, <3>1, StoresWritten
  <2>3. CASE addr \notin 1 .. elems
    <3>1. /\ elems < size /\ data' = [data EXCEPT ![(fst + elems) % size] = x]
          /\ fifoQueue' = Append(fifoQueue, x) /\ elems' = elems + 1
      BY <2>3 DEF Fifo!ProbeWrite, Fifo!Last
    <3>2. QED
      BY <2>1, <3>1, StoresAppend
  <2>4. QED
    BY <2>2, <2>3
<1>5. Stores(data, fst, Now)' /\ elems' = Len(Now') /\ fifoQueue' \in Seq(Data) /\ Len(fifoQueue') \in 0 .. size
  BY <1>1, <1>3, <1>4 DEF Stores
<1>6. QED
  BY <1>1, <1>2, <1>5 DEF FifoInv, Fifo!Idle

(* MOD_Fifo starts in its invariant, ...                                   *)
LEMMA FifoStarts == Fifo!Init => FifoInv
<1> SUFFICES ASSUME Fifo!Init PROVE FifoInv
  OBVIOUS
<1>1. /\ data \in [0 .. size - 1 -> Data \cup {None}] /\ fst \in 0 .. size - 1 /\ elems = 0
      /\ fifoQueue = <<>> /\ Now = <<>>
  BY FifoAssumption DEF Fifo!Init, Now, Fifo!After
<1>2. Stores(data, fst, <<>>) /\ Len(<<>>) = 0 /\ <<>> \in Seq(Data)
  BY <1>1, StoresNothing, NoElements
<1>3. Stores(data, fst, Now) /\ elems = Len(Now) /\ fifoQueue \in Seq(Data) /\ Len(fifoQueue) \in 0 .. size
  BY <1>1, <1>2 DEF Stores
<1>4. QED
  BY <1>1, <1>3 DEF FifoInv, Fifo!Init

(* ... stays in it, ...                                                    *)
LEMMA FifoStep ==
  ASSUME guard = TRUE, FifoInv, [Fifo!Next]_modVars
  PROVE  FifoInv'
<1>1. CASE UNCHANGED modVars
  BY <1>1 DEF modVars, FifoInv, Now
<1>2. ASSUME NEW x \in Data, Fifo!CallEnq(x) PROVE FifoInv'
  BY <1>2, FifoEnqStep
<1>3. ASSUME NEW addr \in 0 .. size, NEW x \in Data, Fifo!ProbeWrite(addr, x) PROVE FifoInv'
  BY <1>3, FifoProbeStep
<1>4. QED
  BY <1>1, <1>2, <1>3, FifoDeqStep, FifoClearStep, FifoEndStep, FifoResetStep DEF Fifo!Next

(* ... and in it holds the queue of the Verilog.                           *)
LEMMA FifoInvComposes == FifoInv => CyclesCompose
<1> SUFFICES ASSUME FifoInv, Fifo!Idle PROVE Fifo!Contents = fifoQueue
  BY DEF CyclesCompose, Fifo!CyclesCompose
<1>1. Stores(data, fst, fifoQueue) /\ elems = Len(fifoQueue)
  BY NowBetween DEF FifoInv
<1>2. \A k \in 1 .. elems : fifoQueue[k] = data[(fst + k - 1) % size]
  <2> SUFFICES ASSUME NEW k \in 1 .. elems PROVE fifoQueue[k] = data[(fst + k - 1) % size]
    OBVIOUS
  <2>1. k - 1 \in 0 .. size /\ fst \in 0 .. size - 1 /\ fst + k - 1 = fst + (k - 1)
    BY <1>1, FifoAssumption DEF Stores
  <2>2. (fst + (k - 1)) % size = Place(fst, k - 1)
    BY <2>1, Places
  <2>3. QED
    BY <1>1, <2>1, <2>2 DEF Stores
<1>3. fifoQueue \in Seq(Data) /\ DOMAIN fifoQueue = 1 .. elems
  BY <1>1 DEF Stores
<1>4. fifoQueue = [k \in 1 .. elems |-> fifoQueue[k]]
  BY <1>3
<1>5. QED
  BY <1>2, <1>4 DEF Fifo!Contents

(* Its conditions, its first and its warnings follow from it too.          *)
LEMMA FifoInvAnswers == FifoInv => Fifo!ConditionsSteady /\ Fifo!FirstSteady /\ Fifo!LegalNeverWarned
<1> SUFFICES ASSUME FifoInv PROVE Fifo!ConditionsSteady /\ Fifo!FirstSteady /\ Fifo!LegalNeverWarned
  OBVIOUS
<1>1. Fifo!ConditionsSteady
  <2>1. ASSUME ~Fifo!LOOPY PROVE Fifo!Level = Len(fifoQueue)
    BY <2>1, LevelTells, NowLength DEF FifoInv, Fifo!Level
  <2>2. ASSUME Fifo!LOOPY, enqd = None, ~clear_at
        PROVE  Fifo!METH_i_notFull <=> Len(fifoQueue) < size \/ (deqd /\ fifoQueue # <<>>)
    BY <2>2, NowLength, FifoAssumption DEF FifoInv, Fifo!Level, Fifo!METH_i_notFull
  <2>3. QED
    BY <2>1, <2>2, NowLength DEF Fifo!ConditionsSteady, Fifo!METH_i_notFull, Fifo!METH_i_notEmpty
<1>2. Fifo!FirstSteady
  <2> SUFFICES ASSUME fifoQueue # <<>>, ~deqd, ~clear_at PROVE data[fst] = Head(fifoQueue)
    BY DEF Fifo!FirstSteady, Fifo!METH_first
  <2>1. ~suppress_writes /\ ~clrd /\ Len(fifoQueue) \in 1 .. size /\ Head(fifoQueue) = fifoQueue[1]
    BY NowLength, TailElements DEF FifoInv
  <2>2. Now = fifoQueue \/ (enqd \in Data /\ Now = Append(fifoQueue, enqd))
    BY <2>1 DEF Now, Fifo!After, FifoInv
  <2>3. Now[1] = fifoQueue[1] /\ 1 \in 1 .. Len(Now)
    <3>1. CASE Now = fifoQueue
      BY <2>1, <3>1
    <3>2. CASE enqd \in Data /\ Now = Append(fifoQueue, enqd)
      <4>1. /\ \A k \in 1 .. Len(fifoQueue) : Append(fifoQueue, enqd)[k] = fifoQueue[k]
            /\ Len(Append(fifoQueue, enqd)) = Len(fifoQueue) + 1
        BY <3>2, AppendedElements DEF FifoInv
      <4>2. QED
        BY <2>1, <3>2, <4>1
    <3>3. QED
      BY <2>2, <3>1, <3>2
  <2>4. Now[1] = data[Place(fst, 0)] /\ Place(fst, 0) = fst
    BY <2>3, Places DEF FifoInv, Stores
  <2>5. QED
    BY <2>1, <2>3, <2>4
<1>3. Fifo!LegalNeverWarned
  BY DEF FifoInv, Fifo!LegalNeverWarned
<1>4. QED
  BY <1>1, <1>2, <1>3

-----------------------------------------------------------------------------
(* One of them moves, the others stay as they are.                         *)

(* A step of the composition is a step of each part or leaves it alone.    *)
LEMMA EachStep ==
  ASSUME [MCNext /\ UNCHANGED which]_allVars
  PROVE  /\ [One!Next]_oneVars /\ [Two!Next]_twoVars /\ [Zero!Next]_zeroVars
         /\ [Fifo!Next]_modVars /\ [Reg!RegNext]_regVars /\ [Cntr!CounterNext]_cntrVars
         /\ [Wire!WireNext]_wireVars /\ [BRAM!BRAMNext]_bramVars /\ [RegFile!RegFileNext]_fileVars
BY DEF MCNext, allVars, verilogVars, bluesimVars

(***************************************************************************)
(* The FIFOs of one and of two places, and those of any depth whose        *)
(* elements have no bits, hold the queue that enqueues, dequeues, clears   *)
(* and resets amount to (FIFO1.v:73-109, FIFO2.v:81-126,                   *)
(* SizedFIFO0.v:58-89).                                                    *)
(***************************************************************************)
THEOREM SmallFIFOsHold == MCSpec => []SmallHoldQueue
<1> DEFINE Inv == OneInv /\ TwoInv /\ ZeroInv
<1>1. MCInit => Inv
  <2> SUFFICES ASSUME MCInit PROVE Inv
    OBVIOUS
  <2>1. /\ oneEmpty = FALSE /\ oneData = None /\ oneQueue = <<>>
        /\ twoFull = TRUE /\ twoEmpty = FALSE /\ twoData0 = None /\ twoData1 = None /\ twoQueue = <<>>
        /\ count0 = 0 /\ not_empty = FALSE /\ not_full = TRUE /\ queue0 = <<>>
    BY DEF MCInit, One!Init, Two!Init, Zero!Init
  <2>2. <<>> \in Seq(Data) /\ <<>> \in Seq(Tokens) /\ Len(<<>>) = 0
    BY NoElements
  <2>3. OneInv
    BY <2>1, <2>2 DEF OneInv, One!TypeOK, One!HoldsQueue, One!Contents
  <2>4. TwoInv
    BY <2>1, <2>2 DEF TwoInv, Two!TypeOK, Two!HoldsQueue, Two!Contents
  <2>5. ZeroFlags
    <3>1. queue0 \in Seq(Tokens) /\ Len(queue0) = 0
      BY <2>1, <2>2
    <3>2. Len(queue0) \in 0 .. p2depth /\ count0 = Len(queue0) /\ Len(queue0) < p2depth
      BY <2>1, <3>1, DepthAssumption
    <3>3. not_empty \in BOOLEAN /\ not_full \in BOOLEAN /\ ~not_empty /\ not_full
      BY <2>1
    <3>4. QED
      BY <3>1, <3>2, <3>3 DEF ZeroFlags
  <2>6. QED
    BY <2>3, <2>4, <2>5, ZeroFlagsFormulas
<1>2. Inv /\ [MCNext /\ UNCHANGED which]_allVars => Inv'
  BY EachStep, OneStep, TwoStep, ZeroStep
<1>3. Inv => SmallHoldQueue
  BY DEF SmallHoldQueue, OneInv, TwoInv, ZeroInv
<1>4. QED
  BY <1>1, <1>2, <1>3, PTL DEF MCSpec

(* The invariant of MOD_Fifo, at all times.                                *)
LEMMA FifoInductive ==
  ASSUME guard = TRUE
  PROVE  MCSpec => []FifoInv
<1>1. MCInit => FifoInv
  BY FifoStarts DEF MCInit
<1>2. FifoInv /\ [MCNext /\ UNCHANGED which]_allVars => FifoInv'
  BY EachStep, FifoStep
<1>3. QED
  BY <1>1, <1>2, PTL DEF MCSpec

(* The calls of a cycle leave MOD_Fifo as one edge leaves the Verilog,     *)
(* whatever its size and type and the order of the calls, if its rules     *)
(* test the implicit conditions (bs_prim_mod_fifo.h:118-283).  Not so if   *)
(* they do not: see MCModFifoUnguarded.                                    *)
THEOREM FifoCyclesCompose ==
  ASSUME guard = TRUE
  PROVE  MCSpec => []CyclesCompose
BY FifoInductive, FifoInvComposes, PTL

-----------------------------------------------------------------------------
(* MOD_Wire and MOD_Probe.  The fields outlive the cycle: content is what   *)
(* was sent last until the wire is set again, and what is shown is what     *)
(* the backing holds.                                                       *)
WireInv ==
  /\ kind \in Wire!Kinds /\ stage \in {"rules", "ticked", "dumped"}
  /\ content \in Data /\ set \in Data \cup {None} /\ lastSet \in Data \cup {None}
  /\ isValid \in BOOLEAN /\ sent \in BOOLEAN
  /\ wireBack \in [on : BOOLEAN, content : Data \cup {None}, sent : BOOLEAN]
  /\ stage = "rules" /\ kind # "Probe" => (isValid <=> set # None) /\ (isValid => content = set)
  /\ stage # "rules" \/ kind = "Probe" => ~isValid
  /\ kind = "Probe" => ~sent /\ probed = content
  /\ kind # "Probe" =>
       (sent <=> lastSet # None) /\ (sent /\ (stage = "rules" => set = None) => content = lastSet)
  /\ wireBack.on => wireShown = Wire!Level(wireBack.content, wireBack.sent)
  /\ stage = "dumped" /\ wireBack.on => wireShown = Wire!Level(content, sent)

(* A wire starts in its invariant, ...                                     *)
LEMMA WireStarts == Wire!WireInit => WireInv
<1> SUFFICES ASSUME Wire!WireInit PROVE WireInv
  OBVIOUS
<1>1. wireBack.on = FALSE /\ wireBack \in [on : BOOLEAN, content : Data \cup {None}, sent : BOOLEAN]
  BY DEF Wire!WireInit
<1>2. /\ isValid = FALSE /\ sent = FALSE /\ set = None /\ lastSet = None /\ stage = "rules"
      /\ kind \in Wire!Kinds /\ content \in Data /\ probed = content
  BY DEF Wire!WireInit
<1>3. QED
  BY <1>1, <1>2 DEF WireInv

(* ... stays in it, ...                                                    *)
LEMMA WireStep == WireInv /\ [Wire!WireNext]_wireVars => WireInv'
<1> SUFFICES ASSUME WireInv, [Wire!WireNext]_wireVars PROVE WireInv'
  OBVIOUS
<1> USE ElementAssumption DEF WireInv
<1>1. ASSUME NEW x \in Data, Wire!METH_wset(x) PROVE WireInv'
  BY <1>1 DEF Wire!METH_wset, Wire!Level
<1>2. ASSUME NEW x \in Data, Wire!METH_probe_write(x) PROVE WireInv'
  BY <1>2 DEF Wire!METH_probe_write, Wire!Level
<1>3. ASSUME Wire!clk PROVE WireInv'
  BY <1>3 DEF Wire!clk, Wire!Level
<1>4. ASSUME NEW dt \in {"VCD_DUMP_XS", "VCD_DUMP_CHANGES", "VCD_DUMP_RESTART"}, Wire!dump_VCD_wire(dt)
      PROVE  WireInv'
  <2> USE DEF Wire!dump_VCD_wire
  <2>1. CASE dt = "VCD_DUMP_XS"
    BY <1>4, <2>1 DEF Wire!Level
  <2>2. CASE /\ dt # "VCD_DUMP_XS"
             /\ wireShown' = Wire!Level(content, sent)
             /\ wireBack' = [on |-> TRUE, content |-> content, sent |-> sent]
    BY <1>4, <2>2 DEF Wire!Level
  <2>3. CASE /\ dt = "VCD_DUMP_CHANGES" /\ UNCHANGED <<wireShown, wireBack>>
             /\ kind = "Probe" => wireBack.content = content
             /\ kind # "Probe" => sent = wireBack.sent /\ (sent /\ wireBack.sent => content = wireBack.content)
    <3>1. wireBack.on => Wire!Level(wireBack.content, wireBack.sent) = Wire!Level(content, sent)
      BY <2>3 DEF Wire!Level, Wire!Kinds
    <3>2. QED
      BY <1>4, <2>3, <3>1 DEF Wire!Level
  <2>4. QED
    BY <1>4, <2>1, <2>2, <2>3
<1>5. ASSUME Wire!WireAdvance PROVE WireInv'
  BY <1>5 DEF Wire!WireAdvance, Wire!Level
<1>6. CASE UNCHANGED wireVars
  BY <1>6 DEF wireVars, Wire!Level
<1>7. QED
  BY <1>1, <1>2, <1>3, <1>4, <1>5, <1>6 DEF Wire!WireNext

(* ... and carries what it is set to.                                      *)
LEMMA WireInvCarries == WireInv => WireCarries
<1> SUFFICES ASSUME WireInv PROVE WireCarries
  OBVIOUS
<1>1. stage = "rules" /\ kind # "Probe" => isValid = (set # None) /\ (isValid => content = set)
  BY DEF WireInv
<1>2. ASSUME stage = "dumped", wireBack.on
      PROVE  wireShown = CASE kind = "Wire" -> lastSet
                           [] kind = "PulseWire" -> (lastSet # None)
                           [] kind = "Probe" -> probed
  BY <1>2 DEF WireInv, Wire!Level, Wire!Kinds
<1>3. QED
  BY <1>1, <1>2 DEF WireCarries, Wire!WireCarries, Wire!METH_whas, Wire!METH_wget

-----------------------------------------------------------------------------
(* Remainders.                                                             *)

(* Two numbers less than m apart that m divides are the same. *)
LEMMA SmallMultiple ==
  ASSUME NEW m \in Nat \ {0}, NEW d \in Int, -m < m * d, m * d < m
  PROVE  d = 0
<1>1. CASE d >= 1
  <2>1. m * d >= m * 1
    BY <1>1
  <2>2. QED
    BY <2>1
<1>2. CASE d <= -1
  <2>1. m * d <= m * (-1)
    BY <1>2
  <2>2. QED
    BY <2>1
<1>3. QED
  BY <1>1, <1>2

(* The remainder is the only one of its kind. *)
LEMMA OnlyRemainder ==
  ASSUME NEW m \in Nat \ {0}, NEW a \in Int, NEW k \in Int, NEW r \in 0 .. m - 1, a = m * k + r
  PROVE  a % m = r
<1> DEFINE e == a \div m
<1>1. a = m * e + (a % m) /\ e \in Int /\ a % m \in 0 .. m - 1
  OBVIOUS
<1> HIDE DEF e
<1>2. m * (e - k) = r - (a % m)
  BY <1>1
<1>3. e - k = 0
  BY <1>1, <1>2, SmallMultiple
<1>4. QED
  BY <1>1, <1>3

(* An overflow in a partial sum is none of the sum. *)
LEMMA RemainderOfSum ==
  ASSUME NEW m \in Nat \ {0}, NEW a \in Int, NEW b \in Int
  PROVE  ((a % m) + b) % m = (a + b) % m
<1> DEFINE c == (a % m) + b
           e == a \div m
           g == c \div m
<1>1. c = m * g + (c % m) /\ g \in Int /\ c % m \in 0 .. m - 1 /\ c \in Int
  OBVIOUS
<1>2. a = m * e + (a % m) /\ e \in Int /\ a % m \in Int /\ c = (a % m) + b
  OBVIOUS
<1> HIDE DEF c, e, g
<1> DEFINE p1 == m * e
           p2 == m * g
<1>3. m * (e + g) = p1 + p2 /\ p1 \in Int /\ p2 \in Int /\ e + g \in Int
  BY <1>1, <1>2
<1>4. c = p2 + (c % m) /\ a = p1 + (a % m)
  BY <1>1, <1>2
<1> HIDE DEF p1, p2
<1>5. a + b = p1 + p2 + (c % m)
  BY <1>1, <1>2, <1>3, <1>4
<1>6. a + b = m * (e + g) + (c % m) /\ a + b \in Int
  BY <1>3, <1>5
<1>7. (a + b) % m = c % m
  BY <1>1, <1>3, <1>6, OnlyRemainder
<1>8. QED
  BY <1>7 DEF c

-----------------------------------------------------------------------------
(* MOD_Counter.                                                            *)

CounterValues == 0 .. 2^CounterBits - 1

(* What the calls so far make of the count from before them. *)
Counted ==
  IF called["setF"] THEN arg["setF"]
  ELSE Cntr!mask_high_bits((IF called["setC"] THEN arg["setC"] ELSE cq)
                            + Cntr!Addend("addA") + Cntr!Addend("addB"))

CounterInv ==
  /\ val \in CounterValues /\ cq \in CounterValues
  /\ arg \in [Cntr!Methods -> CounterValues] /\ called \in [Cntr!Methods -> BOOLEAN]
  /\ csuppress => creset
  /\ ~saved => called = Cntr!NoCall
  /\ step = "rules" => val = Counted /\ (saved => saved_val = cq)
  /\ step # "rules" => val = cq

(* Remainders are words of the counter.                                    *)
LEMMA CounterRange ==
  /\ 2^CounterBits \in Nat \ {0} /\ CounterReset \in CounterValues /\ CounterArgs \subseteq CounterValues
  /\ \A x \in Int : x % 2^CounterBits \in CounterValues
  /\ \A x \in CounterValues : x % 2^CounterBits = x
BY CounterAssumption DEF CounterValues

(* Before any call it is that count. *)
LEMMA NothingCounted ==
  ASSUME called = Cntr!NoCall, cq \in CounterValues
  PROVE  Counted = cq
<1>1. \A m \in Cntr!Methods : ~called[m]
  BY DEF Cntr!NoCall
<1>2. ~called["setF"] /\ ~called["setC"] /\ Cntr!Addend("addA") = 0 /\ Cntr!Addend("addB") = 0
  BY <1>1 DEF Cntr!Methods, Cntr!Addend
<1>3. Counted = (cq + 0 + 0) % 2^CounterBits
  BY <1>2 DEF Counted, Cntr!mask_high_bits
<1>4. cq + 0 + 0 = cq
  BY CounterRange DEF CounterValues
<1>5. QED
  BY <1>3, <1>4, CounterRange

(* A counter starts in its invariant.                                      *)
LEMMA CounterStarts == Cntr!CounterInit => CounterInv
<1> SUFFICES ASSUME Cntr!CounterInit PROVE CounterInv
  OBVIOUS
<1>1. val \in CounterValues /\ cq = val
  <2>1. 2^CounterBits - 1 \in CounterValues
    BY CounterRange DEF CounterValues
  <2>2. QED
    BY <2>1, CounterRange DEF Cntr!CounterInit
<1>2. arg \in [Cntr!Methods -> CounterValues] /\ called = Cntr!NoCall /\ called \in [Cntr!Methods -> BOOLEAN]
  BY CounterRange DEF Cntr!CounterInit, Cntr!NoCall
<1>3. val = Counted
  BY <1>1, <1>2, NothingCounted
<1>4. QED
  BY <1>1, <1>2, <1>3 DEF Cntr!CounterInit, CounterInv

(* A call of a cycle that has had no setF yet. *)
LEMMA CallStep ==
  ASSUME CounterInv, NEW m \in Cntr!Methods, NEW x \in CounterArgs, NEW new \in CounterValues,
         Cntr!Calls(m, x, new), new = Counted'
  PROVE  CounterInv'
<1>1. /\ step = "rules" /\ step' = "rules" /\ val' = new /\ saved' = TRUE
      /\ saved_val' = IF saved THEN saved_val ELSE val
      /\ called' = [called EXCEPT ![m] = TRUE] /\ arg' = [arg EXCEPT ![m] = x]
      /\ cq' = cq /\ creset' = creset /\ csuppress' = csuppress
  BY DEF Cntr!Calls, Cntr!METH_value
<1>2. arg' \in [Cntr!Methods -> CounterValues] /\ called' \in [Cntr!Methods -> BOOLEAN]
  BY <1>1, CounterRange DEF CounterInv
<1>3. saved_val' = cq
  BY <1>1, NothingCounted DEF CounterInv
<1>4. QED
  BY <1>1, <1>2, <1>3 DEF CounterInv

(* addA and addB count on from whatever was called before. *)
LEMMA AddStep ==
  ASSUME CounterInv, NEW m \in {"addA", "addB"}, NEW x \in CounterArgs,
         Cntr!Calls(m, x, Cntr!mask_high_bits(val + x))
  PROVE  CounterInv'
<1> DEFINE base == IF called["setC"] THEN arg["setC"] ELSE cq
           sum  == base + Cntr!Addend("addA") + Cntr!Addend("addB")
<1>1. /\ step = "rules" /\ ~called[m] /\ ~called["setF"] /\ cq' = cq
      /\ called' = [called EXCEPT ![m] = TRUE] /\ arg' = [arg EXCEPT ![m] = x]
  BY DEF Cntr!Calls
<1>2. /\ called \in [Cntr!Methods -> BOOLEAN] /\ arg \in [Cntr!Methods -> CounterValues]
      /\ cq \in CounterValues /\ x \in CounterValues
      /\ \A y \in CounterValues : y \in Int
  BY CounterRange DEF CounterInv, CounterValues
<1>3. val = sum % 2^CounterBits
  BY <1>1 DEF CounterInv, Counted, Cntr!mask_high_bits
<1>4. base \in Int /\ Cntr!Addend("addA") \in Int /\ Cntr!Addend("addB") \in Int /\ sum \in Int
  BY <1>2 DEF Cntr!Addend, Cntr!Methods
<1>5. (IF called'["setC"] THEN arg'["setC"] ELSE cq') = base /\ ~called'["setF"]
  BY <1>1, <1>2 DEF Cntr!Methods
<1>6. Cntr!Addend("addA")' + Cntr!Addend("addB")' = Cntr!Addend("addA") + Cntr!Addend("addB") + x
  BY <1>1, <1>2 DEF Cntr!Addend, Cntr!Methods
<1>7. Cntr!Addend("addA")' \in Int /\ Cntr!Addend("addB")' \in Int
  BY <1>1, <1>2 DEF Cntr!Addend, Cntr!Methods
<1>8. Counted' = (base + Cntr!Addend("addA")' + Cntr!Addend("addB")') % 2^CounterBits
  BY <1>5 DEF Counted, Cntr!mask_high_bits
<1> DEFINE a  == Cntr!Addend("addA")
           b  == Cntr!Addend("addB")
           a2 == Cntr!Addend("addA")'
           b2 == Cntr!Addend("addB")'
<1>9. base + a2 + b2 = sum + x
  <2>1. a \in Int /\ b \in Int /\ a2 \in Int /\ b2 \in Int /\ base \in Int /\ x \in Int
    BY <1>2, <1>4, <1>7
  <2>2. a2 + b2 = a + b + x /\ sum = base + a + b
    BY <1>6
  <2> HIDE DEF a, b, a2, b2, base, sum
  <2>3. QED
    BY <2>1, <2>2
<1> HIDE DEF base
<1>10. (val + x) % 2^CounterBits = (sum + x) % 2^CounterBits
  BY <1>2, <1>3, <1>4, CounterRange, RemainderOfSum
<1>11. Cntr!mask_high_bits(val + x) = Counted'
  BY <1>8, <1>9, <1>10 DEF Cntr!mask_high_bits
<1>12. Cntr!mask_high_bits(val + x) \in CounterValues
  BY <1>2, CounterRange DEF CounterInv, Cntr!mask_high_bits
<1>13. m \in Cntr!Methods
  BY DEF Cntr!Methods
<1>14. QED
  BY <1>11, <1>12, <1>13, CallStep

(* setC restarts the sum, whose terms stay. *)
LEMMA SetCStep ==
  ASSUME CounterInv, NEW x \in CounterArgs, Cntr!METH_setC(x)
  PROVE  CounterInv'
<1> DEFINE new == Cntr!mask_high_bits(x + Cntr!Addend("addA") + Cntr!Addend("addB"))
<1>1. /\ ~called["setF"] /\ Cntr!Calls("setC", x, new)
      /\ called' = [called EXCEPT !["setC"] = TRUE] /\ arg' = [arg EXCEPT !["setC"] = x]
  BY DEF Cntr!METH_setC, Cntr!Calls
<1>2. /\ called \in [Cntr!Methods -> BOOLEAN] /\ arg \in [Cntr!Methods -> CounterValues]
      /\ x \in Int /\ \A y \in CounterValues : y \in Int
  BY CounterRange DEF CounterInv, CounterValues
<1>3. Cntr!Addend("addA") \in Int /\ Cntr!Addend("addB") \in Int
  BY <1>2 DEF Cntr!Addend, Cntr!Methods
<1>4. new \in CounterValues
  BY <1>2, <1>3, CounterRange DEF Cntr!mask_high_bits
<1>5. /\ called'["setC"] /\ arg'["setC"] = x /\ ~called'["setF"]
      /\ Cntr!Addend("addA")' = Cntr!Addend("addA") /\ Cntr!Addend("addB")' = Cntr!Addend("addB")
  BY <1>1, <1>2 DEF Cntr!Addend, Cntr!Methods
<1>6. new = Counted'
  BY <1>5 DEF Counted, Cntr!mask_high_bits
<1>7. "setC" \in Cntr!Methods
  BY DEF Cntr!Methods
<1> HIDE DEF new
<1>8. QED
  BY <1>1, <1>4, <1>6, <1>7, CallStep

(* A setF overrides what was counted.                                      *)
LEMMA SetFStep ==
  ASSUME CounterInv, NEW x \in CounterArgs, Cntr!METH_setF(x)
  PROVE  CounterInv'
<1>1. /\ Cntr!Calls("setF", x, x) /\ "setF" \in Cntr!Methods /\ x \in CounterValues
      /\ called' = [called EXCEPT !["setF"] = TRUE] /\ arg' = [arg EXCEPT !["setF"] = x]
  BY CounterRange DEF Cntr!METH_setF, Cntr!Calls, Cntr!Methods
<1>2. x = Counted'
  BY <1>1 DEF CounterInv, Counted
<1>3. QED
  BY <1>1, <1>2, CallStep

(* Every step of the counter keeps its invariant, ...                      *)
LEMMA CounterStep == CounterInv /\ [Cntr!CounterNext]_cntrVars => CounterInv'
<1> SUFFICES ASSUME CounterInv, [Cntr!CounterNext]_cntrVars PROVE CounterInv'
  OBVIOUS
<1>1. ASSUME NEW x \in CounterArgs,
             Cntr!METH_addA(x) \/ Cntr!METH_addB(x) \/ Cntr!METH_update(x) \/ Cntr!METH_setF(x)
      PROVE  CounterInv'
  BY <1>1, AddStep, SetCStep, SetFStep DEF Cntr!METH_addA, Cntr!METH_addB, Cntr!METH_update
<1>2. ASSUME NEW rst_in \in BOOLEAN, Cntr!reset_counter(rst_in) PROVE CounterInv'
  BY <1>2 DEF Cntr!reset_counter, CounterInv
<1>3. ASSUME NEW changes \in BOOLEAN, Cntr!dump_counter(changes) PROVE CounterInv'
  <2>1. /\ step' = "dumped"
        /\ step = "ticked" \/ (step = "rules" /\ called = Cntr!NoCall)
        /\ UNCHANGED <<val, saved_val, saved, arg, called, creset, csuppress, cq>>
    BY <1>3 DEF Cntr!dump_counter
  <2>2. val = cq
    BY <2>1, NothingCounted DEF CounterInv
  <2>3. QED
    BY <2>1, <2>2 DEF CounterInv
<1>4. ASSUME Cntr!CounterEdge PROVE CounterInv'
  <2>1. /\ step = "rules" /\ step' = "ticked" /\ val = Counted
        /\ cq' = IF creset THEN CounterReset ELSE Counted
        /\ val' = IF creset THEN CounterReset ELSE val
        /\ csuppress' => creset'
        /\ UNCHANGED <<saved, arg, called>>
    BY <1>4 DEF Cntr!CounterEdge, Cntr!VerilogCount, Counted, CounterInv
  <2>2. QED
    BY <2>1, CounterRange DEF CounterInv
<1>5. ASSUME Cntr!CounterAdvance PROVE CounterInv'
  <2>1. /\ step # "rules" /\ step' = "rules" /\ called' = Cntr!NoCall /\ ~saved'
        /\ UNCHANGED <<val, arg, creset, csuppress, cq>>
    BY <1>5 DEF Cntr!CounterAdvance
  <2>2. \A m \in Cntr!Methods : ~called'[m]
    BY <2>1 DEF Cntr!NoCall
  <2>3. Counted' = cq
    <3>1. ~called'["setF"] /\ ~called'["setC"] /\ Cntr!Addend("addA")' = 0 /\ Cntr!Addend("addB")' = 0
      BY <2>2 DEF Cntr!Methods, Cntr!Addend
    <3>2. Counted' = (cq + 0 + 0) % 2^CounterBits
      BY <2>1, <3>1 DEF Counted, Cntr!mask_high_bits
    <3>3. cq + 0 + 0 = cq /\ cq \in CounterValues
      BY DEF CounterValues, CounterInv
    <3>4. QED
      BY <3>2, <3>3, CounterRange
  <2>4. called' \in [Cntr!Methods -> BOOLEAN]
    BY <2>1 DEF Cntr!NoCall
  <2>5. QED
    BY <2>1, <2>3, <2>4 DEF CounterInv
<1>6. CASE UNCHANGED cntrVars
  BY <1>6 DEF cntrVars, CounterInv, Counted, Cntr!Addend
<1>7. QED
  BY <1>1, <1>2, <1>3, <1>4, <1>5, <1>6 DEF Cntr!CounterNext

(* ... in which it counts as Counter.v.                                    *)
LEMMA CounterInvCounts == CounterInv => CounterIsCounter
<1> SUFFICES ASSUME CounterInv PROVE CounterIsCounter
  OBVIOUS
<1>1. step = "rules" /\ ~saved => val = cq
  BY NothingCounted DEF CounterInv
<1>2. QED
  BY <1>1 DEF CounterIsCounter, Cntr!CounterIsCounter, Cntr!METH_value, CounterInv

-----------------------------------------------------------------------------
(* The registers.  Given(w, base, x): x is what the writes w of the ports  *)
(* make of base, the last port winning.                                    *)
Given(w, base, x) ==
  \/ x = base /\ \A j \in Reg!Ports : w[j] = None
  \/ \E j \in Reg!Ports : w[j] = x /\ x # None /\ \A k \in Reg!Ports : k > j => w[k] = None

WriteSets == [Reg!Ports -> Values \cup {None}]

(* A write by a port above which none has written wins.                    *)
LEMMA GivenWrite ==
  ASSUME NEW w \in WriteSets, NEW base, NEW i \in Reg!Ports, NEW x \in Values,
         \A k \in Reg!Ports : k > i => w[k] = None
  PROVE  Given([w EXCEPT ![i] = x], base, x) /\ [w EXCEPT ![i] = x] \in WriteSets
<1> DEFINE v == [w EXCEPT ![i] = x]
<1>1. v \in WriteSets /\ v[i] = x /\ x # None /\ \A k \in Reg!Ports : k # i => v[k] = w[k]
  BY RegAssumption DEF WriteSets
<1> HIDE DEF v
<1>2. \A k \in Reg!Ports : k > i => v[k] = None
  BY <1>1 DEF Reg!Ports
<1>3. Given(v, base, x)
  BY <1>1, <1>2 DEF Given
<1>4. QED
  BY <1>1, <1>3 DEF v

(* Without writes the value stays.                                         *)
LEMMA GivenNothing ==
  ASSUME NEW base
  PROVE  Given(Reg!NoWrite, base, base) /\ Reg!NoWrite \in WriteSets
BY DEF Given, Reg!NoWrite, WriteSets

(* LastBelow, in the words of Given. *)
LEMMA LastBelowGiven ==
  ASSUME NEW base, NEW x, Given(wrote, base, x),
         NEW i \in 0 .. RegPorts, \A j \in i .. RegPorts - 1 : wrote[j] = None
  PROVE  Reg!LastBelow(i, base) = x
<1>1. RegPorts \in Nat /\ Reg!Ports = 0 .. RegPorts - 1
  BY RegAssumption DEF Reg!Ports
<1>2. CASE x = base /\ \A j \in Reg!Ports : wrote[j] = None
  <2>1. \A j \in 0 .. i - 1 : wrote[j] = None
    BY <1>1, <1>2
  <2>2. QED
    BY <1>2, <2>1 DEF Reg!LastBelow
<1>3. CASE \E j \in Reg!Ports : wrote[j] = x /\ x # None /\ \A k \in Reg!Ports : k > j => wrote[k] = None
  <2>1. PICK j \in Reg!Ports : wrote[j] = x /\ x # None /\ \A k \in Reg!Ports : k > j => wrote[k] = None
    BY <1>3
  <2> DEFINE Last(m) == wrote[m] # None /\ \A k \in m + 1 .. i - 1 : wrote[k] = None
             c == CHOOSE m \in 0 .. i - 1 : Last(m)
  <2>2. j \in 0 .. i - 1
    BY <1>1, <2>1
  <2>3. Last(j)
    BY <1>1, <2>1, <2>2
  <2>4. c \in 0 .. i - 1 /\ Last(c)
    <3> HIDE DEF Last
    <3>1. \E m \in 0 .. i - 1 : Last(m)
      BY <2>2, <2>3
    <3>2. QED
      BY <3>1
  <2> HIDE DEF c
  <2>5. c = j
    BY <1>1, <2>1, <2>2, <2>3, <2>4
  <2>6. ~ \A m \in 0 .. i - 1 : wrote[m] = None
    BY <2>1, <2>2
  <2>7. Reg!LastBelow(i, base) = wrote[c]
    BY <2>6 DEF Reg!LastBelow, c
  <2>8. QED
    BY <2>1, <2>5, <2>7
<1>4. QED
  BY <1>2, <1>3 DEF Given

RegTypes ==
  /\ wrote \in WriteSets /\ phase \in {"rules", "ticked", "settled", "dumped"}
  /\ in_reset \in BOOLEAN /\ suppress_write \in BOOLEAN /\ written \in BOOLEAN /\ a_at \in BOOLEAN
  /\ tick_at \in BOOLEAN
  /\ suppress_write => in_reset

(* An asynchronous reset holds the register. *)
RegHeld ==
  Reg!Async /\ in_reset =>
    /\ suppress_write /\ q = reset_value /\ value = reset_value
    /\ cls = "RegAligned" => old = reset_value
    /\ phase = "rules" => wrote = Reg!NoWrite

(* In the rules phase: what the calls so far make of q, the ports that the *)
(* class has, and the fields that keep q for the readers.                  *)
RegCalls ==
  phase = "rules" =>
    /\ \A j \in Reg!Ports : wrote[j] = None \/ j = 0 \/ cls = "CReg" \/ (j = 1 /\ cls = "RegTwo")
    /\ cls \notin {"RegAligned", "RegTwo"} => Given(wrote, q, value)
    /\ cls = "RegTwo" =>
         /\ a_at <=> wrote[0] # None
         /\ value = IF wrote[0] # None THEN wrote[0] ELSE IF wrote[1] # None THEN wrote[1] ELSE q
    /\ cls \in {"CrossingReg", "ConfigReg", "RegTwo"} =>
         IF written THEN old = q /\ wrote # Reg!NoWrite ELSE wrote = Reg!NoWrite

(* After the edge the register has the value of the Verilog, and the other *)
(* side of a crossing register still reads the one from before.            *)
RegSettled ==
  /\ cls # "RegAligned" /\ phase # "rules" => value = q
  /\ cls = "CrossingReg" /\ phase = "ticked" /\ ~in_reset /\ wrote[0] # None => written /\ old = was

(* A RegAligned keeps its next value until the tick, after which it is     *)
(* written directly.                                                       *)
RegAligns ==
  cls = "RegAligned" /\ LateInReset = FALSE =>
    /\ value = q
    /\ phase = "rules" => ~tick_at /\ Given(wrote, q, old)
    /\ phase # "rules" => old = q
    /\ phase = "ticked" => tick_at

RegInv == RegTypes /\ RegHeld /\ RegCalls /\ RegSettled /\ RegAligns

(* There are ports 0 and 1.                                                *)
LEMMA PortsKnown == {0, 1} \subseteq Reg!Ports /\ \A j \in Reg!Ports : j \in Nat
BY RegAssumption DEF Reg!Ports

(* A register starts in its invariant.                                     *)
LEMMA RegStarts == Reg!RegInit => RegInv
<1> SUFFICES ASSUME Reg!RegInit PROVE RegInv
  OBVIOUS
<1>1. /\ wrote = Reg!NoWrite /\ phase = "rules" /\ in_reset = FALSE /\ suppress_write = FALSE
      /\ written = FALSE /\ a_at = FALSE /\ tick_at = FALSE /\ q = value /\ old = value
  BY DEF Reg!RegInit
<1>2. Given(wrote, q, value) /\ Given(wrote, q, old) /\ wrote \in WriteSets
  BY <1>1, GivenNothing
<1>3. \A j \in Reg!Ports : wrote[j] = None
  BY <1>1 DEF Reg!NoWrite
<1>4. wrote[0] = None /\ wrote[1] = None
  BY <1>3, PortsKnown
<1>5. QED
  BY <1>1, <1>2, <1>3, <1>4 DEF RegInv, RegTypes, RegHeld, RegCalls, RegSettled, RegAligns

(* A write that an asynchronous reset suppresses changes nothing. *)
LEMMA RegIdle ==
  ASSUME RegInv,
         UNCHANGED <<cls, reset_type, value, old, written, a_at, tick_at, in_reset, suppress_write,
                     phase, wrote, q, was>>
  PROVE  RegInv'
BY DEF RegInv, RegTypes, RegHeld, RegCalls, RegSettled, RegAligns, Reg!Async

(* The write x of port i of a class other than RegAligned. *)
LEMMA RegWriteStep ==
  ASSUME RegInv, NEW class \in {"Reg", "CrossingReg", "ConfigReg", "RegTwo", "CReg"},
         NEW i \in Reg!Ports, NEW x \in Values, Reg!Writes(class, i, x), ~Reg!Suppressed,
         class = "CReg" => \A j \in i .. RegPorts - 1 : wrote[j] = None,
         class = "RegTwo" => i \in {0, 1} /\ wrote[i] = None,
         class \notin {"CReg", "RegTwo"} => i = 0,
         class # "RegTwo" => value' = x /\ a_at' = a_at,
         class = "RegTwo" => value' = IF i = 1 /\ a_at THEN value ELSE x,
         class = "RegTwo" => a_at' = (IF i = 0 THEN TRUE ELSE a_at),
         IF class \in {"CrossingReg", "ConfigReg", "RegTwo"}
           THEN old' = (IF written THEN old ELSE value) /\ written' = TRUE
           ELSE UNCHANGED <<old, written>>
  PROVE  RegInv'
<1> DEFINE w == [wrote EXCEPT ![i] = x]
<1>1. /\ cls = class /\ phase = "rules" /\ wrote' = w
      /\ UNCHANGED <<cls, reset_type, in_reset, suppress_write, tick_at, phase, q, was>>
  BY DEF Reg!Writes, Reg!reset
<1>2. wrote \in WriteSets /\ x # None
  BY RegAssumption DEF RegInv, RegTypes
<1>3. w \in WriteSets /\ w[i] = x /\ \A j \in Reg!Ports : j # i => w[j] = wrote[j]
  BY <1>2 DEF WriteSets
<1>4. \A j \in Reg!Ports : w[j] = None \/ j = 0 \/ cls = "CReg" \/ (j = 1 /\ cls = "RegTwo")
  BY <1>1, <1>3 DEF RegInv, RegCalls
<1>5. class # "RegTwo" => Given(w, q, x)
  <2>1. class = "CReg" => \A k \in Reg!Ports : k > i => wrote[k] = None
    BY RegAssumption DEF Reg!Ports
  <2>2. class \notin {"CReg", "RegTwo"} => \A k \in Reg!Ports : k > i => wrote[k] = None
    BY <1>1, PortsKnown DEF RegInv, RegCalls
  <2>3. QED
    BY <1>2, <2>1, <2>2, GivenWrite
<1>6. ~(Reg!Async /\ in_reset)
  BY DEF RegInv, RegHeld, Reg!Suppressed
<1>7. class \in {"CrossingReg", "ConfigReg", "RegTwo"} => old' = q
  <2>1. ASSUME wrote = Reg!NoWrite PROVE Given(wrote, q, value) => value = q
    BY <2>1, RegAssumption DEF Given, Reg!NoWrite
  <2>2. ASSUME wrote = Reg!NoWrite PROVE wrote[0] = None /\ wrote[1] = None
    BY <2>2, PortsKnown DEF Reg!NoWrite
  <2>3. QED
    BY <1>1, <2>1, <2>2 DEF RegInv, RegCalls
<1>8. class = "RegTwo" =>
        /\ a_at' <=> w[0] # None
        /\ value' = IF w[0] # None THEN w[0] ELSE IF w[1] # None THEN w[1] ELSE q
  BY <1>1, <1>2, <1>3, PortsKnown DEF RegInv, RegTypes, RegCalls
<1>9. w # Reg!NoWrite
  BY <1>2, <1>3 DEF Reg!NoWrite
<1> HIDE DEF w
<1>10. RegTypes'
  BY <1>1, <1>3 DEF RegInv, RegTypes
<1>11. RegHeld'
  BY <1>1, <1>6 DEF RegHeld, Reg!Async
<1>12. RegCalls'
  BY <1>1, <1>4, <1>5, <1>7, <1>8, <1>9 DEF RegCalls
<1>13. RegSettled' /\ RegAligns'
  BY <1>1 DEF RegSettled, RegAligns
<1>14. QED
  BY <1>10, <1>11, <1>12, <1>13 DEF RegInv

(* The calls that write these classes. *)
LEMMA RegCallStep ==
  ASSUME RegInv, NEW x \in Values,
         \/ Reg!METH_write(x) \/ Reg!METH__write(x) \/ Reg!METH_config_write(x)
         \/ Reg!METH_setA(x) \/ Reg!METH_setB(x) \/ \E i \in Reg!Ports : Reg!METH_port_write(i, x)
  PROVE  RegInv'
<1> USE DEF Reg!SaveOld
<1>1. 0 \in Reg!Ports /\ 1 \in Reg!Ports
  BY PortsKnown
<1>2. CASE Reg!Suppressed
  <2>1. \A i \in Reg!Ports : wrote' = [wrote EXCEPT ![i] = wrote[i]] => wrote' = wrote
    BY DEF RegInv, RegTypes, WriteSets
  <2>2. UNCHANGED <<cls, reset_type, value, old, written, a_at, tick_at, in_reset, suppress_write,
                    phase, wrote, q, was>>
    BY <1>1, <1>2, <2>1 DEF Reg!METH_write, Reg!METH__write, Reg!METH_config_write, Reg!METH_setA, Reg!METH_setB,
                            Reg!METH_port_write, Reg!Writes, Reg!reset
  <2>3. QED
    BY <2>2, RegIdle
<1>3. CASE ~Reg!Suppressed
  <2>1. CASE Reg!METH_write(x)
    <3>1. Reg!Writes("Reg", 0, x) /\ value' = x /\ UNCHANGED <<old, written, a_at>>
      BY <1>3, <2>1 DEF Reg!METH_write
    <3>2. QED
      BY <1>1, <1>3, <3>1, RegWriteStep
  <2>2. CASE Reg!METH__write(x)
    <3>1. Reg!Writes("CrossingReg", 0, x) /\ value' = x /\ old' = value /\ written' = TRUE /\ a_at' = a_at
      BY <1>3, <2>2 DEF Reg!METH__write
    <3>2. ~written
      <4>1. cls = "CrossingReg" /\ phase = "rules" /\ wrote[0] = None /\ wrote \in WriteSets
        BY <2>2 DEF Reg!METH__write, Reg!Writes, RegInv, RegTypes
      <4>2. \A j \in Reg!Ports : wrote[j] = None
        BY <4>1 DEF RegInv, RegCalls
      <4>3. wrote = Reg!NoWrite
        BY <4>1, <4>2 DEF WriteSets, Reg!NoWrite
      <4>4. QED
        BY <4>1, <4>3 DEF RegInv, RegCalls
    <3>3. QED
      BY <1>1, <1>3, <3>1, <3>2, RegWriteStep
  <2>3. CASE Reg!METH_config_write(x)
    <3>1. /\ Reg!Writes("ConfigReg", 0, x) /\ value' = x /\ a_at' = a_at
          /\ old' = (IF written THEN old ELSE value) /\ written' = TRUE
      BY <1>3, <2>3 DEF Reg!METH_config_write
    <3>2. QED
      BY <1>1, <1>3, <3>1, RegWriteStep
  <2>4. CASE Reg!METH_setA(x)
    <3>1. /\ Reg!Writes("RegTwo", 0, x) /\ wrote[0] = None /\ value' = x /\ a_at' = TRUE
          /\ old' = (IF written THEN old ELSE value) /\ written' = TRUE
      BY <1>3, <2>4 DEF Reg!METH_setA
    <3>2. a_at' = (IF 0 = 0 THEN TRUE ELSE a_at) /\ value' = IF 0 = 1 /\ a_at THEN value ELSE x
      BY <3>1
    <3>3. QED
      BY <1>1, <1>3, <3>1, <3>2, RegWriteStep
  <2>5. CASE Reg!METH_setB(x)
    <3>1. /\ Reg!Writes("RegTwo", 1, x) /\ wrote[1] = None /\ value' = (IF a_at THEN value ELSE x)
          /\ a_at' = a_at /\ old' = (IF written THEN old ELSE value) /\ written' = TRUE
      BY <1>3, <2>5 DEF Reg!METH_setB
    <3>2. a_at \in BOOLEAN
      BY DEF RegInv, RegTypes
    <3>3. a_at' = (IF 1 = 0 THEN TRUE ELSE a_at) /\ value' = IF 1 = 1 /\ a_at THEN value ELSE x
      BY <3>1
    <3>4. QED
      BY <1>1, <1>3, <3>1, <3>2, <3>3, RegWriteStep
  <2>6. ASSUME NEW i \in Reg!Ports, Reg!METH_port_write(i, x) PROVE RegInv'
    <3>1. /\ Reg!Writes("CReg", i, x) /\ \A j \in i .. RegPorts - 1 : wrote[j] = None
          /\ value' = x /\ UNCHANGED <<old, written, a_at>>
      BY <1>3, <2>6 DEF Reg!METH_port_write
    <3>2. QED
      BY <1>1, <1>3, <3>1, RegWriteStep
  <2>7. QED
    BY <2>1, <2>2, <2>3, <2>4, <2>5, <2>6
<1>4. QED
  BY <1>2, <1>3

(* A rule of either side writes a RegAligned, before the tick or after it. *)
LEMMA RegAlignedStep ==
  ASSUME RegInv, NEW x \in Values, Reg!METH_aligned_write(x)
  PROVE  RegInv'
<1> DEFINE w == [wrote EXCEPT ![0] = x]
<1>1. /\ cls = "RegAligned" /\ phase \in {"rules", "ticked"} /\ wrote[0] = None
      /\ phase = "rules" \/ ~in_reset \/ Reg!Async \/ LateInReset
      /\ q' = IF phase = "ticked" /\ ~in_reset THEN x ELSE q
      /\ UNCHANGED <<cls, reset_type, in_reset, suppress_write, a_at, tick_at, phase, was>>
  BY DEF Reg!METH_aligned_write, Reg!reset
<1>2. Reg!Async' = Reg!Async
  BY <1>1 DEF Reg!Async
<1>3. CASE Reg!Suppressed
  <2>1. wrote \in [Reg!Ports -> Values \cup {None}] /\ in_reset
    BY <1>3 DEF RegInv, RegTypes, WriteSets, Reg!Suppressed
  <2>2. UNCHANGED <<value, old, written>> /\ wrote' = [wrote EXCEPT ![0] = wrote[0]]
    BY <1>3 DEF Reg!METH_aligned_write
  <2>3. wrote' = wrote /\ q' = q
    BY <1>1, <2>1, <2>2
  <2>4. QED
    BY <1>1, <2>2, <2>3, RegIdle
<1>4. CASE ~Reg!Suppressed
  <2>1. /\ wrote' = w /\ old' = x
        /\ IF tick_at THEN value' = x /\ written' = TRUE ELSE UNCHANGED <<value, written>>
    BY <1>4 DEF Reg!METH_aligned_write
  <2>2. /\ \A k \in Reg!Ports : k > 0 /\ phase = "rules" => wrote[k] = None
        /\ wrote \in WriteSets /\ 0 \in Reg!Ports
    BY <1>1, PortsKnown DEF RegInv, RegCalls, RegTypes
  <2>3. w \in WriteSets /\ \A j \in Reg!Ports : j # 0 => w[j] = wrote[j]
    BY <2>2 DEF WriteSets
  <2>4. phase = "rules" => Given(w, q, x)
    BY <2>2, GivenWrite
  <2>5. ~(Reg!Async /\ in_reset)
    BY <1>4 DEF RegInv, RegHeld, Reg!Suppressed
  <2> HIDE DEF w
  <2>6. RegTypes'
    BY <1>1, <2>1, <2>3 DEF RegInv, RegTypes
  <2>7. RegHeld'
    BY <1>1, <1>2, <2>5 DEF RegHeld
  <2>8. RegCalls'
    <3>1. phase = "rules" => \A j \in Reg!Ports : w[j] = None \/ j = 0
      BY <2>2, <2>3, PortsKnown
    <3>2. QED
      BY <1>1, <2>1, <3>1 DEF RegCalls
  <2>9. RegSettled'
    BY <1>1 DEF RegSettled
  <2>10. RegAligns'
    BY <1>1, <1>4, <2>1, <2>4, <2>5 DEF RegInv, RegAligns, RegTypes
  <2>11. QED
    BY <2>6, <2>7, <2>8, <2>9, <2>10 DEF RegInv
<1>5. QED
  BY <1>3, <1>4

(* A write by the test bench keeps it.                                     *)
LEMMA RegProbeStep ==
  ASSUME RegInv, NEW x \in Values, Reg!write_reg(1, x)
  PROVE  RegInv'
<1>1. /\ cls \notin {"CReg", "RegAligned"} /\ phase = "rules" /\ wrote = Reg!NoWrite /\ ~in_reset
      /\ value' = x /\ q' = x
      /\ UNCHANGED <<cls, reset_type, old, written, a_at, tick_at, in_reset, suppress_write, phase, wrote, was>>
  BY DEF Reg!write_reg, Reg!reset
<1>2. Given(wrote, x, x) /\ wrote[0] = None /\ wrote[1] = None
  BY <1>1, GivenNothing, PortsKnown DEF Reg!NoWrite
<1>3. RegTypes' /\ RegHeld'
  BY <1>1 DEF RegInv, RegTypes, RegHeld, Reg!Async
<1>4. RegCalls'
  BY <1>1, <1>2 DEF RegInv, RegCalls
<1>5. RegSettled' /\ RegAligns'
  BY <1>1 DEF RegSettled, RegAligns
<1>6. QED
  BY <1>3, <1>4, <1>5 DEF RegInv

(* What the writes of the cycle make of q is what the edge is to leave. *)
LEMMA RegEdgeValue ==
  ASSUME RegInv, phase = "rules", ~(Reg!Async /\ in_reset), cls = "RegAligned" => LateInReset = FALSE
  PROVE  Reg!realClock = Reg!VerilogNext
<1>1. RegPorts \in 0 .. RegPorts /\ \A j \in RegPorts .. RegPorts - 1 : wrote[j] = None
  BY RegAssumption
<1>2. CASE cls \notin {"RegAligned", "RegTwo"}
  <2>1. Given(wrote, q, value)
    BY <1>2 DEF RegInv, RegCalls
  <2>2. Reg!LastBelow(RegPorts, q) = value
    BY <1>1, <2>1, LastBelowGiven
  <2>3. QED
    BY <1>2, <2>2 DEF Reg!realClock, Reg!VerilogNext
<1>3. CASE cls = "RegAligned"
  <2>1. Given(wrote, q, old)
    BY <1>3 DEF RegInv, RegAligns
  <2>2. Reg!LastBelow(RegPorts, q) = old
    BY <1>1, <2>1, LastBelowGiven
  <2>3. ~Reg!Suppressed
    BY DEF RegInv, RegTypes, Reg!Suppressed
  <2>4. QED
    BY <1>3, <2>2, <2>3 DEF Reg!realClock, Reg!VerilogNext
<1>4. CASE cls = "RegTwo"
  <2>1. /\ value = IF wrote[0] # None THEN wrote[0] ELSE IF wrote[1] # None THEN wrote[1] ELSE q
        /\ \A j \in Reg!Ports : wrote[j] = None \/ j = 0 \/ j = 1
    BY <1>4 DEF RegInv, RegCalls
  <2>2. CASE wrote[0] # None
    BY <1>4, <2>1, <2>2 DEF Reg!realClock, Reg!VerilogNext
  <2>3. CASE wrote[0] = None
    <3>1. Given(wrote, q, value)
      BY <2>1, <2>3, PortsKnown DEF Given
    <3>2. Reg!LastBelow(RegPorts, q) = value
      BY <1>1, <3>1, LastBelowGiven
    <3>3. QED
      BY <1>4, <2>3, <3>2 DEF Reg!realClock, Reg!VerilogNext
  <2>4. QED
    BY <2>2, <2>3
<1>5. QED
  BY <1>2, <1>3, <1>4

(* The clock functions keep it.                                            *)
LEMMA RegEdgeStep ==
  ASSUME RegInv, NEW gate \in BOOLEAN, NEW ticks \in BOOLEAN, Reg!Edge(gate, ticks)
  PROVE  RegInv'
<1>1. /\ phase = "rules" /\ phase' = "ticked" /\ (~gate => wrote = Reg!NoWrite)
      /\ in_reset /\ ~Reg!Async => ticks
      /\ was' = q /\ tick_at' = (cls = "RegAligned")
      /\ q' = IF in_reset /\ (gate \/ Reg!Async) THEN reset_value ELSE Reg!VerilogNext
      /\ UNCHANGED <<cls, reset_type, a_at, in_reset, wrote>>
  BY DEF Reg!Edge
<1>2. CASE ticks /\ in_reset /\ gate
  <2>1. /\ value' = reset_value /\ q' = reset_value /\ suppress_write' = TRUE /\ written' \in BOOLEAN
        /\ cls = "RegAligned" => old' = reset_value
    BY <1>1, <1>2 DEF Reg!Edge, Reg!ResetFields, RegInv, RegTypes
  <2>2. RegTypes' /\ RegHeld' /\ RegCalls'
    BY <1>1, <1>2, <2>1 DEF RegInv, RegTypes, RegHeld, RegCalls, Reg!Async
  <2>3. RegSettled' /\ RegAligns'
    BY <1>1, <1>2, <2>1 DEF RegSettled, RegAligns
  <2>4. QED
    BY <2>2, <2>3 DEF RegInv
<1>3. CASE ~(ticks /\ in_reset /\ gate)
  <2>1. value' = Reg!realClock /\ UNCHANGED <<old, written, suppress_write>>
    BY <1>3 DEF Reg!Edge
  <2>2. RegTypes'
    BY <1>1, <2>1 DEF RegInv, RegTypes
  <2>3. CASE Reg!Async /\ in_reset
    <3>1. Reg!realClock = reset_value /\ q' = reset_value
      BY <1>1, <2>3 DEF RegInv, RegHeld, Reg!realClock, Reg!Suppressed
    <3>2. RegHeld' /\ RegCalls' /\ RegSettled' /\ RegAligns'
      BY <1>1, <2>1, <2>3, <3>1 DEF RegInv, RegHeld, RegCalls, RegSettled, RegAligns, Reg!Async
    <3>3. QED
      BY <2>2, <3>2 DEF RegInv
  <2>4. CASE ~(Reg!Async /\ in_reset)
    <3>1. q' = Reg!VerilogNext
      BY <1>1, <1>3, <2>4
    <3>2. cls # "RegAligned" \/ LateInReset = FALSE => value' = q'
      BY <1>1, <2>1, <2>4, <3>1, RegEdgeValue
    <3>3. RegHeld' /\ RegCalls'
      BY <1>1, <2>1, <2>4 DEF RegHeld, RegCalls, Reg!Async
    <3>4. RegSettled'
      <4>1. CASE cls = "CrossingReg" /\ wrote[0] # None
        <5>1. wrote # Reg!NoWrite
          BY <4>1, PortsKnown DEF Reg!NoWrite
        <5>2. QED
          BY <1>1, <2>1, <3>2, <4>1, <5>1 DEF RegInv, RegCalls, RegSettled
      <4>2. CASE ~(cls = "CrossingReg" /\ wrote[0] # None)
        BY <1>1, <3>2, <4>2 DEF RegSettled
      <4>3. QED
        BY <4>1, <4>2
    <3>5. RegAligns'
      <4>1. cls = "RegAligned" => Reg!realClock = old
        BY <2>4 DEF Reg!realClock, Reg!Suppressed, RegInv, RegTypes
      <4>2. QED
        BY <1>1, <2>1, <3>2, <4>1 DEF RegAligns
    <3>6. QED
      BY <2>2, <3>3, <3>4, <3>5 DEF RegInv
  <2>5. QED
    BY <2>3, <2>4
<1>4. QED
  BY <1>2, <1>3

(* A reset and its release keep it.                                        *)
LEMMA RegResetStep ==
  ASSUME RegInv, NEW rst_in \in BOOLEAN, Reg!reset_RST(rst_in)
  PROVE  RegInv'
<1>1. /\ phase = "ticked" /\ in_reset = rst_in /\ phase' = "settled" /\ in_reset' = ~rst_in
      /\ UNCHANGED <<cls, reset_type, written, a_at, tick_at, wrote, was>>
  BY DEF Reg!reset_RST
<1>2. CASE ~rst_in /\ Reg!Async
  <2>1. /\ value' = reset_value /\ q' = reset_value /\ suppress_write' = TRUE
        /\ cls = "RegAligned" => old' = reset_value
    BY <1>2 DEF Reg!reset_RST
  <2>2. QED
    BY <1>1, <1>2, <2>1 DEF RegInv, RegTypes, RegHeld, RegCalls, RegSettled, RegAligns, Reg!Async
<1>3. CASE ~(~rst_in /\ Reg!Async)
  <2>1. suppress_write' = (suppress_write /\ ~rst_in) /\ UNCHANGED <<value, old, q>>
    BY <1>3 DEF Reg!reset_RST
  <2>2. ~(Reg!Async' /\ in_reset')
    BY <1>1, <1>3 DEF Reg!Async
  <2>3. RegTypes'
    BY <1>1, <2>1 DEF RegInv, RegTypes
  <2>4. RegHeld' /\ RegCalls' /\ RegSettled' /\ RegAligns'
    BY <1>1, <2>1, <2>2 DEF RegInv, RegHeld, RegCalls, RegSettled, RegAligns
  <2>5. QED
    BY <2>3, <2>4 DEF RegInv
<1>4. QED
  BY <1>2, <1>3

(* A dump of the waveform keeps it.                                        *)
LEMMA RegDumpStep ==
  ASSUME RegInv, NEW dt, Reg!dump_VCD(dt)
  PROVE  RegInv'
<1>1. /\ phase \in {"ticked", "settled"} /\ phase' = "dumped"
      /\ UNCHANGED <<cls, reset_type, value, old, written, a_at, tick_at, in_reset, suppress_write, wrote, q, was>>
  BY DEF Reg!dump_VCD, Reg!state, Reg!reset
<1>2. QED
  BY <1>1 DEF RegInv, RegTypes, RegHeld, RegCalls, RegSettled, RegAligns, Reg!Async

(* The next slice starts in it.                                            *)
LEMMA RegAdvanceStep ==
  ASSUME RegInv, Reg!Advance
  PROVE  RegInv'
<1>1. /\ phase # "rules" /\ phase' = "rules" /\ wrote' = Reg!NoWrite
      /\ written' = FALSE /\ a_at' = FALSE /\ tick_at' = FALSE
      /\ UNCHANGED <<cls, reset_type, value, old, in_reset, suppress_write, q, was>>
  BY DEF Reg!Advance, Reg!reset
<1>2. Reg!NoWrite \in WriteSets /\ Given(Reg!NoWrite, q, q) /\ \A j \in Reg!Ports : Reg!NoWrite[j] = None
  BY GivenNothing DEF Reg!NoWrite
<1>3. Reg!NoWrite[0] = None /\ Reg!NoWrite[1] = None
  BY <1>2, PortsKnown
<1>4. RegTypes' /\ RegHeld' /\ RegSettled'
  BY <1>1, <1>2 DEF RegInv, RegTypes, RegHeld, RegSettled, Reg!Async
<1>5. RegCalls' /\ RegAligns'
  BY <1>1, <1>2, <1>3 DEF RegInv, RegCalls, RegSettled, RegAligns
<1>6. QED
  BY <1>4, <1>5 DEF RegInv

(* Every step of the registers keeps it.                                   *)
LEMMA RegStep == RegInv /\ [Reg!RegNext]_regVars => RegInv'
<1> SUFFICES ASSUME RegInv, [Reg!RegNext]_regVars PROVE RegInv'
  OBVIOUS
<1>1. CASE UNCHANGED regVars
  BY <1>1, RegIdle DEF regVars
<1>2. ASSUME NEW x \in Values,
             \/ Reg!METH_write(x) \/ Reg!METH__write(x) \/ Reg!METH_config_write(x)
             \/ Reg!METH_setA(x) \/ Reg!METH_setB(x) \/ Reg!METH_aligned_write(x) \/ Reg!write_reg(1, x)
             \/ \E i \in Reg!Ports : Reg!METH_port_write(i, x)
      PROVE  RegInv'
  BY <1>2, RegCallStep, RegAlignedStep, RegProbeStep
<1>3. ASSUME NEW gate \in BOOLEAN, NEW ticks \in BOOLEAN, Reg!Edge(gate, ticks) PROVE RegInv'
  BY <1>3, RegEdgeStep
<1>4. ASSUME NEW rst_in \in BOOLEAN, Reg!reset_RST(rst_in) PROVE RegInv'
  BY <1>4, RegResetStep
<1>5. ASSUME NEW dt \in {"VCD_DUMP_XS", "VCD_DUMP_CHANGES", "VCD_DUMP_RESTART"}, Reg!dump_VCD(dt) PROVE RegInv'
  BY <1>5, RegDumpStep
<1>6. QED
  BY <1>1, <1>2, <1>3, <1>4, <1>5, RegAdvanceStep DEF Reg!RegNext

(* The value is then that of the Verilog, ...                              *)
LEMMA RegInvComposes == RegInv /\ LateInReset = FALSE => RegEdgeComposes
BY DEF RegInv, RegSettled, RegAligns, RegEdgeComposes, Reg!RegEdgeComposes

(* ... and a read between calls that of before, or of the ports below.     *)
LEMMA RegInvReads == RegInv => Reg!RegReadsSteady
<1> SUFFICES ASSUME RegInv PROVE Reg!RegReadsSteady
  OBVIOUS
<1>1. ASSUME phase = "rules", cls \in {"CrossingReg", "ConfigReg", "RegTwo"}
      PROVE  (IF written THEN old ELSE value) = q
  <2>1. CASE written
    BY <1>1, <2>1 DEF RegInv, RegCalls
  <2>2. CASE ~written
    <3>1. wrote = Reg!NoWrite
      BY <1>1, <2>2 DEF RegInv, RegCalls
    <3>2. wrote[0] = None /\ wrote[1] = None /\ \A j \in Reg!Ports : wrote[j] = None
      BY <3>1, PortsKnown DEF Reg!NoWrite
    <3>3. value = q
      BY <1>1, <3>2 DEF RegInv, RegCalls, Given
    <3>4. QED
      BY <2>2, <3>3
  <2>3. QED
    BY <2>1, <2>2
<1>2. ASSUME phase = "rules", cls = "CReg", NEW i \in Reg!Ports, \A j \in i .. RegPorts - 1 : wrote[j] = None
      PROVE  Reg!METH_port_read(i) = Reg!LastBelow(i, q)
  <2>1. i \in 0 .. RegPorts /\ Given(wrote, q, value)
    BY <1>2, RegAssumption DEF Reg!Ports, RegInv, RegCalls
  <2>2. QED
    BY <1>2, <2>1, LastBelowGiven DEF Reg!METH_port_read
<1>3. ASSUME phase # "rules", cls = "CrossingReg"
      PROVE  /\ Reg!METH_crossed(TRUE) = q
             /\ phase = "ticked" /\ ~in_reset /\ wrote[0] # None => Reg!METH_crossed(FALSE) = was
  BY <1>3 DEF RegInv, RegSettled, Reg!METH_crossed
<1>4. QED
  BY <1>1, <1>2, <1>3 DEF Reg!RegReadsSteady, Reg!METH_config_read, Reg!METH_get, Reg!METH_crossed

-----------------------------------------------------------------------------
(* The memories.  While the calls of a time slice of MOD_BRAM come one by   *)
(* one, what is known of the memory before the slice is spread: a word is   *)
(* as it was, or some port has written it and has its old value.            *)

Blocks == [BRAM!Chunks -> Values \cup {Undet}]
Puts == [at : BOOLEAN, addr : BRAM!Words \cup {shape.words, 0}, wens : SUBSET BRAM!Chunks, val : Blocks]

BramTypes ==
  /\ mem \in [BRAM!Words -> Blocks] /\ RAM = mem /\ RAM0 \in [BRAM!Words -> Blocks]
  /\ upd \in [BRAM!Ports -> Puts] /\ memWritten \in [BRAM!Ports -> BOOLEAN]
  /\ prev \in [BRAM!Ports -> Blocks]
  /\ out \in [BRAM!Ports -> Blocks] /\ DO = out
  /\ out2 \in [BRAM!Ports -> Blocks] /\ DO2 = out2
  /\ calls \subseteq {"put", "clk"} \X BRAM!Ports
  /\ reqs \in [BRAM!Ports -> BRAM!Requests \cup {None}]

(* A put is of a request, and comes before the clock function of its port; *)
(* once it has come, or if there is none, the port is as the request says. *)
BramCalls ==
  \A p \in BRAM!Ports :
    /\ <<"put", p>> \in calls => <<"clk", p>> \in calls /\ reqs[p] # None
    /\ <<"clk", p>> \in calls => ~memWritten[p]
    /\ <<"clk", p>> \in calls /\ <<"put", p>> \notin calls => (upd[p].at <=> reqs[p] # None)
    /\ upd[p].at => /\ upd[p].addr = reqs[p].addr /\ upd[p].wens = reqs[p].wens
                    /\ upd[p].val = reqs[p].val

(* What is overwritten in this slice is kept by the port that did it.      *)
BramKept ==
  calls # {} =>
    /\ \A p \in BRAM!Ports : memWritten[p] =>
         upd[p].addr \in BRAM!Words /\ prev[p] = RAM0[upd[p].addr]
    /\ \A a \in BRAM!Words :
         mem[a] = RAM0[a] \/ \E p \in BRAM!Ports : memWritten[p] /\ upd[p].addr = a

BramInv == BramTypes /\ BramCalls /\ BramKept

(* Words are blended chunk by chunk; of nothing, it is the old word.       *)
LEMMA Blended ==
  ASSUME NEW x \in Blocks, NEW y \in Blocks, NEW wens
  PROVE  BRAM!Blend(x, wens, y) \in Blocks /\ (wens = {} => BRAM!Blend(x, wens, y) = x)
BY DEF BRAM!Blend, Blocks

LEMMA Unwritten == BRAM!Word(Undet) \in Blocks /\ BRAM!NoPut \in Puts /\ BRAM!NoPut.at = FALSE
BY DEF BRAM!Word, Blocks, BRAM!NoPut, Puts

LEMMA RequestTypes ==
  ASSUME NEW r \in BRAM!Requests
  PROVE  r.addr \in BRAM!Words \cup {shape.words} /\ r.wens \in SUBSET BRAM!Chunks /\ r.val \in Blocks
<1>1. PICK a \in BRAM!Words \cup {shape.words}, w \in SUBSET BRAM!Chunks, d \in [BRAM!Chunks -> Values] :
        r = [addr |-> a, wens |-> w,
             val |-> [i \in BRAM!Chunks |-> IF i \in w /\ a \in BRAM!Words THEN d[i] ELSE BRAM!Junk]]
  BY DEF BRAM!Requests
<1>2. ASSUME NEW i \in BRAM!Chunks
      PROVE  (IF i \in w /\ a \in BRAM!Words THEN d[i] ELSE BRAM!Junk) \in Values \cup {Undet}
  <2>1. d[i] \in Values
    OBVIOUS
  <2>2. BRAM!Junk \in Values
    BY <2>1 DEF BRAM!Junk
  <2>3. QED
    BY <2>1, <2>2
<1>3. r.val = [i \in BRAM!Chunks |-> IF i \in w /\ a \in BRAM!Words THEN d[i] ELSE BRAM!Junk]
  BY <1>1
<1>4. r.val \in Blocks
  BY <1>2, <1>3 DEF Blocks
<1>5. QED
  BY <1>1, <1>4

LEMMA BramStarts == BRAM!BRAMInit => BramInv
<1> SUFFICES ASSUME BRAM!BRAMInit PROVE BramInv
  OBVIOUS
<1> USE DEF BRAM!BRAMInit
<1>1. BramTypes
  BY Unwritten DEF BramTypes
<1>2. BramCalls /\ BramKept
  BY Unwritten DEF BramCalls, BramKept
<1>3. QED
  BY <1>1, <1>2 DEF BramInv

(* A slice begins with the memory of the last one.                         *)
LEMMA BramSliceStep ==
  ASSUME BramInv, NEW edges \in SUBSET BRAM!Ports, NEW rs \in [edges -> BRAM!Requests \cup {None}],
         BRAM!Slice(edges, rs)
  PROVE  BramInv'
<1>1. /\ calls' = {<<"clk", p>> : p \in edges} \cup {<<"put", p>> : p \in {x \in edges : rs[x] # None}}
      /\ reqs' = [p \in BRAM!Ports |-> IF p \in edges THEN rs[p] ELSE None]
      /\ upd' = [p \in BRAM!Ports |-> IF shape.dual_port THEN BRAM!NoPut ELSE [upd[p] EXCEPT !.at = FALSE]]
      /\ memWritten' = [p \in BRAM!Ports |-> FALSE] /\ prev' = [p \in BRAM!Ports |-> BRAM!Word(Undet)]
      /\ RAM0' = RAM
      /\ UNCHANGED <<shape, mem, out, out2, RAM, DO, DO2>>
  BY DEF BRAM!Slice
<1>2. /\ UNCHANGED <<BRAM!Ports, BRAM!Words, BRAM!Requests, Blocks, Puts>>
  BY <1>1 DEF BRAM!Ports, BRAM!Words, BRAM!Chunks, BRAM!Requests, Blocks, Puts
<1>3. ASSUME NEW p \in BRAM!Ports
      PROVE  upd'[p] \in Puts /\ upd'[p].at = FALSE
  <2>1. upd[p] \in Puts
    BY DEF BramInv, BramTypes
  <2>2. [upd[p] EXCEPT !.at = FALSE] \in Puts /\ [upd[p] EXCEPT !.at = FALSE].at = FALSE
    BY <2>1 DEF Puts
  <2>3. QED
    BY <1>1, <2>2, Unwritten
<1>4. BramTypes'
  <2>1. upd' \in [BRAM!Ports -> Puts]
    BY <1>1, <1>3
  <2>2. calls' \subseteq {"put", "clk"} \X BRAM!Ports
    BY <1>1
  <2>3. reqs' \in [BRAM!Ports -> BRAM!Requests \cup {None}]
    BY <1>1
  <2>4. QED
    BY <1>1, <1>2, <2>1, <2>2, <2>3, Unwritten DEF BramInv, BramTypes
<1>5. ASSUME NEW p \in BRAM!Ports
      PROVE  /\ <<"put", p>> \in calls' <=> p \in edges /\ rs[p] # None
             /\ <<"clk", p>> \in calls' <=> p \in edges
  BY <1>1
<1>6. BramCalls'
  BY <1>1, <1>2, <1>3, <1>5 DEF BramCalls
<1>7. BramKept'
  BY <1>1, <1>2 DEF BramInv, BramTypes, BramKept
<1>8. QED
  BY <1>4, <1>6, <1>7 DEF BramInv

(* The put of a port leaves its request there.                             *)
LEMMA BramPutStep ==
  ASSUME BramInv, NEW p \in BRAM!Ports, BRAM!METH_put(p)
  PROVE  BramInv'
<1> DEFINE r == reqs[p]
<1>1. /\ <<"put", p>> \in calls /\ calls' = calls \ {<<"put", p>>}
      /\ upd' = [upd EXCEPT ![p] = [at |-> TRUE, addr |-> r.addr, wens |-> r.wens, val |-> r.val]]
      /\ UNCHANGED <<shape, mem, memWritten, prev, out, out2, reqs, RAM, RAM0, DO, DO2>>
  BY DEF BRAM!METH_put, BRAM!verilog
<1>2. UNCHANGED <<BRAM!Ports, BRAM!Words, BRAM!Requests, Blocks, Puts>>
  BY <1>1 DEF BRAM!Ports, BRAM!Words, BRAM!Chunks, BRAM!Requests, Blocks, Puts
<1>3. r # None /\ <<"clk", p>> \in calls /\ ~memWritten[p] /\ r \in BRAM!Requests
  BY <1>1 DEF BramInv, BramTypes, BramCalls
<1>4. [at |-> TRUE, addr |-> r.addr, wens |-> r.wens, val |-> r.val] \in Puts
  BY <1>3, RequestTypes DEF Puts
<1>5. /\ upd' \in [BRAM!Ports -> Puts]
      /\ upd'[p] = [at |-> TRUE, addr |-> r.addr, wens |-> r.wens, val |-> r.val]
      /\ \A o \in BRAM!Ports : o # p => upd'[o] = upd[o]
  BY <1>1, <1>4 DEF BramInv, BramTypes
<1>6. BramTypes'
  BY <1>1, <1>2, <1>5 DEF BramInv, BramTypes
<1>7. ASSUME NEW o \in BRAM!Ports
      PROVE  /\ <<"put", o>> \in calls' <=> <<"put", o>> \in calls /\ o # p
             /\ <<"clk", o>> \in calls' <=> <<"clk", o>> \in calls
  BY <1>1
<1>8. BramCalls'
  BY <1>1, <1>2, <1>3, <1>5, <1>7 DEF BramInv, BramCalls
<1>9. BramKept'
  <2>1. calls # {}
    BY <1>1
  <2>2. \A o \in BRAM!Ports : memWritten[o] => o # p /\ upd'[o] = upd[o]
    BY <1>3, <1>5
  <2>3. QED
    BY <1>1, <1>2, <2>1, <2>2 DEF BramInv, BramKept
<1>10. QED
  BY <1>6, <1>8, <1>9 DEF BramInv

(* The word that clk takes for the old one is that of before the slice.    *)
LEMMA PreviousIsOld ==
  ASSUME BramInv, NEW p \in BRAM!Ports, <<"clk", p>> \in calls, upd[p].addr \in BRAM!Words
  PROVE  BRAM!Previous(p) = RAM0[upd[p].addr] /\ BRAM!Previous(p) \in Blocks
<1>1. calls # {} /\ ~memWritten[p]
  BY DEF BramInv, BramCalls
<1>2. RAM0[upd[p].addr] \in Blocks
  BY DEF BramInv, BramTypes
<1>3. CASE shape.dual_port /\ memWritten[BRAM!Other(p)] /\ upd[p].addr = upd[BRAM!Other(p)].addr
  <2>1. BRAM!Other(p) \in BRAM!Ports
    BY <1>3 DEF BRAM!Other, BRAM!Ports
  <2>2. prev[BRAM!Other(p)] = RAM0[upd[p].addr]
    BY <1>1, <1>3, <2>1 DEF BramInv, BramKept
  <2>3. QED
    BY <1>2, <1>3, <2>2 DEF BRAM!Previous
<1>4. CASE ~(shape.dual_port /\ memWritten[BRAM!Other(p)] /\ upd[p].addr = upd[BRAM!Other(p)].addr)
  <2>1. mem[upd[p].addr] = RAM0[upd[p].addr]
    <3>1. SUFFICES ASSUME NEW o \in BRAM!Ports, memWritten[o], upd[o].addr = upd[p].addr PROVE FALSE
      BY <1>1 DEF BramInv, BramKept
    <3>2. o # p
      BY <1>1, <3>1
    <3>3. shape.dual_port /\ o = BRAM!Other(p)
      BY <3>2 DEF BRAM!Ports, BRAM!Other
    <3>4. QED
      BY <1>4, <3>1, <3>3
  <2>2. QED
    BY <1>2, <1>4, <2>1 DEF BRAM!Previous
<1>5. QED
  BY <1>3, <1>4

(* The clock function carries out the request as the clock edge does.      *)
LEMMA BramEdgeStep ==
  ASSUME BramInv, NEW p \in BRAM!Ports, BRAM!ClockEdge(p)
  PROVE  BramInv'
<1> DEFINE u == upd[p]
           r == reqs[p]
           writes == u.at /\ u.addr \in BRAM!Words /\ u.wens # {}
           before == BRAM!Previous(p)
<1>1. /\ <<"clk", p>> \in calls /\ <<"put", p>> \notin calls /\ calls' = calls \ {<<"clk", p>>}
      /\ UNCHANGED <<shape, upd, reqs, RAM0>>
  BY DEF BRAM!ClockEdge
<1>2. UNCHANGED <<BRAM!Ports, BRAM!Words, BRAM!Requests, Blocks, Puts>>
  BY <1>1 DEF BRAM!Ports, BRAM!Words, BRAM!Chunks, BRAM!Requests, Blocks, Puts
<1>3. /\ u.at <=> r # None
      /\ r # None => u.addr = r.addr /\ u.wens = r.wens /\ u.val = r.val
      /\ ~memWritten[p] /\ calls # {}
  BY <1>1 DEF BramInv, BramCalls
<1>4. u \in Puts /\ u.val \in Blocks
  BY DEF BramInv, BramTypes, Puts
<1>5. u.addr \in BRAM!Words => before = RAM0[u.addr] /\ before \in Blocks
  BY <1>1, PreviousIsOld
<1>6. out' \in [BRAM!Ports -> Blocks] /\ DO' = out'
  <2> DEFINE new == IF ~u.at THEN out[p] ELSE IF u.addr \notin BRAM!Words THEN BRAM!Word(Undet)
                    ELSE BRAM!Blend(before, u.wens, u.val)
  <2>1. out' = [out EXCEPT ![p] = new]
    BY DEF BRAM!ClockEdge, BRAM!clk
  <2>2. DO' = [DO EXCEPT ![p] = IF r = None THEN DO[p] ELSE IF r.addr \notin BRAM!Words THEN BRAM!Word(Undet)
                                ELSE BRAM!Blend(RAM0[r.addr], r.wens, r.val)]
    BY DEF BRAM!ClockEdge, BRAM!VerilogEdge
  <2>3. new \in Blocks
    BY <1>4, <1>5, Blended, Unwritten DEF BramInv, BramTypes
  <2>4. DO' = [out EXCEPT ![p] = new]
    BY <1>3, <1>5, <2>2 DEF BramInv, BramTypes
  <2> HIDE DEF new
  <2>5. QED
    BY <2>1, <2>3, <2>4 DEF BramInv, BramTypes
<1>7. out2' \in [BRAM!Ports -> Blocks] /\ DO2' = out2'
  <2>1. out2' = [out2 EXCEPT ![p] = IF shape.pipelined THEN out[p] ELSE out2[p]]
    BY DEF BRAM!ClockEdge, BRAM!clk
  <2>2. DO2' = [DO2 EXCEPT ![p] = IF shape.pipelined THEN DO[p] ELSE DO2[p]]
    BY DEF BRAM!ClockEdge, BRAM!VerilogEdge
  <2>3. QED
    BY <2>1, <2>2 DEF BramInv, BramTypes
<1>8. ASSUME NEW o \in BRAM!Ports
      PROVE  /\ <<"put", o>> \in calls' <=> <<"put", o>> \in calls
             /\ <<"clk", o>> \in calls' <=> <<"clk", o>> \in calls /\ o # p
  BY <1>1
<1>9. CASE writes
  <2>1. /\ memWritten' = [memWritten EXCEPT ![p] = TRUE] /\ prev' = [prev EXCEPT ![p] = before]
        /\ mem' = [mem EXCEPT ![u.addr] = BRAM!Blend(mem[u.addr], u.wens, u.val)]
    BY <1>9 DEF BRAM!ClockEdge, BRAM!clk
  <2>2. RAM' = [RAM EXCEPT ![r.addr] = BRAM!Blend(RAM[r.addr], r.wens, r.val)]
    BY <1>3, <1>9 DEF BRAM!ClockEdge, BRAM!VerilogEdge
  <2>3. BRAM!Blend(mem[u.addr], u.wens, u.val) \in Blocks
    BY <1>4, <1>9, Blended DEF BramInv, BramTypes
  <2>4. RAM' = mem'
    BY <1>3, <1>9, <2>1, <2>2 DEF BramInv, BramTypes
  <2>5. mem' \in [BRAM!Words -> Blocks] /\ \A a \in BRAM!Words : a # u.addr => mem'[a] = mem[a]
    BY <1>9, <2>1, <2>3 DEF BramInv, BramTypes
  <2>6. prev' \in [BRAM!Ports -> Blocks] /\ prev'[p] = before /\ \A o \in BRAM!Ports : o # p => prev'[o] = prev[o]
    BY <1>5, <1>9, <2>1 DEF BramInv, BramTypes
  <2>7. /\ memWritten' \in [BRAM!Ports -> BOOLEAN] /\ memWritten'[p]
        /\ \A o \in BRAM!Ports : o # p => memWritten'[o] = memWritten[o]
    BY <2>1 DEF BramInv, BramTypes
  <2>8. BramTypes'
    BY <1>1, <1>2, <1>6, <1>7, <2>4, <2>5, <2>6, <2>7 DEF BramInv, BramTypes
  <2>9. BramCalls'
    BY <1>1, <1>2, <1>8, <2>7 DEF BramInv, BramCalls
  <2>10. BramKept'
    <3>1. \A o \in BRAM!Ports : memWritten'[o] =>
            upd'[o].addr \in BRAM!Words /\ prev'[o] = RAM0'[upd'[o].addr]
      BY <1>1, <1>3, <1>5, <1>9, <2>6, <2>7 DEF BramInv, BramKept
    <3>2. \A a \in BRAM!Words :
            mem'[a] = RAM0'[a] \/ \E o \in BRAM!Ports : memWritten'[o] /\ upd'[o].addr = a
      BY <1>1, <1>3, <2>5, <2>7 DEF BramInv, BramKept
    <3>3. QED
      BY <1>2, <3>1, <3>2 DEF BramKept
  <2>11. QED
    BY <2>8, <2>9, <2>10 DEF BramInv
<1>10. CASE ~writes
  <2>1. UNCHANGED <<memWritten, prev, mem>>
    BY <1>10 DEF BRAM!ClockEdge, BRAM!clk
  <2>2. RAM' = RAM
    <3>1. CASE r = None \/ r.addr \notin BRAM!Words
      BY <3>1 DEF BRAM!ClockEdge, BRAM!VerilogEdge
    <3>2. CASE r # None /\ r.addr \in BRAM!Words
      <4>1. r.wens = {} /\ r.val \in Blocks /\ RAM[r.addr] \in Blocks
        BY <1>3, <1>4, <1>10, <3>2 DEF BramInv, BramTypes
      <4>2. BRAM!Blend(RAM[r.addr], r.wens, r.val) = RAM[r.addr]
        BY <4>1, Blended
      <4>3. RAM' = [RAM EXCEPT ![r.addr] = RAM[r.addr]]
        BY <3>2, <4>2 DEF BRAM!ClockEdge, BRAM!VerilogEdge
      <4>4. QED
        BY <3>2, <4>3 DEF BramInv, BramTypes
    <3>3. QED
      BY <3>1, <3>2
  <2>3. BramTypes'
    BY <1>1, <1>2, <1>6, <1>7, <2>1, <2>2 DEF BramInv, BramTypes
  <2>4. BramCalls' /\ BramKept'
    BY <1>1, <1>2, <1>3, <1>8, <2>1 DEF BramInv, BramCalls, BramKept
  <2>5. QED
    BY <2>3, <2>4 DEF BramInv
<1>11. QED
  BY <1>9, <1>10

(* A write of a file or of the test bench, between slices.                 *)
LEMMA BramWriteStep ==
  ASSUME BramInv, NEW a, NEW d \in [BRAM!Chunks -> Values], BRAM!write_bram(a, d)
  PROVE  BramInv'
<1>1. /\ calls = {} /\ mem' = (IF a \in BRAM!Words THEN [mem EXCEPT ![a] = d] ELSE mem) /\ RAM' = mem'
      /\ UNCHANGED <<shape, upd, memWritten, prev, out, out2, calls, reqs, RAM0, DO, DO2>>
  BY DEF BRAM!write_bram, BRAM!Idle
<1>2. UNCHANGED <<BRAM!Ports, BRAM!Words, BRAM!Requests, Blocks, Puts>>
  BY <1>1 DEF BRAM!Ports, BRAM!Words, BRAM!Chunks, BRAM!Requests, Blocks, Puts
<1>3. d \in Blocks
  BY DEF Blocks
<1>4. mem' \in [BRAM!Words -> Blocks]
  BY <1>1, <1>3 DEF BramInv, BramTypes
<1>5. BramTypes'
  BY <1>1, <1>2, <1>4 DEF BramInv, BramTypes
<1>6. BramCalls' /\ BramKept'
  BY <1>1, <1>2 DEF BramInv, BramCalls, BramKept
<1>7. QED
  BY <1>5, <1>6 DEF BramInv

(* What leaves the memory, its ports and the calls alone, and a slice      *)
(* without an edge.                                                        *)
LEMMA BramIdle ==
  ASSUME BramInv, \/ UNCHANGED bramVars
                  \/ BRAM!OtherEdge
                  \/ \E dt \in {"VCD_DUMP_XS", "VCD_DUMP_CHANGES", "VCD_DUMP_RESTART"} : BRAM!dump_VCD(dt)
  PROVE  BramInv'
<1>1. CASE BRAM!OtherEdge
  <2>1. /\ calls = {} /\ upd' = [upd EXCEPT !["A"] = [upd["A"] EXCEPT !.at = FALSE]]
        /\ UNCHANGED <<shape, mem, memWritten, prev, out, out2, calls, reqs, RAM, RAM0, DO, DO2>>
    BY <1>1 DEF BRAM!OtherEdge, BRAM!Idle, BRAM!verilog
  <2>2. UNCHANGED <<BRAM!Ports, BRAM!Words, BRAM!Requests, Blocks, Puts>>
    BY <2>1 DEF BRAM!Ports, BRAM!Words, BRAM!Chunks, BRAM!Requests, Blocks, Puts
  <2>3. "A" \in BRAM!Ports
    BY DEF BRAM!Ports
  <2>4. [upd["A"] EXCEPT !.at = FALSE] \in Puts
    BY <2>3 DEF BramInv, BramTypes, Puts
  <2>5. upd' \in [BRAM!Ports -> Puts]
    BY <2>1, <2>4 DEF BramInv, BramTypes
  <2>6. BramTypes'
    BY <2>1, <2>2, <2>5 DEF BramInv, BramTypes
  <2>7. BramCalls' /\ BramKept'
    BY <2>1, <2>2 DEF BramInv, BramTypes, BramCalls, BramKept
  <2>8. QED
    BY <2>6, <2>7 DEF BramInv
<1>2. CASE ~BRAM!OtherEdge
  <2>1. UNCHANGED <<shape, mem, upd, memWritten, prev, out, out2, calls, reqs, RAM, RAM0, DO, DO2>>
    BY <1>2 DEF bramVars, BRAM!dump_VCD, BRAM!object, BRAM!verilog
  <2>2. UNCHANGED <<BRAM!Ports, BRAM!Words, BRAM!Requests, Blocks, Puts>>
    BY <2>1 DEF BRAM!Ports, BRAM!Words, BRAM!Chunks, BRAM!Requests, Blocks, Puts
  <2>3. QED
    BY <2>1, <2>2 DEF BramInv, BramTypes, BramCalls, BramKept
<1>3. QED
  BY <1>1, <1>2

LEMMA BramStep == BramInv /\ [BRAM!BRAMNext]_bramVars => BramInv'
<1> SUFFICES ASSUME BramInv, [BRAM!BRAMNext]_bramVars PROVE BramInv'
  OBVIOUS
<1>1. ASSUME NEW edges \in SUBSET BRAM!Ports, NEW rs \in [edges -> BRAM!Requests \cup {None}], BRAM!Slice(edges, rs)
      PROVE  BramInv'
  BY <1>1, BramSliceStep
<1>2. ASSUME NEW p \in BRAM!Ports, BRAM!METH_put(p) \/ BRAM!ClockEdge(p) PROVE BramInv'
  BY <1>2, BramPutStep, BramEdgeStep
<1>3. ASSUME NEW a \in BRAM!Words \cup {shape.words}, NEW d \in [BRAM!Chunks -> Values], BRAM!write_bram(a, d)
      PROVE  BramInv'
  BY <1>3, BramWriteStep
<1>4. QED
  BY <1>1, <1>2, <1>3, BramIdle DEF BRAM!BRAMNext

(* A RegFile: without an upd it is as before the edge, after one it is but *)
(* for one word, whose old value is kept.                                  *)
FileWords == [RegFile!AddrOf -> Values \cup {Undet}]
FileInv ==
  /\ words \in FileWords /\ rfArr \in FileWords /\ upd_now \in BOOLEAN
  /\ ~upd_now => edge = RegFile!NoWrite /\ words = rfArr
  /\ upd_now => /\ upd_addr \in RegFile!AddrOf /\ edge = RegFile!At(upd_addr, words[upd_addr])
                /\ upd_prev = rfArr[upd_addr]
                /\ \A a \in RegFile!AddrOf : a # upd_addr => words[a] = rfArr[a]

LEMMA FileStarts == RegFile!RegFileInit => FileInv
BY DEF RegFile!RegFileInit, FileInv, FileWords

LEMMA FileStep == FileInv /\ [RegFile!RegFileNext]_fileVars => FileInv'
<1> SUFFICES ASSUME FileInv, [RegFile!RegFileNext]_fileVars PROVE FileInv'
  OBVIOUS
<1>1. CASE UNCHANGED fileVars
  BY <1>1 DEF fileVars, FileInv
<1>2. ASSUME NEW a \in RegFile!AddrOf, NEW d \in Values, RegFile!METH_upd(a, d)
      PROVE  FileInv'
  <2>1. /\ edge = RegFile!NoWrite /\ edge' = RegFile!At(a, d) /\ words' = [words EXCEPT ![a] = d]
        /\ upd_now' = TRUE /\ upd_addr' = a /\ upd_prev' = words[a] /\ rfArr' = rfArr
    BY <1>2 DEF RegFile!METH_upd
  <2>2. ~upd_now
    <3>1. \A x, y : RegFile!At(x, y) # RegFile!NoWrite
      <4>1. \A x, y : x \in DOMAIN RegFile!At(x, y)
        BY DEF RegFile!At
      <4>2. DOMAIN RegFile!NoWrite = {}
        BY DEF RegFile!NoWrite
      <4>3. QED
        BY <4>1, <4>2
    <3>2. QED
      BY <2>1, <3>1 DEF FileInv
  <2>3. words' \in FileWords /\ words'[a] = d /\ \A x \in RegFile!AddrOf : x # a => words'[x] = words[x]
    BY <2>1 DEF FileInv, FileWords
  <2>4. QED
    BY <2>1, <2>2, <2>3 DEF FileInv
<1>3. ASSUME NEW a \in RegFile!AddrOf, NEW d \in Values, RegFile!write_rf(a, d)
      PROVE  FileInv'
  <2>1. /\ ~upd_now /\ words' = [words EXCEPT ![a] = d] /\ rfArr' = [rfArr EXCEPT ![a] = d]
        /\ UNCHANGED <<upd_now, upd_addr, upd_prev, edge>>
    BY <1>3 DEF RegFile!write_rf
  <2>2. QED
    BY <2>1 DEF FileInv, FileWords
<1>4. CASE RegFile!Cycle
  <2>1. /\ rfArr' = [a \in RegFile!AddrOf |-> IF a \in DOMAIN edge THEN edge[a] ELSE rfArr[a]]
        /\ edge' = RegFile!NoWrite /\ upd_now' = FALSE /\ words' = words
    BY <1>4 DEF RegFile!Cycle
  <2>2. rfArr' = words
    <3>1. CASE upd_now
      BY <2>1, <3>1 DEF FileInv, FileWords, RegFile!At
    <3>2. CASE ~upd_now
      BY <2>1, <3>2 DEF FileInv, FileWords, RegFile!NoWrite
    <3>3. QED
      BY <3>1, <3>2 DEF FileInv
  <2>3. QED
    BY <2>1, <2>2 DEF FileInv
<1>5. QED
  BY <1>1, <1>2, <1>3, <1>4 DEF RegFile!RegFileNext

LEMMA FileReads == FileInv => RegFile!ReadsBeforeEdge
BY DEF FileInv, RegFile!ReadsBeforeEdge, RegFile!METH_sub

-----------------------------------------------------------------------------
(* The waveforms. *)

(* What the viewer of a BRAM has is what the backing has, and between      *)
(* dumps that of the last request.                                         *)
BramWave ==
  memShown # None =>
    /\ memBack.EN \in BOOLEAN /\ (memBack.EN => memShown.EN)
    /\ memShown.ADDR = memBack.ADDR /\ memShown.DI = memBack.DI /\ memShown.DO = memBack.DO
    /\ memBack.EN \/ memBack.WE = {} => memShown.WE = memBack.WE
    /\ due # "posedge" =>
         /\ calls = {}
         /\ memBack.WE = upd["A"].wens /\ memBack.ADDR = upd["A"].addr /\ memBack.DI = upd["A"].val
         /\ memBack.DO = BRAM!METH_read("A")
         /\ upd["A"].at => due = "none" /\ memBack.EN


LEMMA BramWaveStarts == BRAM!BRAMInit => BramWave
BY DEF BRAM!BRAMInit, BramWave

LEMMA BramWaveStep == BramInv /\ BramWave /\ [BRAM!BRAMNext]_bramVars => BramWave'
<1> SUFFICES ASSUME BramInv, BramWave, [BRAM!BRAMNext]_bramVars PROVE BramWave'
  OBVIOUS
<1>1. CASE UNCHANGED bramVars
  BY <1>1 DEF bramVars, BramWave, BRAM!METH_read
<1>2. ASSUME NEW edges \in SUBSET BRAM!Ports, NEW rs \in [edges -> BRAM!Requests \cup {None}], BRAM!Slice(edges, rs)
      PROVE  BramWave'
  BY <1>2 DEF BRAM!Slice, BramWave
<1>3. ASSUME NEW p \in BRAM!Ports, BRAM!METH_put(p) \/ BRAM!ClockEdge(p) PROVE BramWave'
  <2>1. calls # {} /\ UNCHANGED <<due, memBack, memShown>>
    BY <1>3 DEF BRAM!METH_put, BRAM!ClockEdge
  <2>2. QED
    BY <2>1 DEF BramWave
<1>4. ASSUME NEW a \in BRAM!Words \cup {shape.words}, NEW d \in [BRAM!Chunks -> Values], BRAM!write_bram(a, d)
      PROVE  BramWave'
  BY <1>4 DEF BRAM!write_bram, BramWave, BRAM!METH_read
<1>5. ASSUME NEW dt \in {"VCD_DUMP_XS", "VCD_DUMP_CHANGES", "VCD_DUMP_RESTART"}, BRAM!dump_VCD(dt)
      PROVE  BramWave'
  <2> DEFINE u == upd["A"]
             S == BRAM!Signals
  <2>1. /\ calls = {} /\ due # "none" /\ due' = "none"
        /\ dt = "VCD_DUMP_CHANGES" => memShown # None
        /\ UNCHANGED <<shape, upd, out, out2, calls>>
    BY <1>5 DEF BRAM!dump_VCD, BRAM!Idle, BRAM!object
  <2>2. u \in Puts
    BY DEF BramInv, BramTypes, BRAM!Ports
  <2>3. /\ S.EN = u.at /\ S.WE = u.wens /\ S.ADDR = u.addr /\ S.DI = u.val /\ S.DO = BRAM!METH_read("A")
        /\ DOMAIN S = {"EN", "WE", "ADDR", "DI", "DO"} /\ u.at \in BOOLEAN
    BY <2>2 DEF BRAM!Signals, Puts
  <2>4. BRAM!METH_read("A")' = BRAM!METH_read("A")
    BY <2>1 DEF BRAM!METH_read
  <2> HIDE DEF S
  <2>5. CASE dt = "VCD_DUMP_XS"
    BY <1>5, <2>5 DEF BRAM!dump_VCD, BramWave
  <2>6. CASE dt = "VCD_DUMP_RESTART"
    <3>1. memShown' = S /\ memBack' = S
      BY <1>5, <2>6 DEF BRAM!dump_VCD, S
    <3>2. QED
      BY <2>1, <2>3, <2>4, <3>1 DEF BramWave
  <2>7. CASE dt = "VCD_DUMP_CHANGES" /\ due = "other"
    <3>1. memShown # None /\ ~u.at
      BY <2>1, <2>7 DEF BramWave
    <3>2. \A s \in DOMAIN S : memShown'[s] = memShown[s]
      BY <1>5, <2>7 DEF BRAM!dump_VCD, S
    <3>3. /\ memShown'.EN = memShown.EN /\ memShown'.WE = memShown.WE /\ memShown'.ADDR = memShown.ADDR
          /\ memShown'.DI = memShown.DI /\ memShown'.DO = memShown.DO
      BY <2>3, <3>2
    <3>4. memBack' = [S EXCEPT !.EN = memBack.EN] \/ memBack' = S
      BY <1>5, <2>7 DEF BRAM!dump_VCD, S
    <3>5. /\ memBack'.EN = memBack.EN \/ memBack'.EN = FALSE
          /\ memBack'.WE = S.WE /\ memBack'.ADDR = S.ADDR /\ memBack'.DI = S.DI /\ memBack'.DO = S.DO
      <4>1. CASE memBack' = S
        BY <2>3, <3>1, <4>1
      <4>2. CASE memBack' = [S EXCEPT !.EN = memBack.EN]
        <5>1. S = [EN |-> u.at, WE |-> u.wens, ADDR |-> u.addr, DI |-> u.val, DO |-> BRAM!METH_read("A")]
          BY DEF S, BRAM!Signals
        <5>2. QED
          BY <4>2, <5>1
      <4>3. QED
        BY <3>4, <4>1, <4>2
    <3>6. /\ memBack.WE = S.WE /\ memBack.ADDR = S.ADDR /\ memBack.DI = S.DI /\ memBack.DO = S.DO
          /\ memShown.ADDR = memBack.ADDR /\ memShown.DI = memBack.DI /\ memShown.DO = memBack.DO
          /\ memBack.EN \in BOOLEAN /\ (memBack.EN => memShown.EN)
          /\ memBack.EN \/ memBack.WE = {} => memShown.WE = memBack.WE
      BY <2>3, <2>7, <3>1 DEF BramWave
    <3>7. memBack'.EN \in BOOLEAN /\ (memBack'.EN => memShown'.EN)
      BY <3>3, <3>5, <3>6
    <3>8. /\ memShown'.ADDR = memBack'.ADDR /\ memShown'.DI = memBack'.DI /\ memShown'.DO = memBack'.DO
          /\ memBack'.EN \/ memBack'.WE = {} => memShown'.WE = memBack'.WE
      BY <3>3, <3>5, <3>6
    <3>9. /\ memBack'.WE = u'.wens /\ memBack'.ADDR = u'.addr /\ memBack'.DI = u'.val
          /\ memBack'.DO = BRAM!METH_read("A")' /\ ~u'.at
      BY <2>1, <2>3, <2>4, <3>1, <3>5
    <3>10. QED
      BY <2>1, <3>7, <3>8, <3>9 DEF BramWave
  <2>8. CASE dt = "VCD_DUMP_CHANGES" /\ due # "other"
    <3>1. memShown # None /\ memBack' = S
      BY <1>5, <2>1, <2>8 DEF BRAM!dump_VCD, S
    <3>2. \A s \in DOMAIN S : memShown'[s] = IF ~BRAM!Changed(s) THEN memShown[s]
                                             ELSE IF s = "WE" THEN BRAM!Wens ELSE S[s]
      BY <1>5, <2>8 DEF BRAM!dump_VCD, S
    <3>3. /\ memShown.ADDR = memBack.ADDR /\ memShown.DI = memBack.DI /\ memShown.DO = memBack.DO
          /\ memBack.EN \in BOOLEAN /\ (memBack.EN => memShown.EN)
          /\ memBack.EN \/ memBack.WE = {} => memShown.WE = memBack.WE
      BY <3>1 DEF BramWave
    <3>4. \A s \in {"EN", "ADDR", "DI", "DO"} : BRAM!Changed(s) <=> S[s] # memBack[s]
      BY DEF BRAM!Changed, S
    <3>5. memShown'.ADDR = S.ADDR /\ memShown'.DI = S.DI /\ memShown'.DO = S.DO
      BY <2>3, <3>2, <3>3, <3>4
    <3>6. S.EN => memShown'.EN
      BY <2>3, <3>2, <3>3, <3>4
    <3>7. S.EN \/ S.WE = {} => memShown'.WE = S.WE
      <4>1. BRAM!Wens = IF u.at THEN u.wens ELSE {}
        BY DEF BRAM!Wens
      <4>2. CASE BRAM!Changed("WE")
        BY <2>3, <3>2, <4>1, <4>2
      <4>3. CASE ~BRAM!Changed("WE")
        <5>1. S.WE = memBack.WE /\ (BRAM!Wens # {} <=> memBack.EN /\ memBack.WE # {})
          BY <3>3, <4>3 DEF BRAM!Changed, S
        <5>2. memShown'.WE = memShown.WE
          BY <2>3, <3>2, <4>3
        <5>3. QED
          BY <2>3, <3>3, <4>1, <5>1, <5>2
      <4>4. QED
        BY <4>2, <4>3
    <3>8. QED
      BY <2>1, <2>3, <2>4, <3>1, <3>5, <3>6, <3>7 DEF BramWave
  <2>9. QED
    BY <2>5, <2>6, <2>7, <2>8
<1>6. CASE BRAM!OtherEdge
  <2>1. /\ calls = {} /\ due = "none" /\ due' = "other" /\ memShown # None
        /\ upd' = [upd EXCEPT !["A"] = [upd["A"] EXCEPT !.at = FALSE]]
        /\ UNCHANGED <<shape, out, out2, calls, memBack, memShown>>
    BY <1>6 DEF BRAM!OtherEdge, BRAM!Idle
  <2>2. upd \in [BRAM!Ports -> Puts] /\ "A" \in BRAM!Ports /\ upd["A"] \in Puts
    BY DEF BramInv, BramTypes, BRAM!Ports
  <2>3. upd'["A"] = [upd["A"] EXCEPT !.at = FALSE]
    BY <2>1, <2>2
  <2>4. /\ ~upd'["A"].at /\ upd'["A"].wens = upd["A"].wens /\ upd'["A"].addr = upd["A"].addr
        /\ upd'["A"].val = upd["A"].val
    BY <2>2, <2>3 DEF Puts
  <2>5. BRAM!METH_read("A")' = BRAM!METH_read("A")
    BY <2>1 DEF BRAM!METH_read
  <2>6. QED
    BY <2>1, <2>4, <2>5 DEF BramWave
<1>7. QED
  BY <1>1, <1>2, <1>3, <1>4, <1>5, <1>6 DEF BRAM!BRAMNext

LEMMA BramWaveShown == BramInv /\ BramWave => BRAM!BRAMWaveTrue
<1> SUFFICES ASSUME BramInv, BramWave, due = "none", memShown # None
             PROVE  /\ memShown.DO = BRAM!METH_read("A")
                    /\ upd["A"].at => /\ memShown.EN /\ memShown.WE = reqs["A"].wens
                                      /\ memShown.ADDR = reqs["A"].addr /\ memShown.DI = reqs["A"].val
  BY DEF BRAM!BRAMWaveTrue
<1>1. upd["A"].at => /\ upd["A"].addr = reqs["A"].addr /\ upd["A"].wens = reqs["A"].wens
                    /\ upd["A"].val = reqs["A"].val
  BY DEF BramInv, BramCalls, BRAM!Ports
<1>2. QED
  BY <1>1 DEF BramWave

(* The viewer of a counter: the count, and of each call whether it was made*)
(* at the last edge and its argument, unless a rule has called it since.   *)
CounterWave ==
  /\ cback = cshown
  /\ step = "ticked" => inputs = called
  /\ cshown # Cntr!NotDumped =>
       /\ step = "dumped" => cshown["count"] = <<val>>
       /\ \A m \in Cntr!Methods :
            step = "dumped" \/ (step = "rules" /\ ~called[m]) => cshown[m] = <<inputs[m], arg[m]>>

LEMMA CounterWaveStarts == Cntr!CounterInit => CounterWave
BY DEF Cntr!CounterInit, CounterWave

LEMMA CounterDumpStep ==
  ASSUME CounterWave, NEW changes \in BOOLEAN, Cntr!dump_counter(changes)
  PROVE  CounterWave'
<1> DEFINE D == Cntr!Methods \cup {"count"}
           new == Cntr!Looked(changes)
<1>1. /\ step = "ticked" \/ (step = "rules" /\ called = Cntr!NoCall)
      /\ changes => cshown # Cntr!NotDumped
      /\ inputs' = IF step = "rules" /\ ~changes THEN Cntr!NoCall ELSE inputs
      /\ step' = "dumped" /\ UNCHANGED <<val, arg, called>>
  BY DEF Cntr!dump_counter
<1>2. DOMAIN Cntr!Seen = D /\ Cntr!Seen["count"] = <<val>>
      /\ \A m \in Cntr!Methods : Cntr!Seen[m] = <<called[m], arg[m]>>
  BY DEF Cntr!Seen, Cntr!Methods
<1>3. /\ cshown' = [s \in D |-> IF s \in new /\ (changes => Cntr!Seen[s] # cback[s]) THEN Cntr!Seen[s] ELSE cshown[s]]
      /\ cback' = [s \in D |-> IF s \in new THEN Cntr!Seen[s] ELSE cback[s]]
  BY <1>2 DEF Cntr!dump_counter
<1>4. cback = cshown
  BY DEF CounterWave
<1>5. cshown' = [s \in D |-> IF s \in new THEN Cntr!Seen[s] ELSE cshown[s]]
  <2>1. \A s \in D : cshown'[s] = IF s \in new THEN Cntr!Seen[s] ELSE cshown[s]
    BY <1>3, <1>4
  <2>2. QED
    BY <1>3, <2>1
<1>6. cback' = cshown'
  BY <1>3, <1>4, <1>5
<1>7. "count" \in new /\ (~(changes /\ step = "rules") => new = D)
  BY <1>2 DEF Cntr!Looked
<1>8. cshown'["count"] = <<val>>
  BY <1>2, <1>5, <1>7
<1>9. ASSUME NEW m \in Cntr!Methods
      PROVE  cshown'[m] = <<inputs'[m], arg[m]>>
  <2>1. m \in D /\ m # "count"
    BY DEF Cntr!Methods
  <2>2. CASE changes /\ step = "rules"
    <3>1. m \notin new
      BY <2>1, <2>2 DEF Cntr!Looked
    <3>2. cshown'[m] = cshown[m] /\ inputs' = inputs
      BY <1>1, <1>5, <2>1, <2>2, <3>1
    <3>3. ~called[m]
      BY <1>1, <2>2 DEF Cntr!NoCall
    <3>4. QED
      BY <1>1, <2>2, <3>2, <3>3 DEF CounterWave
  <2>3. CASE ~(changes /\ step = "rules")
    <3>1. cshown'[m] = <<called[m], arg[m]>>
      BY <1>2, <1>5, <1>7, <2>1, <2>3
    <3>2. inputs' = called
      BY <1>1, <2>3 DEF CounterWave
    <3>3. QED
      BY <3>1, <3>2
  <2>4. QED
    BY <2>2, <2>3
<1>10. QED
  BY <1>1, <1>6, <1>8, <1>9 DEF CounterWave

LEMMA CounterWaveStep == CounterInv /\ CounterWave /\ [Cntr!CounterNext]_cntrVars => CounterWave'
<1> SUFFICES ASSUME CounterInv, CounterWave, [Cntr!CounterNext]_cntrVars PROVE CounterWave'
  OBVIOUS
<1>1. CASE UNCHANGED cntrVars
  BY <1>1 DEF cntrVars, CounterWave
<1>2. ASSUME NEW m \in Cntr!Methods, NEW x, NEW new, Cntr!Calls(m, x, new) PROVE CounterWave'
  <2>1. /\ step = "rules" /\ called' = [called EXCEPT ![m] = TRUE] /\ arg' = [arg EXCEPT ![m] = x]
        /\ UNCHANGED <<step, inputs, cback, cshown>>
    BY <1>2 DEF Cntr!Calls
  <2>2. \A n \in Cntr!Methods : ~called'[n] => ~called[n] /\ arg'[n] = arg[n]
    BY <2>1 DEF CounterInv
  <2>3. QED
    BY <2>1, <2>2 DEF CounterWave
<1>3. ASSUME NEW b \in BOOLEAN, Cntr!reset_counter(b) PROVE CounterWave'
  BY <1>3 DEF Cntr!reset_counter, CounterWave
<1>4. CASE Cntr!CounterEdge
  BY <1>4 DEF Cntr!CounterEdge, CounterWave
<1>5. CASE Cntr!CounterAdvance
  BY <1>5 DEF Cntr!CounterAdvance, CounterWave
<1>6. {"addA", "addB", "setC", "setF"} \subseteq Cntr!Methods
  BY DEF Cntr!Methods
<1>7. QED
  BY <1>1, <1>2, <1>3, <1>4, <1>5, <1>6, CounterDumpStep
     DEF Cntr!CounterNext, Cntr!METH_addA, Cntr!METH_addB, Cntr!METH_update, Cntr!METH_setC, Cntr!METH_setF

LEMMA CounterWaveShown == CounterInv /\ CounterWave => Cntr!CounterWaveTrue
<1> SUFFICES ASSUME CounterInv, CounterWave PROVE Cntr!CounterWaveTrue
  OBVIOUS
<1>1. step = "dumped" => val = cq
  BY CounterInvCounts DEF CounterIsCounter, Cntr!CounterIsCounter
<1>2. QED
  BY <1>1 DEF CounterWave, Cntr!CounterWaveTrue

(* What a CReg records for its waveform of the writes of a cycle.           *)
Recorded(did_write) ==
  \A i \in Reg!Ports : (did_write[i] <=> wrote[i] # None) /\ (wrote[i] # None => rec.val[i] = wrote[i])

RegRecords ==
  cls = "CReg" =>
    /\ rec \in [value : Values, read : Values, did : [Reg!Ports -> BOOLEAN], en : [Reg!Ports -> BOOLEAN],
                val : [Reg!Ports -> Values]]
    /\ value \in Values /\ rec.value = q
    /\ phase = "rules" => Recorded(rec.did)
    /\ phase # "rules" => rec.read = was /\ Recorded(rec.en) /\ \A i \in Reg!Ports : ~rec.did[i]

(* What the viewer of a register has is what the backing has, and after a   *)
(* dump what the register shows.                                           *)
RegShows ==
  shown # None =>
    IF cls = "CReg"
      THEN \A i \in Reg!Ports :
             /\ shown[i] = back[i]
             /\ phase = "dumped" => shown[i] = <<Reg!QOut(i), rec.en[i], rec.val[i]>>
      ELSE shown[0] = back[0] /\ (phase = "dumped" => shown[0][1] = value)

(* A nonempty set of numbers below n has a largest one. *)
LEMMA LargestBelow ==
  ASSUME NEW n \in Nat, NEW S \in SUBSET (0 .. n - 1), S # {}
  PROVE  \E m \in S : \A k \in S : k <= m
<1> DEFINE R == OpToRel(<, Nat)
           T == {n - x : x \in S}
<1>1. \A a, b \in Nat : a < b => <<a, b>> \in R
  BY DEF OpToRel
<1>2. IsWellFoundedOn(R, Nat)
  BY NatLessThanWellFounded, Zenon
<1>3. T \subseteq Nat /\ T # {} /\ \A x \in S : n - x \in T
  <2>1. \A x \in S : n - x \in Nat
    OBVIOUS
  <2>2. \A x \in S : n - x \in T
    OBVIOUS
  <2>3. T \subseteq Nat
    BY <2>1
  <2>4. QED
    BY <2>2, <2>3
<1> HIDE DEF R
<1>4. \E t \in T : \A y \in T : ~(<<y, t>> \in R)
  <2> HIDE DEF T
  <2>1. QED
    BY <1>2, <1>3, WFMin
<1>5. PICK m \in S : \A y \in T : ~(<<y, n - m>> \in R)
  BY <1>4
<1>6. ASSUME NEW k \in S PROVE k <= m
  <2>1. n - k \in T /\ n - k \in Nat /\ n - m \in Nat
    BY <1>3
  <2>2. ~(n - k < n - m)
    <3> HIDE DEF T
    <3>1. QED
      BY <1>1, <1>5, <2>1
  <2>3. QED
    BY <2>2
<1>7. QED
  BY <1>6

(* What is shown of a port is what the ports below it make of the value.   *)
LEMMA ShownIsLast ==
  ASSUME Recorded(rec.en), NEW i \in Reg!Ports
  PROVE  Reg!QOut(i) = Reg!LastBelow(i, rec.read)
<1>1. i \in Nat /\ 0 .. i - 1 \subseteq Reg!Ports
  BY RegAssumption DEF Reg!Ports
<1>2. CASE \A j \in 0 .. i - 1 : wrote[j] = None
  <2>1. \A j \in 0 .. i - 1 : ~rec.en[j]
    BY <1>1, <1>2 DEF Recorded
  <2>2. QED
    BY <1>2, <2>1 DEF Reg!QOut, Reg!LastBelow
<1>3. CASE \E j \in 0 .. i - 1 : wrote[j] # None
  <2> DEFINE S == {j \in 0 .. i - 1 : wrote[j] # None}
  <2>1. PICK m \in S : \A k \in S : k <= m
    <3>1. S # {} /\ S \in SUBSET (0 .. i - 1)
      BY <1>3
    <3> HIDE DEF S
    <3>2. QED
      BY <1>1, <3>1, LargestBelow
  <2>2. m \in 0 .. i - 1 /\ wrote[m] # None /\ \A k \in m + 1 .. i - 1 : wrote[k] = None
    BY <2>1
  <2> DEFINE Last(j) == wrote[j] # None /\ \A k \in j + 1 .. i - 1 : wrote[k] = None
             Seen(j) == rec.en[j] /\ \A k \in j + 1 .. i - 1 : ~rec.en[k]
  <2>3. ASSUME NEW j \in 0 .. i - 1 PROVE (Last(j) <=> j = m) /\ (Seen(j) <=> j = m)
    <3>1. Last(j) <=> j = m
      BY <1>1, <2>2
    <3>2. \A k \in 0 .. i - 1 : rec.en[k] <=> wrote[k] # None
      BY <1>1 DEF Recorded
    <3>3. \A k \in j + 1 .. i - 1 : k \in 0 .. i - 1
      OBVIOUS
    <3>4. Seen(j) <=> Last(j)
      BY <3>2, <3>3
    <3>5. QED
      BY <3>1, <3>4
  <2>4. (CHOOSE j \in 0 .. i - 1 : Last(j)) = m /\ (CHOOSE j \in 0 .. i - 1 : Seen(j)) = m
    <3> HIDE DEF Last, Seen
    <3>1. (CHOOSE j \in 0 .. i - 1 : Last(j)) = m
      BY <2>2, <2>3
    <3>2. (CHOOSE j \in 0 .. i - 1 : Seen(j)) = m
      BY <2>2, <2>3
    <3>3. QED
      BY <3>1, <3>2
  <2>5. ~(\A j \in 0 .. i - 1 : wrote[j] = None) /\ ~(\A j \in 0 .. i - 1 : ~rec.en[j])
    BY <1>1, <1>3 DEF Recorded
  <2>6. Reg!LastBelow(i, rec.read) = wrote[CHOOSE j \in 0 .. i - 1 : Last(j)]
    BY <2>5 DEF Reg!LastBelow
  <2>7. Reg!QOut(i) = rec.val[CHOOSE j \in 0 .. i - 1 : Seen(j)]
    BY <2>5 DEF Reg!QOut
  <2>8. wrote[m] = rec.val[m]
    BY <1>1, <2>2 DEF Recorded
  <2> HIDE DEF Last, Seen
  <2>9. QED
    BY <2>4, <2>6, <2>7, <2>8
<1>4. QED
  BY <1>2, <1>3

RegWave == RegRecords /\ RegShows

LEMMA RegWaveStarts == Reg!RegInit => RegWave
<1> SUFFICES ASSUME Reg!RegInit PROVE RegWave
  OBVIOUS
<1>1. rec \in [value : Values, read : Values, did : [Reg!Ports -> BOOLEAN], en : [Reg!Ports -> BOOLEAN],
               val : [Reg!Ports -> Values]]
  BY DEF Reg!RegInit
<1>2. Recorded(rec.did)
  BY DEF Reg!RegInit, Recorded, Reg!NoWrite
<1>3. QED
  BY <1>1, <1>2 DEF Reg!RegInit, RegWave, RegRecords, RegShows

(* A rule that calls the register.                                         *)
LEMMA RegWaveCall ==
  ASSUME RegInv, RegWave, NEW x \in Values,
         \/ Reg!METH_write(x) \/ Reg!METH__write(x) \/ Reg!METH_config_write(x)
         \/ Reg!METH_setA(x) \/ Reg!METH_setB(x) \/ Reg!METH_aligned_write(x) \/ Reg!write_reg(1, x)
         \/ \E i \in Reg!Ports : Reg!METH_port_write(i, x)
  PROVE  RegWave'
<1>1. phase' = phase /\ phase # "dumped" /\ UNCHANGED <<cls, was, back, shown>>
  BY DEF Reg!METH_write, Reg!METH__write, Reg!METH_config_write, Reg!METH_setA, Reg!METH_setB,
         Reg!METH_aligned_write, Reg!write_reg, Reg!METH_port_write, Reg!Writes, Reg!wave
<1>2. RegShows'
  BY <1>1 DEF RegWave, RegShows
<1>3. CASE cls # "CReg"
  BY <1>1, <1>2, <1>3 DEF RegWave, RegRecords
<1>4. CASE cls = "CReg"
  <2>1. PICK i \in Reg!Ports : Reg!METH_port_write(i, x)
    BY <1>4 DEF Reg!METH_write, Reg!METH__write, Reg!METH_config_write, Reg!METH_setA, Reg!METH_setB,
         Reg!METH_aligned_write, Reg!write_reg, Reg!Writes
  <2>2. /\ phase = "rules" /\ q' = q
        /\ wrote' = [wrote EXCEPT ![i] = IF Reg!Suppressed THEN wrote[i] ELSE x]
        /\ IF Reg!Suppressed THEN UNCHANGED <<value, rec>>
           ELSE value' = x /\ rec' = [[rec EXCEPT !.did = [rec.did EXCEPT ![i] = TRUE]]
                                        EXCEPT !.val = [rec.val EXCEPT ![i] = x]]
    <3>1. /\ Reg!Writes("CReg", i, x)
          /\ IF Reg!Suppressed THEN UNCHANGED <<value, rec>>
             ELSE value' = x /\ rec' = [rec EXCEPT !.did[i] = TRUE, !.val[i] = x]
      BY <2>1, Zenon DEF Reg!METH_port_write
    <3>2. ~Reg!Suppressed => rec' = [[rec EXCEPT !.did = [rec.did EXCEPT ![i] = TRUE]]
                                       EXCEPT !.val = [rec.val EXCEPT ![i] = x]]
      <4>1. CASE ~Reg!Suppressed
        <5>1. rec' = [rec EXCEPT !.did[i] = TRUE, !.val[i] = x]
          BY <3>1, <4>1, Zenon
        <5>2. QED
          BY <5>1
      <4>2. QED
        BY <4>1
    <3>3. /\ phase = "rules" /\ q' = q
          /\ wrote' = [wrote EXCEPT ![i] = IF Reg!Suppressed THEN wrote[i] ELSE x]
      BY <3>1, Zenon DEF Reg!Writes
    <3>4. QED
      BY <3>1, <3>2, <3>3, Zenon
  <2>3. wrote \in WriteSets /\ x # None
    BY RegAssumption DEF RegInv, RegTypes
  <2>4. /\ rec \in [value : Values, read : Values, did : [Reg!Ports -> BOOLEAN], en : [Reg!Ports -> BOOLEAN],
                     val : [Reg!Ports -> Values]]
        /\ value \in Values /\ rec.value = q /\ Recorded(rec.did)
    BY <1>4, <2>2 DEF RegWave, RegRecords
  <2>5. CASE Reg!Suppressed
    <3>1. wrote' = wrote /\ UNCHANGED <<value, rec>>
      BY <2>2, <2>3, <2>5 DEF WriteSets
    <3>2. RegRecords'
      BY <1>1, <2>2, <2>4, <3>1 DEF RegRecords, Recorded
    <3>3. QED
      BY <1>2, <3>2 DEF RegWave
  <2>6. CASE ~Reg!Suppressed
    <3>1. /\ wrote'[i] = x /\ \A j \in Reg!Ports : j # i => wrote'[j] = wrote[j]
      BY <2>2, <2>3, <2>6 DEF WriteSets
    <3>2. /\ rec'.value = rec.value /\ rec'.did = [rec.did EXCEPT ![i] = TRUE] /\ rec'.val = [rec.val EXCEPT ![i] = x]
          /\ rec' \in [value : Values, read : Values, did : [Reg!Ports -> BOOLEAN], en : [Reg!Ports -> BOOLEAN],
                       val : [Reg!Ports -> Values]]
      <4> DEFINE flags == [rec.did EXCEPT ![i] = TRUE]
                 wrt == [rec.val EXCEPT ![i] = x]
      <4>1. flags \in [Reg!Ports -> BOOLEAN] /\ wrt \in [Reg!Ports -> Values]
        BY <2>4
      <4>2. rec' = [[rec EXCEPT !.did = flags] EXCEPT !.val = wrt]
        BY <2>2, <2>6
      <4> HIDE DEF flags, wrt
      <4>3. rec' = [value |-> rec.value, read |-> rec.read, did |-> flags, en |-> rec.en, val |-> wrt]
        BY <2>4, <4>2
      <4>4. QED
        BY <2>4, <4>1, <4>3 DEF flags, wrt
    <3>3. \A j \in Reg!Ports : /\ rec'.did[j] <=> wrote'[j] # None
                               /\ wrote'[j] # None => rec'.val[j] = wrote'[j]
      BY <2>3, <2>4, <3>1, <3>2 DEF Recorded
    <3>4. RegRecords'
      BY <1>1, <2>2, <2>4, <2>6, <3>2, <3>3 DEF RegRecords, Recorded
    <3>5. QED
      BY <1>2, <3>4 DEF RegWave
  <2>7. QED
    BY <2>5, <2>6
<1>5. QED
  BY <1>3, <1>4

(* The edge.                                                               *)
LEMMA RegWaveEdge ==
  ASSUME RegInv, RegInv', RegWave, NEW gate \in BOOLEAN, NEW ticks \in BOOLEAN, Reg!Edge(gate, ticks)
  PROVE  RegWave'
<1>1. /\ phase = "rules" /\ phase' = "ticked" /\ was' = q
      /\ UNCHANGED <<cls, wrote, back, shown>>
  BY DEF Reg!Edge, Reg!wave
<1>2. RegShows'
  BY <1>1 DEF RegWave, RegShows
<1>3. CASE cls # "CReg"
  BY <1>1, <1>2, <1>3 DEF RegWave, RegRecords
<1>4. CASE cls = "CReg"
  <2> DEFINE Recs == [value : Values, read : Values, did : [Reg!Ports -> BOOLEAN], en : [Reg!Ports -> BOOLEAN],
                      val : [Reg!Ports -> Values]]
  <2>1. rec \in Recs /\ value \in Values /\ rec.value = q /\ Recorded(rec.did)
    BY <1>1, <1>4 DEF RegWave, RegRecords
  <2>2. /\ Reg!clk \in Recs /\ Reg!clk.value = value /\ Reg!clk.read = q
        /\ Reg!clk.en = rec.did /\ Reg!clk.val = rec.val /\ \A j \in Reg!Ports : ~Reg!clk.did[j]
    BY <2>1 DEF Reg!clk
  <2>3. value' = q'
    BY <1>1, <1>4 DEF RegInv, RegSettled
  <2>4. rec' = [Reg!clk EXCEPT !.value = value'] /\ value' \in Values
    <3>1. CASE ticks /\ in_reset /\ gate
      BY <3>1, RegAssumption DEF Reg!Edge
    <3>2. CASE ~(ticks /\ in_reset /\ gate)
      <4>1. value' = value /\ rec' = Reg!clk
        BY <1>4, <3>2 DEF Reg!Edge, Reg!realClock
      <4>2. QED
        BY <2>1, <2>2, <4>1
    <3>3. QED
      BY <3>1, <3>2
  <2>5. /\ rec' \in Recs /\ rec'.value = q' /\ rec'.read = was' /\ rec'.en = rec.did /\ rec'.val = rec.val
        /\ \A j \in Reg!Ports : ~rec'.did[j]
    BY <1>1, <2>2, <2>3, <2>4
  <2>6. RegRecords'
    BY <1>1, <2>1, <2>4, <2>5 DEF RegRecords, Recorded
  <2>7. QED
    BY <1>2, <2>6 DEF RegWave
<1>5. QED
  BY <1>3, <1>4

LEMMA RegWaveReset ==
  ASSUME RegInv, RegWave, NEW rst_in \in BOOLEAN, Reg!reset_RST(rst_in)
  PROVE  RegWave'
<1>1. phase = "ticked" /\ phase' = "settled" /\ UNCHANGED <<cls, wrote, was, back, shown>>
  BY DEF Reg!reset_RST, Reg!wave
<1>2. RegShows'
  BY <1>1 DEF RegWave, RegShows
<1>3. \/ value' = reset_value /\ q' = reset_value /\ rec' = [rec EXCEPT !.value = reset_value]
      \/ UNCHANGED <<value, rec, q>>
  BY DEF Reg!reset_RST
<1>4. RegRecords'
  BY <1>1, <1>3, RegAssumption DEF RegWave, RegRecords, Recorded
<1>5. QED
  BY <1>2, <1>4 DEF RegWave

LEMMA RegWaveDump ==
  ASSUME RegInv, RegWave, NEW dt \in {"VCD_DUMP_XS", "VCD_DUMP_CHANGES", "VCD_DUMP_RESTART"}, Reg!dump_VCD(dt)
  PROVE  RegWave'
<1> DEFINE S == Reg!Signals
<1>1. /\ phase # "rules" /\ phase' = "dumped" /\ back' = Reg!Backed(dt)
      /\ dt = "VCD_DUMP_CHANGES" => shown # None
      /\ UNCHANGED <<cls, value, rec, wrote, q, was>>
  BY DEF Reg!dump_VCD, Reg!state
<1>2. RegRecords'
  BY <1>1 DEF RegWave, RegRecords, Recorded
<1>3. /\ cls = "CReg" => S = [i \in Reg!Ports |-> <<Reg!QOut(i), rec.en[i], rec.val[i]>>]
      /\ cls # "CReg" => 0 \in DOMAIN S /\ S[0][1] = value
  BY DEF Reg!Signals
<1>4. \A i : Reg!QOut(i)' = Reg!QOut(i)
  BY <1>1 DEF Reg!QOut
<1>5. CASE dt = "VCD_DUMP_XS"
  <2>1. shown' = None
    BY <1>5 DEF Reg!dump_VCD
  <2>2. QED
    BY <1>2, <2>1 DEF RegWave, RegShows
<1>6. CASE dt # "VCD_DUMP_XS"
  <2>1. cls = "CReg" => Reg!Backed(dt) = S
    BY <1>6 DEF Reg!Backed
  <2>2. cls # "CReg" => Reg!Backed(dt)[0] = S[0]
    BY <1>3, <1>6 DEF Reg!Backed
  <2>3. ASSUME NEW i \in DOMAIN S, cls = "CReg" \/ i = 0 PROVE shown'[i] = S[i]
    <3>1. CASE dt = "VCD_DUMP_RESTART"
      BY <3>1 DEF Reg!dump_VCD
    <3>2. CASE dt = "VCD_DUMP_CHANGES"
      <4>1. shown' = [j \in DOMAIN S |-> IF S[j] # back[j] THEN S[j] ELSE shown[j]]
        BY <3>2 DEF Reg!dump_VCD
      <4>2. shown[i] = back[i]
        BY <1>1, <1>3, <2>3, <3>2 DEF RegWave, RegShows
      <4>3. QED
        BY <4>1, <4>2
    <3>3. QED
      BY <1>6, <3>1, <3>2
  <2>4. cls = "CReg" => \A i \in Reg!Ports : shown'[i] = back'[i] /\ shown'[i] = <<Reg!QOut(i), rec.en[i], rec.val[i]>>
    BY <1>1, <1>3, <2>1, <2>3
  <2>5. cls # "CReg" => shown'[0] = back'[0] /\ shown'[0][1] = value
    BY <1>1, <1>3, <2>2, <2>3
  <2>6. RegShows'
    BY <1>1, <1>4, <2>4, <2>5 DEF RegShows, Reg!Ports
  <2>7. QED
    BY <1>2, <2>6 DEF RegWave
<1>7. QED
  BY <1>5, <1>6

LEMMA RegWaveAdvance ==
  ASSUME RegInv, RegWave, Reg!Advance
  PROVE  RegWave'
<1>1. /\ phase # "rules" /\ phase' = "rules" /\ wrote' = Reg!NoWrite
      /\ UNCHANGED <<cls, value, rec, q, was, back, shown>>
  BY DEF Reg!Advance, Reg!wave
<1>2. \A i \in Reg!Ports : wrote'[i] = None
  BY <1>1 DEF Reg!NoWrite
<1>3. RegShows' /\ RegRecords'
  BY <1>1, <1>2 DEF RegWave, RegShows, RegRecords, Recorded
<1>4. QED
  BY <1>3 DEF RegWave

LEMMA RegWaveStep == RegInv /\ RegWave /\ [Reg!RegNext]_regVars => RegWave'
<1> SUFFICES ASSUME RegInv, RegWave, [Reg!RegNext]_regVars PROVE RegWave'
  OBVIOUS
<1>1. RegInv'
  BY RegStep
<1>2. CASE UNCHANGED regVars
  <2>1. UNCHANGED <<cls, value, rec, wrote, q, was, phase, back, shown>>
    BY <1>2 DEF regVars
  <2>2. \A i : Reg!QOut(i)' = Reg!QOut(i)
    BY <2>1 DEF Reg!QOut
  <2>3. QED
    BY <2>1, <2>2 DEF RegWave, RegShows, RegRecords, Recorded, Reg!Ports
<1>3. ASSUME NEW gate \in BOOLEAN, NEW ticks \in BOOLEAN, Reg!Edge(gate, ticks) PROVE RegWave'
  BY <1>1, <1>3, RegWaveEdge
<1>4. QED
  BY <1>2, <1>3, RegWaveCall, RegWaveReset, RegWaveDump, RegWaveAdvance DEF Reg!RegNext

LEMMA RegWaveShown == RegInv /\ RegWave /\ LateInReset = FALSE => Reg!RegWaveTrue
<1> SUFFICES ASSUME RegInv, RegWave, LateInReset = FALSE, phase = "dumped", shown # None
             PROVE  IF cls = "CReg"
                      THEN \A i \in Reg!Ports : /\ shown[i][1] = Reg!LastBelow(i, was) /\ shown[i][2] = (wrote[i] # None)
                                                /\ wrote[i] # None => shown[i][3] = wrote[i]
                      ELSE shown[0][1] = q
  BY DEF Reg!RegWaveTrue
<1>1. CASE cls = "CReg"
  <2> SUFFICES ASSUME NEW i \in Reg!Ports
               PROVE  /\ shown[i][1] = Reg!LastBelow(i, was) /\ shown[i][2] = (wrote[i] # None)
                      /\ wrote[i] # None => shown[i][3] = wrote[i]
    BY <1>1
  <2>1. shown[i] = <<Reg!QOut(i), rec.en[i], rec.val[i]>>
    BY <1>1 DEF RegWave, RegShows
  <2>2. rec.read = was /\ Recorded(rec.en) /\ rec.en \in [Reg!Ports -> BOOLEAN]
    BY <1>1 DEF RegWave, RegRecords
  <2>3. shown[i][1] = Reg!LastBelow(i, was)
    BY <2>1, <2>2, ShownIsLast
  <2>4. rec.en[i] \in BOOLEAN /\ (rec.en[i] <=> wrote[i] # None)
    BY <2>2 DEF Recorded
  <2>5. rec.en[i] = (wrote[i] # None)
    <3>1. rec.en[i] = TRUE \/ rec.en[i] = FALSE
      BY <2>4
    <3>2. rec.en[i] <=> wrote[i] # None
      BY <2>4
    <3>3. QED
      BY <3>1, <3>2, Zenon
  <2>6. shown[i][2] = rec.en[i] /\ shown[i][3] = rec.val[i]
    BY <2>1
  <2>7. QED
    BY <2>2, <2>3, <2>5, <2>6 DEF Recorded
<1>2. CASE cls # "CReg"
  BY <1>2 DEF RegWave, RegShows, RegInv, RegSettled, RegAligns
<1>3. QED
  BY <1>1, <1>2

-----------------------------------------------------------------------------
(* All of them.  One moves, the others stay as they are.                   *)

(* The invariant of the registers, at all times.                           *)
LEMMA RegInductive == MCSpec => []RegInv
<1>1. MCInit => RegInv
  BY RegStarts DEF MCInit
<1>2. RegInv /\ [MCNext /\ UNCHANGED which]_allVars => RegInv'
  BY EachStep, RegStep
<1>3. QED
  BY <1>1, <1>2, PTL DEF MCSpec

(* A cycle of calls, ticks, resets and test bench writes leaves the value  *)
(* of the Verilog in a register of any class, for any values and any       *)
(* number of ports (bs_prim_mod_reg.h); in a RegAligned, if no rule writes *)
(* it late under a synchronous reset.                                      *)
THEOREM RegistersCompose ==
  ASSUME LateInReset = FALSE
  PROVE  MCSpec => []RegEdgeComposes
BY RegInductive, RegInvComposes, PTL

(* What the rules of a cycle read of FIFOs and registers keeps the value   *)
(* that it should, though calls change them between the reads              *)
(* (bs_prim_mod_fifo.h:90-137, bs_prim_mod_reg.h:523-543).                 *)
THEOREM AnswersStaySteady ==
  ASSUME guard = TRUE
  PROVE  MCSpec => []AnswersSteady
<1>1. FifoInv /\ RegInv => AnswersSteady
  BY FifoInvAnswers, RegInvReads DEF AnswersSteady
<1>2. QED
  BY FifoInductive, RegInductive, <1>1, PTL

(* MOD_Counter counts as Counter.v, for any width, whichever order addA,   *)
(* addB and setC come in (bs_prim_mod_counter.h:40-157).                   *)
THEOREM CounterCounts == MCSpec => []CounterIsCounter
<1>1. MCInit => CounterInv
  BY CounterStarts DEF MCInit
<1>2. CounterInv /\ [MCNext /\ UNCHANGED which]_allVars => CounterInv'
  BY EachStep, CounterStep
<1>3. QED
  BY <1>1, <1>2, CounterInvCounts, PTL DEF MCSpec

(* A wire has a value in the cycle in which it is set, and is shown with   *)
(* it, a probe with its last one (bs_prim_mod_wire.h:61-122).              *)
THEOREM WiresCarry == MCSpec => []WireCarries
<1>1. MCInit => WireInv
  BY WireStarts DEF MCInit
<1>2. WireInv /\ [MCNext /\ UNCHANGED which]_allVars => WireInv'
  BY EachStep, WireStep
<1>3. QED
  BY <1>1, <1>2, WireInvCarries, PTL DEF MCSpec

(***************************************************************************)
(* After each time slice a BRAM holds the words and shows the outputs of   *)
(* the clock edges, with one port or two and in whatever order the calls   *)
(* of the slice come, and a RegFile answers, at any time in a cycle, what  *)
(* was there before the edge: for memories of any size and any contents    *)
(* (bs_prim_mod_bram.h:431-434, bs_prim_mod_regfile.h:361-363).            *)
(***************************************************************************)
THEOREM MemoriesAreEdge == MCSpec => []MemoryIsEdge
<1>1. MCInit => BramInv /\ FileInv
  BY BramStarts, FileStarts DEF MCInit
<1>2. BramInv /\ FileInv /\ [MCNext /\ UNCHANGED which]_allVars => BramInv' /\ FileInv'
  BY EachStep, BramStep, FileStep
<1>3. BramInv /\ FileInv => MemoryIsEdge
  BY FileReads DEF MemoryIsEdge, BRAM!MemoryIsEdge, BramInv, BramTypes
<1>4. QED
  BY <1>1, <1>2, <1>3, PTL DEF MCSpec

(* After a dump the viewer of a waveform, who is told changes only, has    *)
(* what the hardware has: a register its value, the ports of a CReg what   *)
(* they read and wrote at the edge, a counter its count and the calls of   *)
(* the edge, a memory the request of the last edge and its output          *)
(* (bs_prim_mod_reg.h, bs_prim_mod_counter.h, bs_prim_mod_bram.h); a       *)
(* RegAligned, if no rule writes it late under a synchronous reset.        *)
THEOREM WavesShow ==
  ASSUME LateInReset = FALSE
  PROVE  MCSpec => []WaveTrue
<1> DEFINE Inv == RegInv /\ RegWave /\ CounterInv /\ CounterWave /\ BramInv /\ BramWave
<1>1. MCInit => Inv
  BY RegStarts, RegWaveStarts, CounterStarts, CounterWaveStarts, BramStarts, BramWaveStarts DEF MCInit
<1>2. Inv /\ [MCNext /\ UNCHANGED which]_allVars => Inv'
  BY EachStep, RegStep, RegWaveStep, CounterStep, CounterWaveStep, BramStep, BramWaveStep
<1>3. Inv => WaveTrue
  BY RegWaveShown, CounterWaveShown, BramWaveShown DEF WaveTrue
<1>4. QED
  BY <1>1, <1>2, <1>3, PTL DEF MCSpec
=============================================================================
