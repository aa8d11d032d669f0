---------------------------- MODULE FIFOPointers ----------------------------
(***************************************************************************)
(* The pointers of the FIFOs between two clock domains (Verilog/SyncFIFO.v *)
(* and SyncFIFOLevel.v).  A pointer is modelled by its position, the       *)
(* number of steps since reset modulo twice the depth; what crosses the    *)
(* domains is the Gray word of the position.                               *)
(***************************************************************************)
EXTENDS GrayCode, QueueStep

CONSTANTS
  Depth,   \* parameter depth
  Width,   \* parameter indxWidth
  Code     \* the Gray word of each position, as incrGrayP enumerates them

Positions == 0 .. 2 * Depth - 1
Succ(p)     == IF p = 2 * Depth - 1 THEN 0 ELSE p + 1
Opposite(p) == IF p < Depth THEN p + Depth ELSE p - Depth

(* What the FIFOs need of the words of their counters. *)
IsCode(code) ==
  /\ code \in [Positions -> Word(Width)]
  /\ \A p, r \in Positions : code[p] = code[r] => p = r
  /\ \A p \in Positions :
       \E i \in 0 .. Width : code[Succ(p)] = [code[p] EXCEPT ![i] = 1 - @]
  /\ \A p \in Positions : FlipTop2(Width, code[p]) = code[Opposite(p)]

ASSUME DepthAssumption == Depth \in Nat \ {0} /\ Width \in Nat
ASSUME CodeAssumption == IsCode(Code)

(* The code of the modules: what incrGrayP enumerates from reset. *)
CounterCode ==
  LET counter[n \in Positions] ==
        IF n = 0 THEN ResetPtr(Width) ELSE incrGrayP(Width, counter[n - 1])
  IN  [n \in Positions |-> counter[n].g]

(* The position of a word, which is what grayToBinary computes. *)
Position(w) == CHOOSE p \in Positions : Code[p] = w

(* The memory address of a position. *)
Addr(p) == IF p < Depth THEN p ELSE p - Depth

(* What a flop may capture of a word changing from old to new, bit by bit. *)
Capture(old, new) == {c \in Word(Width) : \A i \in 0 .. Width : c[i] \in {old[i], new[i]}}

(* How far position r is behind position p: the subtractions of binary     *)
(* pointers, modulo twice the depth.                                       *)
Behind(p, r) == IF r <= p THEN p - r ELSE p - r + 2 * Depth

(* The position j steps after p. *)
Ahead(p, j) == IF p + j < 2 * Depth THEN p + j ELSE p + j - 2 * Depth

(* The elements in a FIFO: the head register, if it is loaded, then the    *)
(* memory between the pointers.                                            *)
ContentsOf(mem, enq, deq, loaded, head) ==
  [k \in 1 .. Behind(enq, deq) + Bit(loaded) |->
     IF loaded /\ k = 1 THEN head
     ELSE mem[Addr(Ahead(deq, IF loaded THEN k - 2 ELSE k - 1))]]
=============================================================================
