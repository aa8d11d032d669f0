---------------------------- MODULE GrayCounter ----------------------------
(***************************************************************************)
(* The pair of Gray counters each side of a synchronizing FIFO steps: the  *)
(* pointer and, one ahead of it, the look-ahead that becomes the pointer.  *)
(* It depends on nothing else, so it is checked on its own for every width *)
(* up to MaxWidth, with a reset at any step.                               *)
(***************************************************************************)
EXTENDS GrayCode

CONSTANT MaxWidth    \* bound: the largest indxWidth checked

VARIABLES
  width,      \* parameter indxWidth; the depth of the FIFO is 2 ^ width
  ptr, ptr1,  \* sGEnqPtr, sGEnqPtr1 (or dGDeqPtr, dGDeqPtr1)
  count       \* history: steps since reset

vars == <<width, ptr, ptr1, count>>

Init ==
  /\ width \in 1 .. MaxWidth
  /\ ptr = ResetPtr(width)
  /\ ptr1 = ResetPtr1(width)
  /\ count = 0

(* One enqueue (or dequeue): the pointer block of the FIFO. *)
Step ==
  /\ ptr'  = ptr1
  /\ ptr1' = incrGrayP(width, ptr1)
  /\ count' = (count + 1) % 2 ^ (width + 1)
  /\ UNCHANGED width

Reset ==
  /\ ptr'  = ResetPtr(width)
  /\ ptr1' = ResetPtr1(width)
  /\ count' = 0
  /\ UNCHANGED width

Next == Step \/ Reset
Spec == Init /\ [][Next]_vars

-----------------------------------------------------------------------------
Period    == 2 ^ (width + 1)
CodeOf(n) == GrayWord(width, n)

(* The counters are words of the parameter's width with a parity bit. *)
TypeOK == ptr \in Counter(width) /\ ptr1 \in Counter(width) /\ count \in 0 .. Period - 1

(* The two counters enumerate the Gray code, one number apart, and never   *)
(* lose their parity; grayToBinary inverts it.                             *)
CountsInGray ==
  /\ ptr  = [g |-> CodeOf(count), p |-> count % 2]
  /\ ptr1 = [g |-> CodeOf((count + 1) % Period), p |-> (count + 1) % 2]
  /\ grayToBinary(width, ptr.g) = count

(* The full test compares equal for exactly the pointer 2 ^ width behind.  *)
FullTestExact ==
  \A n \in 0 .. Period - 1 :
    FlipTop2(width, ptr.g) = CodeOf(n) <=> n = (count + 2 ^ width) % Period

(* Two counters address the same memory word only if a multiple of the     *)
(* depth apart: elements present together never share a word.              *)
IndexExact ==
  \A n \in 0 .. Period - 1 :
    Index(width, ptr) = Index(width, [g |-> CodeOf(n), p |-> n % 2])
      <=> n % 2 ^ width = count % 2 ^ width

AddressesExact == FullTestExact /\ IndexExact

(* A step flips a single bit of the word that crosses the domains, so that *)
(* a synchronizer sees the old word or the new one and nothing between.    *)
OneBitPerStep ==
  [][Step => \E i \in 0 .. width : ptr'.g = [ptr.g EXCEPT ![i] = 1 - @]]_vars
=============================================================================
