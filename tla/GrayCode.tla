------------------------------ MODULE GrayCode ------------------------------
(***************************************************************************)
(* The Gray counters with parity of the synchronizing FIFOs                *)
(* (Verilog/SyncFIFO.v and SyncFIFOLevel.v).  A counter of parameter       *)
(* indxWidth = w is a pair: g, a word of w + 1 bits numbered 0 .. w from   *)
(* the least significant, which crosses the clock domains, and p, its      *)
(* parity, which does not.  Every operator is pure.                        *)
(***************************************************************************)
EXTENDS Naturals

Word(w)    == [0 .. w -> {0, 1}]
Counter(w) == [g : Word(w), p : {0, 1}]

Bit(condition) == IF condition THEN 1 ELSE 0
Xor(a, b)      == [i \in DOMAIN a |-> (a[i] + b[i]) % 2]

(* No bit below position k is set: the masking left shifts of incrGray. *)
ClearBelow(g, k) == \A j \in DOMAIN g : j < k => g[j] = 0

MutIncrGray(w, g, parity) ==
  LET flips == [i \in 0 .. w |->
                 CASE i = 0             -> Bit(parity = 0)
                   [] i \in 1 .. w - 1  -> Bit(parity = 1 /\ g[i - 1] = 1)
                   [] i = w             -> Bit(parity = 1 /\ ClearBelow(g, w - 1))]
  IN  Xor(flips, g)

(* Function incrGray: the word of bits to flip, applied to the argument. *)
incrGray(w, g, parity) ==
  LET flips == [i \in 0 .. w |->
                 CASE i = 0             -> Bit(parity = 0)
                   [] i \in 1 .. w - 1  -> Bit(parity = 1 /\ g[i - 1] = 1 /\ ClearBelow(g, i - 1))
                   [] i = w             -> Bit(parity = 1 /\ ClearBelow(g, w - 1))]
  IN  Xor(flips, g)

(* Function incrGrayP. *)
incrGrayP(w, c) == [g |-> incrGray(w, c.g, c.p), p |-> 1 - c.p]

(* The reset values of a pointer and of its look-ahead. *)
ResetPtr(w)  == [g |-> [i \in 0 .. w |-> 0], p |-> 0]
ResetPtr1(w) == [g |-> [i \in 0 .. w |-> Bit(i = 0)], p |-> 1]

(* The word compared with the other side's pointer: g ^ msb12set. *)
FlipTop2(w, g) == [i \in 0 .. w |-> IF i >= w - 1 THEN 1 - g[i] ELSE g[i]]

MutIndex(w, c) == [i \in 0 .. w - 1 |-> c.g[i]]

(***************************************************************************)
(* The memory index of a counter: its w low bits, the parity included, so  *)
(* the word without its two top bits.                                      *)
(***************************************************************************)
Index(w, c) == [i \in 0 .. w - 1 |-> IF i = 0 THEN c.p ELSE c.g[i - 1]]

(* Function grayToBinary of SyncFIFOLevel: bit i is the parity of the bits *)
(* at i and above; the result is that binary word's value.                 *)
binaryBit(w, g) ==
  LET b[i \in 0 .. w] == IF i = w THEN g[w] ELSE (b[i + 1] + g[i]) % 2
  IN  b
grayToBinary(w, g) ==
  LET value[i \in 0 .. w] ==
        binaryBit(w, g)[i] * 2 ^ i + (IF i = 0 THEN 0 ELSE value[i - 1])
  IN  value[w]

(***************************************************************************)
(* The reference: the word of the number n is n XOR n / 2.                 *)
(***************************************************************************)
GrayWord(w, n) == [i \in 0 .. w |-> ((n \div 2 ^ i) + (n \div 2 ^ (i + 1))) % 2]
=============================================================================
