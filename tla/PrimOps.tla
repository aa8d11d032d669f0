------------------------------ MODULE PrimOps ------------------------------
(***************************************************************************)
(* The operators of Bluesim/bs_prim_ops.h, which compute on Bit#(n) values *)
(* held in tUInt8, tUInt32, tUInt64 or WideData: whatever chain of them is *)
(* applied, the C++ value is the number that the chain denotes, and its    *)
(* bits above n are 0.  The copies of an operator for 8, 32 and 64 bits    *)
(* are kept apart, since each masks and guards by itself; the overloads    *)
(* of one copy are one definition, with the sizes telling them apart.      *)
(***************************************************************************)
EXTENDS Integers, Bitwise

CONSTANTS
  B8, B32, B64,   \* bits of the C++ types, 8, 32 and 64 in the code
  MaxSize,        \* bound: bits of the largest value
  ShiftSizes,     \* bound: the sizes of shift amounts
  WideAmounts     \* bound: shift amounts of a wide type

ASSUME WidthAssumption ==
  /\ B8 \in Nat \ {0} /\ B32 \in Nat /\ B8 < B32 /\ B64 = 2 * B32
  /\ MaxSize \in Nat /\ ShiftSizes \subseteq Nat \ {0} /\ WideAmounts \subseteq Nat

VARIABLES
  sz,    \* n, of type Bit#(n)
  val,   \* the value as held in C++
  ref    \* history: the value as Bluespec defines it

vars == <<sz, val, ref>>

Least(a, b) == IF a < b THEN a ELSE b
IsWide(n) == n > B64
Ones(n) == 2^n - 1
LowBits(n, x) == x % 2^n
(* x << n and x >> n in a C++ type of w bits: undefined for n >= w, and    *)
(* then a shift by n % w, as processors have it.                           *)
Shl(w, x, n) == LowBits(w, x * 2^(n % w))
Shr(w, x, n) == x \div 2^(n % w)

(***************************************************************************)
(* Masks and sign.                                                         *)
(***************************************************************************)
mask8(n, x)    == LowBits(B8, (Shl(B32, 1, n) - 1) & x)
mask32(n, x)   == LowBits(B32, IF n = B32 THEN x ELSE (Shl(B32, 1, n) - 1) & x)
mask64(n, x)   == IF n = B64 THEN x ELSE (Shl(B64, 1, n) - 1) & x
maskWide(n, x) == LowBits(n, x)
sign_bit_set(n, x) == x & 2^(n - 1) # 0

(***************************************************************************)
(* Class WideData: its compiled functions, and those in bs_wide_data.h.    *)
(* A value constructed from a number holds that number.                    *)
(***************************************************************************)
extract(hi, lo, x)   == LowBits(hi - lo + 1, x \div 2^lo)
copy(dst, src, n)    == (dst \div 2^n) * 2^n + LowBits(n, src)
set(from, size, x)   == x | (Ones(size) - Ones(from))
clear(from, x)       == LowBits(from, x)
wop_srl(x, n)        == IF n >= MaxSize THEN 0 ELSE x \div 2^n
wop_sl(size, x, n)   == IF n >= size THEN 0 ELSE Shl(size, x, n)
NUM_WORDS(n)         == (n + B32 - 1) \div B32

(* Bits offset .. offset + nbits - 1 of one word become those of value. *)
set_bits_in_word(word, value, offset, nbits) ==
  LET mask == Shl(B32, Ones(nbits), offset)
  IN  (word & (Ones(B32) - mask)) | (Shl(B32, value, offset) & mask)
get_bits_in_word(word, offset, nbits) == (word \div 2^offset) & Ones(nbits)

(***************************************************************************)
(* Shift amounts.  Of a wide amount, of size n, 32 bits are looked at, and *)
(* the bits from 33 on must be clear.                                      *)
(***************************************************************************)
Dist(n, s) == IF IsWide(n) THEN LowBits(B32, extract(Least(B32, n), 0, s)) ELSE s
InRange(n, s, limit) ==
  /\ IsWide(n) => s \div 2^(B32 + 1) = 0
  /\ Dist(n, s) < limit

(***************************************************************************)
(* 8-bit primitives.  r is the size of the result, d that of the data x,   *)
(* n that of the shift amount s.                                           *)
(***************************************************************************)
primSignExt8(r, d, x) ==
  IF sign_bit_set(d, x) THEN mask8(r, Shl(B32, Ones(B32), d) | x) ELSE x
primZeroExt8(x) == x
primShiftR8(x, n, s)    == IF InRange(n, s, B8) THEN Shr(B32, x, Dist(n, s)) ELSE 0
MutShiftL8(r, x, n, s)  == IF InRange(n, s, B8) THEN LowBits(B8, Shl(B32, x, Dist(n, s))) ELSE 0
primShiftL8(r, x, n, s) == IF InRange(n, s, B8) THEN mask8(r, Shl(B32, x, Dist(n, s))) ELSE 0
primShiftRA8(r, d, x, n, s) ==
  IF InRange(n, s, d)
    THEN primSignExt8(r, d - Dist(n, s), primShiftR8(x, n, s))
    ELSE IF sign_bit_set(d, x) THEN mask8(r, Ones(B32)) ELSE 0
primTrunc8(r, x) == mask8(r, x)

(***************************************************************************)
(* 32-bit primitives.                                                      *)
(***************************************************************************)
primSignExt32(r, d, x) ==
  IF sign_bit_set(d, x) THEN mask32(r, Shl(B32, Ones(B32), d - 1) | x) ELSE x
primZeroExt32(x) == x
primShiftR32(x, n, s)    == IF InRange(n, s, B32) THEN Shr(B32, x, Dist(n, s)) ELSE 0
primShiftL32(r, x, n, s) ==
  IF InRange(n, s, B32) THEN mask32(r, Shl(B32, x, Dist(n, s))) ELSE 0
primShiftRA32(r, d, x, n, s) ==
  IF InRange(n, s, d)
    THEN primSignExt32(r, d - Dist(n, s), primShiftR32(x, n, s))
    ELSE IF sign_bit_set(d, x) THEN mask32(r, Ones(B32)) ELSE 0
primTrunc32(r, x) == mask32(r, LowBits(B32, x))

(***************************************************************************)
(* 64-bit primitives.                                                      *)
(***************************************************************************)
primSignExt64(r, d, x) ==
  IF sign_bit_set(d, x) THEN mask64(r, Shl(B64, Ones(B64), d - 1) | x) ELSE x
primZeroExt64(x) == x
primShiftR64(x, n, s)    == IF InRange(n, s, B64) THEN Shr(B64, x, Dist(n, s)) ELSE 0
primShiftL64(r, x, n, s) ==
  IF InRange(n, s, B64) THEN mask64(r, Shl(B64, x, Dist(n, s))) ELSE 0
primShiftRA64(r, d, x, n, s) ==
  IF InRange(n, s, d)
    THEN primSignExt64(r, d - Dist(n, s), primShiftR64(x, n, s))
    ELSE IF sign_bit_set(d, x) THEN mask64(r, Ones(B64)) ELSE 0
primTrunc64(r, x) == mask64(r, x)

(***************************************************************************)
(* Extraction of the bits hi .. lo; the overload follows the source.       *)
(***************************************************************************)
Shifted(d, x, lo) ==
  IF d <= B8 THEN primShiftR8(x, B32, lo)
  ELSE IF d <= B32 THEN primShiftR32(x, B32, lo) ELSE primShiftR64(x, B32, lo)
primExtract8(r, d, x, hi, lo) ==
  IF IsWide(d) THEN mask8(r, LowBits(B8, extract(hi, lo, x)))
               ELSE mask8(Least(r, hi - lo + 1), Shifted(d, x, lo))
primExtract32(r, d, x, hi, lo) ==
  IF IsWide(d) THEN mask32(r, LowBits(B32, extract(hi, lo, x)))
               ELSE mask32(Least(r, hi - lo + 1), Shifted(d, x, lo))
primExtract64(r, d, x, hi, lo) ==
  IF IsWide(d) THEN mask64(r, LowBits(B64, extract(hi, lo, x)))
               ELSE mask64(Least(r, hi - lo + 1), primShiftR64(x, B32, lo))

(***************************************************************************)
(* Wide primitives.  Each exists twice: prim... returns a new object, which*)
(* first holds NUM_WORDS(r), and wop_prim... overwrites an object, which   *)
(* holds old.                                                              *)
(***************************************************************************)
wop_primSignExtWide(old, r, d, x) ==
  LET y == copy(old, x, d) IN IF sign_bit_set(d, x) THEN set(d, r, y) ELSE clear(d, y)
wop_primZeroExtWide(old, d, x) == clear(d, copy(old, x, d))
wop_primShiftRWide(d, x, n, s) ==
  IF n <= B32 \/ InRange(n, s, d) THEN wop_srl(x, Dist(n, s)) ELSE 0
wop_primShiftLWide(d, x, n, s) ==
  IF n <= B32 \/ InRange(n, s, d) THEN wop_sl(d, x, Dist(n, s)) ELSE 0
wop_primShiftRAWide(old, r, d, x, n, s) ==
  IF InRange(n, s, d)
    THEN wop_primSignExtWide(old, r, d - Dist(n, s), wop_srl(x, Dist(n, s)))
    ELSE IF sign_bit_set(d, x) THEN Ones(r) ELSE 0
wop_primExtractWide(x, hi, lo) == extract(hi, lo, x)

primSignExtWide(r, d, x) ==
  LET y == copy(NUM_WORDS(r), x, d)
  IN  IF sign_bit_set(d, x) THEN set(d, r, y) ELSE clear(d, y)
primZeroExtWide(r, d, x) == clear(d, copy(NUM_WORDS(r), x, d))
primShiftRWide(d, x, n, s) ==
  IF n <= B32 \/ InRange(n, s, d) THEN wop_srl(x, Dist(n, s)) ELSE 0
primShiftLWide(r, d, x, n, s) ==
  IF n <= B32 \/ InRange(n, s, d) THEN maskWide(r, wop_sl(d, x, Dist(n, s))) ELSE 0
primShiftRAWide(r, d, x, n, s) ==
  IF InRange(n, s, d)
    THEN primSignExtWide(r, d - Dist(n, s), wop_srl(x, Dist(n, s)))
    ELSE IF sign_bit_set(d, x) THEN Ones(r) ELSE 0
primTruncWide(r, x) == maskWide(r, x)
primExtractWide(x, hi, lo) == extract(hi, lo, x)

(***************************************************************************)
(* Signed comparison: primSLT8, and primSLE8 when orEqual.                 *)
(***************************************************************************)
primSLT8(d, x, y, orEqual) ==
  IF sign_bit_set(d, x) = sign_bit_set(d, y)
    THEN x < y \/ (orEqual /\ x = y)
    ELSE sign_bit_set(d, x)

(***************************************************************************)
(* The operator that overload resolution takes for a result of r bits.     *)
(***************************************************************************)
SignExt(old, r, d, x) ==
  CASE r <= B8 -> {primSignExt8(r, d, x)}
    [] r > B8 /\ r <= B32 -> {primSignExt32(r, d, x)}
    [] r > B32 /\ r <= B64 -> {primSignExt64(r, d, x)}
    [] IsWide(r) -> {primSignExtWide(r, d, x), wop_primSignExtWide(old, r, d, x)}
ZeroExt(old, r, d, x) ==
  CASE r <= B8 -> {primZeroExt8(x)}
    [] r > B8 /\ r <= B32 -> {primZeroExt32(x)}
    [] r > B32 /\ r <= B64 -> {primZeroExt64(x)}
    [] IsWide(r) -> {primZeroExtWide(r, d, x), wop_primZeroExtWide(old, d, x)}
ShiftR(d, x, n, s) ==
  CASE d <= B8 -> {primShiftR8(x, n, s)}
    [] d > B8 /\ d <= B32 -> {primShiftR32(x, n, s)}
    [] d > B32 /\ d <= B64 -> {primShiftR64(x, n, s)}
    [] IsWide(d) -> {primShiftRWide(d, x, n, s), wop_primShiftRWide(d, x, n, s)}
ShiftL(d, x, n, s) ==
  CASE d <= B8 -> {primShiftL8(d, x, n, s)}
    [] d > B8 /\ d <= B32 -> {primShiftL32(d, x, n, s)}
    [] d > B32 /\ d <= B64 -> {primShiftL64(d, x, n, s)}
    [] IsWide(d) -> {primShiftLWide(d, d, x, n, s), wop_primShiftLWide(d, x, n, s)}
ShiftRA(old, d, x, n, s) ==
  CASE d <= B8 -> {primShiftRA8(d, d, x, n, s)}
    [] d > B8 /\ d <= B32 -> {primShiftRA32(d, d, x, n, s)}
    [] d > B32 /\ d <= B64 -> {primShiftRA64(d, d, x, n, s)}
    [] IsWide(d) -> {primShiftRAWide(d, d, x, n, s), wop_primShiftRAWide(old, d, d, x, n, s)}
Trunc(r, x) ==
  CASE r <= B8 -> primTrunc8(r, x)
    [] r > B8 /\ r <= B32 -> primTrunc32(r, x)
    [] r > B32 /\ r <= B64 -> primTrunc64(r, x)
    [] IsWide(r) -> primTruncWide(r, x)
Extract(r, d, x, hi, lo) ==
  CASE r <= B8 -> {primExtract8(r, d, x, hi, lo)}
    [] r > B8 /\ r <= B32 -> {primExtract32(r, d, x, hi, lo)}
    [] r > B32 /\ r <= B64 -> {primExtract64(r, d, x, hi, lo)}
    [] IsWide(r) -> {primExtractWide(x, hi, lo), wop_primExtractWide(x, hi, lo)}

(***************************************************************************)
(* What Bluespec defines: numbers modulo 2^n, signed in two's complement.  *)
(***************************************************************************)
Signed(n, x) == IF x >= 2^(n - 1) THEN x - 2^n ELSE x
Power(n, s)  == 2^Least(n, s)

(***************************************************************************)
(* The steps: the value is replaced by that of an operator applied to it.  *)
(***************************************************************************)
Sizes == 1 .. MaxSize
Amounts(n) == IF IsWide(n) THEN WideAmounts ELSE 0 .. Ones(n)
Init == sz \in Sizes /\ val \in 0 .. Ones(sz) /\ ref = val
Becomes(n, results, x) == sz' = n /\ val' \in results /\ ref' = x

SignExtend ==
  \E r \in sz .. MaxSize : \E old \in {0, Ones(r)} :
    Becomes(r, SignExt(old, r, sz, val), Signed(sz, ref) % 2^r)
ZeroExtend ==
  \E r \in sz .. MaxSize : \E old \in {0, Ones(r)} :
    Becomes(r, ZeroExt(old, r, sz, val), ref)
ShiftRight ==
  \E n \in ShiftSizes : \E s \in Amounts(n) :
    Becomes(sz, ShiftR(sz, val, n, s), ref \div Power(sz, s))
ShiftLeft ==
  \E n \in ShiftSizes : \E s \in Amounts(n) :
    Becomes(sz, ShiftL(sz, val, n, s), (ref * Power(sz, s)) % 2^sz)
ShiftArithmetic ==
  \E n \in ShiftSizes : \E s \in Amounts(n), old \in {0, Ones(sz)} :
    Becomes(sz, ShiftRA(old, sz, val, n, s), (Signed(sz, ref) \div Power(sz, s)) % 2^sz)
(* Wide values are not truncated to narrow ones, but extracted. *)
Truncate ==
  \E r \in 1 .. sz : (IsWide(sz) => IsWide(r)) /\ Becomes(r, {Trunc(r, val)}, ref % 2^r)
(* A wide result has the size of the extracted range. *)
ExtractBits ==
  \E lo \in 0 .. sz - 1 : \E hi \in lo .. MaxSize - 1 : \E r \in Sizes :
    /\ IsWide(r) => r = hi - lo + 1
    /\ Becomes(r, Extract(r, sz, val, hi, lo), (ref \div 2^lo) % 2^Least(r, hi - lo + 1))
CompareSigned ==
  \E x \in 0 .. Ones(sz), orEqual \in BOOLEAN :
    Becomes(1, {IF primSLT8(sz, val, x, orEqual) THEN 1 ELSE 0},
               IF Signed(sz, ref) < Signed(sz, x) + (IF orEqual THEN 1 ELSE 0) THEN 1 ELSE 0)
(* Words of wide data are built and read bit field by bit field. *)
WordOf(x, w) == extract((w + 1) * B32 - 1, w * B32, x)
Fields == {f \in [word : 0 .. NUM_WORDS(MaxSize) - 1, nbits : 1 .. B32 - 1, offset : 0 .. B32 - 2] :
             f.offset + f.nbits <= B32}
InsertBits ==
  \E f \in Fields : \E value \in 0 .. Ones(f.nbits) :
    LET word == WordOf(val, f.word)
        new  == set_bits_in_word(word, value, f.offset, f.nbits)
        at   == 2^(f.word * B32 + f.offset)
    IN  /\ IsWide(sz) /\ f.word * B32 + f.offset + f.nbits <= sz
        /\ Becomes(sz, {val + (new - word) * 2^(f.word * B32)},
                   ref + (value - ((ref \div at) % 2^f.nbits)) * at)
ReadBits ==
  \E f \in Fields :
    /\ IsWide(sz) /\ f.word < NUM_WORDS(sz)
    /\ Becomes(f.nbits, {get_bits_in_word(WordOf(val, f.word), f.offset, f.nbits)},
               (ref \div 2^(f.word * B32 + f.offset)) % 2^f.nbits)

Next ==
  \/ SignExtend \/ ZeroExtend \/ ShiftRight \/ ShiftLeft \/ ShiftArithmetic
  \/ Truncate \/ ExtractBits \/ CompareSigned \/ InsertBits \/ ReadBits

Spec == Init /\ [][Next]_vars

(* After any chain of operators the C++ object holds exactly the number    *)
(* that the chain denotes, so all bits above the size are 0 although the   *)
(* operators shift, fill and mask in wider types, and overwrite objects    *)
(* that hold an older value.                                               *)
Computes == val = ref /\ ref \in 0 .. Ones(sz)

(* The comment bs_prim_ops.h:43-47 says that a shift by more than the size  *)
(* is expected to yield 0, and is guarded to do so.                        *)
FarShiftIsZero ==
  \A n \in ShiftSizes : \A s \in Amounts(n) : s >= sz => ShiftR(sz, val, n, s) = {0}
=============================================================================
