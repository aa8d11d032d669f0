------------------------- MODULE FIFOPointersProofs -------------------------
(***************************************************************************)
(* The pointers of the FIFOs between two clock domains.  First the         *)
(* counters of the code, at every width: numbers in binary, the Gray code  *)
(* of a number, and what incrGray, the full test, the memory index and     *)
(* grayToBinary make of it; so that the words the counters enumerate are   *)
(* what FIFOPointers assumes of a code.  Then, for any such code: what a   *)
(* flop captures of the pointers, how far apart they stay, and what the    *)
(* memory between them holds.  The proofs of the FIFOs use both.           *)
(***************************************************************************)
EXTENDS FIFOPointers, Integers, SequenceTheorems, FiniteSetTheorems, WellFoundedInduction, TLAPS

-----------------------------------------------------------------------------
(* Numbers in binary.                                                      *)

(* A set of numbers with 0 and with the successors of its members has all. *)
LEMMA AllNumbers ==
  ASSUME NEW G \in SUBSET Nat, 0 \in G, \A i \in G : i + 1 \in G
  PROVE  G = Nat
<1> DEFINE Less == OpToRel(<, Nat)
           B == Nat \ G
<1>1. \A a, b \in Nat : a < b => <<a, b>> \in Less
  BY DEF OpToRel
<1>2. IsWellFoundedOn(Less, Nat)
  BY NatLessThanWellFounded, Zenon
<1> HIDE DEF Less
<1>3. ASSUME B # {} PROVE FALSE
  <2>1. PICK b \in B : \A y \in B : ~(<<y, b>> \in Less)
    <3>1. B \subseteq Nat
      OBVIOUS
    <3> HIDE DEF B
    <3>2. QED
      BY <1>2, <1>3, <3>1, WFMin
  <2>2. b \in Nat /\ b # 0 /\ b \notin G
    OBVIOUS
  <2>3. b - 1 \in Nat /\ b - 1 < b
    BY <2>2
  <2>4. b - 1 \notin B
    BY <1>1, <2>1, <2>2, <2>3
  <2>5. (b - 1) + 1 \in G
    BY <2>3, <2>4
  <2>6. QED
    BY <2>2, <2>5
<1>4. QED
  BY <1>3

(* Powers of two, which count subsets. *)
LEMMA PowerPositive ==
  ASSUME NEW n \in Nat
  PROVE  2 ^ n \in Nat \ {0} /\ IsFiniteSet(SUBSET (1 .. n)) /\ Cardinality(SUBSET (1 .. n)) = 2 ^ n
<1> DEFINE A == SUBSET (1 .. n)
<1>1. IsFiniteSet(1 .. n) /\ Cardinality(1 .. n) = n
  BY FS_Interval
<1>2. IsFiniteSet(A) /\ Cardinality(A) = 2 ^ n
  BY <1>1, FS_SUBSET
<1>3. A # {}
  OBVIOUS
<1> HIDE DEF A
<1>4. Cardinality(A) \in Nat /\ Cardinality(A) # 0
  BY <1>2, <1>3, FS_CardinalityType, FS_EmptySet
<1>5. 2 ^ n \in Nat \ {0}
  BY <1>2, <1>4
<1>6. QED
  BY <1>2, <1>5 DEF A

(* With one more element there are twice the subsets. *)
LEMMA PowerDoubles ==
  ASSUME NEW n \in Nat
  PROVE  2 ^ (n + 1) = 2 * 2 ^ n
<1> DEFINE A == SUBSET (1 .. n)
           C == SUBSET (1 .. n + 1)
           B == C \ A
           f == [x \in A |-> x \cup {n + 1}]
<1>1. IsFiniteSet(A) /\ Cardinality(A) = 2 ^ n /\ Cardinality(C) = 2 ^ (n + 1) /\ 2 ^ n \in Nat
  <2>1. n + 1 \in Nat
    OBVIOUS
  <2> HIDE DEF B, f
  <2>2. QED
    BY <2>1, PowerPositive
<1>2. f \in Bijection(A, B)
  <2>1. \A x \in A : x \cup {n + 1} \in B
    <3>1. 1 .. n \subseteq 1 .. n + 1 /\ n + 1 \in 1 .. n + 1 /\ n + 1 \notin 1 .. n
      OBVIOUS
    <3>2. QED
      BY <3>1
  <2>2. \A x, y \in A : x \cup {n + 1} = y \cup {n + 1} => x = y
    <3>1. n + 1 \notin 1 .. n
      OBVIOUS
    <3>2. QED
      BY <3>1
  <2>3. \A y \in B : \E x \in A : y = x \cup {n + 1}
    <3>1. SUFFICES ASSUME NEW y \in B PROVE y \ {n + 1} \in A /\ y = (y \ {n + 1}) \cup {n + 1}
      BY Zenon
    <3>2. \A z \in 1 .. n + 1 : z = n + 1 \/ z \in 1 .. n
      OBVIOUS
    <3>3. QED
      BY <3>1, <3>2
  <2>4. f \in [A -> B]
    BY <2>1
  <2>5. \A x, y \in A : f[x] = f[y] => x = y
    BY <2>2
  <2>6. \A y \in B : \E x \in A : f[x] = y
    BY <2>3
  <2> HIDE DEF f, A, B
  <2>7. QED
    BY <2>4, <2>5, <2>6 DEF Bijection, Injection, Surjection, IsInjective
<1>3. IsFiniteSet(B) /\ Cardinality(B) = Cardinality(A)
  <2>1. ExistsBijection(A, B)
    BY <1>2, Zenon DEF ExistsBijection
  <2> HIDE DEF A, B
  <2>2. QED
    BY <1>1, <2>1, FS_Bijection
<1>4. C = A \cup B /\ A \cap B = {}
  <2>1. 1 .. n \subseteq 1 .. n + 1
    OBVIOUS
  <2>2. QED
    BY <2>1
<1>5. Cardinality(A \cap B) = 0
  BY <1>4, FS_EmptySet
<1>6. Cardinality(A \cup B) = Cardinality(A) + Cardinality(B) - Cardinality(A \cap B)
  <2> HIDE DEF A, B
  <2>1. QED
    BY <1>1, <1>3, FS_Union
<1> HIDE DEF A, B, C
<1>7. QED
  BY <1>1, <1>3, <1>4, <1>5, <1>6

-----------------------------------------------------------------------------
(* The bits of a number from bit i on.                                     *)
From(n, i) == n \div 2 ^ i

(* A quotient is known by its remainder. *)
LEMMA QuotientIs ==
  ASSUME NEW m \in Nat \ {0}, NEW n \in Nat, NEW q \in Nat, NEW r \in 0 .. m - 1, n = m * q + r
  PROVE  n \div m = q
<1> DEFINE e == n \div m
           d == e - q
<1>1. n = m * e + (n % m) /\ e \in Int /\ n % m \in 0 .. m - 1
  OBVIOUS
<1> HIDE DEF e
<1>2. d \in Int /\ m * d = r - (n % m)
  BY <1>1
<1>3. d = 0
  <2> HIDE DEF d
  <2>1. m * d < m /\ m * d > -m
    BY <1>1, <1>2
  <2>2. CASE d >= 1
    <3>1. m * d >= m
      BY <1>2, <2>2
    <3>2. QED
      BY <1>2, <2>1, <3>1
  <2>3. CASE d <= -1
    <3>1. m * d <= -m
      BY <1>2, <2>3
    <3>2. QED
      BY <1>2, <2>1, <3>1
  <2>4. QED
    BY <1>2, <2>2, <2>3
<1>4. QED
  BY <1>1, <1>3 DEF e

(* Dividing by twice a number is dividing by it, then by 2. *)
LEMMA DivideTwice ==
  ASSUME NEW m \in Nat \ {0}, NEW n \in Nat
  PROVE  n \div (2 * m) = (n \div m) \div 2
<1> DEFINE q == n \div m
           r == n % m
           p == q \div 2
           b == q % 2
<1>1. n = m * q + r /\ q \in Nat /\ r \in 0 .. m - 1
  OBVIOUS
<1>2. q = 2 * p + b /\ p \in Nat /\ b \in {0, 1}
  BY <1>1
<1> HIDE DEF q, r, p, b
<1>3. n = (2 * m) * p + (m * b + r)
  <2>1. m * q = m * (2 * p) + m * b
    BY <1>1, <1>2
  <2>2. m * (2 * p) = (2 * m) * p
    BY <1>2
  <2>3. QED
    BY <1>1, <1>2, <2>1, <2>2
<1>4. m * b + r \in 0 .. 2 * m - 1
  BY <1>1, <1>2
<1>5. 2 * m \in Nat \ {0}
  OBVIOUS
<1>6. n \div (2 * m) = p
  BY <1>2, <1>3, <1>4, <1>5, QuotientIs
<1>7. QED
  BY <1>6 DEF p, q

(* From bit 0 on, a number is itself. *)
LEMMA FromZero == \A n \in Nat : From(n, 0) = n
BY DEF From

(* Bit by bit: what is left of a number is its next bit and the rest. *)
LEMMA FromNext ==
  ASSUME NEW n \in Nat, NEW i \in Nat
  PROVE  /\ From(n, i) \in Nat /\ From(n, i + 1) \in Nat
         /\ From(n, i + 1) = From(n, i) \div 2
         /\ From(n, i) = 2 * From(n, i + 1) + (From(n, i) % 2) /\ From(n, i) % 2 \in {0, 1}
<1>1. 2 ^ i \in Nat \ {0} /\ 2 ^ (i + 1) = 2 * 2 ^ i
  BY PowerPositive, PowerDoubles
<1> DEFINE m == 2 ^ i
<1> HIDE DEF m
<1>2. n \div (2 * m) = (n \div m) \div 2 /\ n \div m \in Nat
  <2>1. m \in Nat \ {0}
    BY <1>1 DEF m
  <2>2. n \div (2 * m) = (n \div m) \div 2
    BY <2>1, DivideTwice
  <2>3. QED
    BY <2>1, <2>2
<1>3. From(n, i) = n \div m /\ From(n, i + 1) = n \div (2 * m)
  BY <1>1 DEF m, From
<1>4. From(n, i) \in Nat /\ From(n, i + 1) = From(n, i) \div 2
  BY <1>2, <1>3
<1>5. QED
  BY <1>4

(* Above its top bit there is nothing. *)
LEMMA FromTop ==
  ASSUME NEW n \in Nat, NEW i \in Nat, n < 2 ^ i
  PROVE  From(n, i) = 0
<1> DEFINE m == 2 ^ i
<1>1. m \in Nat \ {0} /\ n < m
  BY PowerPositive
<1> HIDE DEF m
<1>2. n = m * 0 + n /\ n \in 0 .. m - 1
  BY <1>1
<1>3. n \div m = 0
  BY <1>1, <1>2, QuotientIs
<1>4. QED
  BY <1>3 DEF From, m

(* Adding one carries over ones. *)
Ones(n, i) == \A j \in 0 .. i - 1 : From(n, j) % 2 = 1

(* One more bit of ones. *)
LEMMA OnesNext ==
  ASSUME NEW n \in Nat, NEW i \in Nat
  PROVE  Ones(n, 0) /\ (Ones(n, i + 1) <=> Ones(n, i) /\ From(n, i) % 2 = 1)
<1>1. \A j : j \in 0 .. (i + 1) - 1 <=> j \in 0 .. i - 1 \/ j = i
  OBVIOUS
<1>2. QED
  BY <1>1 DEF Ones

(* So one is added from bit i on exactly if all bits below are ones. *)
LEMMA Carries ==
  ASSUME NEW n \in Nat
  PROVE  \A i \in Nat : From(n + 1, i) = From(n, i) + Bit(Ones(n, i))
<1> DEFINE G == {i \in Nat : From(n + 1, i) = From(n, i) + Bit(Ones(n, i))}
<1>1. 0 \in G
  BY FromZero, OnesNext DEF Bit
<1>2. ASSUME NEW i \in G PROVE i + 1 \in G
  <2>1. i \in Nat /\ i + 1 \in Nat /\ From(n + 1, i) = From(n, i) + Bit(Ones(n, i))
    OBVIOUS
  <2>2. From(n + 1, i + 1) = From(n + 1, i) \div 2 /\ From(n, i + 1) = From(n, i) \div 2 /\ From(n, i) \in Nat
    BY <2>1, FromNext
  <2>3. Ones(n, i + 1) <=> Ones(n, i) /\ From(n, i) % 2 = 1
    BY <2>1, OnesNext
  <2>4. (From(n, i) + Bit(Ones(n, i))) \div 2 = From(n, i) \div 2 + Bit(Ones(n, i + 1))
    BY <2>2, <2>3 DEF Bit
  <2>5. QED
    BY <2>1, <2>2, <2>4
<1>3. G = Nat
  <2>1. G \subseteq Nat
    OBVIOUS
  <2> HIDE DEF G
  <2>2. QED
    BY <1>1, <1>2, <2>1, AllNumbers
<1>4. QED
  BY <1>3

-----------------------------------------------------------------------------
(* The numbers a counter of parameter w counts through.                    *)
Numbers(w) == 0 .. 2 ^ (w + 1) - 1

(* A number of w + 1 bits has no bit above w. *)
LEMMA NumbersFrom ==
  ASSUME NEW w \in Nat, NEW n \in Numbers(w)
  PROVE  n \in Nat /\ From(n, w + 1) = 0 /\ From(n, w) = From(n, w) % 2
<1>1. 2 ^ (w + 1) \in Nat /\ w + 1 \in Nat
  <2>1. w + 1 \in Nat
    OBVIOUS
  <2>2. QED
    BY <2>1, PowerPositive
<1>2. n \in Nat /\ n < 2 ^ (w + 1)
  BY <1>1 DEF Numbers
<1>3. From(n, w + 1) = 0
  BY <1>1, <1>2, FromTop
<1>4. From(n, w) = 2 * From(n, w + 1) + (From(n, w) % 2) /\ From(n, w) % 2 \in {0, 1}
  BY <1>2, FromNext
<1>5. QED
  BY <1>2, <1>3, <1>4

(* A bit of the code tells two neighbouring bits of the number apart.      *)
LEMMA GrayBits ==
  ASSUME NEW w \in Nat, NEW n \in Nat
  PROVE  /\ GrayWord(w, n) \in Word(w)
         /\ \A i \in 0 .. w : /\ GrayWord(w, n)[i] = (From(n, i) + From(n, i + 1)) % 2
                              /\ GrayWord(w, n)[i] = Bit(From(n, i) % 2 # From(n, i + 1) % 2)
<1>1. ASSUME NEW i \in 0 .. w
      PROVE  /\ (From(n, i) + From(n, i + 1)) % 2 \in {0, 1}
             /\ (From(n, i) + From(n, i + 1)) % 2 = Bit(From(n, i) % 2 # From(n, i + 1) % 2)
  <2>1. i \in Nat
    OBVIOUS
  <2>2. From(n, i) \in Nat /\ From(n, i + 1) \in Nat
    BY <2>1, FromNext
  <2>3. QED
    BY <2>2 DEF Bit
<1>2. GrayWord(w, n) = [i \in 0 .. w |-> (From(n, i) + From(n, i + 1)) % 2]
  BY DEF GrayWord, From
<1>3. QED
  BY <1>1, <1>2 DEF Word

(* In the word of an odd number zeros below k are ones up to k. *)
LEMMA BelowOnes ==
  ASSUME NEW w \in Nat, NEW n \in Nat, From(n, 0) % 2 = 1
  PROVE  \A k \in 0 .. w : ClearBelow(GrayWord(w, n), k) <=> Ones(n, k + 1)
<1> DEFINE g == GrayWord(w, n)
           G == {k \in Nat : k <= w => (ClearBelow(g, k) <=> Ones(n, k + 1))}
<1>1. g \in Word(w) /\ \A i \in 0 .. w : g[i] = Bit(From(n, i) % 2 # From(n, i + 1) % 2)
  BY GrayBits
<1> HIDE DEF g
<1>2. DOMAIN g = 0 .. w
  BY <1>1 DEF Word
<1>3. ClearBelow(g, 0)
  BY <1>2 DEF ClearBelow
<1>4. Ones(n, 0 + 1)
  BY OnesNext
<1>5. ASSUME NEW k \in Nat, k + 1 <= w, ClearBelow(g, k) <=> Ones(n, k + 1)
      PROVE  ClearBelow(g, k + 1) <=> Ones(n, (k + 1) + 1)
  <2>1. ClearBelow(g, k + 1) <=> ClearBelow(g, k) /\ g[k] = 0
    <3>1. \A j \in 0 .. w : j < k + 1 <=> j < k \/ j = k
      OBVIOUS
    <3>2. k \in 0 .. w
      BY <1>5
    <3>3. QED
      BY <1>2, <3>1, <3>2 DEF ClearBelow
  <2>2. Ones(n, (k + 1) + 1) <=> Ones(n, k + 1) /\ From(n, k + 1) % 2 = 1
    BY OnesNext
  <2>3. Ones(n, k + 1) => From(n, k) % 2 = 1
    BY OnesNext
  <2>4. g[k] = 0 <=> From(n, k) % 2 = From(n, k + 1) % 2
    BY <1>1, <1>5 DEF Bit
  <2>5. From(n, k + 1) % 2 \in {0, 1}
    BY FromNext
  <2>6. QED
    BY <1>5, <2>1, <2>2, <2>3, <2>4, <2>5
<1>6. G = Nat
  <2>1. G \subseteq Nat /\ 0 \in G
    BY <1>3, <1>4
  <2>2. ASSUME NEW k \in G PROVE k + 1 \in G
    BY <1>5
  <2> HIDE DEF G
  <2>3. QED
    BY <2>1, <2>2, AllNumbers
<1>7. QED
  BY <1>6 DEF g

(* incrGray flips the bit of the lowest zero of the number, or the top one *)
(* when the count comes round.                                             *)
Flips(w, n) == [i \in 0 .. w |-> Bit(Ones(n, i) /\ (i = w \/ From(n, i) % 2 = 0))]

(* What incrGray computes from the word and the parity. *)
LEMMA IncrFlips ==
  ASSUME NEW w \in Nat \ {0}, NEW n \in Numbers(w)
  PROVE  incrGray(w, GrayWord(w, n), n % 2) = Xor(Flips(w, n), GrayWord(w, n))
<1> DEFINE g == GrayWord(w, n)
           p == n % 2
<1>1. n \in Nat /\ g \in Word(w) /\ \A i \in 0 .. w : g[i] = Bit(From(n, i) % 2 # From(n, i + 1) % 2)
  BY GrayBits, NumbersFrom
<1>2. From(n, 0) % 2 = p /\ p \in {0, 1}
  BY <1>1, FromZero
<1>3. p = 1 => \A k \in 0 .. w : ClearBelow(g, k) <=> Ones(n, k + 1)
  BY <1>1, <1>2, BelowOnes
<1>4. \A i \in Nat \ {0} : Ones(n, i) => p = 1
  <2>1. \A i \in Nat \ {0} : 0 \in 0 .. i - 1
    OBVIOUS
  <2>2. QED
    BY <1>2, <2>1 DEF Ones
<1> HIDE DEF g, p
<1> DEFINE flips == [i \in 0 .. w |->
                       CASE i = 0             -> Bit(p = 0)
                         [] i \in 1 .. w - 1  -> Bit(p = 1 /\ g[i - 1] = 1 /\ ClearBelow(g, i - 1))
                         [] i = w             -> Bit(p = 1 /\ ClearBelow(g, w - 1))]
<1>5. ASSUME NEW i \in 0 .. w PROVE flips[i] = Flips(w, n)[i]
  <2>1. CASE i = 0
    <3>1. Ones(n, 0)
      BY <1>1 DEF Ones
    <3>2. flips[0] = Bit(p = 0)
      BY <2>1
    <3>3. Flips(w, n)[0] = Bit(Ones(n, 0) /\ (0 = w \/ From(n, 0) % 2 = 0))
      BY <2>1 DEF Flips
    <3>4. QED
      BY <1>2, <2>1, <3>1, <3>2, <3>3 DEF Bit
  <2>2. CASE i \in 1 .. w - 1
    <3>1. flips[i] = Bit(p = 1 /\ g[i - 1] = 1 /\ ClearBelow(g, i - 1))
      BY <2>2
    <3>2. p = 1 => (ClearBelow(g, i - 1) <=> Ones(n, i))
      <4>1. i - 1 \in 0 .. w /\ (i - 1) + 1 = i
        BY <2>2
      <4>2. QED
        BY <1>3, <4>1
    <3>3. g[i - 1] = Bit(From(n, i - 1) % 2 # From(n, i) % 2)
      <4>1. i - 1 \in 0 .. w /\ (i - 1) + 1 = i
        BY <2>2
      <4>2. QED
        BY <1>1, <4>1
    <3>4. Ones(n, i) => p = 1 /\ From(n, i - 1) % 2 = 1
      <4>1. i - 1 \in 0 .. i - 1 /\ i \in Nat \ {0}
        BY <2>2
      <4>2. QED
        BY <1>4, <4>1 DEF Ones
    <3>5. From(n, i) % 2 \in {0, 1}
      BY <1>1, <2>2, FromNext
    <3>6. Flips(w, n)[i] = Bit(Ones(n, i) /\ (i = w \/ From(n, i) % 2 = 0))
      BY DEF Flips
    <3>7. i # w
      BY <2>2
    <3> HIDE DEF flips
    <3>8. QED
      BY <3>1, <3>2, <3>3, <3>4, <3>5, <3>6, <3>7 DEF Bit
  <2>3. CASE i = w
    <3>1. ~(w = 0) /\ ~(w \in 1 .. w - 1)
      OBVIOUS
    <3>2. flips[w] = Bit(p = 1 /\ ClearBelow(g, w - 1))
      BY <3>1
    <3>3. p = 1 => (ClearBelow(g, w - 1) <=> Ones(n, w))
      <4>1. w - 1 \in 0 .. w /\ (w - 1) + 1 = w
        OBVIOUS
      <4>2. QED
        BY <1>3, <4>1
    <3>4. Ones(n, w) => p = 1
      BY <1>4
    <3>5. Flips(w, n)[w] = Bit(Ones(n, w) /\ (w = w \/ From(n, w) % 2 = 0))
      BY DEF Flips
    <3> HIDE DEF flips
    <3>6. QED
      BY <2>3, <3>2, <3>3, <3>4, <3>5 DEF Bit
  <2>4. QED
    BY <2>1, <2>2, <2>3
<1>6. flips = Flips(w, n)
  <2>1. DOMAIN flips = 0 .. w /\ DOMAIN Flips(w, n) = 0 .. w /\ flips = [i \in DOMAIN flips |-> flips[i]]
         /\ Flips(w, n) = [i \in DOMAIN Flips(w, n) |-> Flips(w, n)[i]]
    BY DEF Flips
  <2> HIDE DEF flips
  <2>2. QED
    BY <1>5, <2>1
<1>7. incrGray(w, g, p) = Xor(flips, g)
  BY DEF incrGray
<1>8. QED
  BY <1>6, <1>7 DEF g, p

(* The bits of that word of flips. *)
LEMMA FlipBits ==
  ASSUME NEW w \in Nat, NEW n \in Nat
  PROVE  /\ Flips(w, n) \in Word(w)
         /\ \A i \in 0 .. w : Flips(w, n)[i] = Bit(Ones(n, i) /\ (i = w \/ From(n, i) % 2 = 0))
BY DEF Flips, Word, Bit

(* Two words of the same width are equal when their bits are. *)
LEMMA SameBits ==
  ASSUME NEW w \in Nat, NEW a \in Word(w), NEW b \in Word(w), \A i \in 0 .. w : a[i] = b[i]
  PROVE  a = b
<1>1. a = [i \in 0 .. w |-> a[i]] /\ b = [i \in 0 .. w |-> b[i]]
  BY DEF Word
<1>2. [i \in 0 .. w |-> a[i]] = [i \in 0 .. w |-> b[i]]
  OBVIOUS
<1>3. QED
  BY <1>1, <1>2, Zenon

(* The exclusive or of two words, bit by bit. *)
LEMMA XorBits ==
  ASSUME NEW w \in Nat, NEW a \in Word(w), NEW b \in Word(w)
  PROVE  Xor(a, b) \in Word(w) /\ \A i \in 0 .. w : Xor(a, b)[i] = (a[i] + b[i]) % 2
BY DEF Xor, Word

(* The count goes up by one, or from all ones to 0. *)
LEMMA Increment ==
  ASSUME NEW w \in Nat, NEW n \in Numbers(w)
  PROVE  /\ (n + 1) % 2 ^ (w + 1) \in Numbers(w)
         /\ \/ n + 1 \in Numbers(w) /\ (n + 1) % 2 ^ (w + 1) = n + 1 /\ ~Ones(n, w + 1)
            \/ n + 1 = 2 ^ (w + 1) /\ (n + 1) % 2 ^ (w + 1) = 0 /\ Ones(n, w + 1)
<1> DEFINE m == 2 ^ (w + 1)
<1>1. w + 1 \in Nat /\ n \in Nat /\ n + 1 \in Nat
  BY NumbersFrom
<1>2. m \in Nat \ {0}
  BY <1>1, PowerPositive
<1>3. From(n + 1, w + 1) = From(n, w + 1) + Bit(Ones(n, w + 1)) /\ From(n, w + 1) = 0
  BY <1>1, Carries, NumbersFrom
<1>4. From(n + 1, w + 1) = (n + 1) \div m
  BY DEF From
<1>5. n \in 0 .. m - 1 /\ Numbers(w) = 0 .. m - 1
  BY DEF Numbers
<1> HIDE DEF m
<1>6. (n + 1) % m \in 0 .. m - 1
  BY <1>1, <1>2
<1>7. CASE n + 1 = m
  <2>1. n + 1 = m * 1 + 0 /\ 0 \in 0 .. m - 1
    BY <1>2, <1>7
  <2>2. (n + 1) \div m = 1
    BY <1>1, <1>2, <2>1, QuotientIs
  <2>3. n + 1 = m * ((n + 1) \div m) + ((n + 1) % m)
    BY <1>1, <1>2
  <2>4. (n + 1) % m = 0
    BY <1>1, <1>2, <1>6, <1>7, <2>2, <2>3
  <2>5. Ones(n, w + 1)
    BY <1>3, <1>4, <2>2 DEF Bit
  <2>6. QED
    BY <1>5, <1>6, <1>7, <2>4, <2>5 DEF m
<1>8. CASE n + 1 # m
  <2>1. n + 1 \in 0 .. m - 1 /\ n + 1 = m * 0 + (n + 1)
    BY <1>1, <1>2, <1>5, <1>8
  <2>2. (n + 1) \div m = 0
    BY <1>1, <1>2, <2>1, QuotientIs
  <2>3. n + 1 = m * ((n + 1) \div m) + ((n + 1) % m)
    BY <1>1, <1>2
  <2>4. (n + 1) % m = n + 1
    BY <1>1, <1>2, <1>6, <2>2, <2>3
  <2>5. ~Ones(n, w + 1)
    BY <1>3, <1>4, <2>2 DEF Bit
  <2>6. QED
    BY <1>5, <2>1, <2>4, <2>5 DEF m
<1>9. QED
  BY <1>7, <1>8

(* The word of 0 has no bit. *)
LEMMA ZeroWord ==
  ASSUME NEW w \in Nat
  PROVE  /\ 0 \in Numbers(w) /\ \A i \in Nat : From(0, i) = 0
         /\ GrayWord(w, 0) \in Word(w) /\ \A i \in 0 .. w : GrayWord(w, 0)[i] = 0
<1>1. \A i \in Nat : From(0, i) = 0
  <2>1. SUFFICES ASSUME NEW i \in Nat PROVE From(0, i) = 0
    OBVIOUS
  <2>2. 2 ^ i \in Nat \ {0}
    BY PowerPositive
  <2>3. QED
    BY <2>2, FromTop
<1>2. 0 \in Numbers(w)
  <2>1. w + 1 \in Nat
    OBVIOUS
  <2>2. 2 ^ (w + 1) \in Nat \ {0}
    BY <2>1, PowerPositive
  <2>3. QED
    BY <2>2 DEF Numbers
<1>3. /\ GrayWord(w, 0) \in Word(w)
      /\ \A i \in 0 .. w : GrayWord(w, 0)[i] = (From(0, i) + From(0, i + 1)) % 2
  BY GrayBits
<1>4. \A i \in 0 .. w : i \in Nat /\ i + 1 \in Nat
  OBVIOUS
<1>5. QED
  BY <1>1, <1>2, <1>3, <1>4

(* incrGray steps from the word of a number to the word of the next. *)
LEMMA IncrIsNext ==
  ASSUME NEW w \in Nat \ {0}, NEW n \in Numbers(w)
  PROVE  incrGray(w, GrayWord(w, n), n % 2) = GrayWord(w, (n + 1) % 2 ^ (w + 1))
<1> DEFINE g == GrayWord(w, n)
           f == Flips(w, n)
           m == (n + 1) % 2 ^ (w + 1)
           h == GrayWord(w, m)
<1>1. w \in Nat /\ n \in Nat /\ n + 1 \in Nat /\ From(n, w + 1) = 0
  BY NumbersFrom
<1>2. /\ m \in Numbers(w)
      /\ \/ n + 1 \in Numbers(w) /\ m = n + 1 /\ ~Ones(n, w + 1)
         \/ m = 0 /\ Ones(n, w + 1)
  BY Increment
<1>3. m \in Nat
  BY <1>1, <1>2, NumbersFrom
<1>4. /\ g \in Word(w) /\ f \in Word(w) /\ h \in Word(w) /\ Xor(f, g) \in Word(w)
      /\ \A i \in 0 .. w : Xor(f, g)[i] = (f[i] + g[i]) % 2
  <2>1. g \in Word(w) /\ h \in Word(w) /\ f \in Word(w)
    BY <1>1, <1>3, GrayBits, FlipBits
  <2> HIDE DEF f, g, h
  <2>2. QED
    BY <1>1, <2>1, XorBits
<1>5. ASSUME NEW i \in 0 .. w
      PROVE  Xor(f, g)[i] = h[i]
  <2>1. i \in Nat /\ i + 1 \in Nat
    OBVIOUS
  <2>2. /\ g[i] = Bit(From(n, i) % 2 # From(n, i + 1) % 2)
        /\ h[i] = Bit(From(m, i) % 2 # From(m, i + 1) % 2)
    BY <1>1, <1>3, GrayBits
  <2>3. f[i] = Bit(Ones(n, i) /\ (i = w \/ From(n, i) % 2 = 0))
    BY <1>1, FlipBits
  <2>4. Ones(n, i + 1) <=> Ones(n, i) /\ From(n, i) % 2 = 1
    BY <1>1, <2>1, OnesNext
  <2>5. From(n, i) \in Nat /\ From(n, i + 1) \in Nat
    BY <1>1, <2>1, FromNext
  <2> HIDE DEF f, g, h, m
  <2>6. CASE n + 1 \in Numbers(w) /\ m = n + 1 /\ ~Ones(n, w + 1)
    <3>1. /\ From(m, i) = From(n, i) + Bit(Ones(n, i))
          /\ From(m, i + 1) = From(n, i + 1) + Bit(Ones(n, i + 1))
      BY <1>1, <2>1, <2>6, Carries
    <3>2. i = w /\ Ones(n, i) => From(n, i) % 2 = 0
      BY <2>4, <2>5, <2>6
    <3>3. CASE Ones(n, i) /\ From(n, i) % 2 = 0
      <4>1. (From(m, i) % 2) = 1 /\ From(m, i + 1) = From(n, i + 1) /\ f[i] = 1
        BY <2>3, <2>4, <2>5, <3>1, <3>3 DEF Bit
      <4>2. QED
        BY <1>4, <2>2, <2>5, <3>3, <4>1 DEF Bit
    <3>4. CASE Ones(n, i) /\ From(n, i) % 2 # 0
      <4>1. (From(m, i) % 2) = 0 /\ From(m, i + 1) = From(n, i + 1) + 1 /\ f[i] = 0
        BY <2>3, <2>4, <2>5, <3>1, <3>2, <3>4 DEF Bit
      <4>2. QED
        BY <1>4, <2>2, <2>5, <3>4, <4>1 DEF Bit
    <3>5. CASE ~Ones(n, i)
      <4>1. From(m, i) = From(n, i) /\ From(m, i + 1) = From(n, i + 1) /\ f[i] = 0
        BY <2>3, <2>4, <2>5, <3>1, <3>5 DEF Bit
      <4>2. QED
        BY <1>4, <2>2, <2>5, <4>1 DEF Bit
    <3>6. QED
      BY <3>3, <3>4, <3>5
  <2>7. CASE m = 0 /\ Ones(n, w + 1)
    <3>1. From(n, i) % 2 = 1 /\ Ones(n, i)
      BY <2>7 DEF Ones
    <3>2. i < w => From(n, i + 1) % 2 = 1
      BY <2>7 DEF Ones
    <3>3. h[i] = 0
      BY <1>1, <2>7, ZeroWord DEF h
    <3>4. CASE i < w
      BY <1>4, <2>2, <2>3, <3>1, <3>2, <3>3, <3>4 DEF Bit
    <3>5. CASE i = w
      BY <1>1, <1>4, <2>2, <2>3, <3>1, <3>3, <3>5 DEF Bit
    <3>6. QED
      BY <3>4, <3>5
  <2>8. QED
    BY <1>2, <2>6, <2>7 DEF m
<1>6. Xor(f, g) = h
  <2> HIDE DEF f, g, h, m
  <2>1. QED
    BY <1>1, <1>4, <1>5, SameBits
<1>7. QED
  BY <1>6, IncrFlips

(* Of the flips one is set. *)
LEMMA OneFlip ==
  ASSUME NEW w \in Nat, NEW n \in Nat
  PROVE  \E i \in 0 .. w : Flips(w, n)[i] = 1 /\ \A j \in 0 .. w : j # i => Flips(w, n)[j] = 0
<1> DEFINE f == Flips(w, n)
           G == {k \in Nat : k <= w => Ones(n, k) \/ \E i \in 0 .. k - 1 : f[i] = 1}
<1>1. \A i \in 0 .. w : f[i] = Bit(Ones(n, i) /\ (i = w \/ From(n, i) % 2 = 0))
  BY FlipBits
<1> HIDE DEF f
<1>2. 0 \in G
  BY OnesNext
<1>3. ASSUME NEW k \in G PROVE k + 1 \in G
  <2>1. SUFFICES ASSUME k + 1 <= w PROVE Ones(n, k + 1) \/ \E i \in 0 .. (k + 1) - 1 : f[i] = 1
    OBVIOUS
  <2>2. k \in Nat /\ k \in 0 .. w /\ (Ones(n, k) \/ \E i \in 0 .. k - 1 : f[i] = 1)
    BY <2>1
  <2>3. CASE \E i \in 0 .. k - 1 : f[i] = 1
    <3>1. \A i \in 0 .. k - 1 : i \in 0 .. (k + 1) - 1
      BY <2>2
    <3>2. QED
      BY <2>3, <3>1
  <2>4. CASE Ones(n, k) /\ ~Ones(n, k + 1)
    <3>1. From(n, k) % 2 # 1 /\ From(n, k) % 2 \in {0, 1}
      BY <2>2, <2>4, OnesNext, FromNext
    <3>2. f[k] = 1 /\ k \in 0 .. (k + 1) - 1
      BY <1>1, <2>2, <2>4, <3>1 DEF Bit
    <3>3. QED
      BY <3>2
  <2>5. QED
    BY <2>2, <2>3, <2>4
<1>4. G = Nat
  <2>1. G \subseteq Nat
    OBVIOUS
  <2> HIDE DEF G
  <2>2. QED
    BY <1>2, <1>3, <2>1, AllNumbers
<1>5. \E i \in 0 .. w : f[i] = 1
  <2>1. Ones(n, w) \/ \E i \in 0 .. w - 1 : f[i] = 1
    BY <1>4
  <2>2. Ones(n, w) => f[w] = 1
    BY <1>1 DEF Bit
  <2>3. QED
    BY <2>1, <2>2
<1>6. \A i, j \in 0 .. w : i < j /\ f[j] = 1 => f[i] = 0
  <2>1. SUFFICES ASSUME NEW i \in 0 .. w, NEW j \in 0 .. w, i < j, f[j] = 1 PROVE f[i] = 0
    OBVIOUS
  <2>2. Ones(n, j)
    BY <1>1, <2>1 DEF Bit
  <2>3. From(n, i) % 2 = 1 /\ i # w
    BY <2>1, <2>2 DEF Ones
  <2>4. QED
    BY <1>1, <2>3 DEF Bit
<1>7. PICK i \in 0 .. w : f[i] = 1
  BY <1>5
<1>8. \A j \in 0 .. w : f[j] \in {0, 1}
  BY <1>1 DEF Bit
<1>9. ASSUME NEW j \in 0 .. w, j # i PROVE f[j] = 0
  BY <1>6, <1>7, <1>8, <1>9
<1>10. QED
  BY <1>7, <1>9 DEF f

(* So neighbouring words differ in one bit, round the end of the code too. *)
LEMMA NextFlipsOne ==
  ASSUME NEW w \in Nat \ {0}, NEW n \in Numbers(w)
  PROVE  \E i \in 0 .. w : GrayWord(w, (n + 1) % 2 ^ (w + 1)) = [GrayWord(w, n) EXCEPT ![i] = 1 - @]
<1> DEFINE g == GrayWord(w, n)
           f == Flips(w, n)
<1>1. w \in Nat /\ n \in Nat
  BY NumbersFrom
<1>2. PICK i \in 0 .. w : f[i] = 1 /\ \A j \in 0 .. w : j # i => f[j] = 0
  BY <1>1, OneFlip
<1>3. GrayWord(w, (n + 1) % 2 ^ (w + 1)) = Xor(f, g)
  BY IncrFlips, IncrIsNext
<1>4. g \in Word(w) /\ f \in Word(w)
  BY <1>1, GrayBits, FlipBits
<1> HIDE DEF f, g
<1>5. Xor(f, g) \in Word(w) /\ \A j \in 0 .. w : Xor(f, g)[j] = (f[j] + g[j]) % 2
  BY <1>1, <1>4, XorBits
<1> DEFINE h == [g EXCEPT ![i] = 1 - @]
<1>6. h \in Word(w) /\ h[i] = 1 - g[i] /\ \A j \in 0 .. w : j # i => h[j] = g[j]
  BY <1>4 DEF Word
<1>7. ASSUME NEW j \in 0 .. w PROVE Xor(f, g)[j] = h[j]
  <2>1. g[j] \in {0, 1}
    BY <1>4 DEF Word
  <2> HIDE DEF h
  <2>2. QED
    BY <1>2, <1>5, <1>6, <2>1
<1> HIDE DEF h
<1>8. Xor(f, g) = h
  BY <1>1, <1>5, <1>6, <1>7, SameBits
<1>9. QED
  BY <1>3, <1>8 DEF h, g

(* No two numbers have the same word. *)
LEMMA WordsDiffer ==
  ASSUME NEW w \in Nat, NEW p \in Numbers(w), NEW r \in Numbers(w), GrayWord(w, p) = GrayWord(w, r)
  PROVE  p = r
<1> DEFINE G == {k \in Nat : k <= w + 1 => From(p, (w + 1) - k) = From(r, (w + 1) - k)}
<1>1. p \in Nat /\ r \in Nat /\ From(p, w + 1) = 0 /\ From(r, w + 1) = 0
  BY NumbersFrom
<1>2. 0 \in G
  BY <1>1
<1>3. ASSUME NEW k \in G PROVE k + 1 \in G
  <2>1. SUFFICES ASSUME k + 1 <= w + 1 PROVE From(p, (w + 1) - (k + 1)) = From(r, (w + 1) - (k + 1))
    OBVIOUS
  <2> DEFINE i == w - k
  <2>2. i \in Nat /\ i \in 0 .. w /\ i = (w + 1) - (k + 1) /\ i + 1 = (w + 1) - k
    BY <2>1
  <2>3. From(p, i + 1) = From(r, i + 1)
    BY <2>1, <2>2
  <2> HIDE DEF i, G
  <2>4. Bit(From(p, i) % 2 # From(p, i + 1) % 2) = Bit(From(r, i) % 2 # From(r, i + 1) % 2)
    <3>1. /\ GrayWord(w, p)[i] = Bit(From(p, i) % 2 # From(p, i + 1) % 2)
          /\ GrayWord(w, r)[i] = Bit(From(r, i) % 2 # From(r, i + 1) % 2)
      BY <1>1, <2>2, GrayBits
    <3>2. QED
      BY <3>1
  <2>5. /\ From(p, i) = 2 * From(p, i + 1) + (From(p, i) % 2) /\ From(p, i) % 2 \in {0, 1}
        /\ From(r, i) = 2 * From(r, i + 1) + (From(r, i) % 2) /\ From(r, i) % 2 \in {0, 1}
        /\ From(p, i + 1) \in Nat
    BY <1>1, <2>2, FromNext
  <2>6. From(p, i) % 2 = From(r, i) % 2
    BY <2>3, <2>4, <2>5 DEF Bit
  <2>7. QED
    BY <2>2, <2>3, <2>5, <2>6
<1>4. G = Nat
  <2>1. G \subseteq Nat
    OBVIOUS
  <2> HIDE DEF G
  <2>2. QED
    BY <1>2, <1>3, <2>1, AllNumbers
<1>5. w + 1 \in G
  <2> HIDE DEF G
  <2>1. QED
    BY <1>4
<1>6. From(p, 0) = From(r, 0)
  <2>1. (w + 1) - (w + 1) = 0
    OBVIOUS
  <2>2. From(p, (w + 1) - (w + 1)) = From(r, (w + 1) - (w + 1))
    BY <1>5
  <2>3. QED
    BY <2>1, <2>2
<1>7. QED
  BY <1>1, <1>6, FromZero

(* The number half the code away differs in its top bit alone. *)
LEMMA HalfAway ==
  ASSUME NEW w \in Nat \ {0}, NEW n \in Nat, n < 2 ^ w
  PROVE  /\ n \in Numbers(w) /\ n + 2 ^ w \in Numbers(w)
         /\ \A i \in 0 .. w : From(n + 2 ^ w, i) % 2 = (From(n, i) + Bit(i = w)) % 2
         /\ FlipTop2(w, GrayWord(w, n)) = GrayWord(w, n + 2 ^ w)
         /\ FlipTop2(w, GrayWord(w, n + 2 ^ w)) = GrayWord(w, n)
<1> DEFINE m == n + 2 ^ w
           G == {i \in Nat : i <= w => From(m, i) = From(n, i) + 2 ^ (w - i)}
<1>1. w \in Nat /\ w + 1 \in Nat /\ 2 ^ w \in Nat \ {0} /\ 2 ^ (w + 1) = 2 * 2 ^ w
  <2>1. w \in Nat /\ w + 1 \in Nat
    OBVIOUS
  <2>2. QED
    BY <2>1, PowerPositive, PowerDoubles
<1>2. n \in Numbers(w) /\ m \in Numbers(w) /\ m \in Nat
  <2> DEFINE h == 2 ^ w
  <2>1. Numbers(w) = 0 .. 2 * h - 1 /\ h \in Nat /\ n < h /\ m = n + h
    BY <1>1 DEF Numbers
  <2> HIDE DEF h, m
  <2>2. QED
    BY <2>1
<1>3. From(n, w) = 0 /\ From(n, w + 1) = 0 /\ From(m, w + 1) = 0
  BY <1>1, <1>2, FromTop, NumbersFrom
<1>4. 0 \in G
  BY <1>2, FromZero
<1>5. ASSUME NEW i \in G, i + 1 <= w
      PROVE  /\ From(m, i + 1) = From(n, i + 1) + 2 ^ (w - (i + 1))
             /\ From(m, i) % 2 = From(n, i) % 2
  <2> DEFINE h == 2 ^ (w - (i + 1))
  <2>1. i \in Nat /\ w - (i + 1) \in Nat /\ (w - (i + 1)) + 1 = w - i
    BY <1>5
  <2>2. h \in Nat
    BY <2>1, PowerPositive
  <2>3. 2 ^ (w - i) = 2 * h
    <3>1. 2 ^ ((w - (i + 1)) + 1) = 2 * h
      BY <2>1, PowerDoubles
    <3>2. QED
      BY <2>1, <3>1
  <2>4. From(m, i) = From(n, i) + 2 * h
    BY <1>5, <2>3
  <2>5. From(m, i + 1) = From(m, i) \div 2 /\ From(n, i + 1) = From(n, i) \div 2 /\ From(n, i) \in Nat
    BY <1>2, <2>1, FromNext
  <2> HIDE DEF h, m, G
  <2>6. From(m, i + 1) = From(n, i + 1) + h /\ From(m, i) % 2 = From(n, i) % 2
    BY <2>2, <2>4, <2>5
  <2>7. QED
    BY <2>6 DEF h
<1>6. G = Nat
  <2>1. G \subseteq Nat
    OBVIOUS
  <2>2. ASSUME NEW i \in G PROVE i + 1 \in G
    BY <1>5
  <2> HIDE DEF G
  <2>3. QED
    BY <1>4, <2>1, <2>2, AllNumbers
<1>7. From(m, w) = 1
  <2>1. From(m, w + 1) = From(m, w) \div 2 /\ From(m, w) \in Nat
    BY <1>2, FromNext
  <2>2. From(m, w) = 0 + 2 ^ (w - w) /\ 2 ^ (w - w) \in Nat \ {0}
    <3>1. w \in G /\ w - w \in Nat
      <4> HIDE DEF G
      <4>1. QED
        BY <1>1, <1>6
    <3>2. 2 ^ (w - w) \in Nat \ {0}
      BY <3>1, PowerPositive
    <3>3. QED
      BY <1>3, <3>1, <3>2
  <2>3. QED
    BY <1>3, <2>1, <2>2
<1>8. ASSUME NEW i \in 0 .. w PROVE From(n, i) \in Nat /\ From(m, i) \in Nat
  <2>1. i \in Nat
    OBVIOUS
  <2> HIDE DEF m
  <2>2. QED
    BY <1>2, <2>1, FromNext
<1>9. \A i \in 0 .. w - 1 : From(m, i) % 2 = From(n, i) % 2
  BY <1>5, <1>6
<1>10. \A i \in 0 .. w : From(m, i) % 2 = (From(n, i) + Bit(i = w)) % 2
  BY <1>3, <1>7, <1>8, <1>9 DEF Bit
<1> DEFINE g == GrayWord(w, n)
           h == GrayWord(w, m)
<1>11. /\ g \in Word(w) /\ h \in Word(w)
       /\ \A i \in 0 .. w : /\ g[i] = Bit(From(n, i) % 2 # From(n, i + 1) % 2)
                            /\ h[i] = Bit(From(m, i) % 2 # From(m, i + 1) % 2)
  BY <1>1, <1>2, GrayBits
<1> HIDE DEF g, h, m
<1>12. ASSUME NEW i \in 0 .. w PROVE h[i] = IF i >= w - 1 THEN 1 - g[i] ELSE g[i]
  <2>1. CASE i < w - 1
    <3>1. i \in 0 .. w - 1 /\ i + 1 \in 0 .. w - 1
      BY <2>1
    <3>2. From(m, i) % 2 = From(n, i) % 2 /\ From(m, i + 1) % 2 = From(n, i + 1) % 2
      BY <1>9, <3>1
    <3>3. QED
      BY <1>11, <2>1, <3>2
  <2>2. CASE i = w - 1
    <3>1. i \in 0 .. w - 1 /\ i + 1 = w
      BY <2>2
    <3>2. From(m, i) % 2 = From(n, i) % 2 /\ From(m, i + 1) % 2 = 1 /\ From(n, i + 1) % 2 = 0
      BY <1>3, <1>7, <1>9, <3>1
    <3>3. From(n, i) % 2 \in {0, 1}
      BY <1>8
    <3>4. QED
      BY <1>11, <2>2, <3>2, <3>3 DEF Bit
  <2>3. CASE i = w
    <3>1. From(m, i) % 2 = 1 /\ From(n, i) % 2 = 0 /\ From(m, i + 1) % 2 = 0 /\ From(n, i + 1) % 2 = 0
      BY <1>3, <1>7, <2>3
    <3>2. QED
      BY <1>11, <2>3, <3>1 DEF Bit
  <2>4. QED
    BY <2>1, <2>2, <2>3
<1>13. FlipTop2(w, g) \in Word(w) /\ FlipTop2(w, h) \in Word(w)
  BY <1>11 DEF FlipTop2, Word
<1>14. \A i \in 0 .. w : FlipTop2(w, g)[i] = h[i] /\ FlipTop2(w, h)[i] = g[i]
  <2>1. \A i \in 0 .. w : g[i] \in {0, 1} /\ h[i] \in {0, 1}
    BY <1>11 DEF Word
  <2>2. QED
    BY <1>12, <2>1 DEF FlipTop2
<1>15. FlipTop2(w, g) = h /\ FlipTop2(w, h) = g
  BY <1>1, <1>11, <1>13, <1>14, SameBits
<1>16. QED
  BY <1>2, <1>10, <1>15 DEF g, h, m

(* The full test compares equal for the pointer half the code away alone. *)
LEMMA GrayFullTest ==
  ASSUME NEW w \in Nat \ {0}, NEW c \in Numbers(w), NEW n \in Numbers(w)
  PROVE  FlipTop2(w, GrayWord(w, c)) = GrayWord(w, n) <=> n = (c + 2 ^ w) % 2 ^ (w + 1)
<1> DEFINE h == 2 ^ w
           m == (c + h) % (2 * h)
<1>1. w \in Nat /\ h \in Nat \ {0} /\ 2 ^ (w + 1) = 2 * h
  <2>1. w \in Nat
    OBVIOUS
  <2>2. QED
    BY <2>1, PowerPositive, PowerDoubles
<1> HIDE DEF h
<1>2. Numbers(w) = 0 .. 2 * h - 1
  BY <1>1 DEF Numbers
<1>3. m \in Numbers(w) /\ ((c < h /\ m = c + h) \/ (c >= h /\ m = c - h))
  <2>1. c \in 0 .. 2 * h - 1
    BY <1>2
  <2>2. c + h \in Nat /\ 2 * h \in Nat \ {0}
    BY <1>1, <2>1
  <2>3. CASE c < h
    <3>1. c + h \in 0 .. 2 * h - 1
      BY <1>1, <2>1, <2>3
    <3>2. (c + h) % (2 * h) = c + h
      BY <1>1, <2>2, <3>1
    <3>3. QED
      BY <1>2, <2>3, <3>1, <3>2
  <2>4. CASE c >= h
    <3>1. c - h \in 0 .. 2 * h - 1 /\ c + h = 2 * h + (c - h)
      BY <1>1, <2>1, <2>4
    <3>2. (c + h) % (2 * h) = c - h
      BY <1>1, <2>2, <3>1
    <3>3. QED
      BY <1>2, <2>4, <3>1, <3>2
  <2>5. QED
    BY <1>1, <2>1, <2>3, <2>4
<1>4. FlipTop2(w, GrayWord(w, c)) = GrayWord(w, m)
  <2>1. CASE c < h /\ m = c + h
    <3>1. c \in Nat /\ c < 2 ^ w
      BY <1>1, <1>2, <2>1 DEF h
    <3>2. FlipTop2(w, GrayWord(w, c)) = GrayWord(w, c + 2 ^ w)
      BY <3>1, HalfAway
    <3>3. QED
      BY <2>1, <3>2 DEF h
  <2>2. CASE c >= h /\ m = c - h
    <3>1. m \in Nat /\ m < h /\ c = m + h
      BY <1>1, <1>2, <2>2
    <3>2. m \in Nat /\ m < 2 ^ w /\ c = m + 2 ^ w
      BY <3>1 DEF h
    <3> HIDE DEF m
    <3>3. FlipTop2(w, GrayWord(w, m + 2 ^ w)) = GrayWord(w, m)
      BY <3>2, HalfAway
    <3>4. QED
      BY <3>2, <3>3
  <2>3. QED
    BY <1>3, <2>1, <2>2
<1> HIDE DEF m
<1>5. GrayWord(w, m) = GrayWord(w, n) => m = n
  <2>1. w \in Nat
    OBVIOUS
  <2>2. QED
    BY <1>3, <2>1, WordsDiffer
<1>6. FlipTop2(w, GrayWord(w, c)) = GrayWord(w, n) <=> n = m
  BY <1>4, <1>5
<1>7. m = (c + 2 ^ w) % 2 ^ (w + 1)
  BY <1>1 DEF m, h
<1>8. QED
  BY <1>6, <1>7

(* The low bits of a number are what it leaves when divided. *)
LEMMA Remainder ==
  ASSUME NEW n \in Nat, NEW k \in Nat
  PROVE  /\ 2 ^ k \in Nat \ {0} /\ n % 2 ^ k \in 0 .. 2 ^ k - 1
         /\ n % 2 ^ (k + 1) = (n % 2 ^ k) + 2 ^ k * (From(n, k) % 2)
         /\ From(n, k) % 2 \in {0, 1} /\ n % 2 ^ 0 = 0
<1> DEFINE h == 2 ^ k
           q == n \div h
           r == n % h
           p == q \div 2
           b == q % 2
<1>1. h \in Nat \ {0} /\ 2 ^ (k + 1) = 2 * h
  BY PowerPositive, PowerDoubles
<1>2. From(n, k) = q
  BY DEF From
<1> HIDE DEF h
<1>3. n = h * q + r /\ q \in Nat /\ r \in 0 .. h - 1
  BY <1>1
<1>4. q = 2 * p + b /\ p \in Nat /\ b \in {0, 1}
  BY <1>3
<1> HIDE DEF q, r, p, b
<1>5. n = (2 * h) * p + (r + h * b)
  <2>1. h * q = h * (2 * p) + h * b
    BY <1>1, <1>4
  <2>2. h * (2 * p) = (2 * h) * p
    BY <1>1, <1>4
  <2>3. QED
    BY <1>1, <1>3, <1>4, <2>1, <2>2
<1>6. r + h * b \in 0 .. 2 * h - 1
  BY <1>1, <1>3, <1>4
<1>7. n \div (2 * h) = p
  <2>1. 2 * h \in Nat \ {0}
    BY <1>1
  <2>2. QED
    BY <1>4, <1>5, <1>6, <2>1, QuotientIs
<1>8. n % (2 * h) = r + h * b
  <2> DEFINE d == 2 * h
             e == r + h * b
  <2>1. d \in Nat \ {0} /\ n = d * (n \div d) + (n % d)
    <3>1. d \in Nat \ {0}
      BY <1>1
    <3> HIDE DEF d
    <3>2. QED
      BY <3>1
  <2>2. n = d * p + e /\ n \div d = p /\ e \in Int
    BY <1>5, <1>6, <1>7
  <2> HIDE DEF d, e
  <2>3. n % d = e
    BY <1>4, <2>1, <2>2
  <2>4. QED
    BY <2>3 DEF d, e
<1>9. n % 2 ^ 0 = 0
  OBVIOUS
<1>10. b = From(n, k) % 2
  BY <1>2 DEF b
<1>11. QED
  BY <1>1, <1>3, <1>4, <1>8, <1>9, <1>10 DEF r, h

(* Two numbers leave the same if and only if their low bits are the same. *)
LEMMA LowBits ==
  ASSUME NEW n \in Nat, NEW c \in Nat
  PROVE  \A k \in Nat : (\A i \in 0 .. k - 1 : From(n, i) % 2 = From(c, i) % 2) <=> n % 2 ^ k = c % 2 ^ k
<1> DEFINE Agree(k) == \A i \in 0 .. k - 1 : From(n, i) % 2 = From(c, i) % 2
           G == {k \in Nat : Agree(k) <=> n % 2 ^ k = c % 2 ^ k}
<1>1. 0 \in G
  <2>1. n % 2 ^ 0 = 0 /\ c % 2 ^ 0 = 0
    BY Remainder
  <2>2. QED
    BY <2>1
<1>2. ASSUME NEW k \in G PROVE k + 1 \in G
  <2>1. k \in Nat /\ k + 1 \in Nat /\ (Agree(k) <=> n % 2 ^ k = c % 2 ^ k)
    OBVIOUS
  <2>2. Agree(k + 1) <=> Agree(k) /\ From(n, k) % 2 = From(c, k) % 2
    <3>1. \A j : j \in 0 .. (k + 1) - 1 <=> j \in 0 .. k - 1 \/ j = k
      BY <2>1
    <3>2. QED
      BY <3>1
  <2> DEFINE h == 2 ^ k
             rn == n % h
             rc == c % h
             bn == From(n, k) % 2
             bc == From(c, k) % 2
  <2>3. /\ h \in Nat \ {0} /\ rn \in 0 .. h - 1 /\ rc \in 0 .. h - 1 /\ bn \in {0, 1} /\ bc \in {0, 1}
        /\ n % 2 ^ (k + 1) = rn + h * bn /\ c % 2 ^ (k + 1) = rc + h * bc
    BY <2>1, Remainder
  <2> HIDE DEF h, rn, rc, bn, bc
  <2>4. rn + h * bn = rc + h * bc <=> rn = rc /\ bn = bc
    BY <2>3
  <2>5. n % 2 ^ (k + 1) = c % 2 ^ (k + 1) <=> n % 2 ^ k = c % 2 ^ k /\ From(n, k) % 2 = From(c, k) % 2
    BY <2>3, <2>4 DEF h, rn, rc, bn, bc
  <2> HIDE DEF Agree
  <2>6. QED
    BY <2>1, <2>2, <2>5
<1>3. G = Nat
  <2>1. G \subseteq Nat
    OBVIOUS
  <2> HIDE DEF G
  <2>2. QED
    BY <1>1, <1>2, <2>1, AllNumbers
<1>4. QED
  BY <1>3

(* The memory index is the low bits of the number, coded. *)
LEMMA SameIndex ==
  ASSUME NEW w \in Nat \ {0}, NEW c \in Numbers(w), NEW n \in Numbers(w)
  PROVE  Index(w, [g |-> GrayWord(w, c), p |-> c % 2]) = Index(w, [g |-> GrayWord(w, n), p |-> n % 2])
           <=> n % 2 ^ w = c % 2 ^ w
<1> DEFINE same(i) == From(n, i) % 2 = From(c, i) % 2
           bit(m, i) == IF i = 0 THEN m % 2 ELSE GrayWord(w, m)[i - 1]
<1>1. w \in Nat /\ c \in Nat /\ n \in Nat
  BY NumbersFrom
<1>2. Index(w, [g |-> GrayWord(w, c), p |-> c % 2]) = Index(w, [g |-> GrayWord(w, n), p |-> n % 2])
        <=> \A i \in 0 .. w - 1 : bit(c, i) = bit(n, i)
  <2>1. \A m : Index(w, [g |-> GrayWord(w, m), p |-> m % 2]) = [i \in 0 .. w - 1 |-> bit(m, i)]
    BY DEF Index
  <2> DEFINE fc == [i \in 0 .. w - 1 |-> bit(c, i)]
             fn == [i \in 0 .. w - 1 |-> bit(n, i)]
  <2> HIDE DEF bit
  <2>2. fc = fn <=> \A i \in 0 .. w - 1 : bit(c, i) = bit(n, i)
    <3>1. ASSUME fc = fn PROVE \A i \in 0 .. w - 1 : bit(c, i) = bit(n, i)
      <4>1. \A i \in 0 .. w - 1 : fc[i] = bit(c, i) /\ fn[i] = bit(n, i)
        OBVIOUS
      <4>2. QED
        BY <3>1, <4>1, Zenon
    <3>2. ASSUME \A i \in 0 .. w - 1 : bit(c, i) = bit(n, i) PROVE fc = fn
      BY <3>2
    <3>3. QED
      BY <3>1, <3>2
  <2>3. QED
    BY <2>1, <2>2
<1>3. \A i \in 1 .. w - 1 : /\ bit(c, i) = Bit(From(c, i - 1) % 2 # From(c, i) % 2)
                           /\ bit(n, i) = Bit(From(n, i - 1) % 2 # From(n, i) % 2)
  <2>1. SUFFICES ASSUME NEW i \in 1 .. w - 1, NEW m \in {c, n}
                 PROVE  bit(m, i) = Bit(From(m, i - 1) % 2 # From(m, i) % 2)
    OBVIOUS
  <2>2. i - 1 \in 0 .. w /\ (i - 1) + 1 = i /\ i # 0 /\ m \in Nat
    BY <1>1
  <2>3. GrayWord(w, m)[i - 1] = Bit(From(m, i - 1) % 2 # From(m, (i - 1) + 1) % 2)
    BY <1>1, <2>2, GrayBits
  <2>4. QED
    BY <2>2, <2>3
<1>4. bit(c, 0) = From(c, 0) % 2 /\ bit(n, 0) = From(n, 0) % 2
  BY <1>1, FromZero
<1>5. \A i \in Nat : From(c, i) % 2 \in {0, 1} /\ From(n, i) % 2 \in {0, 1}
  BY <1>1, FromNext
<1> HIDE DEF bit
<1>6. ASSUME \A i \in 0 .. w - 1 : same(i) PROVE \A i \in 0 .. w - 1 : bit(c, i) = bit(n, i)
  <2>1. SUFFICES ASSUME NEW i \in 0 .. w - 1 PROVE bit(c, i) = bit(n, i)
    OBVIOUS
  <2>2. CASE i = 0
    BY <1>4, <1>6, <2>2
  <2>3. CASE i # 0
    <3>1. i \in 1 .. w - 1 /\ i - 1 \in 0 .. w - 1
      BY <2>3
    <3>2. QED
      BY <1>3, <1>6, <3>1
  <2>4. QED
    BY <2>2, <2>3
<1>7. ASSUME \A i \in 0 .. w - 1 : bit(c, i) = bit(n, i) PROVE \A i \in 0 .. w - 1 : same(i)
  <2> DEFINE G == {k \in Nat : k <= w - 1 => same(k)}
  <2>1. 0 \in G
    <3>1. 0 \in 0 .. w - 1
      OBVIOUS
    <3>2. QED
      BY <1>4, <1>7, <3>1
  <2>2. ASSUME NEW k \in G PROVE k + 1 \in G
    <3>1. SUFFICES ASSUME k + 1 <= w - 1 PROVE same(k + 1)
      OBVIOUS
    <3>2. k \in Nat /\ k + 1 \in Nat /\ k + 1 \in 1 .. w - 1 /\ k + 1 \in 0 .. w - 1 /\ (k + 1) - 1 = k
      BY <3>1
    <3>3. same(k)
      BY <3>1
    <3>4. Bit(From(c, k) % 2 # From(c, k + 1) % 2) = Bit(From(n, k) % 2 # From(n, k + 1) % 2)
      <4>1. bit(c, k + 1) = bit(n, k + 1)
        BY <1>7, <3>2
      <4>2. /\ bit(c, k + 1) = Bit(From(c, (k + 1) - 1) % 2 # From(c, k + 1) % 2)
            /\ bit(n, k + 1) = Bit(From(n, (k + 1) - 1) % 2 # From(n, k + 1) % 2)
        BY <1>3, <3>2
      <4> HIDE DEF G
      <4>3. QED
        BY <3>2, <4>1, <4>2
    <3>5. /\ From(c, k) % 2 \in {0, 1} /\ From(n, k) % 2 \in {0, 1}
          /\ From(c, k + 1) % 2 \in {0, 1} /\ From(n, k + 1) % 2 \in {0, 1}
      BY <1>5, <3>2
    <3> HIDE DEF G
    <3>6. QED
      BY <3>3, <3>4, <3>5 DEF Bit
  <2>3. G = Nat
    <3>1. G \subseteq Nat
      OBVIOUS
    <3> HIDE DEF G
    <3>2. QED
      BY <2>1, <2>2, <3>1, AllNumbers
  <2>4. QED
    BY <2>3
<1>8. (\A i \in 0 .. w - 1 : same(i)) <=> n % 2 ^ w = c % 2 ^ w
  BY <1>1, LowBits
<1>9. QED
  BY <1>2, <1>6, <1>7, <1>8

(* The bits grayToBinary computes are those of the number, *)
LEMMA BinaryBits ==
  ASSUME NEW w \in Nat, NEW n \in Numbers(w)
  PROVE  \A i \in 0 .. w : binaryBit(w, GrayWord(w, n))[i] = From(n, i) % 2
<1> DEFINE g == GrayWord(w, n)
           Is(b) == b = [i \in 0 .. w |-> IF i = w THEN g[w] ELSE (b[i + 1] + g[i]) % 2]
           B == [i \in 0 .. w |-> From(n, i) % 2]
           b == binaryBit(w, g)
<1>1. n \in Nat /\ From(n, w + 1) = 0 /\ From(n, w) = From(n, w) % 2
  BY NumbersFrom
<1>2. \A i \in 0 .. w : g[i] = (From(n, i) + From(n, i + 1)) % 2
  BY <1>1, GrayBits
<1>3. \A i \in Nat : From(n, i) \in Nat
  BY <1>1, FromNext
<1>4. binaryBit(w, g) = CHOOSE f : Is(f)
  BY DEF binaryBit
<1> HIDE DEF g
<1>5. Is(B)
  <2>1. ASSUME NEW i \in 0 .. w PROVE B[i] = IF i = w THEN g[w] ELSE (B[i + 1] + g[i]) % 2
    <3>1. CASE i = w
      BY <1>1, <1>2, <1>3, <3>1
    <3>2. CASE i # w
      <4>1. i \in 0 .. w /\ i + 1 \in 0 .. w /\ i \in Nat /\ i + 1 \in Nat
        BY <3>2
      <4>2. B[i] = From(n, i) % 2 /\ B[i + 1] = From(n, i + 1) % 2
        BY <4>1
      <4>3. From(n, i) \in Nat /\ From(n, i + 1) \in Nat /\ g[i] = (From(n, i) + From(n, i + 1)) % 2
        BY <1>2, <1>3, <4>1
      <4> HIDE DEF B
      <4>4. QED
        BY <3>2, <4>2, <4>3
    <3>3. QED
      BY <3>1, <3>2
  <2>2. B = [i \in 0 .. w |-> B[i]]
    OBVIOUS
  <2> HIDE DEF B
  <2>3. QED
    BY <2>1, <2>2
<1>6. Is(b)
  <2> HIDE DEF Is, B
  <2>1. \E f : Is(f)
    BY <1>5
  <2>2. QED
    BY <1>4, <2>1
<1>7. \A i \in 0 .. w : b[i] = IF i = w THEN g[w] ELSE (b[i + 1] + g[i]) % 2
  <2> HIDE DEF b
  <2>1. \A i \in 0 .. w : [j \in 0 .. w |-> IF j = w THEN g[w] ELSE (b[j + 1] + g[j]) % 2][i]
                            = IF i = w THEN g[w] ELSE (b[i + 1] + g[i]) % 2
    OBVIOUS
  <2>2. QED
    BY <1>6, <2>1
<1> HIDE DEF b, Is
<1> DEFINE G == {k \in Nat : k <= w => b[w - k] = B[w - k]}
<1>8. \A i \in 0 .. w : B[i] = IF i = w THEN g[w] ELSE (B[i + 1] + g[i]) % 2
  <2>1. \A i \in 0 .. w : [j \in 0 .. w |-> IF j = w THEN g[w] ELSE (B[j + 1] + g[j]) % 2][i]
                            = IF i = w THEN g[w] ELSE (B[i + 1] + g[i]) % 2
    OBVIOUS
  <2> HIDE DEF B
  <2>2. QED
    BY <1>5, <2>1 DEF Is
<1> HIDE DEF B
<1>9. 0 \in G
  BY <1>7, <1>8
<1>10. ASSUME NEW k \in G PROVE k + 1 \in G
  <2>1. SUFFICES ASSUME k + 1 <= w PROVE b[w - (k + 1)] = B[w - (k + 1)]
    OBVIOUS
  <2> DEFINE i == w - (k + 1)
  <2>2. i \in 0 .. w /\ i # w /\ i + 1 = w - k
    BY <2>1
  <2>3. b[i + 1] = B[i + 1]
    BY <2>1, <2>2
  <2> HIDE DEF i, G
  <2>4. b[i] = B[i]
    BY <1>7, <1>8, <2>2, <2>3
  <2>5. QED
    BY <2>4 DEF i
<1>11. G = Nat
  <2>1. G \subseteq Nat
    OBVIOUS
  <2> HIDE DEF G
  <2>2. QED
    BY <1>9, <1>10, <2>1, AllNumbers
<1>12. ASSUME NEW i \in 0 .. w PROVE b[i] = From(n, i) % 2
  <2>1. w - i \in Nat /\ w - i <= w /\ w - (w - i) = i
    OBVIOUS
  <2>2. b[i] = B[i]
    BY <1>11, <2>1
  <2>3. QED
    BY <2>2 DEF B
<1>13. QED
  BY <1>12 DEF b, g

(* and their value is the number. *)
LEMMA BinaryInverts ==
  ASSUME NEW w \in Nat, NEW n \in Numbers(w)
  PROVE  grayToBinary(w, GrayWord(w, n)) = n
<1> DEFINE bits == binaryBit(w, GrayWord(w, n))
           Is(v) == v = [i \in 0 .. w |-> bits[i] * 2 ^ i + (IF i = 0 THEN 0 ELSE v[i - 1])]
           V == [i \in 0 .. w |-> n % 2 ^ (i + 1)]
           v == CHOOSE f : Is(f)
           power(i) == 2 ^ i
           rem(i) == n % 2 ^ i
<1>1. n \in Nat
  BY NumbersFrom
<1>2. \A i \in 0 .. w : bits[i] = From(n, i) % 2
  BY BinaryBits
<1>3. grayToBinary(w, GrayWord(w, n)) = v[w]
  BY DEF grayToBinary
<1> HIDE DEF bits
<1>4. ASSUME NEW i \in Nat
      PROVE /\ power(i) \in Nat /\ rem(i) \in Nat
            /\ rem(i + 1) = rem(i) + power(i) * (From(n, i) % 2) /\ From(n, i) % 2 \in {0, 1} /\ rem(0) = 0
  <2>1. /\ power(i) \in Nat \ {0} /\ rem(i) \in 0 .. power(i) - 1
        /\ rem(i + 1) = rem(i) + power(i) * (From(n, i) % 2) /\ From(n, i) % 2 \in {0, 1} /\ rem(0) = 0
    BY <1>1, <1>4, Remainder
  <2> HIDE DEF power, rem
  <2>2. QED
    BY <2>1
<1>5. Is(V)
  <2> DEFINE R == [i \in 0 .. w |-> bits[i] * power(i) + (IF i = 0 THEN 0 ELSE V[i - 1])]
  <2>1. ASSUME NEW i \in 0 .. w PROVE V[i] = R[i]
    <3> DEFINE below == IF i = 0 THEN 0 ELSE V[i - 1]
    <3>1. i \in Nat /\ V[i] = rem(i + 1) /\ R[i] = bits[i] * power(i) + below
      OBVIOUS
    <3>2. below = rem(i)
      <4>1. CASE i = 0
        BY <1>4, <4>1
      <4>2. CASE i # 0
        <5>1. i - 1 \in 0 .. w /\ (i - 1) + 1 = i
          BY <4>2
        <5>2. V[i - 1] = rem((i - 1) + 1)
          BY <5>1
        <5> HIDE DEF V, rem
        <5>3. QED
          BY <4>2, <5>1, <5>2
      <4>3. QED
        BY <4>1, <4>2
    <3>3. bits[i] = From(n, i) % 2
      BY <1>2
    <3>4. /\ power(i) \in Nat /\ rem(i) \in Nat /\ From(n, i) % 2 \in {0, 1}
          /\ rem(i + 1) = rem(i) + power(i) * (From(n, i) % 2)
      BY <1>4, <3>1
    <3> HIDE DEF V, R, below, power, rem
    <3>5. QED
      BY <3>1, <3>2, <3>3, <3>4
  <2>2. V = [i \in 0 .. w |-> V[i]] /\ R = [i \in 0 .. w |-> R[i]]
    OBVIOUS
  <2>3. V = R
    <3> HIDE DEF V, R
    <3>1. QED
      BY <2>1, <2>2
  <2>4. QED
    BY <2>3
<1>6. Is(v)
  <2> HIDE DEF Is, V
  <2>1. \E f : Is(f)
    BY <1>5
  <2>2. QED
    BY <2>1
<1> HIDE DEF v
<1>7. \A i \in 0 .. w : /\ v[i] = bits[i] * 2 ^ i + (IF i = 0 THEN 0 ELSE v[i - 1])
                        /\ V[i] = bits[i] * 2 ^ i + (IF i = 0 THEN 0 ELSE V[i - 1])
  <2> DEFINE F(f) == [j \in 0 .. w |-> bits[j] * 2 ^ j + (IF j = 0 THEN 0 ELSE f[j - 1])]
  <2>1. \A f : \A i \in 0 .. w : F(f)[i] = bits[i] * 2 ^ i + (IF i = 0 THEN 0 ELSE f[i - 1])
    OBVIOUS
  <2>2. v = F(v) /\ V = F(V)
    <3> HIDE DEF V
    <3>1. QED
      BY <1>5, <1>6
  <2> HIDE DEF V, F
  <2>3. QED
    BY <2>1, <2>2, Zenon
<1> HIDE DEF Is, V
<1> DEFINE G == {k \in Nat : k <= w => v[k] = V[k]}
<1>8. 0 \in G
  <2>1. 0 \in 0 .. w
    OBVIOUS
  <2>2. v[0] = bits[0] * 2 ^ 0 + 0 /\ V[0] = bits[0] * 2 ^ 0 + 0
    BY <1>7, <2>1
  <2>3. QED
    BY <2>2
<1>9. ASSUME NEW k \in G PROVE k + 1 \in G
  <2>1. SUFFICES ASSUME k + 1 <= w PROVE v[k + 1] = V[k + 1]
    OBVIOUS
  <2>2. k + 1 \in 0 .. w /\ k + 1 # 0 /\ (k + 1) - 1 = k /\ v[k] = V[k]
    BY <2>1
  <2> HIDE DEF G
  <2>3. /\ v[k + 1] = bits[k + 1] * 2 ^ (k + 1) + v[(k + 1) - 1]
        /\ V[k + 1] = bits[k + 1] * 2 ^ (k + 1) + V[(k + 1) - 1]
    BY <1>7, <2>2
  <2>4. QED
    BY <2>2, <2>3
<1>10. G = Nat
  <2>1. G \subseteq Nat
    OBVIOUS
  <2> HIDE DEF G
  <2>2. QED
    BY <1>8, <1>9, <2>1, AllNumbers
<1>11. v[w] = V[w]
  BY <1>10
<1>12. V[w] = n % 2 ^ (w + 1)
  BY DEF V
<1>13. n % 2 ^ (w + 1) = n
  <2> DEFINE m == 2 ^ (w + 1)
  <2>1. m \in Nat \ {0} /\ n \in 0 .. m - 1
    <3>1. w + 1 \in Nat
      OBVIOUS
    <3>2. QED
      BY <3>1, PowerPositive DEF Numbers
  <2> HIDE DEF m
  <2>2. n % m = n
    BY <2>1
  <2>3. QED
    BY <2>2 DEF m
<1>14. QED
  BY <1>3, <1>11, <1>12, <1>13

-----------------------------------------------------------------------------
(* The counter that stands at a number: the word of it, and its parity. *)
CounterAt(w, n) == [g |-> GrayWord(w, n), p |-> n % 2]

(* Reset sets the pointer to 0 and the look-ahead to 1. *)
LEMMA ResetCounters ==
  ASSUME NEW w \in Nat \ {0}
  PROVE  /\ ResetPtr(w) = CounterAt(w, 0) /\ ResetPtr1(w) = CounterAt(w, 1)
         /\ 0 \in Numbers(w) /\ 1 \in Numbers(w) /\ (0 + 1) % 2 ^ (w + 1) = 1
<1> DEFINE z == [i \in 0 .. w |-> 0]
           o == [i \in 0 .. w |-> Bit(i = 0)]
<1>1. w \in Nat /\ w + 1 \in Nat
  OBVIOUS
<1>2. /\ 0 \in Numbers(w) /\ GrayWord(w, 0) \in Word(w) /\ \A i \in Nat : From(0, i) = 0
      /\ \A i \in 0 .. w : GrayWord(w, 0)[i] = 0
  BY <1>1, ZeroWord
<1>3. z \in Word(w) /\ o \in Word(w) /\ (\A i \in 0 .. w : z[i] = 0 /\ o[i] = Bit(i = 0))
  BY DEF Word, Bit
<1> HIDE DEF z, o
<1>4. z = GrayWord(w, 0)
  BY <1>1, <1>2, <1>3, SameBits
<1>5. \A i \in Nat : From(1, i) = Bit(i = 0)
  <2>1. \A i \in Nat : From(0 + 1, i) = From(0, i) + Bit(Ones(0, i))
    BY Carries
  <2>2. \A i \in Nat : Ones(0, i) <=> i = 0
    <3>1. SUFFICES ASSUME NEW i \in Nat PROVE Ones(0, i) <=> i = 0
      OBVIOUS
    <3>2. i # 0 => 0 \in 0 .. i - 1 /\ From(0, 0) % 2 # 1
      BY <1>2
    <3>3. QED
      BY <3>2 DEF Ones
  <2>3. QED
    BY <1>2, <2>1, <2>2 DEF Bit
<1>6. o = GrayWord(w, 1)
  <2>1. /\ GrayWord(w, 1) \in Word(w)
        /\ \A i \in 0 .. w : GrayWord(w, 1)[i] = (From(1, i) + From(1, i + 1)) % 2
    BY <1>1, GrayBits
  <2>2. \A i \in 0 .. w : i \in Nat /\ i + 1 \in Nat /\ i + 1 # 0
    OBVIOUS
  <2>3. \A i \in 0 .. w : GrayWord(w, 1)[i] = Bit(i = 0)
    BY <1>5, <2>1, <2>2 DEF Bit
  <2>4. QED
    BY <1>1, <1>3, <2>1, <2>3, SameBits
<1>7. ResetPtr(w) = CounterAt(w, 0) /\ ResetPtr1(w) = CounterAt(w, 1)
  BY <1>4, <1>6 DEF z, o, ResetPtr, ResetPtr1, CounterAt
<1>8. 1 \in Numbers(w) /\ (0 + 1) % 2 ^ (w + 1) = 1
  <2> DEFINE h == 2 ^ w
  <2>1. h \in Nat \ {0} /\ 2 ^ (w + 1) = 2 * h
    BY <1>1, PowerPositive, PowerDoubles
  <2> HIDE DEF h
  <2>2. 1 \in 0 .. 2 * h - 1 /\ (0 + 1) % (2 * h) = 1
    BY <2>1
  <2>3. QED
    BY <2>1, <2>2 DEF Numbers
<1>9. QED
  BY <1>2, <1>7, <1>8

(* incrGrayP goes from a number to the next, the parity with the word. *)
LEMMA CounterNext ==
  ASSUME NEW w \in Nat \ {0}, NEW n \in Numbers(w)
  PROVE  /\ (n + 1) % 2 ^ (w + 1) \in Numbers(w)
         /\ incrGrayP(w, CounterAt(w, n)) = CounterAt(w, (n + 1) % 2 ^ (w + 1))
         /\ ((n + 1) % 2 ^ (w + 1)) % 2 = (n + 1) % 2
<1> DEFINE m == (n + 1) % 2 ^ (w + 1)
           h == 2 ^ w
<1>1. w \in Nat /\ n \in Nat /\ h \in Nat /\ 2 ^ (w + 1) = 2 * h
  <2>1. w \in Nat
    OBVIOUS
  <2>2. QED
    BY <2>1, NumbersFrom, PowerPositive, PowerDoubles
<1>2. m \in Numbers(w) /\ (m = n + 1 \/ (n + 1 = 2 * h /\ m = 0))
  BY <1>1, Increment
<1> HIDE DEF m, h
<1>3. m % 2 = 1 - (n % 2) /\ m % 2 = (n + 1) % 2
  BY <1>1, <1>2
<1>4. incrGray(w, GrayWord(w, n), n % 2) = GrayWord(w, m)
  BY IncrIsNext DEF m
<1>5. incrGrayP(w, CounterAt(w, n)) = CounterAt(w, m)
  BY <1>3, <1>4 DEF incrGrayP, CounterAt
<1>6. QED
  BY <1>2, <1>3, <1>5 DEF m

(* Every word is the word of a number, as there are as many of each. *)
LEMMA EveryWord ==
  ASSUME NEW w \in Nat, NEW g \in Word(w)
  PROVE  \E n \in Numbers(w) : GrayWord(w, n) = g
<1> DEFINE S == SUBSET (1 .. w + 1)
           set == [f \in Word(w) |-> {i \in 1 .. w + 1 : f[i - 1] = 1}]
           code == [n \in Numbers(w) |-> GrayWord(w, n)]
<1>1. w + 1 \in Nat
  OBVIOUS
<1>2. 2 ^ (w + 1) \in Nat \ {0} /\ IsFiniteSet(S) /\ Cardinality(S) = 2 ^ (w + 1)
  BY <1>1, PowerPositive
<1>3. IsFiniteSet(Numbers(w)) /\ Cardinality(Numbers(w)) = 2 ^ (w + 1)
  <2> DEFINE m == 2 ^ (w + 1)
  <2>1. m \in Nat \ {0} /\ Numbers(w) = 0 .. m - 1
    BY <1>2 DEF Numbers
  <2> HIDE DEF m
  <2>2. 0 \in Int /\ m - 1 \in Int /\ ~(0 > m - 1) /\ (m - 1) - 0 + 1 = m
    BY <2>1
  <2>3. IsFiniteSet(0 .. m - 1) /\ Cardinality(0 .. m - 1) = m
    BY <2>2, FS_Interval
  <2>4. QED
    BY <2>1, <2>3 DEF m
<1>4. set \in Injection(Word(w), S)
  <2>1. set \in [Word(w) -> S]
    OBVIOUS
  <2>2. ASSUME NEW a \in Word(w), NEW b \in Word(w), set[a] = set[b]
        PROVE  a = b
    <3>1. ASSUME NEW i \in 0 .. w PROVE a[i] = b[i]
      <4>1. i + 1 \in 1 .. w + 1 /\ (i + 1) - 1 = i
        OBVIOUS
      <4>2. a[i] = 1 <=> b[i] = 1
        <5>1. i + 1 \in set[a] <=> a[(i + 1) - 1] = 1
          BY <4>1
        <5>2. i + 1 \in set[b] <=> b[(i + 1) - 1] = 1
          BY <4>1
        <5>3. QED
          BY <2>2, <4>1, <5>1, <5>2
      <4>3. a[i] \in {0, 1} /\ b[i] \in {0, 1}
        BY DEF Word
      <4>4. QED
        BY <4>2, <4>3
    <3>2. QED
      BY <3>1, SameBits
  <2> HIDE DEF set, S
  <2>3. QED
    BY <2>1, <2>2 DEF Injection, IsInjective
<1>5. IsFiniteSet(Word(w)) /\ Cardinality(Word(w)) <= 2 ^ (w + 1)
  <2> HIDE DEF set, S
  <2>1. QED
    BY <1>2, <1>4, FS_Injection
<1>6. code \in Injection(Numbers(w), Word(w))
  <2>1. \A n \in Numbers(w) : n \in Nat
    BY NumbersFrom
  <2>2. code \in [Numbers(w) -> Word(w)]
    <3>1. \A n \in Numbers(w) : GrayWord(w, n) \in Word(w)
      BY <2>1, GrayBits
    <3>2. QED
      BY <3>1
  <2>3. ASSUME NEW a \in Numbers(w), NEW b \in Numbers(w), code[a] = code[b]
        PROVE  a = b
    <3>1. GrayWord(w, a) = GrayWord(w, b)
      BY <2>3
    <3>2. QED
      BY <3>1, WordsDiffer
  <2> HIDE DEF code
  <2>4. QED
    BY <2>2, <2>3 DEF Injection, IsInjective
<1>7. code \in Surjection(Numbers(w), Word(w))
  <2> HIDE DEF code
  <2>1. /\ Cardinality(Numbers(w)) <= Cardinality(Word(w))
        /\ Cardinality(Numbers(w)) = Cardinality(Word(w)) <=> code \in Surjection(Numbers(w), Word(w))
    BY <1>5, <1>6, FS_Injection
  <2>2. Cardinality(Word(w)) \in Nat
    BY <1>5, FS_CardinalityType
  <2>3. QED
    BY <1>2, <1>3, <1>5, <2>1, <2>2
<1>8. PICK n \in Numbers(w) : code[n] = g
  <2> HIDE DEF code
  <2>1. QED
    BY <1>7 DEF Surjection
<1>9. QED
  BY <1>8

(* What the pointer block enumerates from reset is the words of the        *)
(* positions, in their order.                                              *)
LEMMA CounterCodeWords ==
  ASSUME Width # 0, Depth = 2 ^ Width
  PROVE  Positions = Numbers(Width) /\ CounterCode = [n \in Positions |-> GrayWord(Width, n)]
<1> DEFINE Is(f) == f = [n \in Positions |->
                           IF n = 0 THEN ResetPtr(Width) ELSE incrGrayP(Width, f[n - 1])]
           C == [n \in Positions |-> CounterAt(Width, n)]
           c == CHOOSE f : Is(f)
<1>1. Width \in Nat \ {0} /\ Width \in Nat
  BY DepthAssumption
<1>2. Positions = Numbers(Width) /\ \A n \in Positions : n \in Nat
  <2>1. 2 ^ (Width + 1) = 2 * Depth
    BY <1>1, PowerDoubles
  <2>2. QED
    BY <2>1, DepthAssumption DEF Positions, Numbers
<1>3. CounterCode = [n \in Positions |-> c[n].g]
  BY DEF CounterCode
<1>4. ASSUME NEW n \in Positions, n # 0
      PROVE  n - 1 \in Positions /\ CounterAt(Width, n) = incrGrayP(Width, CounterAt(Width, n - 1))
  <2> DEFINE m == n - 1
  <2>1. m \in Positions /\ m + 1 = n
    BY <1>4, DepthAssumption DEF Positions
  <2> HIDE DEF m
  <2>2. (m + 1) % 2 ^ (Width + 1) = m + 1
    <3>1. m \in Numbers(Width) /\ m + 1 \in Numbers(Width)
      BY <1>2, <2>1
    <3>2. m + 1 # 2 ^ (Width + 1)
      <4>1. 2 ^ (Width + 1) \notin Numbers(Width)
        <5> DEFINE M == 2 ^ (Width + 1)
        <5>1. Width + 1 \in Nat /\ Numbers(Width) = 0 .. M - 1
          BY <1>1 DEF Numbers
        <5>2. M \in Nat
          BY <5>1, PowerPositive
        <5> HIDE DEF M
        <5>3. M \notin Numbers(Width)
          BY <5>1, <5>2
        <5>4. QED
          BY <5>3 DEF M
      <4>2. QED
        BY <3>1, <4>1
    <3>3. QED
      BY <1>1, <3>1, <3>2, Increment
  <2>3. incrGrayP(Width, CounterAt(Width, m)) = CounterAt(Width, (m + 1) % 2 ^ (Width + 1))
    BY <1>1, <1>2, <2>1, CounterNext
  <2>4. CounterAt(Width, n) = incrGrayP(Width, CounterAt(Width, m))
    BY <2>1, <2>2, <2>3
  <2>5. QED
    BY <2>1, <2>4 DEF m
<1>5. ResetPtr(Width) = CounterAt(Width, 0)
  BY <1>1, ResetCounters
<1>6. Is(C)
  <2> DEFINE R == [n \in Positions |-> IF n = 0 THEN ResetPtr(Width) ELSE incrGrayP(Width, C[n - 1])]
  <2>1. ASSUME NEW n \in Positions PROVE C[n] = R[n]
    <3>1. CASE n = 0
      BY <1>5, <3>1
    <3>2. CASE n # 0
      <4>1. n - 1 \in Positions /\ CounterAt(Width, n) = incrGrayP(Width, CounterAt(Width, n - 1))
        BY <1>4, <3>2
      <4>2. C[n - 1] = CounterAt(Width, n - 1) /\ C[n] = CounterAt(Width, n)
        BY <4>1
      <4>3. R[n] = incrGrayP(Width, C[n - 1])
        BY <3>2
      <4>4. QED
        BY <4>1, <4>2, <4>3
    <3>3. QED
      BY <3>1, <3>2
  <2>2. C = [n \in Positions |-> C[n]] /\ R = [n \in Positions |-> R[n]]
    OBVIOUS
  <2>3. C = R
    <3> HIDE DEF C, R
    <3>1. QED
      BY <2>1, <2>2
  <2>4. QED
    BY <2>3
<1>7. Is(c)
  <2> HIDE DEF Is, C
  <2>1. \E f : Is(f)
    BY <1>6
  <2>2. QED
    BY <2>1
<1> HIDE DEF c
<1>8. \A n \in Positions : c[n] = IF n = 0 THEN ResetPtr(Width) ELSE incrGrayP(Width, c[n - 1])
  <2> DEFINE R == [n \in Positions |-> IF n = 0 THEN ResetPtr(Width) ELSE incrGrayP(Width, c[n - 1])]
  <2>1. \A n \in Positions : R[n] = IF n = 0 THEN ResetPtr(Width) ELSE incrGrayP(Width, c[n - 1])
    OBVIOUS
  <2>2. c = R
    BY <1>7
  <2> HIDE DEF R
  <2>3. QED
    BY <2>1, <2>2, Zenon
<1> HIDE DEF Is, C
<1> DEFINE G == {k \in Nat : k \in Positions => c[k] = CounterAt(Width, k)}
<1>9. 0 \in G
  <2>1. 0 \in Positions
    BY DepthAssumption DEF Positions
  <2>2. QED
    BY <1>5, <1>8, <2>1
<1>10. ASSUME NEW k \in G PROVE k + 1 \in G
  <2>1. SUFFICES ASSUME k + 1 \in Positions PROVE c[k + 1] = CounterAt(Width, k + 1)
    OBVIOUS
  <2>2. k \in Nat /\ k \in Positions /\ k + 1 # 0 /\ (k + 1) - 1 = k
    BY <2>1, DepthAssumption DEF Positions
  <2>3. c[k] = CounterAt(Width, k)
    BY <2>2
  <2> HIDE DEF G
  <2>4. c[k + 1] = incrGrayP(Width, c[k])
    <3>1. c[k + 1] = incrGrayP(Width, c[(k + 1) - 1])
      BY <1>8, <2>1, <2>2
    <3>2. QED
      BY <2>2, <3>1
  <2>5. CounterAt(Width, k + 1) = incrGrayP(Width, CounterAt(Width, k))
    <3>1. CounterAt(Width, k + 1) = incrGrayP(Width, CounterAt(Width, (k + 1) - 1))
      BY <1>4, <2>1, <2>2
    <3>2. QED
      BY <2>2, <3>1
  <2>6. QED
    BY <2>3, <2>4, <2>5
<1>11. G = Nat
  <2>1. G \subseteq Nat
    OBVIOUS
  <2> HIDE DEF G
  <2>2. QED
    BY <1>9, <1>10, <2>1, AllNumbers
<1>12. \A n \in Positions : c[n].g = GrayWord(Width, n)
  <2>1. \A n \in Positions : c[n] = CounterAt(Width, n)
    BY <1>2, <1>11
  <2>2. \A n : CounterAt(Width, n).g = GrayWord(Width, n)
    BY DEF CounterAt
  <2>3. QED
    BY <2>1, <2>2
<1>13. [n \in Positions |-> c[n].g] = [n \in Positions |-> GrayWord(Width, n)]
  BY <1>12
<1>14. QED
  BY <1>2, <1>3, <1>13

(* The counters of the code are what the FIFOs need, at every width, with  *)
(* the depth that SyncFIFO.v:247-268 asserts, and every word is one of     *)
(* theirs: distinct words, one bit per step, and a full test that compares *)
(* equal half a turn away (SyncFIFO.v:60-98, 274-308).                     *)
THEOREM CountersAreCode ==
  ASSUME Width # 0, Depth = 2 ^ Width
  PROVE  /\ IsCode(CounterCode)
         /\ \A g \in Word(Width) : \E p \in Positions : CounterCode[p] = g
<1> DEFINE code == [n \in Positions |-> GrayWord(Width, n)]
<1>1. Positions = Numbers(Width) /\ CounterCode = code
  BY CounterCodeWords
<1>2. Width \in Nat \ {0} /\ Width \in Nat /\ Depth \in Nat \ {0}
  BY DepthAssumption
<1>3. \A n \in Positions : n \in Nat /\ code[n] = GrayWord(Width, n)
  BY <1>2 DEF Positions
<1> HIDE DEF code
<1>4. code \in [Positions -> Word(Width)]
  <2>1. \A n \in Positions : GrayWord(Width, n) \in Word(Width)
    BY <1>2, <1>3, GrayBits
  <2>2. QED
    BY <2>1 DEF code
<1>5. ASSUME NEW p \in Positions, NEW r \in Positions, code[p] = code[r] PROVE p = r
  <2>1. p \in Numbers(Width) /\ r \in Numbers(Width) /\ GrayWord(Width, p) = GrayWord(Width, r)
    BY <1>1, <1>3, <1>5
  <2>2. QED
    BY <1>2, <2>1, WordsDiffer
<1>6. ASSUME NEW p \in Positions
      PROVE  \E i \in 0 .. Width : code[Succ(p)] = [code[p] EXCEPT ![i] = 1 - @]
  <2>1. p \in Numbers(Width) /\ Succ(p) \in Positions
    BY <1>1, <1>2 DEF Positions, Succ
  <2>2. Succ(p) = (p + 1) % 2 ^ (Width + 1)
    <3>1. 2 ^ (Width + 1) = 2 * Depth
      BY <1>2, PowerDoubles
    <3>2. \/ p + 1 \in Numbers(Width) /\ (p + 1) % 2 ^ (Width + 1) = p + 1
          \/ p + 1 = 2 ^ (Width + 1) /\ (p + 1) % 2 ^ (Width + 1) = 0
      BY <1>2, <2>1, Increment
    <3>3. p + 1 \in Positions => p # 2 * Depth - 1
      BY <1>2 DEF Positions
    <3>4. p \in Nat
      BY <1>3
    <3> HIDE DEF Positions
    <3>5. CASE p + 1 \in Numbers(Width) /\ (p + 1) % 2 ^ (Width + 1) = p + 1
      BY <1>1, <3>3, <3>5 DEF Succ
    <3>6. CASE p + 1 = 2 ^ (Width + 1) /\ (p + 1) % 2 ^ (Width + 1) = 0
      BY <1>2, <3>1, <3>4, <3>6 DEF Succ
    <3>7. QED
      BY <3>2, <3>5, <3>6
  <2>3. \E i \in 0 .. Width :
          GrayWord(Width, (p + 1) % 2 ^ (Width + 1)) = [GrayWord(Width, p) EXCEPT ![i] = 1 - @]
    BY <1>2, <2>1, NextFlipsOne
  <2>4. QED
    BY <1>3, <2>1, <2>2, <2>3
<1>7. ASSUME NEW p \in Positions PROVE FlipTop2(Width, code[p]) = code[Opposite(p)]
  <2>1. Opposite(p) \in Positions
    BY <1>2 DEF Positions, Opposite
  <2>2. CASE p < Depth
    <3>1. p \in Nat /\ p < 2 ^ Width /\ Opposite(p) = p + 2 ^ Width
      BY <1>3, <2>2 DEF Opposite
    <3>2. FlipTop2(Width, GrayWord(Width, p)) = GrayWord(Width, p + 2 ^ Width)
      BY <1>2, <3>1, HalfAway
    <3>3. QED
      BY <1>3, <2>1, <3>1, <3>2
  <2>3. CASE ~(p < Depth)
    <3> DEFINE q == p - Depth
    <3>1. q \in Nat /\ q < Depth /\ p = q + Depth /\ Opposite(p) = q
      BY <1>2, <2>3 DEF Positions, Opposite
    <3> HIDE DEF q
    <3>2. q \in Nat /\ q < 2 ^ Width /\ p = q + 2 ^ Width
      BY <3>1
    <3>3. FlipTop2(Width, GrayWord(Width, q + 2 ^ Width)) = GrayWord(Width, q)
      BY <1>2, <3>2, HalfAway
    <3>4. QED
      BY <1>3, <2>1, <3>1, <3>2, <3>3
  <2>4. QED
    BY <2>2, <2>3
<1>8. ASSUME NEW g \in Word(Width) PROVE \E p \in Positions : code[p] = g
  <2>1. PICK n \in Numbers(Width) : GrayWord(Width, n) = g
    BY <1>2, EveryWord
  <2>2. QED
    BY <1>1, <1>3, <2>1
<1>9. IsCode(code)
  BY <1>4, <1>5, <1>6, <1>7 DEF IsCode
<1>10. QED
  BY <1>1, <1>8, <1>9

-----------------------------------------------------------------------------
(* Positions, their words, and what a flop captures of them.               *)

(* Successors, opposites and addresses stay in range. *)
LEMMA PositionTypes ==
  /\ 0 \in Positions /\ 1 \in Positions /\ Succ(0) = 1
  /\ \A p \in Positions : Succ(p) \in Positions /\ Opposite(p) \in Positions
                            /\ Addr(p) \in 0 .. Depth - 1
BY DepthAssumption DEF Positions, Succ, Opposite, Addr

(* What is assumed of the code, its definition expanded. *)
LEMMA CodeFacts ==
  /\ Code \in [Positions -> Word(Width)]
  /\ \A p, r \in Positions : Code[p] = Code[r] => p = r
  /\ \A p \in Positions :
       \E i \in 0 .. Width : Code[Succ(p)] = [Code[p] EXCEPT ![i] = 1 - @]
  /\ \A p \in Positions : FlipTop2(Width, Code[p]) = Code[Opposite(p)]
BY CodeAssumption DEF IsCode

(* Position inverts Code. *)
LEMMA PositionOfCode == \A p \in Positions : Position(Code[p]) = p
BY CodeFacts DEF Position

(* A flop that captures a pointer during a step holds the old or the new   *)
(* word, because a single bit changes.                                     *)
LEMMA CaptureStep ==
  ASSUME NEW p \in Positions, NEW c \in Capture(Code[p], Code[Succ(p)])
  PROVE  c \in {Code[p], Code[Succ(p)]}
<1>1. Code[p] \in Word(Width) /\ Code[Succ(p)] \in Word(Width)
  BY CodeFacts, PositionTypes
<1>2. PICK i \in 0 .. Width : Code[Succ(p)] = [Code[p] EXCEPT ![i] = 1 - @]
  BY CodeFacts
<1>3. c \in Word(Width) /\ \A j \in 0 .. Width : c[j] \in {Code[p][j], Code[Succ(p)][j]}
  BY DEF Capture
<1>4. \A j \in 0 .. Width : j # i => c[j] = Code[p][j] /\ Code[Succ(p)][j] = Code[p][j]
  BY <1>1, <1>2, <1>3 DEF Word
<1>5. CASE c[i] = Code[p][i]
  BY <1>1, <1>3, <1>4, <1>5, DepthAssumption, SameBits
<1>6. CASE c[i] = Code[Succ(p)][i]
  BY <1>1, <1>3, <1>4, <1>6, DepthAssumption, SameBits
<1>7. QED
  BY <1>3, <1>5, <1>6

(* A flop that captures an unchanging pointer holds its word. *)
LEMMA CaptureStill ==
  ASSUME NEW p \in Positions, NEW c \in Capture(Code[p], Code[p])
  PROVE  c = Code[p]
<1>1. Code[p] \in Word(Width) /\ c \in Word(Width)
  BY CodeFacts DEF Capture
<1>2. \A i \in 0 .. Width : c[i] = Code[p][i]
  BY DEF Capture
<1>3. QED
  BY <1>1, <1>2, DepthAssumption, SameBits

(* The comparison with the top two bits flipped tests for the opposite     *)
(* position.                                                               *)
LEMMA FullTest ==
  ASSUME NEW p \in Positions, NEW r \in Positions
  PROVE  FlipTop2(Width, Code[p]) # Code[r] <=> r # Opposite(p)
BY CodeFacts, PositionTypes

-----------------------------------------------------------------------------
(* The order of the pointers.  e and d are the pointers, a1 and a2 the     *)
(* destination's copies of e, b1 and b2 the source's copies of d.          *)
Ordered(e, a1, a2, d, b1, b2) ==
  /\ Behind(e, a1) <= Behind(e, a2)
  /\ Behind(e, a2) <= Behind(e, d)
  /\ Behind(e, d)  <= Behind(e, b1)
  /\ Behind(e, b1) <= Behind(e, b2)
  /\ Behind(e, b2) <= Depth

(* The source knows of a free word, and captures y. *)
MayEnqueue(e, a1, a2, d, b1, b2, y) ==
  /\ Ordered(e, a1, a2, d, b1, b2)
  /\ Behind(e, b2) < Depth
  /\ Behind(e, d) <= Behind(e, y) /\ Behind(e, y) <= Behind(e, b1)

(* A source edge that enqueues keeps the order. *)
LEMMA OrderedEnq ==
  ASSUME NEW e \in Positions, NEW a1 \in Positions, NEW a2 \in Positions,
         NEW d \in Positions, NEW b1 \in Positions, NEW b2 \in Positions,
         NEW y \in Positions, MayEnqueue(e, a1, a2, d, b1, b2, y),
         NEW e1, e1 = Succ(e)
  PROVE  /\ Ordered(e1, a1, a2, d, y, b1)
         /\ b2 # Opposite(e1) => Behind(e1, b1) < Depth
BY DepthAssumption DEF MayEnqueue, Ordered, Behind, Positions, Succ, Opposite

(* A source edge without an enqueue keeps the order. *)
LEMMA OrderedIdle ==
  ASSUME NEW e \in Positions, NEW a1 \in Positions, NEW a2 \in Positions,
         NEW d \in Positions, NEW b1 \in Positions, NEW b2 \in Positions,
         NEW y \in Positions,
         Ordered(e, a1, a2, d, b1, b2),
         Behind(e, d) <= Behind(e, y), Behind(e, y) <= Behind(e, b1)
  PROVE  /\ Ordered(e, a1, a2, d, y, b1)
         /\ b2 # Opposite(e) => Behind(e, b1) < Depth
BY DepthAssumption DEF Ordered, Behind, Positions, Opposite

(* A destination edge that fetches keeps the order. *)
LEMMA OrderedFetch ==
  ASSUME NEW e \in Positions, NEW a1 \in Positions, NEW a2 \in Positions,
         NEW d \in Positions, NEW b1 \in Positions, NEW b2 \in Positions,
         Ordered(e, a1, a2, d, b1, b2), d # a2
  PROVE  /\ Ordered(e, e, a1, Succ(d), b1, b2)
         /\ Behind(e, Succ(d)) = Behind(e, d) - 1
BY DepthAssumption DEF Ordered, Behind, Positions, Succ

(* So does one that does not. *)
LEMMA OrderedWait ==
  ASSUME NEW e \in Positions, NEW a1 \in Positions, NEW a2 \in Positions,
         NEW d \in Positions, NEW b1 \in Positions, NEW b2 \in Positions,
         Ordered(e, a1, a2, d, b1, b2)
  PROVE  Ordered(e, e, a1, d, b1, b2)
BY DepthAssumption DEF Ordered, Behind, Positions

(* The newest copy of the enqueue pointer may be newer yet. *)
LEMMA OrderedNewer ==
  ASSUME NEW e \in Positions, NEW a1 \in Positions, NEW a2 \in Positions,
         NEW d \in Positions, NEW b1 \in Positions, NEW b2 \in Positions,
         Ordered(e, a1, a2, d, b1, b2)
  PROVE  Ordered(e, e, a2, d, b1, b2)
BY DepthAssumption DEF Ordered, Behind, Positions

(* And the others may be its value itself. *)
LEMMA OrderedNewest ==
  ASSUME NEW e \in Positions, NEW a1 \in Positions, NEW a2 \in Positions,
         NEW d \in Positions, NEW b1 \in Positions, NEW b2 \in Positions,
         Ordered(e, a1, a2, d, b1, b2)
  PROVE  Ordered(e, e, e, d, b1, b2)
BY DepthAssumption DEF Ordered, Behind, Positions

(* The count the destination takes from its copy is at most the true one;  *)
(* the one the source takes from its copy, after an enqueue, is at least   *)
(* the true one and at most the depth.                                     *)
LEMMA CountFromCopy ==
  ASSUME NEW e \in Positions, NEW a1 \in Positions, NEW a2 \in Positions,
         NEW d \in Positions, NEW b1 \in Positions, NEW b2 \in Positions,
         Ordered(e, a1, a2, d, b1, b2)
  PROVE  Behind(a2, d) <= Behind(e, d)
BY DepthAssumption DEF Ordered, Behind, Positions

(* An enqueue, counted against either copy, counts no less than there is.  *)
LEMMA CountAfterEnq ==
  ASSUME NEW e \in Positions, NEW a1 \in Positions, NEW a2 \in Positions,
         NEW d \in Positions, NEW b1 \in Positions, NEW b2 \in Positions,
         NEW y \in Positions, MayEnqueue(e, a1, a2, d, b1, b2, y)
  PROVE  /\ Behind(Succ(e), d) <= Behind(Succ(e), b2)
         /\ Behind(Succ(e), b2) <= Depth
         /\ Behind(e, d) <= Behind(Succ(e), d)
BY DepthAssumption DEF MayEnqueue, Ordered, Behind, Positions, Succ

-----------------------------------------------------------------------------
(* The contents.                                                           *)

(* Distances are natural numbers. *)
LEMMA BehindNat == \A e, d \in Positions : Behind(e, d) \in Nat
BY DepthAssumption DEF Behind, Positions

(* Positions a distance below the depth apart have different addresses,    *)
(* and walking from d as far as e is ahead arrives at e.                   *)
LEMMA Walk ==
  ASSUME NEW e \in Positions, NEW d \in Positions, Behind(e, d) <= Depth
  PROVE  /\ Ahead(d, Behind(e, d)) = e
         /\ Ahead(d, 0) = d
         /\ \A j \in 0 .. Behind(e, d) : Ahead(d, j) \in Positions
         /\ \A j \in 0 .. Behind(e, d) - 1 :
              Behind(e, d) < Depth => Addr(Ahead(d, j)) # Addr(e)
         /\ \A j \in 0 .. Behind(e, d) - 2 : Ahead(Succ(d), j) = Ahead(d, j + 1)
         /\ Behind(e, d) < Depth => Behind(Succ(e), d) = Behind(e, d) + 1
         /\ Behind(e, d) # 0 => Behind(e, Succ(d)) = Behind(e, d) - 1
BY DepthAssumption DEF Behind, Ahead, Addr, Positions, Succ

Elements == Data \cup {None}
Memory   == [0 .. Depth - 1 -> Elements]

(* c is the sequence of the head register, if loaded, and the memory. *)
IsContents(c, mem, e, d, h, out) ==
  /\ c \in Seq(Elements)
  /\ Len(c) = Behind(e, d) + Bit(h)
  /\ \A k \in 1 .. Behind(e, d) + Bit(h) :
       c[k] = IF h /\ k = 1 THEN out
              ELSE mem[Addr(Ahead(d, IF h THEN k - 2 ELSE k - 1))]

(* The contents are that sequence. *)
LEMMA ContentsSeq ==
  ASSUME NEW mem \in Memory, NEW e \in Positions, NEW d \in Positions,
         Behind(e, d) <= Depth, NEW h, NEW out \in Elements
  PROVE  IsContents(ContentsOf(mem, e, d, h, out), mem, e, d, h, out)
<1> DEFINE m == Behind(e, d) + Bit(h)
           item(k) == IF h /\ k = 1 THEN out
                      ELSE mem[Addr(Ahead(d, IF h THEN k - 2 ELSE k - 1))]
<1>1. m \in Nat /\ m = IF h THEN Behind(e, d) + 1 ELSE Behind(e, d)
  BY BehindNat DEF Bit
<1>2. ASSUME NEW k \in 1 .. m PROVE item(k) \in Elements
  <2> DEFINE j == IF h THEN k - 2 ELSE k - 1
  <2>1. CASE h /\ k = 1
    BY <2>1
  <2>2. CASE ~(h /\ k = 1)
    <3>1. j \in 0 .. Behind(e, d)
      BY <1>1, <2>2, BehindNat
    <3>2. Addr(Ahead(d, j)) \in 0 .. Depth - 1
      BY <3>1, Walk, PositionTypes
    <3>3. QED
      BY <2>2, <3>2 DEF Memory
  <2>3. QED
    BY <2>1, <2>2
<1>3. ContentsOf(mem, e, d, h, out) = [k \in 1 .. m |-> item(k)]
  BY DEF ContentsOf
<1> HIDE DEF m, item
<1>4. [k \in 1 .. m |-> item(k)] \in Seq(Elements) /\ Len([k \in 1 .. m |-> item(k)]) = m
  BY <1>1, <1>2
<1>5. QED
  BY <1>3, <1>4 DEF m, item, IsContents

Written(mem1, mem, a, v) == mem1 = [mem EXCEPT ![a] = v]

(* Writing the word at e and stepping e appends to the contents. *)
LEMMA ContentsEnq ==
  ASSUME NEW mem \in Memory, NEW e \in Positions, NEW d \in Positions,
         Behind(e, d) < Depth, NEW h, NEW out \in Elements, NEW v \in Data,
         NEW mem1, Written(mem1, mem, Addr(e), v), NEW e1, e1 = Succ(e)
  PROVE  ContentsOf(mem1, e1, d, h, out) = Append(ContentsOf(mem, e, d, h, out), v)
<1> DEFINE n == Behind(e, d)
           c == ContentsOf(mem, e, d, h, out)
           c1 == ContentsOf(mem1, e1, d, h, out)
<1>1. /\ n \in Nat /\ n <= Depth /\ e1 \in Positions
      /\ Behind(e1, d) = n + 1 /\ n + 1 <= Depth
      /\ Bit(h) = IF h THEN 1 ELSE 0
  BY Walk, BehindNat, PositionTypes, DepthAssumption DEF Bit
<1>2. mem1 \in Memory /\ mem1 = [mem EXCEPT ![Addr(e)] = v]
  BY DEF Memory, Elements, Written
<1>3. /\ c \in Seq(Elements) /\ Len(c) = n + Bit(h)
      /\ \A k \in 1 .. n + Bit(h) :
           c[k] = IF h /\ k = 1 THEN out
                  ELSE mem[Addr(Ahead(d, IF h THEN k - 2 ELSE k - 1))]
  <2>1. IsContents(c, mem, e, d, h, out)
    BY <1>1, ContentsSeq
  <2>2. QED
    BY <1>1, <2>1 DEF IsContents
<1>4. /\ c1 \in Seq(Elements) /\ Len(c1) = n + 1 + Bit(h)
      /\ \A k \in 1 .. n + 1 + Bit(h) :
           c1[k] = IF h /\ k = 1 THEN out
                   ELSE mem1[Addr(Ahead(d, IF h THEN k - 2 ELSE k - 1))]
  <2>1. IsContents(c1, mem1, e1, d, h, out)
    BY <1>1, <1>2, ContentsSeq
  <2>2. QED
    BY <1>1, <2>1 DEF IsContents
<1> HIDE DEF c, c1
<1>5. v \in Elements
  BY DEF Elements
<1>6. ASSUME NEW k \in 1 .. Len(c1) PROVE c1[k] = Append(c, v)[k]
  <2> DEFINE j == IF h THEN k - 2 ELSE k - 1
  <2>1. CASE h /\ k = 1
    BY <1>1, <1>3, <1>4, <2>1
  <2>2. CASE ~(h /\ k = 1) /\ k = Len(c) + 1
    <3>1. j = n
      BY <1>1, <1>3, <2>2
    <3>2. Ahead(d, j) = e /\ Addr(e) \in 0 .. Depth - 1
      BY <1>1, <3>1, Walk, PositionTypes
    <3>3. QED
      BY <1>2, <1>3, <1>4, <2>2, <3>2 DEF Memory
  <2>3. CASE ~(h /\ k = 1) /\ k # Len(c) + 1
    <3>1. j \in 0 .. n - 1 /\ k \in 1 .. Len(c)
      BY <1>1, <1>3, <1>4, <2>3
    <3>2. Addr(Ahead(d, j)) # Addr(e) /\ Addr(Ahead(d, j)) \in 0 .. Depth - 1
      BY <1>1, <3>1, Walk, PositionTypes
    <3>3. QED
      BY <1>2, <1>3, <1>4, <2>3, <3>1, <3>2 DEF Memory
  <2>4. QED
    BY <2>1, <2>2, <2>3
<1>7. Append(c, v) \in Seq(Elements) /\ Len(c1) = Len(Append(c, v))
  BY <1>1, <1>3, <1>4, <1>5
<1>8. c1 = Append(c, v)
  BY <1>4, <1>6, <1>7, SeqEqual
<1>9. QED
  BY <1>8 DEF c, c1

(* Loading an empty head register leaves the contents as they were. *)
LEMMA ContentsFetch ==
  ASSUME NEW mem \in Memory, NEW e \in Positions, NEW d \in Positions,
         Behind(e, d) <= Depth, Behind(e, d) # 0, NEW out \in Elements
  PROVE  ContentsOf(mem, e, Succ(d), TRUE, mem[Addr(d)]) = ContentsOf(mem, e, d, FALSE, out)
<1> DEFINE n == Behind(e, d)
           c == ContentsOf(mem, e, d, FALSE, out)
           c1 == ContentsOf(mem, e, Succ(d), TRUE, mem[Addr(d)])
<1>1. /\ n \in Nat /\ n <= Depth /\ Succ(d) \in Positions
      /\ Behind(e, Succ(d)) = n - 1 /\ n - 1 <= Depth
      /\ Behind(e, Succ(d)) + Bit(TRUE) = n /\ n + Bit(FALSE) = n
  BY Walk, BehindNat, PositionTypes, DepthAssumption DEF Bit
<1>2. mem[Addr(d)] \in Elements
  BY PositionTypes DEF Memory
<1>3. /\ c \in Seq(Elements) /\ Len(c) = n
      /\ \A k \in 1 .. n : c[k] = mem[Addr(Ahead(d, k - 1))]
  <2>1. IsContents(c, mem, e, d, FALSE, out)
    BY <1>1, ContentsSeq
  <2>2. QED
    BY <1>1, <2>1 DEF IsContents
<1>4. /\ c1 \in Seq(Elements) /\ Len(c1) = n
      /\ \A k \in 1 .. n :
           c1[k] = IF k = 1 THEN mem[Addr(d)] ELSE mem[Addr(Ahead(Succ(d), k - 2))]
  <2>1. IsContents(c1, mem, e, Succ(d), TRUE, mem[Addr(d)])
    BY <1>1, <1>2, ContentsSeq
  <2>2. QED
    BY <1>1, <2>1 DEF IsContents
<1> HIDE DEF c, c1
<1>5. ASSUME NEW k \in 1 .. n PROVE c1[k] = c[k]
  <2>1. CASE k = 1
    BY <1>3, <1>4, <2>1, Walk
  <2>2. CASE k # 1
    <3>1. k - 2 \in 0 .. n - 2 /\ (k - 2) + 1 = k - 1
      BY <1>1, <2>2
    <3>2. Ahead(Succ(d), k - 2) = Ahead(d, k - 1)
      BY <3>1, Walk
    <3>3. QED
      BY <1>3, <1>4, <2>2, <3>2
  <2>3. QED
    BY <2>1, <2>2
<1>6. c1 = c
  BY <1>3, <1>4, <1>5, SeqEqual
<1>7. QED
  BY <1>6 DEF c, c1

(* Reloading the head register removes the first element. *)
LEMMA ContentsRefetch ==
  ASSUME NEW mem \in Memory, NEW e \in Positions, NEW d \in Positions,
         Behind(e, d) <= Depth, Behind(e, d) # 0, NEW out \in Elements
  PROVE  /\ ContentsOf(mem, e, d, TRUE, out) # <<>>
         /\ ContentsOf(mem, e, Succ(d), TRUE, mem[Addr(d)])
              = Tail(ContentsOf(mem, e, d, TRUE, out))
<1> DEFINE n == Behind(e, d)
           c == ContentsOf(mem, e, d, TRUE, out)
           c1 == ContentsOf(mem, e, Succ(d), TRUE, mem[Addr(d)])
<1>1. /\ n \in Nat /\ n <= Depth /\ Succ(d) \in Positions
      /\ Behind(e, Succ(d)) = n - 1 /\ n - 1 <= Depth
      /\ Behind(e, Succ(d)) + Bit(TRUE) = n /\ n + Bit(TRUE) = n + 1
  BY Walk, BehindNat, PositionTypes, DepthAssumption DEF Bit
<1>2. mem[Addr(d)] \in Elements
  BY PositionTypes DEF Memory
<1>3. /\ c \in Seq(Elements) /\ Len(c) = n + 1
      /\ \A k \in 1 .. n + 1 :
           c[k] = IF k = 1 THEN out ELSE mem[Addr(Ahead(d, k - 2))]
  <2>1. IsContents(c, mem, e, d, TRUE, out)
    BY <1>1, ContentsSeq
  <2>2. QED
    BY <1>1, <2>1 DEF IsContents
<1>4. /\ c1 \in Seq(Elements) /\ Len(c1) = n
      /\ \A k \in 1 .. n :
           c1[k] = IF k = 1 THEN mem[Addr(d)] ELSE mem[Addr(Ahead(Succ(d), k - 2))]
  <2>1. IsContents(c1, mem, e, Succ(d), TRUE, mem[Addr(d)])
    BY <1>1, <1>2, ContentsSeq
  <2>2. QED
    BY <1>1, <2>1 DEF IsContents
<1> HIDE DEF c, c1
<1>5. c # <<>> /\ Tail(c) \in Seq(Elements) /\ Len(Tail(c)) = n
      /\ \A k \in 1 .. n : Tail(c)[k] = c[k + 1]
  BY <1>1, <1>3, HeadTailProperties, EmptySeq
<1>6. ASSUME NEW k \in 1 .. n PROVE c1[k] = Tail(c)[k]
  <2>1. k + 1 \in 1 .. n + 1 /\ k + 1 # 1 /\ (k + 1) - 2 = k - 1
    BY <1>1
  <2>2. Tail(c)[k] = mem[Addr(Ahead(d, k - 1))]
    BY <1>3, <1>5, <2>1
  <2>3. CASE k = 1
    <3>1. Ahead(d, k - 1) = d
      BY <2>3, Walk
    <3>2. QED
      BY <1>4, <2>2, <2>3, <3>1
  <2>4. CASE k # 1
    <3>1. k - 2 \in 0 .. n - 2 /\ (k - 2) + 1 = k - 1
      BY <1>1, <2>4
    <3>2. Ahead(Succ(d), k - 2) = Ahead(d, k - 1)
      BY <3>1, Walk
    <3>3. QED
      BY <1>4, <2>2, <2>4, <3>2
  <2>5. QED
    BY <2>3, <2>4
<1>7. c1 = Tail(c)
  BY <1>4, <1>5, <1>6, SeqEqual
<1>8. QED
  BY <1>5, <1>7 DEF c, c1

(* Emptying the head register removes the first element too. *)
LEMMA ContentsDeq ==
  ASSUME NEW mem \in Memory, NEW e \in Positions, NEW d \in Positions,
         Behind(e, d) <= Depth, NEW out \in Elements
  PROVE  /\ ContentsOf(mem, e, d, TRUE, out) # <<>>
         /\ ContentsOf(mem, e, d, FALSE, out) = Tail(ContentsOf(mem, e, d, TRUE, out))
<1> DEFINE n == Behind(e, d)
           c == ContentsOf(mem, e, d, TRUE, out)
           c1 == ContentsOf(mem, e, d, FALSE, out)
<1>1. n \in Nat /\ n + Bit(TRUE) = n + 1 /\ n + Bit(FALSE) = n
  BY BehindNat DEF Bit
<1>2. /\ c \in Seq(Elements) /\ Len(c) = n + 1
      /\ \A k \in 1 .. n + 1 :
           c[k] = IF k = 1 THEN out ELSE mem[Addr(Ahead(d, k - 2))]
  <2>1. IsContents(c, mem, e, d, TRUE, out)
    BY <1>1, ContentsSeq
  <2>2. QED
    BY <1>1, <2>1 DEF IsContents
<1>3. /\ c1 \in Seq(Elements) /\ Len(c1) = n
      /\ \A k \in 1 .. n : c1[k] = mem[Addr(Ahead(d, k - 1))]
  <2>1. IsContents(c1, mem, e, d, FALSE, out)
    BY <1>1, ContentsSeq
  <2>2. QED
    BY <1>1, <2>1 DEF IsContents
<1> HIDE DEF c, c1
<1>4. c # <<>> /\ Tail(c) \in Seq(Elements) /\ Len(Tail(c)) = n
      /\ \A k \in 1 .. n : Tail(c)[k] = c[k + 1]
  BY <1>1, <1>2, HeadTailProperties, EmptySeq
<1>5. ASSUME NEW k \in 1 .. n PROVE c1[k] = Tail(c)[k]
  <2>1. k + 1 \in 1 .. n + 1 /\ k + 1 # 1 /\ (k + 1) - 2 = k - 1
    BY <1>1
  <2>2. QED
    BY <1>2, <1>3, <1>4, <2>1
<1>6. c1 = Tail(c)
  BY <1>3, <1>4, <1>5, SeqEqual
<1>7. QED
  BY <1>4, <1>6 DEF c, c1

(* What a destination edge makes of the contents, the enqueue pointer      *)
(* still in place: whether it dequeues, fetches, both or neither, they are *)
(* as they were, or at a dequeue without the first element.                *)
HeadMoved(mem, d, h, out, deq, fetch, d1, h1, out1) ==
  /\ deq => h
  /\ fetch => ~h \/ deq
  /\ d1 = IF fetch THEN Succ(d) ELSE d
  /\ h1 = (fetch \/ (h /\ ~deq))
  /\ out1 = IF fetch THEN mem[Addr(d)] ELSE out

MovedContents(mem, e, d, h, out, deq, d1, h1, out1) ==
  IF deq THEN /\ ContentsOf(mem, e, d, h, out) # <<>>
              /\ ContentsOf(mem, e, d1, h1, out1) = Tail(ContentsOf(mem, e, d, h, out))
  ELSE ContentsOf(mem, e, d1, h1, out1) = ContentsOf(mem, e, d, h, out)

(* A dequeue takes the head of the contents, a fetch changes none of them. *)
LEMMA ContentsMoved ==
  ASSUME NEW mem \in Memory, NEW e \in Positions, NEW d \in Positions,
         Behind(e, d) <= Depth, NEW h \in BOOLEAN, NEW out \in Elements,
         NEW deq \in BOOLEAN, NEW fetch \in BOOLEAN, fetch => Behind(e, d) # 0,
         NEW d1, NEW h1, NEW out1,
         HeadMoved(mem, d, h, out, deq, fetch, d1, h1, out1)
  PROVE  MovedContents(mem, e, d, h, out, deq, d1, h1, out1)
<1> USE DEF MovedContents
<1>1. CASE fetch /\ deq
  <2>1. h = TRUE /\ h1 = TRUE /\ d1 = Succ(d) /\ out1 = mem[Addr(d)]
    BY <1>1 DEF HeadMoved
  <2>2. QED
    BY <1>1, <2>1, ContentsRefetch
<1>2. CASE fetch /\ ~deq
  <2>1. h = FALSE /\ h1 = TRUE /\ d1 = Succ(d) /\ out1 = mem[Addr(d)]
    BY <1>2 DEF HeadMoved
  <2>2. QED
    BY <1>2, <2>1, ContentsFetch
<1>3. CASE ~fetch /\ deq
  <2>1. h = TRUE /\ h1 = FALSE /\ d1 = d /\ out1 = out
    BY <1>3 DEF HeadMoved
  <2>2. QED
    BY <1>3, <2>1, ContentsDeq
<1>4. CASE ~fetch /\ ~deq
  <2>1. h1 = h /\ d1 = d /\ out1 = out
    BY <1>4 DEF HeadMoved
  <2>2. QED
    BY <1>4, <2>1
<1>5. QED
  BY <1>1, <1>2, <1>3, <1>4

(* An empty head register is no part of them. *)
LEMMA ContentsUnloaded ==
  \A mem, e, d, out, out1 :
    ContentsOf(mem, e, d, FALSE, out) = ContentsOf(mem, e, d, FALSE, out1)
BY DEF ContentsOf

(* After a clear or a reset there are none. *)
LEMMA ContentsNone ==
  ASSUME NEW mem \in Memory, NEW out \in Elements
  PROVE  ContentsOf(mem, 0, 0, FALSE, out) = <<>>
<1>1. Behind(0, 0) = 0 /\ 0 <= Depth /\ 0 \in Positions
  BY DepthAssumption, PositionTypes DEF Behind
<1> DEFINE c == ContentsOf(mem, 0, 0, FALSE, out)
<1>2. IsContents(c, mem, 0, 0, FALSE, out)
  BY <1>1, ContentsSeq
<1> HIDE DEF c
<1>3. c \in Seq(Elements) /\ Len(c) = 0
  BY <1>1, <1>2 DEF IsContents, Bit
<1>4. c = <<>>
  BY <1>3, EmptySeq
<1>5. QED
  BY <1>4 DEF c
=============================================================================
