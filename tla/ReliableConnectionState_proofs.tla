-------------------- MODULE ReliableConnectionState_proofs --------------------
(***************************************************************************)
(* Lemmas about the arithmetic of ReliableConnectionState: what the        *)
(* wrapping operators and the window compute, stated in terms of packet    *)
(* numbers that do not wrap.                                               *)
(***************************************************************************)
EXTENDS ReliableConnectionState, TLAPS

LEMMA SpaceType == SeqSpace \in Nat \ {0}
BY RangeAssumption DEF SeqSpace

LEMMA SpaceSize == SeqSpace = 2 * HALF_RANGE
BY DEF SeqSpace

(* Remainders. *)

LEMMA DivMod ==
  ASSUME NEW a \in Int, NEW s \in Nat \ {0}
  PROVE  /\ a \div s \in Int
         /\ a = s * (a \div s) + (a % s)
         /\ a % s \in 0 .. s - 1
OBVIOUS

\* A multiple of s strictly between -2s and 2s is -s, 0 or s.
LEMMA SmallMultiple ==
  ASSUME NEW s \in Nat \ {0}, NEW d \in Int, d * s < 2 * s, -(2 * s) < d * s
  PROVE  d \in {-1, 0, 1}
<1>1. CASE d >= 2
  <2>1. d * s >= 2 * s
    BY <1>1
  <2> QED
    BY <2>1
<1>2. CASE d <= -2
  <2>1. d * s <= -(2 * s)
    BY <1>2
  <2> QED
    BY <2>1
<1> QED
  BY <1>1, <1>2

\* The remainder is the only number below s that differs from a by a multiple.
LEMMA ModUnique ==
  ASSUME NEW s \in Nat \ {0}, NEW a \in Int, NEW b \in 0 .. s - 1, NEW k \in Int,
         a = k * s + b
  PROVE  a % s = b
<1> DEFINE q == a \div s
           r == a % s
<1>1. q \in Int /\ a = s * q + r /\ r \in 0 .. s - 1
  BY DivMod
<1> HIDE DEF q, r
<1>2. (q - k) * s = b - r
  BY <1>1
<1>3. q - k \in {-1, 0, 1}
  <2>1. q - k \in Int /\ (q - k) * s < 2 * s /\ -(2 * s) < (q - k) * s
    BY <1>1, <1>2
  <2> QED
    BY <2>1, SmallMultiple
<1>4. b = r
  BY <1>1, <1>2, <1>3
<1> QED
  BY <1>4 DEF r

LEMMA Distribute ==
  ASSUME NEW s \in Int, NEW d \in Int, NEW e \in Int
  PROVE  s * d + e * s = (d + e) * s
OBVIOUS

\* Numbers that differ by a multiple of s have the same remainder.
LEMMA Congruent ==
  ASSUME NEW s \in Nat \ {0}, NEW a \in Int, NEW b \in Int, NEW k \in Int,
         a = b + k * s
  PROVE  a % s = b % s
<1> DEFINE q == b \div s
           r == b % s
           u == s * q
           v == k * s
           w == (q + k) * s
<1>1. q \in Int /\ b = u + r /\ r \in 0 .. s - 1
  BY DivMod
<1>2. u + v = w /\ u \in Int /\ v \in Int /\ w \in Int
  <2> HIDE DEF q
  <2> QED
    BY <1>1, Distribute
<1>3. a = w + r
  <2> HIDE DEF q, r, u, v, w
  <2>1. a = b + v
    BY DEF v
  <2> QED
    BY <1>1, <1>2, <2>1
<1> HIDE DEF q, r
<1>4. q + k \in Int
  BY <1>1
<1>5. a % s = r
  BY <1>1, <1>3, <1>4, ModUnique
<1> QED
  BY <1>5 DEF r

LEMMA ModType ==
  ASSUME NEW a \in Int
  PROVE  a % SeqSpace \in SequenceNumbers
BY SpaceType, DivMod DEF SequenceNumbers

LEMMA ModSmall ==
  ASSUME NEW a \in SequenceNumbers
  PROVE  a % SeqSpace = a
<1>1. a = 0 * SeqSpace + a /\ a \in 0 .. SeqSpace - 1 /\ a \in Int
  BY SpaceType DEF SequenceNumbers
<1> QED
  BY <1>1, SpaceType, ModUnique

\* Adding to a reduced number and reducing again loses nothing.
LEMMA ModAdd ==
  ASSUME NEW a \in Int, NEW n \in Int
  PROVE  ((a % SeqSpace) + n) % SeqSpace = (a + n) % SeqSpace
<1> DEFINE q == a \div SeqSpace
           r == a % SeqSpace
<1>1. q \in Int /\ a = SeqSpace * q + r /\ r \in Int
  BY SpaceType, DivMod
<1> HIDE DEF q, r
<1>2. r + n = (a + n) + (-q) * SeqSpace
  BY <1>1, SpaceType
<1>3. r + n \in Int /\ a + n \in Int /\ -q \in Int
  BY <1>1
<1> QED
  BY <1>2, <1>3, SpaceType, Congruent DEF r

\* The wrapping difference of two reduced numbers is the reduced difference.
LEMMA WrappingSubMod ==
  ASSUME NEW a \in Int, NEW b \in Int
  PROVE  WrappingSub(a % SeqSpace, b % SeqSpace) = (a - b) % SeqSpace
<1> DEFINE q == b \div SeqSpace
           r == b % SeqSpace
           x == a % SeqSpace
<1>1. q \in Int /\ b = SeqSpace * q + r /\ r \in Int
  BY SpaceType, DivMod
<1>2. x \in Int
  BY SpaceType, DivMod
<1> HIDE DEF q, r, x
<1>3. x - r = (x + (-b)) + q * SeqSpace
  BY <1>1, <1>2, SpaceType
<1>4. x - r \in Int /\ x + (-b) \in Int
  BY <1>1, <1>2
<1>5. (x - r) % SeqSpace = (x + (-b)) % SeqSpace
  BY <1>1, <1>3, <1>4, SpaceType, Congruent
<1>6. (x + (-b)) % SeqSpace = (a + (-b)) % SeqSpace
  BY ModAdd DEF x
<1>7. a + (-b) = a - b
  OBVIOUS
<1> QED
  BY <1>5, <1>6, <1>7 DEF r, x, WrappingSub

\* Within half the sequence space the wrapping difference is the difference.
LEMMA WrappingSubExact ==
  ASSUME NEW a \in Int, NEW b \in Int, 0 <= a - b, a - b < HALF_RANGE
  PROVE  WrappingSub(a % SeqSpace, b % SeqSpace) = a - b
<1>1. a - b \in SequenceNumbers
  BY SpaceType, SpaceSize, RangeAssumption DEF SequenceNumbers
<1> QED
  BY <1>1, ModSmall, WrappingSubMod

\* Two packet numbers less than half the space apart have the same sequence
\* number only if they are the same.
LEMMA ModInjective ==
  ASSUME NEW a \in Int, NEW b \in Int, a - b < HALF_RANGE, b - a < HALF_RANGE,
         a % SeqSpace = b % SeqSpace
  PROVE  a = b
<1>1. (a - b) % SeqSpace = (b - a) % SeqSpace
  BY WrappingSubMod
<1>2. CASE a >= b
  <2>1. (a - b) % SeqSpace = a - b
    BY <1>2, WrappingSubExact, WrappingSubMod
  <2>2. (b - b) % SeqSpace = b - b
    BY WrappingSubExact, WrappingSubMod, RangeAssumption
  <2>3. (a - b) % SeqSpace = (b - b) % SeqSpace
    BY WrappingSubMod
  <2> QED
    BY <2>1, <2>2, <2>3
<1>3. CASE b >= a
  <2>1. (b - a) % SeqSpace = b - a
    BY <1>3, WrappingSubExact, WrappingSubMod
  <2>2. (a - a) % SeqSpace = a - a
    BY WrappingSubExact, WrappingSubMod, RangeAssumption
  <2>3. (b - a) % SeqSpace = (a - a) % SeqSpace
    BY WrappingSubMod
  <2> QED
    BY <2>1, <2>2, <2>3
<1> QED
  BY <1>2, <1>3

\* is_sequence_more_recent orders packets less than half the space apart, on
\* either side of the wrap.
LEMMA SequenceOrder ==
  ASSUME NEW a \in Int, NEW b \in Int, a - b < HALF_RANGE, b - a < HALF_RANGE
  PROVE  IsSequenceMoreRecent(a % SeqSpace, b % SeqSpace) <=> a > b
<1> DEFINE x == a % SeqSpace
           y == b % SeqSpace
           k == (a \div SeqSpace) - (b \div SeqSpace)
<1>1. /\ x \in 0 .. SeqSpace - 1 /\ y \in 0 .. SeqSpace - 1 /\ k \in Int
      /\ a - b = k * SeqSpace + x - y
  <2>1. /\ a \div SeqSpace \in Int
        /\ a = SeqSpace * (a \div SeqSpace) + x
        /\ x \in 0 .. SeqSpace - 1
    BY SpaceType, DivMod
  <2>2. /\ b \div SeqSpace \in Int
        /\ b = SeqSpace * (b \div SeqSpace) + y
        /\ y \in 0 .. SeqSpace - 1
    BY SpaceType, DivMod
  <2> HIDE DEF x, y
  <2> QED
    BY <2>1, <2>2, SpaceType
<1> HIDE DEF x, y, k
<1>2. k \in {-1, 0, 1}
  <2>1. k * SeqSpace < 2 * SeqSpace /\ -(2 * SeqSpace) < k * SeqSpace
    BY <1>1, SpaceType, SpaceSize, RangeAssumption
  <2> QED
    BY <1>1, <2>1, SpaceType, SmallMultiple
<1>3. ASSUME y > x
      PROVE  WrappingSub(y, x) = y - x
  <2>1. y - x \in SequenceNumbers
    BY <1>1, <1>3, SpaceType DEF SequenceNumbers
  <2> QED
    BY <2>1, ModSmall DEF WrappingSub
<1>4. IsSequenceMoreRecent(x, y) <=> \/ x > y /\ x - y < HALF_RANGE
                                     \/ y > x /\ y - x > HALF_RANGE
  BY <1>3 DEF IsSequenceMoreRecent
<1>5. IsSequenceMoreRecent(x, y) <=> a > b
  <2>1. CASE k = 0
    BY <2>1, <1>1, <1>4, SpaceType, SpaceSize, RangeAssumption
  <2>2. CASE k = 1
    BY <2>2, <1>1, <1>4, SpaceType, SpaceSize, RangeAssumption
  <2>3. CASE k = -1
    BY <2>3, <1>1, <1>4, SpaceType, SpaceSize, RangeAssumption
  <2> QED
    BY <1>2, <2>1, <2>2, <2>3
<1> QED
  BY <1>5 DEF x, y

-------------------------------------------------------------------------------
(* The window.  A field is exact for a set A of packets below the highest    *)
(* packet h when bit d says whether h - d is in A.                           *)

ExactField(h, A) == {d \in 0 .. BITFIELD_BITS - 1 : h - d \in A}

\* Shifting by the distance to a newer packet keeps the field exact.
LEMMA AdvanceExact ==
  ASSUME NEW h \in Nat, NEW k \in Nat \ {0}, NEW A \in SUBSET Nat,
         \A i \in A : i <= h
  PROVE  AdvanceField(ExactField(h, A), k) = ExactField(h + k, A \cup {h + k})
<1>1. CASE k < BITFIELD_BITS
  <2>1. ASSUME NEW d \in 0 .. BITFIELD_BITS - 1
        PROVE  d \in ShiftLeft(ExactField(h, A), k) \cup {0}
                 <=> (h + k) - d \in A \cup {h + k}
    <3>1. d \in ShiftLeft(ExactField(h, A), k) <=> d - k >= 0 /\ h - (d - k) \in A
      BY RangeAssumption DEF ShiftLeft, ExactField
    <3>2. h - (d - k) = (h + k) - d
      BY <2>1
    <3>3. d - k < 0 => (h + k) - d \notin A
      OBVIOUS
    <3> QED
      BY <3>1, <3>2, <3>3
  <2>2. ShiftLeft(ExactField(h, A), k) \cup {0} \subseteq 0 .. BITFIELD_BITS - 1
    BY RangeAssumption DEF ShiftLeft
  <2> QED
    BY <1>1, <2>1, <2>2 DEF AdvanceField, ExactField
<1>2. CASE ~(k < BITFIELD_BITS)
  <2>1. \A d \in 0 .. BITFIELD_BITS - 1 : d = 0 <=> (h + k) - d \in A \cup {h + k}
    BY <1>2, RangeAssumption
  <2>2. {0} \subseteq 0 .. BITFIELD_BITS - 1
    BY RangeAssumption
  <2> QED
    BY <1>2, <2>1, <2>2 DEF AdvanceField, ExactField
<1> QED
  BY <1>1, <1>2

===============================================================================
