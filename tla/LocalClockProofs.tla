-------------------------- MODULE LocalClockProofs -------------------------
(***************************************************************************)
(* Proofs about LocalClock for every word width, tick rate and offset: the *)
(* type invariant, the bound on corrections, the value of an offset, and   *)
(* that the clock and the delays it measures keep the time of the ticks.   *)
(***************************************************************************)
EXTENDS LocalClock, TLAPS

USE DEF Seconds, Fraction

LEMMA WordFacts ==
  /\ WORD \in Nat /\ WORD = 2 * HALF /\ HALF \in Nat /\ HALF > 0 /\ WORD >= 2
BY HalfAssumption DEF WORD

\* The remainder by a positive modulus.
LEMMA ModRange ==
  ASSUME NEW a \in Int, NEW m \in Nat, m > 0
  PROVE  a % m \in 0 .. m - 1
OBVIOUS

LEMMA ModIdentity ==
  ASSUME NEW a \in Int, NEW m \in Nat, m > 0, 0 <= a, a < m
  PROVE  a % m = a
OBVIOUS

LEMMA ModBelow ==
  ASSUME NEW a \in Int, NEW m \in Nat, m > 0, 0 - m <= a, a < 0
  PROVE  a % m = a + m
OBVIOUS

LEMMA ModAbove ==
  ASSUME NEW a \in Int, NEW m \in Nat, m > 0, m <= a, a < 2 * m
  PROVE  a % m = a - m
OBVIOUS

LEMMA StampWords ==
  ASSUME NEW t \in Stamps
  PROVE  t = <<t[1], t[2]>> /\ t[1] \in Words /\ t[2] \in Words
BY DEF Stamps

LEMMA WordsAreInts == \A w \in Words : w \in Int /\ 0 <= w /\ w < WORD
BY WordFacts DEF Words

LEMMA ModWords == \A a \in Int : a % WORD \in Words
BY WordFacts, ModRange DEF Words

----------------------------------------------------------------------------
(* The seconds of two timestamps less than half a second apart are equal   *)
(* or adjacent.                                                            *)

LEMMA SecondsApart ==
  ASSUME NEW k \in Int, NEW W \in Nat, k >= 2
  PROVE  k * W >= 2 * W
<1>1. (k - 2) * W >= 0
  OBVIOUS
<1>2. (k - 2) * W = k * W - 2 * W
  OBVIOUS
<1> QED
  BY <1>1, <1>2

LEMMA NegativeApart ==
  ASSUME NEW k \in Int, NEW W \in Nat, k <= -1
  PROVE  k * W <= -W
<1>1. (-1 - k) * W >= 0
  OBVIOUS
<1>2. (-1 - k) * W = -W - k * W
  OBVIOUS
<1> QED
  BY <1>1, <1>2

LEMMA Quotient ==
  ASSUME NEW v \in Int, NEW W \in Nat, W > 0, 0 <= v, v < W * W
  PROVE  v \div W \in 0 .. W - 1
<1>1. PICK q \in Int : q = v \div W
  OBVIOUS
<1>2. q * W <= v /\ v < (q + 1) * W
  BY <1>1
<1>3. ~(q <= -1)
  <2> SUFFICES ASSUME q <= -1 PROVE FALSE
    OBVIOUS
  <2>1. (q + 1) * W <= 0
    <3>1. (0 - (q + 1)) * W >= 0
      OBVIOUS
    <3>2. (0 - (q + 1)) * W = 0 - (q + 1) * W /\ (q + 1) * W \in Int
      OBVIOUS
    <3> QED
      BY <3>1, <3>2
  <2> QED
    BY <1>2, <2>1
<1>4. ~(q >= W)
  <2> SUFFICES ASSUME q >= W PROVE FALSE
    OBVIOUS
  <2>1. (q - W) * W >= 0
    OBVIOUS
  <2>2. (q - W) * W = q * W - W * W /\ q * W \in Int /\ W * W \in Int
    OBVIOUS
  <2> QED
    BY <1>2, <2>1, <2>2
<1> QED
  BY <1>1, <1>3, <1>4

\* Two timestamps less than half a second apart have equal or adjacent seconds.
LEMMA NearStamps ==
  ASSUME NEW x \in Stamps, NEW y \in Stamps,
         0 <= Value(x) - Value(y), Value(x) - Value(y) < HALF
  PROVE  \/ x[1] = y[1] /\ x[2] >= y[2] /\ Value(x) - Value(y) = x[2] - y[2]
         \/ /\ x[1] = y[1] + 1 /\ x[2] < y[2]
            /\ Value(x) - Value(y) = x[2] - y[2] + WORD
<1>1. /\ x[1] \in Int /\ y[1] \in Int
      /\ x[2] \in Int /\ 0 <= x[2] /\ x[2] < WORD
      /\ y[2] \in Int /\ 0 <= y[2] /\ y[2] < WORD
  BY StampWords, WordsAreInts
<1> DEFINE k == x[1] - y[1]
           d == Value(x) - Value(y)
<1>2. k \in Int /\ WORD \in Nat /\ HALF \in Nat /\ HALF < WORD
  BY <1>1, WordFacts
<1>3. d = k * WORD + (x[2] - y[2])
  <2>1. (x[1] - y[1]) * WORD = x[1] * WORD - y[1] * WORD
    BY <1>1, <1>2
  <2>2. x[1] * WORD \in Int /\ y[1] * WORD \in Int
    BY <1>1, <1>2
  <2> QED
    BY <2>1, <2>2, <1>1 DEF Value
<1>4. k * WORD \in Int
  BY <1>2
<1>5. ~(k >= 2)
  <2> SUFFICES ASSUME k >= 2 PROVE FALSE
    OBVIOUS
  <2>1. k * WORD >= 2 * WORD
    BY <1>2, SecondsApart
  <2> QED
    BY <2>1, <1>1, <1>2, <1>3, <1>4
<1>6. ~(k <= -1)
  <2> SUFFICES ASSUME k <= -1 PROVE FALSE
    OBVIOUS
  <2>1. k * WORD <= -WORD
    BY <1>2, NegativeApart
  <2> QED
    BY <2>1, <1>1, <1>2, <1>3, <1>4
<1>7. CASE k = 0
  <2>1. k * WORD = 0
    BY <1>7, <1>2
  <2> QED
    BY <2>1, <1>1, <1>3, <1>7
<1>8. CASE k = 1
  <2>1. k * WORD = WORD
    BY <1>8, <1>2
  <2> QED
    BY <2>1, <1>1, <1>2, <1>3, <1>8
<1> QED
  BY <1>2, <1>5, <1>6, <1>7, <1>8

----------------------------------------------------------------------------
(* subtract_uint64_t() gives the magnitude of the difference, in either    *)
(* order of its arguments.                                                 *)

\* subtract_uint64_t() of nearby timestamps, the later one first.
LEMMA SubtractForward ==
  ASSUME NEW x \in Stamps, NEW y \in Stamps,
         0 <= Value(x) - Value(y), Value(x) - Value(y) < HALF
  PROVE  subtract_uint64_t(x, y) = <<0, Value(x) - Value(y)>>
<1>1. /\ x[1] \in Int /\ y[1] \in Int /\ WORD \in Nat /\ WORD > 0
      /\ x[2] \in Int /\ 0 <= x[2] /\ x[2] < WORD
      /\ y[2] \in Int /\ 0 <= y[2] /\ y[2] < WORD
  BY StampWords, WordsAreInts, WordFacts
<1>2. CASE x[1] = y[1] /\ x[2] >= y[2] /\ Value(x) - Value(y) = x[2] - y[2]
  <2>1. ~Before(x, y) /\ Borrow(x, y) = 0
    BY <1>1, <1>2 DEF Before, Borrow
  <2>2. (x[2] - y[2]) % WORD = x[2] - y[2] /\ (x[1] - y[1] - 0) % WORD = 0
    BY <1>1, <1>2, ModIdentity
  <2> QED
    BY <1>2, <2>1, <2>2 DEF subtract_uint64_t, Raw
<1>3. CASE x[1] = y[1] + 1 /\ x[2] < y[2] /\ Value(x) - Value(y) = x[2] - y[2] + WORD
  <2>1. ~Before(x, y) /\ Borrow(x, y) = 1
    BY <1>1, <1>3 DEF Before, Borrow
  <2>2. x[1] - y[1] - 1 = 0 /\ 0 % WORD = 0
    BY <1>1, <1>3, ModIdentity
  <2>3. (x[2] - y[2]) % WORD = x[2] - y[2] + WORD
    BY <1>1, <1>3, ModBelow
  <2> QED
    BY <1>3, <2>1, <2>2, <2>3 DEF subtract_uint64_t, Raw
<1> QED
  BY <1>2, <1>3, NearStamps

\* subtract_uint64_t() of nearby timestamps, the earlier one first.
LEMMA SubtractBackward ==
  ASSUME NEW x \in Stamps, NEW y \in Stamps,
         0 < Value(y) - Value(x), Value(y) - Value(x) < HALF
  PROVE  subtract_uint64_t(x, y) = <<0, Value(y) - Value(x)>>
<1> DEFINE d == Value(y) - Value(x)
<1>1. /\ x[1] \in Int /\ y[1] \in Int /\ WORD \in Nat /\ WORD > 1
      /\ x[2] \in Int /\ 0 <= x[2] /\ x[2] < WORD
      /\ y[2] \in Int /\ 0 <= y[2] /\ y[2] < WORD
  BY StampWords, WordsAreInts, WordFacts
<1>2. Before(x, y) /\ Raw(x, y) = <<WORD - 1, WORD - d>> /\ d \in Int /\ d < WORD
  <2>1. CASE y[1] = x[1] /\ y[2] >= x[2] /\ d = y[2] - x[2]
    <3>1. Before(x, y) /\ Borrow(x, y) = 1 /\ d \in Int /\ d < WORD
      BY <1>1, <2>1 DEF Before, Borrow
    <3>2. (x[2] - y[2]) % WORD = x[2] - y[2] + WORD /\ (x[1] - y[1] - 1) % WORD = WORD - 1
      BY <1>1, <2>1, ModBelow
    <3> QED
      BY <1>1, <2>1, <3>1, <3>2 DEF Raw
  <2>2. CASE y[1] = x[1] + 1 /\ y[2] < x[2] /\ d = y[2] - x[2] + WORD
    <3>1. Before(x, y) /\ Borrow(x, y) = 0 /\ d \in Int /\ d < WORD
      BY <1>1, <2>2 DEF Before, Borrow
    <3>2. (x[2] - y[2]) % WORD = x[2] - y[2] /\ (x[1] - y[1] - 0) % WORD = WORD - 1
      BY <1>1, <2>2, ModBelow, ModIdentity
    <3> QED
      BY <1>1, <2>2, <3>1, <3>2 DEF Raw
  <2>3. 0 <= Value(y) - Value(x)
    BY <1>1 DEF Value
  <2> QED
    BY <2>1, <2>2, <2>3, NearStamps
<1>3. WORD - d > 0 /\ (0 - (WORD - 1) - 1) % WORD = 0
  BY <1>1, <1>2, ModBelow
<1> QED
  BY <1>1, <1>2, <1>3 DEF subtract_uint64_t, Negated

----------------------------------------------------------------------------
(* add_int64_t() is exact on two differences whose sum is under half a     *)
(* second.                                                                 *)

\* add_int64_t() is exact while the sum is under half a second.
LEMMA AddSmall ==
  ASSUME NEW a \in Nat, NEW b \in Nat, a + b < HALF
  PROVE  add_int64_t(<<0, a>>, <<0, b>>) = {<<0, a + b>>}
<1> DEFINE x == <<0, a>>
           y == <<0, b>>
<1>1. a < HALF /\ b < HALF /\ WORD \in Nat /\ WORD = 2 * HALF /\ HALF \in Nat
  BY WordFacts
<1>2. (a + b) % WORD = a + b /\ (0 + 0 + 0) % WORD = 0
  BY <1>1, ModIdentity
<1>3. /\ Fraction(x) = a /\ Fraction(y) = b /\ Seconds(x) = 0 /\ Seconds(y) = 0
      /\ SignedWord(a) = a /\ SignedWord(b) = b /\ SignedWord(a + b) = a + b
  BY <1>1 DEF SignedWord
<1>4. WrappedSum(x, y) = a + b
  BY <1>2, <1>3 DEF WrappedSum
<1>5. CarryTests(x, y) = {FALSE}
  <2>1. ~(a < 0) /\ ~(b < 0)
    OBVIOUS
  <2>2. CarryTests(x, y) = {a < 0 \/ b < 0} \union {}
    BY <1>3, <1>4 DEF CarryTests
  <2>3. (a < 0 \/ b < 0) = FALSE
    BY <2>1
  <2> QED
    BY <2>2, <2>3
<1>6. add_int64_t(x, y) = {<<0, a + b>>}
  <2>1. add_int64_t(x, y) =
          { <<IF WrappedSum(x, y) < 0 THEN WORD - 1
              ELSE (0 + 0 + (IF carry THEN 1 ELSE 0)) % WORD, WrappedSum(x, y) % WORD>> :
              carry \in {FALSE} }
    BY <1>3, <1>5 DEF add_int64_t
  <2>2. ~(a + b < 0)
    OBVIOUS
  <2> QED
    BY <1>2, <1>4, <2>1, <2>2
<1> QED
  BY <1>6

Magnitude(a) == IF a < 0 THEN 0 - a ELSE a

\* Of timestamps less than half a second apart only the magnitude is left.
LEMMA SubtractMagnitude ==
  ASSUME NEW x \in Stamps, NEW y \in Stamps, Magnitude(Value(x) - Value(y)) < HALF
  PROVE  subtract_uint64_t(x, y) = <<0, Magnitude(Value(x) - Value(y))>>
<1>1. Value(x) \in Int /\ Value(y) \in Int
  BY StampWords, WordsAreInts, WordFacts DEF Value
<1>2. CASE Value(x) - Value(y) < 0
  <2>1. Magnitude(Value(x) - Value(y)) = Value(y) - Value(x) /\ 0 < Value(y) - Value(x)
    BY <1>1, <1>2 DEF Magnitude
  <2> QED
    BY <2>1, SubtractBackward
<1>3. CASE ~(Value(x) - Value(y) < 0)
  <2>1. /\ Magnitude(Value(x) - Value(y)) = Value(x) - Value(y)
        /\ 0 <= Value(x) - Value(y)
    BY <1>1, <1>3 DEF Magnitude
  <2> QED
    BY <2>1, SubtractForward
<1> QED
  BY <1>2, <1>3

(* Twice the offset is the sum of the magnitudes of the two differences,   *)
(* which is the larger of the magnitudes of their sum and difference.      *)
LEMMA SumOfMagnitudes ==
  ASSUME NEW org1 \in Stamps, NEW rec1 \in Stamps, NEW xmt1 \in Stamps, NEW dst1 \in Stamps,
         NEW sum \in Sums(org1, rec1, xmt1, dst1),
         NEW out \in Int, out = Value(rec1) - Value(org1),
         NEW back \in Int, back = Value(dst1) - Value(xmt1),
         Magnitude(out + back) < HALF, Magnitude(out - back) < HALF
  PROVE  /\ sum = Magnitude(out) + Magnitude(back)
         /\ sum >= Magnitude(out + back) /\ sum >= Magnitude(out - back)
         /\ sum = Magnitude(out + back) \/ sum = Magnitude(out - back)
<1> DEFINE a == Magnitude(out)
           b == Magnitude(back)
<1>1. /\ a \in Nat /\ b \in Nat /\ HALF \in Nat
      /\ a + b >= Magnitude(out + back) /\ a + b >= Magnitude(out - back)
      /\ a + b = Magnitude(out + back) \/ a + b = Magnitude(out - back)
  BY WordFacts DEF Magnitude
<1>2. a + b < HALF /\ a < HALF /\ b < HALF
  BY <1>1 DEF Magnitude
<1>3. subtract_uint64_t(rec1, org1) = <<0, a>> /\ subtract_uint64_t(dst1, xmt1) = <<0, b>>
  BY <1>2, SubtractMagnitude
<1>4. sum \in {Signed(t) : t \in {<<0, a + b>>}}
  BY <1>1, <1>2, <1>3, AddSmall DEF Sums
<1>5. Signed(<<0, a + b>>) = a + b
  <2>1. SignedWord(0) = 0 /\ WORD \in Nat
    BY WordFacts DEF SignedWord
  <2> QED
    BY <1>1, <2>1 DEF Signed
<1> QED
  BY <1>1, <1>4, <1>5

----------------------------------------------------------------------------
(* Corrections.                                                            *)

LEMMA LowWordsAreWords ==
  ASSUME NEW offset \in Int
  PROVE  LowWords(offset) \subseteq Words
<1>1. offset % WORD \in Words /\ 0 \in Words
  BY ModWords, WordFacts DEF Words
<1> QED
  BY <1>1 DEF LowWords

\* A correction leaves a timestamp.
LEMMA AddedType ==
  ASSUME NEW t \in Stamps, NEW f \in Words
  PROVE  Added(t, f) \in Stamps /\ Subtracted(t, f) \in Stamps
<1>1. t[1] \in Int /\ t[2] \in Int /\ f \in Int
  BY StampWords, WordsAreInts
<1>2. /\ (t[2] + f) % WORD \in Words /\ (t[2] - f) % WORD \in Words
      /\ \A k \in {0, 1} : (t[1] + k) % WORD \in Words /\ (t[1] - k) % WORD \in Words
  BY <1>1, ModWords
<1> QED
  BY <1>2 DEF Added, Subtracted, Stamps

LEMMA WordProducts ==
  /\ ERA \in Nat
  /\ \A s \in Int : s * WORD \in Int /\ (s + 1) * WORD = s * WORD + WORD
  /\ (WORD - 1) * WORD = ERA - WORD
<1>1. WORD \in Nat
  BY WordFacts
<1> QED
  BY <1>1 DEF ERA

(* A carry, or the end of an era, is no part of the distance moved.        *)
LEMMA AddedMoves ==
  ASSUME NEW t \in Stamps, NEW f \in Words
  PROVE  Moved(t, Added(t, f)) < WORD
<1>1. /\ t[1] \in Int /\ 0 <= t[1] /\ t[1] < WORD /\ WORD \in Nat /\ WORD >= 2
      /\ t[2] \in Int /\ 0 <= t[2] /\ t[2] < WORD
      /\ f \in Int /\ 0 <= f /\ f < WORD
  BY StampWords, WordsAreInts, WordFacts
<1> DEFINE u == Added(t, f)
<1>2. ERA \in Int /\ t[1] * WORD \in Int
  BY <1>1, WordProducts
<1>3. Value(t) \in Int /\ Value(t) = t[1] * WORD + t[2]
  BY <1>1, <1>2 DEF Value
<1>4. CASE t[2] + f < WORD
  <2>1. (t[2] + f) % WORD = t[2] + f /\ (t[1] + 0) % WORD = t[1]
    BY <1>1, <1>4, ModIdentity
  <2>2. u = <<t[1], t[2] + f>>
    BY <1>1, <2>1 DEF Added
  <2>3. Value(u) = t[1] * WORD + t[2] + f
    BY <1>1, <1>2, <2>2 DEF Value
  <2> QED
    BY <1>1, <1>2, <1>3, <2>3 DEF Moved
<1>5. CASE t[2] + f >= WORD
  <2>1. (t[2] + f) % WORD = t[2] + f - WORD
    BY <1>1, <1>5, ModAbove
  <2>2. u = <<(t[1] + 1) % WORD, t[2] + f - WORD>>
    BY <1>1, <2>1 DEF Added
  <2>3. CASE t[1] + 1 < WORD
    <3>1. (t[1] + 1) % WORD = t[1] + 1
      BY <1>1, <2>3, ModIdentity
    <3>2. Value(u) = t[1] * WORD + t[2] + f
      BY <1>1, <1>2, <2>2, <3>1, WordProducts DEF Value
    <3> QED
      BY <1>1, <1>2, <1>3, <3>2 DEF Moved
  <2>4. CASE t[1] = WORD - 1
    <3>1. (t[1] + 1) % WORD = 0
      BY <1>1, <2>4, ModAbove
    <3>2. Value(u) = t[2] + f - WORD
      BY <1>1, <2>2, <3>1 DEF Value
    <3>3. Value(t) = ERA - WORD + t[2]
      BY <1>3, <2>4, WordProducts
    <3>4. ERA >= 2 * WORD
      BY <1>1, SecondsApart DEF ERA
    <3> QED
      BY <1>1, <1>2, <3>2, <3>3, <3>4 DEF Moved
  <2> QED
    BY <1>1, <2>3, <2>4
<1> QED
  BY <1>1, <1>4, <1>5

\* A correction downwards takes less than a second.
LEMMA SubtractedMoves ==
  ASSUME NEW t \in Stamps, NEW f \in Words
  PROVE  Moved(Subtracted(t, f), t) < WORD
<1>1. /\ t[1] \in Int /\ 0 <= t[1] /\ t[1] < WORD /\ WORD \in Nat /\ WORD >= 2
      /\ t[2] \in Int /\ 0 <= t[2] /\ t[2] < WORD
      /\ f \in Int /\ 0 <= f /\ f < WORD
  BY StampWords, WordsAreInts, WordFacts
<1> DEFINE u == Subtracted(t, f)
<1>2. ERA \in Int /\ t[1] * WORD \in Int
  BY <1>1, WordProducts
<1>3. Value(t) \in Int /\ Value(t) = t[1] * WORD + t[2]
  BY <1>1, <1>2 DEF Value
<1>4. CASE t[2] >= f
  <2>1. (t[2] - f) % WORD = t[2] - f /\ (t[1] - 0) % WORD = t[1]
    BY <1>1, <1>4, ModIdentity
  <2>2. u = <<t[1], t[2] - f>>
    BY <1>1, <2>1 DEF Subtracted
  <2>3. Value(u) = t[1] * WORD + t[2] - f
    BY <1>1, <1>2, <2>2 DEF Value
  <2> QED
    BY <1>1, <1>2, <1>3, <2>3 DEF Moved
<1>5. CASE t[2] < f
  <2>1. (t[2] - f) % WORD = t[2] - f + WORD
    BY <1>1, <1>5, ModBelow
  <2>2. u = <<(t[1] - 1) % WORD, t[2] - f + WORD>>
    BY <1>1, <2>1 DEF Subtracted
  <2>3. CASE t[1] >= 1
    <3>1. (t[1] - 1) % WORD = t[1] - 1
      BY <1>1, <2>3, ModIdentity
    <3>2. \A a, b \in Int : b = a - 1 => b * WORD = a * WORD - WORD
      BY <1>1
    <3>3. Value(u) = t[1] * WORD + t[2] - f
      <4>1. t[1] - 1 \in Int /\ (t[1] - 1) * WORD = t[1] * WORD - WORD
        BY <1>1, <3>2
      <4> QED
        BY <1>1, <1>2, <2>2, <3>1, <4>1 DEF Value
    <3> QED
      BY <1>1, <1>2, <1>3, <3>3 DEF Moved
  <2>4. CASE t[1] = 0
    <3>1. (t[1] - 1) % WORD = WORD - 1
      BY <1>1, <2>4, ModBelow
    <3>2. Value(u) = ERA + t[2] - f
      BY <1>1, <1>2, <2>2, <3>1, WordProducts DEF Value
    <3>3. Value(t) = t[2]
      BY <1>1, <1>3, <2>4
    <3>4. ERA >= 2 * WORD
      BY <1>1, SecondsApart DEF ERA
    <3> QED
      BY <1>1, <1>2, <3>2, <3>3, <3>4 DEF Moved
  <2> QED
    BY <1>1, <2>3, <2>4
<1> QED
  BY <1>1, <1>4, <1>5

----------------------------------------------------------------------------
(* The inductive invariant: types, and that a sample was computed from     *)
(* four timestamps by the arithmetic of packet().                          *)
SampleComputed ==
  sample.taken =>
    /\ sample.org \in Stamps /\ sample.rec \in Stamps
    /\ sample.xmt \in Stamps /\ sample.dst \in Stamps
    /\ sample.sum \in Sums(sample.org, sample.rec, sample.xmt, sample.dst)

IInv == TypeOK /\ SampleComputed

LEMMA ZeroStamp == Zero \in Stamps
BY WordFacts DEF Zero, Stamps, Words

LEMMA InitHolds == Init => IInv
<1> SUFFICES ASSUME Init PROVE IInv
  OBVIOUS
<1>1. TypeOK
  BY ZeroStamp, ClockAssumption, BoundAssumption DEF Init, TypeOK
<1>2. SampleComputed
  BY DEF Init, SampleComputed, NoSample
<1> QED
  BY <1>1, <1>2 DEF IInv

\* gettime() returns a timestamp.
LEMMA ClockReads ==
  ASSUME TypeOK, NEW override \in BOOLEAN
  PROVE  TimeAfter(override) \in Stamps /\ TickAfter(override) \in 0 .. TICKS - 1
<1>1. localTime[1] \in Int /\ localTime[2] \in Int /\ WORD \in Nat
  BY StampWords, WordsAreInts, WordFacts DEF TypeOK
<1>2. Elapsed \in Nat /\ now % TICKS \in 0 .. TICKS - 1 /\ HZ \in Nat /\ HZ > 0
  <2>1. now - lastTick \in Int /\ TICKS \in Nat /\ TICKS > 0 /\ now \in Int
    BY ClockAssumption DEF TypeOK
  <2> QED
    BY <2>1, ModRange, ClockAssumption DEF Elapsed
<1>3. Elapsed \div HZ \in Int /\ NewFractions \in Int
  <2>1. Elapsed % HZ \in Int
    BY <1>2, ModRange
  <2>2. (Elapsed % HZ) * WORD \in Int
    BY <1>1, <2>1
  <2> QED
    BY <1>2, <2>2 DEF NewFractions
<1>4. Reading \in Stamps
  <2>1. Carry \in Int
    BY DEF Carry
  <2>2. (localTime[1] + Elapsed \div HZ + Carry) % WORD \in Words
    BY <1>1, <1>3, <2>1, ModWords
  <2>3. (localTime[2] + NewFractions) % WORD \in Words
    BY <1>1, <1>3, ModWords
  <2> QED
    BY <2>2, <2>3 DEF Reading, Stamps
<1> QED
  BY <1>2, <1>4 DEF TimeAfter, TickAfter, TypeOK

LEMMA ServerStamps == ASSUME TypeOK PROVE ServerTime \in Stamps
<1>1. now \in Nat /\ WORD \in Nat /\ WORD > 0 /\ HZ \in Nat /\ HZ > 0 /\ Base \in Nat
  BY WordFacts, ClockAssumption DEF TypeOK
<1> DEFINE v == (Base + (now * WORD) \div HZ) % ERA
<1>2. v \in 0 .. ERA - 1
  <2>1. now * WORD \in Int
    BY <1>1
  <2>2. Base + (now * WORD) \div HZ \in Int
    BY <1>1, <2>1
  <2>3. ERA \in Nat /\ ERA > 0
    BY <1>1, WordFacts, SecondsApart DEF ERA
  <2> QED
    BY <2>2, <2>3, ModRange
<1>3. v % WORD \in Words
  BY <1>2, ModWords
<1>4. v \div WORD \in Words
  BY <1>1, <1>2, Quotient DEF ERA, Words
<1> QED
  BY <1>3, <1>4 DEF ServerTime, Stamps

\* Every action keeps the words in their range.
LEMMA StepTypes ==
  ASSUME TypeOK, [Next]_vars
  PROVE  TypeOK'
<1> USE DEF TypeOK
<1>z. Zero \in Stamps /\ 0 \in 0 .. now
  BY ZeroStamp
<1>t. now % TICKS \in 0 .. TICKS - 1 /\ now \in Nat
  BY ModRange, ClockAssumption
<1>1. CASE Tick
  <2>1. now' \in Nat /\ sentAt' \in 0 .. now'
    BY <1>1 DEF Tick, exchange
  <2> QED
    BY <1>1, <2>1 DEF Tick, clock, exchange
<1>2. CASE xmit_packet
  <2>1. (stage # "poll") \in BOOLEAN
    OBVIOUS
  <2>2. localTime' \in Stamps /\ lastTick' \in 0 .. TICKS - 1
    BY <1>2, <2>1, ClockReads DEF xmit_packet
  <2>3. n' \in 0 .. MaxRequests /\ sentAt' \in 0 .. now'
    BY <1>2, BoundAssumption DEF xmit_packet
  <2> QED
    BY <1>2, <2>2, <2>3 DEF xmit_packet
<1>3. CASE ServerReceives
  BY <1>3, ServerStamps DEF ServerReceives, clock, history
<1>4. CASE ServerReplies
  BY <1>4, ServerStamps DEF ServerReplies, clock, history
<1>5. CASE SetFromReply
  BY <1>5, <1>z, <1>t DEF SetFromReply, settime, Set, Ends
<1>6. CASE SetFromNothing
  BY <1>6, <1>z, <1>t DEF SetFromNothing, settime, Set, Ends
<1>s. NextStages \subseteq {"start", "sync", "poll"}
  BY DEF NextStages
<1>7. CASE NoReply
  BY <1>7, <1>z, <1>s DEF NoReply, Ends, clock, history
<1>8. CASE recv_packet
  <2>1. lastTick' \in 0 .. TICKS - 1
    BY <1>8, ClockReads DEF recv_packet
  <2> QED
    BY <1>8, <1>z, <1>s, <2>1 DEF recv_packet, Set, Ends
<1>9. ASSUME NEW offset \in Offsets, ReceiveAndStep(offset)
      PROVE  TypeOK'
  <2>1. lastTick' \in 0 .. TICKS - 1
    BY <1>9, ClockReads DEF ReceiveAndStep
  <2>2. localTime' \in Stamps
    BY <1>9, LowWordsAreWords, AddedType, ClockAssumption DEF ReceiveAndStep, step_time
  <2> QED
    BY <1>9, <1>z, <1>s, <2>1, <2>2 DEF ReceiveAndStep, Ends
<1>c. ASSUME NEW times \in SUBSET Stamps, Correct(times)
      PROVE  TypeOK'
  <2>1. localTime' \in Stamps
    BY <1>c DEF Correct
  <2>2. adjusts' \in 0 .. MaxAdjusts
    BY <1>c, BoundAssumption DEF Correct
  <2> QED
    BY <1>c, <2>1, <2>2 DEF Correct, exchange
<1>10. ASSUME NEW offset \in Adjustments, clock_adjust(offset)
       PROVE  TypeOK'
  <2>1. adjust_time(localTime, offset) \in SUBSET Stamps
    BY LowWordsAreWords, AddedType, ClockAssumption DEF adjust_time
  <2> QED
    BY <1>c, <1>10, <2>1 DEF clock_adjust
<1>12. ASSUME NEW offset \in Offsets, PollAndStep(offset)
       PROVE  TypeOK'
  <2>1. step_time(localTime, offset) \in SUBSET Stamps
    BY LowWordsAreWords, AddedType, ClockAssumption DEF step_time
  <2> QED
    BY <1>c, <1>12, <2>1 DEF PollAndStep
<1>11. CASE UNCHANGED vars
  BY <1>11 DEF vars, clock, exchange, history
<1> QED
  BY <1>1, <1>2, <1>3, <1>4, <1>5, <1>6, <1>7, <1>8, <1>9, <1>10, <1>11, <1>12 DEF Next

(* Only recv_packet() computes a sample, from stamps that are in type.     *)
LEMMA StepSample ==
  ASSUME TypeOK, SampleComputed, [Next]_vars
  PROVE  SampleComputed'
<1>1. ASSUME UNCHANGED sample PROVE SampleComputed'
  BY <1>1 DEF SampleComputed
<1>2. ASSUME Taken(TimeAfter(FALSE)) PROVE SampleComputed'
  <2>1. TimeAfter(FALSE) \in Stamps
    BY ClockReads
  <2>2. org \in Stamps /\ rec \in Stamps /\ xmt \in Stamps
    BY DEF TypeOK
  <2> HIDE DEF TypeOK
  <2> QED
    BY <1>2, <2>1, <2>2 DEF Taken, SampleComputed
<1>3. CASE xmit_packet
  BY <1>3 DEF xmit_packet, NoSample, SampleComputed
<1>4. CASE Tick \/ ServerReceives \/ ServerReplies \/ SetFromReply \/ SetFromNothing \/ NoReply
  BY <1>1, <1>4 DEF Tick, ServerReceives, ServerReplies, SetFromReply, SetFromNothing,
     settime, NoReply
<1>5. CASE recv_packet
  BY <1>1, <1>2, <1>5 DEF recv_packet
<1>6. ASSUME NEW offset \in Offsets, ReceiveAndStep(offset) PROVE SampleComputed'
  BY <1>2, <1>6 DEF ReceiveAndStep
<1>7. ASSUME NEW offset \in Adjustments, clock_adjust(offset) PROVE SampleComputed'
  BY <1>1, <1>7 DEF clock_adjust, Correct
<1>8. CASE UNCHANGED vars
  BY <1>1, <1>8 DEF vars
<1>9. ASSUME NEW offset \in Offsets, PollAndStep(offset) PROVE SampleComputed'
  BY <1>1, <1>9 DEF PollAndStep, Correct
<1> QED
  BY <1>3, <1>4, <1>5, <1>6, <1>7, <1>8, <1>9 DEF Next

(* The invariant that the theorems below rest on.                          *)
THEOREM Invariance == Spec => []IInv
<1>1. IInv /\ [Next]_vars => IInv'
  BY StepTypes, StepSample DEF IInv
<1> QED
  BY InitHolds, <1>1, PTL DEF Spec

(* The clock, its last tick and the timestamps of an exchange stay in      *)
(* their words: gettime(), settime() and the corrections of NTP_TDMG.c and *)
(* NTP_main_utility.c.                                                     *)
THEOREM TypeCorrect == Spec => []TypeOK
<1>1. IInv => TypeOK
  BY DEF IInv
<1> QED
  BY Invariance, <1>1, PTL

(* packet(): the offset of every sample is the larger of half of the delay *)
(* and the magnitude of the clock's error, when it is under a quarter of a *)
(* second.                                                                 *)
THEOREM OffsetIsLargerAlways == Spec => []OffsetIsLarger
<1>1. IInv => OffsetIsLarger
  <2> SUFFICES ASSUME IInv, sample.taken PROVE OffsetIsLarger
    BY DEF OffsetIsLarger
  <2>1. PICK out \in Int : out = Value(sample.rec) - Value(sample.org)
    BY StampWords, WordsAreInts, WordFacts DEF IInv, SampleComputed, Value
  <2>2. PICK back \in Int : back = Value(sample.dst) - Value(sample.xmt)
    BY StampWords, WordsAreInts, WordFacts DEF IInv, SampleComputed, Value
  <2> DEFINE trip == Magnitude(out + back)
             off == Magnitude(out - back)
             larger == IF trip < off THEN off ELSE trip
  <2>3. trip \in Int /\ off \in Int /\ HALF \in Nat
    BY WordFacts DEF Magnitude
  <2>4. larger < HALF => sample.sum = larger
    <3> SUFFICES ASSUME larger < HALF PROVE sample.sum = larger
      OBVIOUS
    <3>1. trip < HALF /\ off < HALF
      BY <2>3
    <3>2. /\ sample.sum >= trip /\ sample.sum >= off
          /\ sample.sum = trip \/ sample.sum = off
      BY <2>1, <2>2, <3>1, SumOfMagnitudes DEF IInv, SampleComputed
    <3> HIDE DEF trip, off
    <3> QED
      BY <2>3, <3>2
  <2>5. out - back < 0 => 0 - (out - back) = back - out
    OBVIOUS
  <2> QED
    BY <2>1, <2>2, <2>4, <2>5 DEF OffsetIsLarger, Magnitude
<1> QED
  BY Invariance, <1>1, PTL

(* step_time() and adjust_time() move the clock by less than a second.     *)
THEOREM CorrectionsAlways == Spec => CorrectionsAreFractions
<1>1. ASSUME IInv, NEW offset \in Adjustments, clock_adjust(offset)
      PROVE  Moved(localTime, localTime') < WORD
  <2>1. PICK f \in Words : localTime' = Added(localTime, f)
    BY <1>1, LowWordsAreWords, ClockAssumption DEF clock_adjust, Correct, adjust_time
  <2>2. localTime \in Stamps
    BY <1>1 DEF IInv, TypeOK
  <2> QED
    BY <2>1, <2>2, AddedMoves
<1>2. ASSUME IInv, NEW offset \in Offsets, ReceiveAndStep(offset)
      PROVE  Moved(localTime', rec) < WORD
  <2>1. PICK f \in Words : localTime' = Subtracted(rec, f)
    BY <1>2, LowWordsAreWords, ClockAssumption DEF ReceiveAndStep, step_time
  <2>2. rec \in Stamps
    BY <1>2 DEF IInv, TypeOK
  <2> QED
    BY <2>1, <2>2, SubtractedMoves
<1>4. ASSUME IInv, NEW offset \in Offsets, PollAndStep(offset)
      PROVE  Moved(localTime', localTime) < WORD
  <2>1. PICK f \in Words : localTime' = Subtracted(localTime, f)
    BY <1>4, LowWordsAreWords, ClockAssumption DEF PollAndStep, Correct, step_time
  <2>2. localTime \in Stamps
    BY <1>4 DEF IInv, TypeOK
  <2> QED
    BY <2>1, <2>2, SubtractedMoves
<1>3. IInv => [UnderASecond]_vars
  BY <1>1, <1>2, <1>4 DEF UnderASecond
<1> QED
  BY Invariance, <1>3, PTL DEF CorrectionsAreFractions

----------------------------------------------------------------------------
(* The time of the clock in exact arithmetic.                              *)

\* Quotient and remainder, with names that arithmetic can use.
LEMMA DivMod ==
  ASSUME NEW a \in Int, NEW m \in Nat, m > 0
  PROVE  \E q \in Int, r \in 0 .. m - 1 : q = a \div m /\ r = a % m /\ a = q * m + r
<1>1. PICK q \in Int, r \in 0 .. m - 1 : q = a \div m /\ r = a % m /\ r = a - q * m
  <2>1. a % m = a - (a \div m) * m /\ a \div m \in Int /\ a % m \in 0 .. m - 1
    OBVIOUS
  <2> QED
    BY <2>1
<1>2. q * m \in Int
  OBVIOUS
<1>3. a = q * m + r
  BY <1>1, <1>2
<1> QED
  BY <1>1, <1>3

\* A remainder is known from any quotient.
LEMMA ModUnique ==
  ASSUME NEW a \in Int, NEW m \in Nat, m > 0, NEW q \in Int, NEW r \in 0 .. m - 1,
         a = q * m + r
  PROVE  a % m = r
OBVIOUS

\* A multiple of the modulus is no part of the remainder.
LEMMA ModShift ==
  ASSUME NEW a \in Int, NEW k \in Int, NEW m \in Nat, m > 0
  PROVE  (a + k * m) % m = a % m
<1>1. PICK q \in Int, r \in 0 .. m - 1 : r = a % m /\ a = q * m + r
  BY DivMod
<1>2. a + k * m = (q + k) * m + r /\ a + k * m \in Int
  <2>1. (q + k) * m = q * m + k * m /\ q * m \in Int /\ k * m \in Int
    OBVIOUS
  <2> QED
    BY <1>1, <2>1
<1>3. q + k \in Int
  OBVIOUS
<1> QED
  BY <1>1, <1>2, <1>3, ModUnique

\* What gettime() truncates, and the eras it wraps.
LEMMA ReadingIsExact ==
  ASSUME TypeOK
  PROVE  \E r \in 0 .. HZ - 1, j \in Int :
           HZ * Value(Reading) = HZ * Value(localTime) + WORD * Elapsed - r - j * (HZ * ERA)
<1>1. /\ localTime[1] \in Int /\ localTime[2] \in Int /\ 0 <= localTime[2] /\ localTime[2] < WORD
      /\ WORD \in Nat /\ WORD > 0 /\ HZ \in Nat /\ HZ > 0
  BY StampWords, WordsAreInts, WordFacts, ClockAssumption DEF TypeOK
<1>2. Elapsed \in Nat
  <2>1. now - lastTick \in Int /\ TICKS \in Nat /\ TICKS > 0  BY ClockAssumption DEF TypeOK
  <2> QED BY <2>1, ModRange DEF Elapsed
<1>3. PICK q \in Int, e \in 0 .. HZ - 1 : q = Elapsed \div HZ /\ e = Elapsed % HZ
                                        /\ Elapsed = q * HZ + e
  BY <1>1, <1>2, DivMod
<1>4. e * WORD \in Int  BY <1>1
<1>5. PICK f \in Int, r \in 0 .. HZ - 1 : f = NewFractions /\ e * WORD = f * HZ + r
  BY <1>1, <1>3, <1>4, DivMod DEF NewFractions
<1>6. 0 <= f /\ f < WORD
  <2>1. ~ (f >= WORD)
    <3> SUFFICES ASSUME f >= WORD PROVE FALSE  OBVIOUS
    <3>1. (f - WORD) * HZ >= 0  BY <1>1, <1>5
    <3>2. (f - WORD) * HZ = f * HZ - HZ * WORD  BY <1>1, <1>5
    <3>3. (HZ - e) * WORD > 0  BY <1>1
    <3>4. (HZ - e) * WORD = HZ * WORD - e * WORD  BY <1>1
    <3>5. f * HZ \in Int /\ HZ * WORD \in Int  BY <1>1, <1>5
    <3> QED BY <3>1, <3>2, <3>3, <3>4, <3>5, <1>4, <1>5
  <2>2. ~ (f < 0)
    <3> SUFFICES ASSUME f < 0 PROVE FALSE  OBVIOUS
    <3>1. (-1 - f) * HZ >= 0  BY <1>1, <1>5
    <3>2. (-1 - f) * HZ = 0 - HZ - f * HZ  BY <1>1, <1>5
    <3>3. e * WORD >= 0  BY <1>1
    <3>4. f * HZ \in Int  BY <1>1, <1>5
    <3> QED BY <3>1, <3>2, <3>3, <3>4, <1>1, <1>4, <1>5
  <2> QED BY <2>1, <2>2, <1>1
<1>7. PICK c \in {0, 1} : /\ c = Carry
                         /\ (localTime[2] + NewFractions) % WORD = localTime[2] + f - c * WORD
  <2>1. CASE localTime[2] + f < WORD
    <3>1. (localTime[2] + f) % WORD = localTime[2] + f  BY <1>1, <1>6, <2>1, ModIdentity
    <3>2. Carry = 0  BY <1>1, <1>5, <1>6, <3>1 DEF Carry
    <3> QED BY <1>1, <1>5, <3>1, <3>2
  <2>2. CASE localTime[2] + f >= WORD
    <3>1. (localTime[2] + f) % WORD = localTime[2] + f - WORD  BY <1>1, <1>6, <2>2, ModAbove
    <3>2. Carry = 1  BY <1>1, <1>5, <1>6, <3>1 DEF Carry
    <3> QED BY <1>1, <1>5, <3>1, <3>2
  <2> QED BY <2>1, <2>2, <1>1, <1>6
<1> DEFINE s == localTime[1] + q + c
<1>8. PICK j \in Int : s % WORD = s - j * WORD
  <2>1. s \in Int  BY <1>1
  <2> HIDE DEF s
  <2>2. PICK d \in Int, w \in 0 .. WORD - 1 : w = s % WORD /\ s = d * WORD + w
    BY <2>1, <1>1, DivMod
  <2>3. d * WORD \in Int /\ w \in Int  BY <1>1
  <2>4. w = s - d * WORD  BY <2>1, <2>2, <2>3
  <2> QED BY <2>2, <2>4
<1>9. Value(Reading) = (s - j * WORD) * WORD + (localTime[2] + f - c * WORD)
  BY <1>3, <1>7, <1>8 DEF Reading, Value
<1>10. ASSUME NEW W \in Int, NEW H \in Int, NEW a \in Int, NEW b \in Int
       PROVE  H * ((a + q + c - j * W) * W + (b + f - c * W))
                = H * (a * W + b) + W * (q * H + e) - (e * W - f * H) - j * (H * (W * W))
  OBVIOUS
<1>11. HZ * Value(Reading)
         = HZ * Value(localTime) + WORD * Elapsed - (e * WORD - f * HZ) - j * (HZ * ERA)
  <2>1. HZ * ((s - j * WORD) * WORD + (localTime[2] + f - c * WORD))
          = HZ * (localTime[1] * WORD + localTime[2]) + WORD * (q * HZ + e)
            - (e * WORD - f * HZ) - j * (HZ * (WORD * WORD))
    BY <1>1, <1>10
  <2>2. Value(localTime) = localTime[1] * WORD + localTime[2]  BY DEF Value
  <2>3. HZ * Value(Reading)
          = HZ * (localTime[1] * WORD + localTime[2]) + WORD * (q * HZ + e)
            - (e * WORD - f * HZ) - j * (HZ * (WORD * WORD))
    <3>1. HZ * Value(Reading) = HZ * ((s - j * WORD) * WORD + (localTime[2] + f - c * WORD))
      BY <1>9, Zenon
    <3> QED BY <2>1, <3>1, Zenon
  <2> QED BY <1>3, <2>2, <2>3, Zenon DEF ERA
<1>12. e * WORD - f * HZ = r
  <2>1. f * HZ \in Int  BY <1>1
  <2> QED BY <1>4, <1>5, <2>1
<1> QED BY <1>11, <1>12

----------------------------------------------------------------------------
(* The clock and the tick count.                                           *)

\* gettime() takes the ticks since its last reading modulo the tick count.
LEMMA ElapsedRange ==
  ASSUME TypeOK
  PROVE  Elapsed \in 0 .. TICKS - 1
<1>1. now - lastTick \in Int /\ TICKS \in Nat /\ TICKS > 0
  BY ClockAssumption DEF TypeOK
<1> QED
  BY <1>1, ModRange DEF Elapsed

\* A tick later one tick more has passed, also when the count wraps.
LEMMA ElapsedTicks ==
  ASSUME TypeOK, Tick
  PROVE  Elapsed' = Elapsed + 1
<1>1. now - lastTick \in Int /\ TICKS \in Nat /\ TICKS > 0
  BY ClockAssumption DEF TypeOK
<1> DEFINE a == now - lastTick
<1>2. a % TICKS < TICKS - 1 /\ Elapsed' = (a + 1) % TICKS
  <2>1. now' - lastTick' = a + 1
    BY ClockAssumption DEF Tick, clock, TypeOK
  <2> QED
    BY <2>1 DEF Tick, Elapsed
<1> HIDE DEF a
<1>3. PICK q \in Int, r \in 0 .. TICKS - 1 : r = a % TICKS /\ a = q * TICKS + r
  BY <1>1, DivMod DEF a
<1>4. a + 1 = q * TICKS + (r + 1) /\ r + 1 \in 0 .. TICKS - 1 /\ a + 1 \in Int
  <2>1. q * TICKS \in Int
    BY <1>1
  <2> QED
    BY <1>1, <1>2, <1>3, <2>1
<1>5. (a + 1) % TICKS = r + 1
  BY <1>1, <1>4, ModUnique
<1> QED
  BY <1>2, <1>3, <1>5 DEF Elapsed, a

\* None has passed right after a reading.
LEMMA ElapsedReset ==
  ASSUME TypeOK, now' = now, lastTick' = now % TICKS
  PROVE  Elapsed' = 0
<1>1. now \in Int /\ TICKS \in Nat /\ TICKS > 0
  BY ClockAssumption DEF TypeOK
<1>2. PICK q \in Int, r \in 0 .. TICKS - 1 : r = now % TICKS /\ now = q * TICKS + r
  BY <1>1, DivMod
<1>3. now - r = q * TICKS + 0 /\ now - r \in Int
  <2>1. q * TICKS \in Int
    BY <1>1
  <2> QED
    BY <1>1, <1>2, <2>1
<1>4. 0 \in 0 .. TICKS - 1
  BY <1>1
<1>5. (now - r) % TICKS = 0
  BY <1>1, <1>3, <1>4, ModUnique
<1>6. now' - lastTick' = now - r
  BY <1>2
<1> QED
  BY <1>5, <1>6 DEF Elapsed

LEMMA ElapsedStays ==
  ASSUME now' = now, lastTick' = lastTick
  PROVE  Elapsed' = Elapsed
BY DEF Elapsed

\* The clock is d ahead of exact time, k eras aside: behind by less than a unit
\* for every reading, ahead by the ticks recv_packet() counts twice.
Ahead(k, d) ==
  /\ HZ * Value(localTime) + WORD * Elapsed - truth = d + k * (HZ * ERA)
  /\ d >= 0 - HZ * reads /\ d < SMALL * WORD

Drift == /\ truth \in Int /\ reads \in Nat
         /\ \E k, d \in Int : Ahead(k, d)

\* The units of time are positive.
LEMMA UnitTypes ==
  /\ HZ \in Nat /\ HZ > 0 /\ WORD \in Nat /\ WORD > 0 /\ ERA \in Nat /\ ERA > 0
  /\ SMALL \in Nat /\ SMALL > 0 /\ HZ * ERA \in Nat /\ HZ * ERA > 0
  /\ SMALL * WORD \in Nat /\ SMALL * WORD > 0
<1>1. HZ \in Nat /\ HZ > 0 /\ WORD \in Nat /\ WORD > 0 /\ SMALL \in Nat /\ SMALL > 0
  BY WordFacts, ClockAssumption
<1>2. \A a, b \in Nat : a > 0 /\ b > 0 => a * b \in Nat /\ a * b > 0
  OBVIOUS
<1> QED
  BY <1>1, <1>2 DEF ERA

LEMMA ValueType == \A t \in Stamps : Value(t) \in Nat /\ Value(t) < ERA
<1> TAKE t \in Stamps
<1>1. /\ t[1] \in Int /\ 0 <= t[1] /\ t[1] <= WORD - 1 /\ WORD \in Nat
      /\ t[2] \in Int /\ 0 <= t[2] /\ t[2] < WORD
  BY StampWords, WordsAreInts, WordFacts
<1>2. \A a, b \in Nat : a * b \in Nat
  OBVIOUS
<1>3. \A a, b \in Int : (b - 1 - a) * b = b * b - b - a * b /\ a * b \in Int
  OBVIOUS
<1>4. (WORD - 1 - t[1]) * WORD \in Nat /\ t[1] * WORD \in Nat
  BY <1>1, <1>2
<1>5. (WORD - 1 - t[1]) * WORD = WORD * WORD - WORD - t[1] * WORD /\ WORD * WORD \in Int
  <2>1. t[1] \in Int /\ WORD \in Int
    BY <1>1
  <2> QED
    BY <2>1, <1>3, Zenon
<1> QED
  BY <1>1, <1>4, <1>5 DEF Value, ERA

\* Nothing but time passes, and exact time with it.
LEMMA DriftTick ==
  ASSUME TypeOK, Drift, Tick
  PROVE  Drift'
<1>1. PICK k, d \in Int : Ahead(k, d)
  BY DEF Drift
<1>2. Elapsed' = Elapsed + 1 /\ Elapsed \in Int
  BY ElapsedTicks, ElapsedRange
<1>3. localTime' = localTime /\ truth' = truth + WORD /\ reads' = reads
  BY DEF Tick, clock
<1>4. WORD * (Elapsed + 1) = WORD * Elapsed + WORD /\ WORD * Elapsed \in Int /\ WORD \in Int
  BY <1>2, UnitTypes
<1>5. HZ * Value(localTime) \in Int
  BY UnitTypes, ValueType DEF TypeOK
<1>6. HZ * Value(localTime) + WORD * (Elapsed + 1) - (truth + WORD)
        = HZ * Value(localTime) + WORD * Elapsed - truth
  BY <1>4, <1>5 DEF Drift
<1>7. HZ * Value(localTime') + WORD * Elapsed' - truth' = d + k * (HZ * ERA)
  BY <1>1, <1>2, <1>3, <1>6, Zenon DEF Ahead
<1>8. Ahead(k, d)'
  BY <1>1, <1>3, <1>7 DEF Ahead, Value
<1>9. truth' \in Int /\ reads' \in Nat
  BY <1>3, <1>4 DEF Drift
<1> QED
  BY <1>8, <1>9 DEF Drift

\* A setting of the clock ends what went before.
LEMMA DriftSet ==
  ASSUME TypeOK, NEW t \in Stamps, localTime' = t, truth' = HZ * Value(t), reads' = 0,
         Elapsed' \in 0 .. SMALL - 1
  PROVE  Drift'
<1>1. HZ * Value(t) \in Int
  BY UnitTypes, ValueType
<1>2. PICK x \in 0 .. SMALL - 1 : x = Elapsed'
  OBVIOUS
<1>3. \A w, y, z \in Int : (z - 1 - y) * w = z * w - w - w * y /\ w * y \in Int
  OBVIOUS
<1>4. \A a, b \in Nat : a * b \in Nat
  OBVIOUS
<1>5. (SMALL - 1 - x) * WORD \in Nat /\ WORD * x \in Nat
  BY <1>4, UnitTypes
<1>6. (SMALL - 1 - x) * WORD = SMALL * WORD - WORD - WORD * x
  BY <1>3, UnitTypes
<1>7. PICK d \in Nat : d = WORD * x /\ d < SMALL * WORD
  BY <1>5, <1>6, UnitTypes
<1>8. HZ * Value(localTime') + WORD * Elapsed' - truth' = d + 0 * (HZ * ERA)
  <2>1. 0 * (HZ * ERA) = 0
    BY UnitTypes
  <2> QED
    BY <1>1, <1>2, <1>7, <2>1
<1>9. d >= 0 - HZ * reads'
  <2>1. HZ * 0 = 0
    BY UnitTypes
  <2> QED
    BY <2>1, <1>7
<1>10. Ahead(0, d)'
  BY <1>7, <1>8, <1>9 DEF Ahead, Value
<1> QED
  BY <1>1, <1>10 DEF Drift

\* What does not touch the clock does not touch its drift.
LEMMA DriftStays ==
  ASSUME Drift, localTime' = localTime, Elapsed' = Elapsed, truth' = truth, reads' = reads
  PROVE  Drift'
BY DEF Drift, Ahead, Value

\* A reading costs less than a unit.
LEMMA DriftReads ==
  ASSUME TypeOK, Drift, localTime' = Reading, now' = now, lastTick' = now % TICKS,
         truth' = truth, reads' = reads + 1
  PROVE  Drift'
<1>1. PICK k, d \in Int : Ahead(k, d)
  BY DEF Drift
<1>2. PICK r \in 0 .. HZ - 1, j \in Int :
        HZ * Value(Reading) = HZ * Value(localTime) + WORD * Elapsed - r - j * (HZ * ERA)
  BY ReadingIsExact
<1>3. Elapsed' = 0
  BY ElapsedReset
<1>4. WORD * Elapsed \in Int /\ HZ * Value(localTime) \in Int /\ truth \in Int /\ reads \in Nat
  BY UnitTypes, ValueType, ElapsedRange DEF TypeOK, Drift
<1>5. HZ * Value(Reading) + WORD * 0 - truth = (d - r) + (k - j) * (HZ * ERA)
  <2>1. (k - j) * (HZ * ERA) = k * (HZ * ERA) - j * (HZ * ERA) /\ WORD * 0 = 0
        /\ k * (HZ * ERA) \in Int /\ j * (HZ * ERA) \in Int
    BY UnitTypes
  <2> QED
    BY <1>1, <1>2, <1>4, <2>1 DEF Ahead
<1>6. d - r >= 0 - HZ * (reads + 1) /\ d - r < SMALL * WORD
  <2>1. HZ * (reads + 1) = HZ * reads + HZ /\ HZ * reads \in Int
    BY <1>4, UnitTypes
  <2> QED
    BY <1>1, <2>1, UnitTypes DEF Ahead
<1>7. Ahead(k - j, d - r)'
  BY <1>3, <1>5, <1>6 DEF Ahead, Value
<1>8. k - j \in Int /\ d - r \in Int /\ reads + 1 \in Nat
  BY <1>4, UnitTypes
<1> QED
  BY <1>4, <1>7, <1>8 DEF Drift

\* A correction moves both by as much, an era aside.
LEMMA DriftMoves ==
  ASSUME TypeOK, TypeOK', Drift, truth' = truth + HZ * Moved(localTime, localTime'),
         Elapsed' = Elapsed, reads' = reads
  PROVE  Drift'
<1>1. PICK k, d \in Int : Ahead(k, d)
  BY DEF Drift
<1>2. PICK a, b \in Int : a = Value(localTime) /\ b = Value(localTime')
  BY ValueType DEF TypeOK
<1>3. PICK i \in {0, 1} : Moved(localTime, localTime') = b - a + i * ERA
  <2>1. ERA \in Int /\ 0 * ERA = 0 /\ 1 * ERA = ERA
    BY UnitTypes
  <2> QED
    BY <1>2, <2>1 DEF Moved
<1>4. HZ * b + WORD * Elapsed - truth' = d + (k - i) * (HZ * ERA)
  <2>1. HZ * (b - a + i * ERA) = HZ * b - HZ * a + i * (HZ * ERA)
    BY UnitTypes
  <2>2. (k - i) * (HZ * ERA) = k * (HZ * ERA) - i * (HZ * ERA)
    BY UnitTypes
  <2>3. HZ * b \in Int /\ HZ * a \in Int /\ i * (HZ * ERA) \in Int /\ k * (HZ * ERA) \in Int
        /\ WORD * Elapsed \in Int /\ truth \in Int
    BY UnitTypes, ElapsedRange DEF Drift
  <2>4. HZ * a + WORD * Elapsed - truth = d + k * (HZ * ERA)
    BY <1>1, <1>2 DEF Ahead
  <2>5. truth' = truth + (HZ * b - HZ * a + i * (HZ * ERA))
    BY <1>3, <2>1
  <2> QED
    BY <2>2, <2>3, <2>4, <2>5
<1>5. Ahead(k - i, d)'
  BY <1>1, <1>2, <1>4 DEF Ahead, Value
<1>6. truth' \in Int /\ reads' \in Nat /\ k - i \in Int
  <2>1. HZ * (b - a + i * ERA) \in Int
    BY UnitTypes
  <2> QED
    BY <1>3, <2>1 DEF Drift
<1> QED
  BY <1>5, <1>6 DEF Drift

LEMMA InitDrift == Init => Drift
<1> SUFFICES ASSUME Init PROVE Drift
  OBVIOUS
<1>1. Value(localTime) = 0 /\ Elapsed = 0
  <2>1. (0 - 0) % TICKS = 0
    BY ClockAssumption, ModIdentity
  <2>2. 0 * WORD = 0
    BY UnitTypes
  <2> QED
    BY <2>1, <2>2 DEF Init, Zero, Value, Elapsed
<1>2. HZ * 0 + WORD * 0 - 0 = 0 + 0 * (HZ * ERA) /\ 0 - HZ * 0 = 0
  BY UnitTypes
<1>3. Ahead(0, 0)
  BY <1>1, <1>2, UnitTypes DEF Init, Ahead
<1> QED
  BY <1>3 DEF Init, Drift

\* The ticks that a skipped reading leaves are less than SMALL.
LEMMA ElapsedAfterReading ==
  ASSUME TypeOK, NEW override \in BOOLEAN, now' = now, lastTick' = TickAfter(override)
  PROVE  Elapsed' \in 0 .. SMALL - 1
<1>1. CASE Skipped(override)
  <2>1. Elapsed' = Elapsed
    BY <1>1, ElapsedStays DEF TickAfter
  <2> QED
    BY <1>1, <2>1, ElapsedRange, UnitTypes DEF Skipped
<1>2. CASE ~Skipped(override)
  <2>1. Elapsed' = 0
    BY <1>2, ElapsedReset DEF TickAfter
  <2> QED
    BY <2>1, UnitTypes
<1> QED
  BY <1>1, <1>2

\* Every action keeps the drift of the clock accounted for by its readings.
LEMMA StepDrift ==
  ASSUME TypeOK, TypeOK', Drift, [Next]_vars
  PROVE  Drift'
<1>1. CASE Tick
  BY <1>1, DriftTick
<1>2. CASE xmit_packet
  <2>1. now' = now /\ truth' = truth
    BY <1>2 DEF xmit_packet
  <2>2. CASE Skipped(stage # "poll")
    <3>1. localTime' = localTime /\ lastTick' = lastTick /\ reads' = reads
      BY <1>2, <2>2 DEF xmit_packet, TimeAfter, TickAfter, ReadsAfter
    <3> QED
      BY <2>1, <3>1, DriftStays, ElapsedStays
  <2>3. CASE ~Skipped(stage # "poll")
    <3>1. localTime' = Reading /\ lastTick' = now % TICKS /\ reads' = reads + 1
      BY <1>2, <2>3 DEF xmit_packet, TimeAfter, TickAfter, ReadsAfter
    <3> QED
      BY <2>1, <3>1, DriftReads
  <2> QED
    BY <2>2, <2>3
<1>3. CASE ServerReceives \/ ServerReplies \/ NoReply \/ UNCHANGED vars
  <2>1. now' = now /\ localTime' = localTime /\ lastTick' = lastTick /\ truth' = truth
        /\ reads' = reads
    BY <1>3 DEF ServerReceives, ServerReplies, NoReply, vars, clock, history
  <2> QED
    BY <2>1, DriftStays, ElapsedStays
<1>4. ASSUME NEW t \in Stamps, settime(t) PROVE Drift'
  <2>1. now' = now /\ lastTick' = now % TICKS /\ localTime' = t /\ truth' = HZ * Value(t)
        /\ reads' = 0
    BY <1>4 DEF settime, Set
  <2>2. Elapsed' \in 0 .. SMALL - 1
    BY <2>1, ElapsedReset, UnitTypes
  <2> QED
    BY <2>1, <2>2, DriftSet
<1>5. CASE SetFromReply \/ SetFromNothing
  <2>1. xmt \in Stamps /\ Zero \in Stamps
    BY ZeroStamp DEF TypeOK
  <2> QED
    BY <1>4, <1>5, <2>1 DEF SetFromReply, SetFromNothing
<1>6. CASE recv_packet
  <2>1. now' = now /\ lastTick' = TickAfter(FALSE) /\ localTime' = rec
        /\ truth' = HZ * Value(rec) /\ reads' = 0 /\ rec \in Stamps
    BY <1>6 DEF recv_packet, Set, TypeOK
  <2> QED
    BY <2>1, ElapsedAfterReading, DriftSet
<1>7. ASSUME NEW offset \in Offsets, ReceiveAndStep(offset) PROVE Drift'
  <2>1. PICK t \in Stamps : t = localTime'
    BY DEF TypeOK
  <2>2. now' = now /\ lastTick' = TickAfter(FALSE) /\ truth' = HZ * Value(t) /\ reads' = 0
    BY <1>7, <2>1 DEF ReceiveAndStep
  <2> QED
    BY <2>1, <2>2, ElapsedAfterReading, DriftSet
<1>8. ASSUME NEW times, Correct(times) PROVE Drift'
  <2>1. now' = now /\ lastTick' = lastTick /\ reads' = reads
        /\ truth' = truth + HZ * Moved(localTime, localTime')
    BY <1>8 DEF Correct
  <2> QED
    BY <2>1, ElapsedStays, DriftMoves
<1>9. ASSUME NEW offset \in Adjustments, clock_adjust(offset) PROVE Drift'
  BY <1>8, <1>9 DEF clock_adjust
<1>10. ASSUME NEW offset \in Offsets, PollAndStep(offset) PROVE Drift'
  BY <1>8, <1>10 DEF PollAndStep
<1> QED
  BY <1>1, <1>2, <1>3, <1>5, <1>6, <1>7, <1>9, <1>10 DEF Next

(* The reading of a clock that is d ahead is in error by less than a unit  *)
(* more, whatever eras have ended.                                         *)
LEMMA DriftIsKept ==
  ASSUME TypeOK, Drift
  PROVE  ClockKeepsTicks
<1>1. PICK k, d \in Int : Ahead(k, d)
  BY DEF Drift
<1>2. PICK r \in 0 .. HZ - 1, j \in Int :
        HZ * Value(Reading) = HZ * Value(localTime) + WORD * Elapsed - r - j * (HZ * ERA)
  BY ReadingIsExact
<1>3. WORD * Elapsed \in Int /\ HZ * Value(localTime) \in Int /\ truth \in Int /\ reads \in Nat
  BY UnitTypes, ValueType, ElapsedRange DEF TypeOK, Drift
<1>4. PICK x, m, i \in Int : x = d - r /\ m = HZ * ERA /\ i = k - j
  BY UnitTypes
<1>5. HZ * Value(Reading) - truth = x + i * m
  <2>1. i * m = k * (HZ * ERA) - j * (HZ * ERA)
        /\ k * (HZ * ERA) \in Int /\ j * (HZ * ERA) \in Int
    BY <1>4, UnitTypes
  <2> QED
    BY <1>1, <1>2, <1>3, <1>4, <2>1 DEF Ahead
<1>6. (HZ * Value(Reading) - truth) % (HZ * ERA) = x % m
  <2>1. m \in Nat /\ m > 0
    BY <1>4, UnitTypes
  <2>2. (x + i * m) % m = x % m
    BY <1>4, <2>1, ModShift
  <2> QED
    BY <1>4, <1>5, <2>2
<1>7. PICK y, z \in Int : y = SMALL * WORD /\ z = HZ * (reads + 1)
  BY <1>3, UnitTypes
<1>8. x < y /\ x > 0 - z
  <2>1. HZ * (reads + 1) = HZ * reads + HZ /\ HZ * reads \in Int
    BY <1>3, UnitTypes
  <2> QED
    BY <1>1, <1>4, <1>7, <2>1, UnitTypes DEF Ahead
<1>9. m \in Nat /\ m > 0
  BY <1>4, UnitTypes
<1>10. x % m < y \/ x % m > m - z
  <2>1. PICK q \in Int, e \in 0 .. m - 1 : e = x % m /\ x = q * m + e
    BY <1>4, <1>9, DivMod
  <2>2. CASE q >= 0
    <3>1. \A a, b \in Nat : a * b \in Nat
      OBVIOUS
    <3>2. q * m \in Nat
      BY <2>2, <3>1, <1>9
    <3> QED
      BY <2>1, <3>2, <1>4, <1>7, <1>8
  <2>3. CASE q <= -1
    <3>1. q * m <= -m
      BY <2>3, <1>9, NegativeApart
    <3>2. q * m \in Int
      BY <1>9
    <3> QED
      BY <2>1, <3>1, <3>2, <1>4, <1>7, <1>8
  <2> QED
    BY <2>2, <2>3
<1> QED
  BY <1>4, <1>6, <1>7, <1>10 DEF ClockKeepsTicks

----------------------------------------------------------------------------
(* subtract_uint64_t() gives the magnitude of any difference.              *)

LEMMA StampBounds ==
  ASSUME NEW x \in Stamps
  PROVE  /\ x[1] \in Int /\ 0 <= x[1] /\ x[1] < WORD
         /\ x[2] \in Int /\ 0 <= x[2] /\ x[2] < WORD
         /\ x[1] * WORD \in Int /\ Value(x) = x[1] * WORD + x[2]
<1>1. /\ x[1] \in Int /\ 0 <= x[1] /\ x[1] < WORD /\ WORD \in Int
      /\ x[2] \in Int /\ 0 <= x[2] /\ x[2] < WORD
  BY StampWords, WordsAreInts, WordFacts
<1> QED
  BY <1>1 DEF Value

LEMMA PairIsStamp ==
  ASSUME NEW a \in Int, NEW b \in Int, 0 <= a, a < WORD, 0 <= b, b < WORD
  PROVE  <<a, b>> \in Stamps /\ Value(<<a, b>>) = a * WORD + b
BY WordFacts DEF Stamps, Words, Value

\* The order of the words is that of the values.
LEMMA BeforeIsLess ==
  ASSUME NEW x \in Stamps, NEW y \in Stamps
  PROVE  Before(x, y) <=> Value(x) < Value(y)
<1>1. /\ x[1] \in Int /\ x[2] \in Int /\ 0 <= x[2] /\ x[2] < WORD
      /\ Value(x) = x[1] * WORD + x[2] /\ x[1] * WORD \in Int
      /\ y[1] \in Int /\ y[2] \in Int /\ 0 <= y[2] /\ y[2] < WORD
      /\ Value(y) = y[1] * WORD + y[2] /\ y[1] * WORD \in Int
      /\ WORD \in Nat
  BY StampBounds, WordFacts
<1>2. ASSUME NEW a \in Int, NEW b \in Int, a < b
      PROVE  a * WORD + WORD <= b * WORD
  <2>1. (a - b) * WORD <= -WORD
    BY <1>1, <1>2, NegativeApart
  <2>2. (a - b) * WORD = a * WORD - b * WORD /\ a * WORD \in Int /\ b * WORD \in Int
    BY <1>1
  <2> QED
    BY <1>1, <2>1, <2>2
<1>3. CASE x[1] = y[1]
  BY <1>1, <1>3 DEF Before
<1>4. CASE x[1] < y[1]
  <2>1. x[1] * WORD + WORD <= y[1] * WORD
    BY <1>1, <1>2, <1>4
  <2> QED
    BY <1>1, <1>4, <2>1 DEF Before
<1>5. CASE y[1] < x[1]
  <2>1. y[1] * WORD + WORD <= x[1] * WORD
    BY <1>1, <1>2, <1>5
  <2> QED
    BY <1>1, <1>5, <2>1 DEF Before
<1> QED
  BY <1>1, <1>3, <1>4, <1>5

\* subtract_uint64_t() returns the magnitude of every difference of timestamps:
\* the sign is never part of it.
THEOREM DifferenceIsMagnitude ==
  ASSUME NEW x \in Stamps, NEW y \in Stamps
  PROVE  /\ subtract_uint64_t(x, y) \in Stamps
         /\ Value(subtract_uint64_t(x, y)) = Magnitude(Value(x) - Value(y))
<1>1. /\ x[1] \in Int /\ 0 <= x[1] /\ x[1] < WORD /\ x[2] \in Int /\ 0 <= x[2] /\ x[2] < WORD
      /\ y[1] \in Int /\ 0 <= y[1] /\ y[1] < WORD /\ y[2] \in Int /\ 0 <= y[2] /\ y[2] < WORD
      /\ WORD \in Nat /\ WORD > 0
  BY StampBounds, WordFacts
<1>2. /\ x[1] * WORD \in Int /\ Value(x) = x[1] * WORD + x[2]
      /\ y[1] * WORD \in Int /\ Value(y) = y[1] * WORD + y[2]
  BY StampBounds
<1> DEFINE z == subtract_uint64_t(x, y)
           d == Value(x) - Value(y)
<1>3. d \in Int /\ d = x[1] * WORD - y[1] * WORD + (x[2] - y[2])
  BY <1>1, <1>2
<1>4. Before(x, y) <=> d < 0
  BY <1>2, <1>1, BeforeIsLess
<1>5. \A a, b, w \in Int : (a - b) * w = a * w - b * w /\ (a - b - 1) * w = a * w - b * w - w
  OBVIOUS
<1>6. /\ (x[1] - y[1]) * WORD = x[1] * WORD - y[1] * WORD
      /\ (x[1] - y[1] - 1) * WORD = x[1] * WORD - y[1] * WORD - WORD
      /\ (y[1] - x[1]) * WORD = y[1] * WORD - x[1] * WORD
      /\ (y[1] - x[1] - 1) * WORD = y[1] * WORD - x[1] * WORD - WORD
  <2>1. WORD \in Int /\ x[1] \in Int /\ y[1] \in Int
    BY <1>1
  <2>2. (x[1] - y[1]) * WORD = x[1] * WORD - y[1] * WORD
    BY <2>1, <1>5, Zenon
  <2>3. (x[1] - y[1] - 1) * WORD = x[1] * WORD - y[1] * WORD - WORD
    BY <2>1, <1>5, Zenon
  <2>4. (y[1] - x[1]) * WORD = y[1] * WORD - x[1] * WORD
    BY <2>1, <1>5, Zenon
  <2>5. (y[1] - x[1] - 1) * WORD = y[1] * WORD - x[1] * WORD - WORD
    BY <2>1, <1>5, Zenon
  <2> QED
    BY <2>2, <2>3, <2>4, <2>5
<1> HIDE DEF d
<1>7. CASE ~Before(x, y) /\ x[2] >= y[2]
  <2>1. Borrow(x, y) = 0 /\ x[1] >= y[1]
    BY <1>1, <1>7 DEF Borrow, Before
  <2>2. (x[1] - y[1] - 0) % WORD = x[1] - y[1] /\ (x[2] - y[2]) % WORD = x[2] - y[2]
    BY <1>1, <1>7, <2>1, ModIdentity
  <2>3. z = <<x[1] - y[1], x[2] - y[2]>>
    BY <1>7, <2>1, <2>2 DEF subtract_uint64_t, Raw
  <2>4. z \in Stamps /\ Value(z) = (x[1] - y[1]) * WORD + (x[2] - y[2])
    BY <1>1, <1>7, <2>1, <2>3, PairIsStamp
  <2>5. Value(z) = d
    BY <2>4, <1>3, <1>6
  <2> QED
    BY <2>4, <2>5, <1>3, <1>4, <1>7 DEF Magnitude, d
<1>8. CASE ~Before(x, y) /\ x[2] < y[2]
  <2>1. Borrow(x, y) = 1 /\ x[1] >= y[1] + 1
    BY <1>1, <1>8 DEF Borrow, Before
  <2>2. (x[1] - y[1] - 1) % WORD = x[1] - y[1] - 1 /\ (x[2] - y[2]) % WORD = x[2] - y[2] + WORD
    BY <1>1, <1>8, <2>1, ModIdentity, ModBelow
  <2>3. z = <<x[1] - y[1] - 1, x[2] - y[2] + WORD>>
    BY <1>8, <2>1, <2>2 DEF subtract_uint64_t, Raw
  <2>4. z \in Stamps /\ Value(z) = (x[1] - y[1] - 1) * WORD + (x[2] - y[2] + WORD)
    BY <1>1, <1>8, <2>1, <2>3, PairIsStamp
  <2>5. Value(z) = d
    BY <1>1, <1>2, <2>4, <1>3, <1>6
  <2> QED
    BY <2>4, <2>5, <1>3, <1>4, <1>8 DEF Magnitude, d
<1>9. CASE Before(x, y) /\ x[2] >= y[2]
  <2>1. Borrow(x, y) = 0 /\ x[1] < y[1]
    BY <1>1, <1>9 DEF Borrow, Before
  <2>2. (x[1] - y[1] - 0) % WORD = x[1] - y[1] + WORD /\ (x[2] - y[2]) % WORD = x[2] - y[2]
    BY <1>1, <1>9, <2>1, ModIdentity, ModBelow
  <2>3. z = Negated(<<x[1] - y[1] + WORD, x[2] - y[2]>>)
    BY <1>9, <2>1, <2>2 DEF subtract_uint64_t, Raw
  <2>4. CASE x[2] = y[2]
    <3>1. (0 - (x[1] - y[1] + WORD)) % WORD = y[1] - x[1]
      BY <1>1, <2>1, ModBelow
    <3>2. z = <<y[1] - x[1], 0>>
      BY <1>1, <2>3, <2>4, <3>1 DEF Negated
    <3>3. z \in Stamps /\ Value(z) = (y[1] - x[1]) * WORD + 0
      BY <1>1, <2>1, <3>2, PairIsStamp
    <3>4. Value(z) = 0 - d
      BY <3>3, <1>1, <1>2, <1>3, <1>6, <2>4
    <3> QED
      BY <3>3, <3>4, <1>3, <1>4, <1>9 DEF Magnitude, d
  <2>5. CASE x[2] > y[2]
    <3>1. (0 - (x[1] - y[1] + WORD) - 1) % WORD = y[1] - x[1] - 1
      BY <1>1, <2>1, ModBelow
    <3>2. z = <<y[1] - x[1] - 1, WORD - (x[2] - y[2])>>
      BY <1>1, <2>3, <2>5, <3>1 DEF Negated
    <3>3. z \in Stamps /\ Value(z) = (y[1] - x[1] - 1) * WORD + (WORD - (x[2] - y[2]))
      BY <1>1, <2>1, <2>5, <3>2, PairIsStamp
    <3>4. Value(z) = 0 - d
      BY <3>3, <1>1, <1>2, <1>3, <1>6
    <3> QED
      BY <3>3, <3>4, <1>3, <1>4, <1>9 DEF Magnitude, d
  <2> QED
    BY <2>4, <2>5, <1>1, <1>9
<1>10. CASE Before(x, y) /\ x[2] < y[2]
  <2>1. Borrow(x, y) = 1 /\ x[1] <= y[1]
    BY <1>1, <1>10 DEF Borrow, Before
  <2>2. /\ (x[1] - y[1] - 1) % WORD = x[1] - y[1] - 1 + WORD
        /\ (x[2] - y[2]) % WORD = x[2] - y[2] + WORD
    BY <1>1, <1>10, <2>1, ModBelow
  <2>3. z = Negated(<<x[1] - y[1] - 1 + WORD, x[2] - y[2] + WORD>>)
    BY <1>10, <2>1, <2>2 DEF subtract_uint64_t, Raw
  <2>4. (0 - (x[1] - y[1] - 1 + WORD) - 1) % WORD = y[1] - x[1]
    BY <1>1, <2>1, ModBelow
  <2>5. z = <<y[1] - x[1], y[2] - x[2]>>
    <3>1. x[2] - y[2] + WORD # 0 /\ WORD - (x[2] - y[2] + WORD) = y[2] - x[2]
      BY <1>1
    <3> QED
      BY <2>3, <2>4, <3>1 DEF Negated
  <2>6. z \in Stamps /\ Value(z) = (y[1] - x[1]) * WORD + (y[2] - x[2])
    BY <1>1, <1>10, <2>1, <2>5, PairIsStamp
  <2>7. Value(z) = 0 - d
    BY <2>6, <1>1, <1>2, <1>3, <1>6
  <2> QED
    BY <2>6, <2>7, <1>3, <1>4, <1>10 DEF Magnitude, d
<1> QED
  BY <1>1, <1>7, <1>8, <1>9, <1>10

\* The lower half of all differences reads the same with and without a sign.
LEMMA SignedSmall ==
  ASSUME NEW t \in Stamps, Value(t) < HALF * WORD
  PROVE  Signed(t) = Value(t)
<1>1. /\ t[1] \in Int /\ t[1] * WORD \in Int /\ Value(t) = t[1] * WORD + t[2]
      /\ t[2] \in Int /\ 0 <= t[2] /\ WORD \in Nat /\ HALF \in Nat
  BY StampBounds, WordFacts
<1>2. ~ (t[1] >= HALF)
  <2> SUFFICES ASSUME t[1] >= HALF PROVE FALSE
    OBVIOUS
  <2>1. \A a, b \in Nat : a * b \in Nat
    OBVIOUS
  <2>2. (t[1] - HALF) * WORD \in Nat
    BY <1>1, <2>1
  <2>3. \A a, b, w \in Int : (a - b) * w = a * w - b * w /\ b * w \in Int
    OBVIOUS
  <2>4. (t[1] - HALF) * WORD = t[1] * WORD - HALF * WORD /\ HALF * WORD \in Int
    <3>1. t[1] \in Int /\ HALF \in Int /\ WORD \in Int
      BY <1>1
    <3> QED
      BY <3>1, <2>3, Zenon
  <2> QED
    BY <1>1, <2>2, <2>4
<1>3. SignedWord(t[1]) = t[1]
  BY <1>1, <1>2 DEF SignedWord
<1> QED
  BY <1>1, <1>3 DEF Signed

LEMMA StampValues ==
  ASSUME NEW t \in Stamps
  PROVE  Value(t) \in Int /\ 0 <= Value(t) /\ Value(t) < ERA
BY ValueType

(* packet() adds no more than a sign: between two clocks that go forward   *)
(* the delay is the magnitude of what the exchange took less what the      *)
(* server held the packet.                                                 *)
LEMMA DelayIsMagnitude ==
  ASSUME NEW o \in Stamps, NEW r \in Stamps, NEW x \in Stamps, NEW d \in Stamps,
         ~Before(d, o), ~Before(x, r),
         NEW out \in Int, out = Value(d) - Value(o), out < HALF * WORD,
         NEW held \in Int, held = Value(x) - Value(r), held < HALF * WORD
  PROVE  Delay(o, r, x, d) = Magnitude(out - held)
<1>1. /\ Value(o) \in Int /\ Value(r) \in Int /\ Value(x) \in Int /\ Value(d) \in Int
      /\ HALF * WORD \in Int
  <2>1. HALF * WORD \in Int
    BY WordFacts
  <2> QED
    BY <2>1, StampValues
<1>2. out >= 0 /\ held >= 0
  BY <1>1, BeforeIsLess
<1>3. PICK a \in Stamps : a = subtract_uint64_t(d, o) /\ Value(a) = out
  <2>1. subtract_uint64_t(d, o) \in Stamps
    BY DifferenceIsMagnitude
  <2>2. Value(subtract_uint64_t(d, o)) = Magnitude(Value(d) - Value(o))
    BY DifferenceIsMagnitude
  <2>3. Magnitude(Value(d) - Value(o)) = out
    BY <1>2 DEF Magnitude
  <2> QED
    BY <2>1, <2>2, <2>3
<1>4. PICK b \in Stamps : b = subtract_uint64_t(r, x) /\ Value(b) = held
  <2>1. subtract_uint64_t(r, x) \in Stamps
    BY DifferenceIsMagnitude
  <2>2. Value(subtract_uint64_t(r, x)) = Magnitude(Value(r) - Value(x))
    BY DifferenceIsMagnitude
  <2>3. Magnitude(Value(r) - Value(x)) = held
    BY <1>1, <1>2 DEF Magnitude
  <2> QED
    BY <2>1, <2>2, <2>3
<1>5. PICK c \in Stamps : c = subtract_uint64_t(a, b) /\ Value(c) = Magnitude(out - held)
  <2>1. subtract_uint64_t(a, b) \in Stamps
    BY DifferenceIsMagnitude
  <2>2. Value(subtract_uint64_t(a, b)) = Magnitude(Value(a) - Value(b))
    BY DifferenceIsMagnitude
  <2> QED
    BY <2>1, <2>2, <1>3, <1>4
<1>6. Magnitude(out - held) < HALF * WORD
  BY <1>1, <1>2 DEF Magnitude
<1>7. Signed(c) = Magnitude(out - held)
  BY <1>5, <1>6, SignedSmall
<1> QED
  BY <1>3, <1>4, <1>5, <1>7 DEF Delay

----------------------------------------------------------------------------
(* The exchange under way.                                                 *)

\* s is the server's time at tick t, whole fractions of a second of some era.
TimeOf(s, t) ==
  \E k, u \in Int : /\ Value(s) = Base + u - k * ERA
                    /\ u * HZ <= t * WORD /\ t * WORD < u * HZ + HZ

\* The clock shows what it showed when the request was sent, and as many ticks
\* have passed since, but for those its reading skipped; the server held the
\* packet no longer.
InFlight ==
  /\ pc # "idle" => localTime = org /\ Elapsed - (now - sentAt) \in 0 .. SMALL - 1
  /\ pc = "served" => \E t \in sentAt .. now : TimeOf(rec, t)
  /\ pc = "replied" /\ ~Before(xmt, rec) =>
       HZ * (Value(xmt) - Value(rec)) <= (now - sentAt) * WORD + HZ - 1

\* The clock of a server shows the time of the tick count.
LEMMA ServerTimeIsNow ==
  ASSUME TypeOK
  PROVE  TimeOf(ServerTime, now)
<1>1. now \in Int /\ WORD \in Nat /\ WORD > 0 /\ HZ \in Nat /\ HZ > 0 /\ Base \in Int
      /\ ERA \in Nat /\ ERA > 0
  BY UnitTypes, ClockAssumption DEF TypeOK
<1>2. now * WORD \in Int
  BY <1>1
<1>3. PICK u \in Int, r \in 0 .. HZ - 1 :
        u = (now * WORD) \div HZ /\ r = (now * WORD) % HZ /\ now * WORD = u * HZ + r
  BY <1>1, <1>2, DivMod, Zenon
<1>4. PICK k \in Int, v \in 0 .. ERA - 1 :
        k = (Base + u) \div ERA /\ v = (Base + u) % ERA /\ Base + u = k * ERA + v
  <2>1. Base + u \in Int
    BY <1>1
  <2> QED
    BY <1>1, <2>1, DivMod, Zenon
<1>5. PICK q \in Int, w \in 0 .. WORD - 1 : q = v \div WORD /\ w = v % WORD /\ v = q * WORD + w
  <2>1. v \in Int
    OBVIOUS
  <2> QED
    BY <1>1, <2>1, DivMod, Zenon
<1>6. ServerTime = <<q, w>>
  BY <1>3, <1>4, <1>5, Zenon DEF ServerTime
<1>7. Value(ServerTime) = Base + u - k * ERA
  <2>1. Value(ServerTime) = v
    BY <1>5, <1>6 DEF Value
  <2>2. k * ERA \in Int
    BY <1>1
  <2> QED
    BY <1>1, <1>4, <2>1, <2>2
<1>8. u * HZ <= now * WORD /\ now * WORD < u * HZ + HZ
  <2>1. u * HZ \in Int
    BY <1>1
  <2> QED
    BY <1>1, <1>2, <1>3, <2>1
<1> QED
  BY <1>7, <1>8 DEF TimeOf

\* Two times of the server are apart by what has passed, to within a fraction.
LEMMA HeldNoLonger ==
  ASSUME NEW x \in Stamps, NEW y \in Stamps, NEW t1 \in Nat, NEW t2 \in Nat, t1 <= t2,
         TimeOf(x, t1), TimeOf(y, t2), ~Before(y, x)
  PROVE  HZ * (Value(y) - Value(x)) <= (t2 - t1) * WORD + HZ - 1
<1>1. PICK k1, u1 \in Int : /\ Value(x) = Base + u1 - k1 * ERA
                            /\ u1 * HZ <= t1 * WORD /\ t1 * WORD < u1 * HZ + HZ
  BY DEF TimeOf
<1>2. PICK k2, u2 \in Int : /\ Value(y) = Base + u2 - k2 * ERA
                            /\ u2 * HZ <= t2 * WORD /\ t2 * WORD < u2 * HZ + HZ
  BY DEF TimeOf
<1>3. WORD \in Nat /\ WORD > 0 /\ HZ \in Nat /\ HZ > 0 /\ Base \in Int /\ ERA \in Nat /\ ERA > 0
  BY UnitTypes, ClockAssumption
<1>4. /\ t1 * WORD \in Int /\ t2 * WORD \in Int /\ u1 * HZ \in Int /\ u2 * HZ \in Int
      /\ k1 * ERA \in Int /\ k2 * ERA \in Int
  BY <1>3
<1>5. /\ (t2 - t1) * WORD = t2 * WORD - t1 * WORD
      /\ (u2 - u1) * HZ = u2 * HZ - u1 * HZ /\ (k2 - k1) * ERA = k2 * ERA - k1 * ERA
  BY <1>3
<1>6. PICK held, delta, i \in Int :
        held = Value(y) - Value(x) /\ delta = u2 - u1 /\ i = k2 - k1
  BY StampValues
<1>7. held >= 0 /\ held < ERA
  BY <1>6, <1>3, StampValues, BeforeIsLess
<1>8. held = delta - i * ERA /\ i * ERA \in Int
  BY <1>1, <1>2, <1>3, <1>4, <1>5, <1>6
<1>9. delta * HZ \in Int /\ delta * HZ > 0 - HZ /\ delta * HZ <= (t2 - t1) * WORD + HZ - 1
  <2>1. (t2 - t1) * WORD >= 0
    <3>1. \A a, b \in Nat : a * b \in Nat
      OBVIOUS
    <3>2. t2 - t1 \in Nat
      OBVIOUS
    <3> QED
      BY <1>3, <3>1, <3>2
  <2>2. delta * HZ = u2 * HZ - u1 * HZ
    BY <1>5, <1>6
  <2> QED
    BY <1>1, <1>2, <1>3, <1>4, <1>5, <2>1, <2>2
<1>10. delta >= 0
  <2> SUFFICES ASSUME delta <= -1 PROVE FALSE
    BY <1>6
  <2>1. delta * HZ <= -HZ
    BY <1>3, NegativeApart
  <2> QED
    BY <2>1, <1>3, <1>9
<1>11. i >= 0
  <2> SUFFICES ASSUME i <= -1 PROVE FALSE
    BY <1>6
  <2>1. i * ERA <= -ERA
    BY <1>3, NegativeApart
  <2> QED
    BY <2>1, <1>3, <1>7, <1>8, <1>10
<1>12. held <= delta
  <2>1. \A a, b \in Nat : a * b \in Nat
    OBVIOUS
  <2>2. i * ERA \in Nat
    BY <1>3, <1>11, <2>1
  <2> QED
    BY <1>8, <2>2
<1>13. HZ * held <= delta * HZ
  <2>1. \A a, b \in Nat : a * b \in Nat
    OBVIOUS
  <2>2. (delta - held) * HZ \in Nat
    BY <1>3, <1>12, <2>1
  <2>3. (delta - held) * HZ = delta * HZ - HZ * held /\ HZ * held \in Int
    BY <1>3
  <2> QED
    BY <2>2, <2>3, <1>9
<1>14. HZ * held \in Int /\ (t2 - t1) * WORD \in Int
  BY <1>3
<1> QED
  BY <1>6, <1>9, <1>13, <1>14, <1>3

\* Every action keeps the times of the exchange under way in their order.
LEMMA StepInFlight ==
  ASSUME TypeOK, InFlight, [Next]_vars
  PROVE  InFlight'
<1>1. CASE Tick
  <2>1. /\ now' = now + 1 /\ Elapsed' = Elapsed + 1 /\ pc' = pc /\ localTime' = localTime
        /\ org' = org /\ rec' = rec /\ xmt' = xmt /\ sentAt' = sentAt
    BY <1>1, ElapsedTicks DEF Tick, clock, exchange
  <2>2. now \in Nat /\ sentAt \in 0 .. now /\ Elapsed \in Int /\ SMALL \in Nat
    BY ElapsedRange, UnitTypes DEF TypeOK
  <2>3. (pc # "idle" => localTime = org /\ Elapsed - (now - sentAt) \in 0 .. SMALL - 1)'
    BY <2>1, <2>2 DEF InFlight
  <2>4. (pc = "served" => \E t \in sentAt .. now : TimeOf(rec, t))'
    <3> SUFFICES ASSUME pc = "served"
                 PROVE  \E t \in sentAt .. now + 1 : TimeOf(rec, t)'
      BY <2>1
    <3>1. PICK t \in sentAt .. now : TimeOf(rec, t)
      BY DEF InFlight
    <3>2. TimeOf(rec, t)'
      BY <2>1, <3>1 DEF TimeOf, Value
    <3> QED
      BY <2>2, <3>2
  <2>5. (pc = "replied" /\ ~Before(xmt, rec) =>
           HZ * (Value(xmt) - Value(rec)) <= (now - sentAt) * WORD + HZ - 1)'
    <3> SUFFICES ASSUME pc = "replied", ~Before(xmt, rec)
                 PROVE  HZ * (Value(xmt) - Value(rec)) <= (now + 1 - sentAt) * WORD + HZ - 1
      <4>1. (~Before(xmt, rec))' <=> ~Before(xmt, rec)
        BY <2>1 DEF Before
      <4>2. PICK d : d = HZ * (Value(xmt) - Value(rec))
        OBVIOUS
      <4>3. (HZ * (Value(xmt) - Value(rec)))' = d
        BY <2>1, <4>2 DEF Value
      <4>4. ((now - sentAt) * WORD + HZ - 1)' = (now + 1 - sentAt) * WORD + HZ - 1
        BY <2>1, <2>2, UnitTypes
      <4> QED
        BY <2>1, <4>1, <4>2, <4>3, <4>4
    <3>1. HZ * (Value(xmt) - Value(rec)) <= (now - sentAt) * WORD + HZ - 1
      BY DEF InFlight
    <3>2. (now + 1 - sentAt) * WORD = (now - sentAt) * WORD + WORD
          /\ (now - sentAt) * WORD \in Int
      BY <2>2, UnitTypes
    <3>3. HZ * (Value(xmt) - Value(rec)) \in Int
      <4>1. Value(xmt) \in Int /\ Value(rec) \in Int
        BY StampValues DEF TypeOK
      <4> QED
        BY <4>1, UnitTypes
    <3> QED
      BY <3>1, <3>2, <3>3, UnitTypes
  <2> QED
    BY <2>3, <2>4, <2>5 DEF InFlight
<1>2. CASE xmit_packet
  <2>1. now' = now /\ lastTick' = TickAfter(stage # "poll") /\ pc' = "sent"
        /\ sentAt' = now /\ org' = localTime'
    BY <1>2 DEF xmit_packet
  <2>2. Elapsed' \in 0 .. SMALL - 1
    BY <2>1, ElapsedAfterReading
  <2>3. now \in Int /\ SMALL \in Nat
    BY UnitTypes DEF TypeOK
  <2>4. (Elapsed - (now - sentAt))' \in 0 .. SMALL - 1
    <3>1. now' - sentAt' = 0
      BY <2>1, <2>3
    <3>2. PICK e \in 0 .. SMALL - 1 : e = Elapsed'
      BY <2>2
    <3> QED
      BY <2>3, <3>1, <3>2
  <2> QED
    BY <2>1, <2>4 DEF InFlight
<1>3. CASE ServerReceives
  <2>1. /\ now' = now /\ lastTick' = lastTick /\ localTime' = localTime /\ org' = org
        /\ sentAt' = sentAt /\ pc = "sent" /\ pc' = "served" /\ rec' = ServerTime
    BY <1>3 DEF ServerReceives, clock
  <2>2. Elapsed' = Elapsed
    BY <2>1, ElapsedStays
  <2>3. TimeOf(rec, now)'
    <3>1. TimeOf(ServerTime, now)
      BY ServerTimeIsNow
    <3>2. PICK s : s = ServerTime
      OBVIOUS
    <3> QED
      BY <2>1, <3>1, <3>2 DEF TimeOf, Value
  <2>4. now \in sentAt .. now
    BY DEF TypeOK
  <2>5. (\E t \in sentAt .. now : TimeOf(rec, t))'
    BY <2>1, <2>3, <2>4
  <2> QED
    BY <2>1, <2>2, <2>5 DEF InFlight
<1>4. CASE ServerReplies
  <2>1. /\ now' = now /\ lastTick' = lastTick /\ localTime' = localTime /\ org' = org
        /\ sentAt' = sentAt /\ rec' = rec /\ pc = "served" /\ pc' = "replied"
        /\ xmt' = ServerTime
    BY <1>4 DEF ServerReplies, clock
  <2>2. Elapsed' = Elapsed
    BY <2>1, ElapsedStays
  <2>3. PICK s \in Stamps : s = ServerTime
    BY ServerStamps
  <2>4. PICK t \in sentAt .. now : TimeOf(rec, t)
    BY <2>1 DEF InFlight
  <2>5. rec \in Stamps /\ t \in Nat /\ now \in Nat /\ t <= now /\ sentAt \in Nat /\ sentAt <= t
    BY DEF TypeOK
  <2>6. TimeOf(s, now)
    BY <2>3, ServerTimeIsNow
  <2>7. ~Before(s, rec) => HZ * (Value(s) - Value(rec)) <= (now - t) * WORD + HZ - 1
    BY <2>4, <2>5, <2>6, HeldNoLonger
  <2>8. (now - t) * WORD <= (now - sentAt) * WORD
        /\ (now - t) * WORD \in Int /\ (now - sentAt) * WORD \in Int
    <3>1. \A a, b \in Nat : a * b \in Nat
      OBVIOUS
    <3>2. t - sentAt \in Nat
      BY <2>5
    <3>3. (t - sentAt) * WORD \in Nat
      BY <3>1, <3>2, UnitTypes
    <3>4. (t - sentAt) * WORD = (now - sentAt) * WORD - (now - t) * WORD
          /\ (now - t) * WORD \in Int /\ (now - sentAt) * WORD \in Int
      BY <2>5, UnitTypes
    <3> QED
      BY <3>3, <3>4
  <2>9. ~Before(s, rec) => HZ * (Value(s) - Value(rec)) <= (now - sentAt) * WORD + HZ - 1
    <3>1. HZ * (Value(s) - Value(rec)) \in Int
      BY <2>5, StampValues, UnitTypes
    <3> QED
      BY <2>7, <2>8, <3>1, UnitTypes
  <2>10. ~Before(xmt, rec)' => (HZ * (Value(xmt) - Value(rec)) <= (now - sentAt) * WORD + HZ - 1)'
    BY <2>1, <2>3, <2>9 DEF Before, Value
  <2> QED
    BY <2>1, <2>2, <2>10 DEF InFlight
<1>5. CASE pc' = "idle"
  BY <1>5 DEF InFlight
<1>6. CASE SetFromReply \/ SetFromNothing \/ NoReply \/ recv_packet
           \/ (\E offset \in Offsets : ReceiveAndStep(offset))
  <2>1. Ends
    BY <1>6 DEF SetFromReply, SetFromNothing, settime, NoReply, recv_packet, ReceiveAndStep
  <2> QED
    BY <2>1, <1>5 DEF Ends
<1>7. CASE \/ \E offset \in Adjustments : clock_adjust(offset)
           \/ \E offset \in Offsets : PollAndStep(offset)
  BY <1>5, <1>7 DEF clock_adjust, PollAndStep, Correct
<1>8. CASE UNCHANGED vars
  <2>1. /\ now' = now /\ lastTick' = lastTick /\ localTime' = localTime /\ org' = org
        /\ sentAt' = sentAt /\ rec' = rec /\ pc' = pc /\ xmt' = xmt
    BY <1>8 DEF vars, clock, exchange
  <2>2. Elapsed' = Elapsed
    BY <2>1, ElapsedStays
  <2> QED
    BY <2>1, <2>2 DEF InFlight, TimeOf, Before, Value
<1> QED
  BY <1>1, <1>2, <1>3, <1>4, <1>6, <1>7, <1>8 DEF Next

----------------------------------------------------------------------------
(* What the two clocks show of the exchange.                               *)

\* Half of an era is more than the count and an era is even.
LEMMA HalfEra ==
  /\ HALF * WORD \in Nat /\ ERA = 2 * (HALF * WORD)
  /\ HZ * ERA = 2 * (HZ * (HALF * WORD)) /\ HZ * (HALF * WORD) \in Nat
  /\ 2 * (TICKS * WORD) <= HZ * ERA /\ TICKS * WORD \in Nat
  /\ HZ <= WORD
<1>1. HALF \in Nat /\ WORD = 2 * HALF /\ WORD \in Nat /\ HZ \in Nat /\ TICKS \in Nat
  BY WordFacts, ClockAssumption
<1>2. 2 * TICKS <= HZ * WORD /\ HZ <= WORD
  BY WidthAssumption
<1>3. \A a, b \in Nat : a * b \in Nat
  OBVIOUS
<1>4. HALF * WORD \in Nat /\ TICKS * WORD \in Nat
  BY <1>1, <1>3
<1>5. HZ * (HALF * WORD) \in Nat /\ HZ * WORD \in Nat
  BY <1>1, <1>3, <1>4
<1>6. \A a, b, h \in Int : (2 * a) * b = 2 * (a * b) /\ h * (2 * a) = 2 * (h * a)
  OBVIOUS
<1>7. ERA = 2 * (HALF * WORD)
  <2>1. HALF \in Int /\ WORD \in Int
    BY <1>1
  <2> QED
    BY <2>1, <1>1, <1>6, Zenon DEF ERA
<1>8. HZ * ERA = 2 * (HZ * (HALF * WORD))
  <2>1. HZ \in Int /\ HALF * WORD \in Int
    BY <1>1, <1>4
  <2> QED
    BY <2>1, <1>6, <1>7, Zenon
<1>9. 2 * (TICKS * WORD) <= HZ * ERA
  <2>1. (HZ * WORD - 2 * TICKS) * WORD \in Nat
    <3>1. HZ * WORD - 2 * TICKS \in Nat
      BY <1>1, <1>2, <1>5
    <3> QED
      BY <3>1, <1>1, <1>3
  <2>2. \A h, t, w \in Int : (h * w - 2 * t) * w = h * (w * w) - 2 * (t * w)
    OBVIOUS
  <2>3. (HZ * WORD - 2 * TICKS) * WORD = HZ * ERA - 2 * (TICKS * WORD)
    <3>1. HZ \in Int /\ TICKS \in Int /\ WORD \in Int
      BY <1>1
    <3> QED
      BY <3>1, <2>2, Zenon DEF ERA
  <2>4. HZ * ERA \in Int /\ TICKS * WORD \in Int
    BY <1>4, <1>5, <1>8
  <2> QED
    BY <2>1, <2>3, <2>4
<1> QED
  BY <1>2, <1>4, <1>5, <1>7, <1>8, <1>9

LEMMA HalfOf ==
  ASSUME NEW v \in Int, NEW h \in Nat, h > 0, NEW half \in Nat,
         2 * (h * v) < 2 * (h * half)
  PROVE  v < half
<1> SUFFICES ASSUME v >= half PROVE FALSE
  OBVIOUS
<1>1. \A a, b \in Nat : a * b \in Nat
  OBVIOUS
<1>2. h * (v - half) \in Nat
  BY <1>1
<1>3. h * (v - half) = h * v - h * half /\ h * v \in Int /\ h * half \in Int
  OBVIOUS
<1> QED
  BY <1>2, <1>3

\* The next reading counts the ticks of the exchange, and the skipped ones if any,
\* before the tick count wraps.
LEMMA TripTicks ==
  ASSUME TypeOK, InFlight, pc # "idle"
  PROVE  /\ now - sentAt \in Int /\ 0 <= now - sentAt /\ now - sentAt <= Elapsed
         /\ Elapsed - (now - sentAt) < SMALL /\ Elapsed \in Int /\ Elapsed < TICKS
BY ElapsedRange, UnitTypes, ClockAssumption DEF TypeOK, InFlight

\* The clock goes forward by the ticks of the exchange, give or take those that
\* a reading skips.
LEMMA TripIsShown ==
  ASSUME TypeOK, InFlight, pc # "idle",
         NEW dst \in Stamps, ~Before(dst, org),
         \/ Skipped(FALSE) /\ dst = localTime
         \/ ~Skipped(FALSE) /\ dst = Reading,
         NEW out \in Int, out = Value(dst) - Value(org)
  PROVE  /\ out < HALF * WORD
         /\ HZ * out - (now - sentAt) * WORD < SMALL * WORD
         /\ HZ * out - (now - sentAt) * WORD > 0 - SMALL * WORD
<1>1. PICK trip, gone \in Int : trip = now - sentAt /\ gone = Elapsed
  BY TripTicks
<1>2. 0 <= trip /\ trip <= gone /\ gone - trip < SMALL /\ gone < TICKS
  BY <1>1, TripTicks
<1>3. /\ WORD \in Nat /\ WORD > 0 /\ HZ \in Nat /\ HZ > 0 /\ SMALL \in Nat /\ TICKS \in Int
      /\ HZ <= WORD /\ SMALL >= 1
  BY UnitTypes, HalfEra, ClockAssumption
<1>4. org \in Stamps /\ localTime = org
  BY DEF TypeOK, InFlight
<1>5. out >= 0 /\ out < ERA /\ ERA \in Nat
  BY <1>3, <1>4, StampValues, BeforeIsLess, UnitTypes
<1>6. \A a, b \in Nat : a * b \in Nat
  OBVIOUS
<1>7. PICK m \in Nat : m = SMALL * WORD /\ m >= WORD
  <2>1. (SMALL - 1) * WORD \in Nat
    BY <1>3, <1>6
  <2>2. (SMALL - 1) * WORD = SMALL * WORD - WORD /\ SMALL * WORD \in Int
    BY <1>3
  <2> QED
    BY <2>1, <2>2, <1>3
<1>8. PICK tw \in Nat : tw = trip * WORD
  BY <1>2, <1>3, <1>6
<1>9. CASE Skipped(FALSE)
  <2>1. out = 0 /\ HZ * out = 0
    <3>1. dst = org
      BY <1>4, <1>9
    <3> QED
      BY <3>1, <1>3, <1>4, StampValues
  <2>2. trip < SMALL
    BY <1>1, <1>2, <1>3, <1>9 DEF Skipped
  <2>3. (SMALL - 1 - trip) * WORD \in Nat
    BY <2>2, <1>2, <1>3, <1>6
  <2>4. (SMALL - 1 - trip) * WORD = SMALL * WORD - WORD - trip * WORD
        /\ SMALL * WORD \in Int /\ trip * WORD \in Int
    BY <1>3
  <2>5. HALF * WORD > 0
    BY UnitTypes, HalfEra
  <2> QED
    BY <1>1, <1>3, <1>7, <1>8, <2>1, <2>3, <2>4, <2>5
<1>10. CASE ~Skipped(FALSE)
  <2>1. PICK r \in 0 .. HZ - 1, j \in Int :
          HZ * Value(Reading) = HZ * Value(localTime) + WORD * Elapsed - r - j * (HZ * ERA)
    BY ReadingIsExact
  <2>2. PICK x, e, h \in Int : x = HZ * out /\ e = gone * WORD /\ h = HZ * ERA
    BY <1>3, UnitTypes
  <2>3. x = e - r - j * h
    <3>1. dst = Reading
      BY <1>10
    <3>2. HZ * out = HZ * Value(dst) - HZ * Value(org)
          /\ HZ * Value(dst) \in Int /\ HZ * Value(org) \in Int
      <4>1. Value(dst) \in Int /\ Value(org) \in Int
        BY <1>4, StampValues
      <4> QED
        BY <4>1, <1>3
    <3>3. WORD * Elapsed = e /\ j * h \in Int
      BY <1>1, <1>3, <2>2
    <3>4. HZ * Value(dst) = HZ * Value(org) + e - r - j * h
      BY <1>4, <2>1, <2>2, <3>1, <3>3, Zenon
    <3> QED
      BY <2>2, <3>2, <3>3, <3>4
  <2>4. e >= 0 /\ 2 * e <= h - 2 * WORD /\ h > 0
    <3>1. (TICKS - 1 - gone) * WORD \in Nat /\ gone * WORD \in Nat
      <4>1. TICKS - 1 - gone \in Nat /\ gone \in Nat
        BY <1>2, <1>3
      <4> QED
        BY <4>1, <1>3, <1>6
    <3>2. (TICKS - 1 - gone) * WORD = TICKS * WORD - WORD - gone * WORD
      BY <1>3
    <3>3. 2 * (TICKS * WORD) <= h /\ TICKS * WORD \in Int
      BY <2>2, HalfEra
    <3>4. h > 0
      BY <2>2, UnitTypes
    <3> QED
      BY <1>3, <2>2, <3>1, <3>2, <3>3, <3>4
  <2>5. x >= 0 /\ x <= h - HZ
    <3>1. HZ * out \in Nat /\ HZ * (ERA - 1 - out) \in Nat
      BY <1>3, <1>5, <1>6
    <3>2. HZ * (ERA - 1 - out) = HZ * ERA - HZ - HZ * out
      BY <1>3, <1>5
    <3> QED
      BY <1>3, <2>2, <3>1, <3>2
  <2>6. ~(j >= 1)
    <3> SUFFICES ASSUME j >= 1 PROVE FALSE
      OBVIOUS
    <3>1. j * h >= h
      <4>1. (j - 1) * h \in Nat
        BY <1>6, <2>4
      <4>2. (j - 1) * h = j * h - h /\ j * h \in Int
        OBVIOUS
      <4> QED
        BY <4>1, <4>2
    <3>2. j * h \in Int
      OBVIOUS
    <3> QED
      BY <3>1, <3>2, <2>3, <2>4, <2>5, <1>3
  <2>7. ~(j <= -1)
    <3> SUFFICES ASSUME j <= -1 PROVE FALSE
      OBVIOUS
    <3>1. j * h <= -h
      BY <2>4, NegativeApart
    <3>2. j * h \in Int
      OBVIOUS
    <3> QED
      BY <3>1, <3>2, <2>3, <2>4, <2>5, <1>3
  <2>8. x = e - r
    <3>1. j = 0
      BY <2>6, <2>7
    <3>2. 0 * h = 0
      OBVIOUS
    <3> QED
      BY <3>1, <3>2, <2>3
  <2>9. out < HALF * WORD
    <3>1. h = 2 * (HZ * (HALF * WORD)) /\ HALF * WORD \in Nat
      BY <2>2, HalfEra
    <3>2. 2 * x < h
      BY <1>3, <2>4, <2>8
    <3>3. 2 * (HZ * out) < 2 * (HZ * (HALF * WORD))
      BY <3>1, <3>2, <2>2
    <3> QED
      BY <3>1, <3>3, <1>3, HalfOf
  <2>10. e - tw >= 0 /\ e - tw <= m - WORD
    <3>1. (gone - trip) * WORD \in Nat /\ (SMALL - 1 - (gone - trip)) * WORD \in Nat
      <4>1. gone - trip \in Nat /\ SMALL - 1 - (gone - trip) \in Nat
        BY <1>2, <1>3
      <4> QED
        BY <4>1, <1>3, <1>6
    <3>2. (gone - trip) * WORD = gone * WORD - trip * WORD
          /\ (SMALL - 1 - (gone - trip)) * WORD
               = SMALL * WORD - WORD - (gone * WORD - trip * WORD)
      BY <1>3
    <3> QED
      BY <3>1, <3>2, <1>3, <1>7, <1>8, <2>2
  <2> QED
    BY <1>1, <1>3, <1>7, <1>8, <2>2, <2>8, <2>9, <2>10
<1> QED
  BY <1>9, <1>10

\* The server holds the packet for less than half of an era.
LEMMA HeldIsShown ==
  ASSUME TypeOK, InFlight, pc = "replied", ~Before(xmt, rec),
         NEW held \in Int, held = Value(xmt) - Value(rec)
  PROVE  /\ held >= 0 /\ held < HALF * WORD
         /\ HZ * held <= (now - sentAt) * WORD + HZ - 1
<1>1. PICK trip \in Int : trip = now - sentAt
  BY TripTicks
<1>2. 0 <= trip /\ trip < TICKS /\ TICKS \in Int
  BY <1>1, TripTicks, ClockAssumption
<1>3. WORD \in Nat /\ WORD > 0 /\ HZ \in Nat /\ HZ > 0 /\ HZ <= WORD
  BY UnitTypes, HalfEra
<1>4. held >= 0
  BY BeforeIsLess, StampValues DEF TypeOK
<1>5. HZ * held <= (now - sentAt) * WORD + HZ - 1
  BY DEF InFlight
<1>6. PICK x, tw \in Int : x = HZ * held /\ tw = trip * WORD
  BY <1>3
<1>7. x <= tw + HZ - 1
  BY <1>1, <1>5, <1>6
<1>8. tw <= TICKS * WORD - WORD
  <2>1. \A a, b \in Nat : a * b \in Nat
    OBVIOUS
  <2>2. (TICKS - 1 - trip) * WORD \in Nat
    BY <1>2, <1>3, <2>1
  <2>3. (TICKS - 1 - trip) * WORD = TICKS * WORD - WORD - trip * WORD /\ TICKS * WORD \in Int
    BY <1>2, <1>3
  <2> QED
    BY <1>3, <1>6, <2>2, <2>3
<1>9. 2 * x < 2 * (HZ * (HALF * WORD))
  BY <1>3, <1>6, <1>7, <1>8, HalfEra
<1>10. held < HALF * WORD
  BY <1>3, <1>6, <1>9, HalfEra, HalfOf
<1> QED
  BY <1>4, <1>5, <1>10

\* The sample packet() takes of a reply.
LEMMA TakenDelay ==
  ASSUME TypeOK, InFlight, pc = "replied",
         NEW dst \in Stamps, ~Before(dst, org), ~Before(xmt, rec),
         \/ Skipped(FALSE) /\ dst = localTime
         \/ ~Skipped(FALSE) /\ dst = Reading,
         NEW held \in Int, held = Value(xmt) - Value(rec)
  PROVE  /\ HZ * Delay(org, rec, xmt, dst) - ((now - sentAt) * WORD - HZ * held)
              < SMALL * WORD + 2 * HZ
         /\ HZ * Delay(org, rec, xmt, dst) - ((now - sentAt) * WORD - HZ * held)
              > 0 - (SMALL * WORD + 2 * HZ)
         /\ HZ * Delay(org, rec, xmt, dst) - ((now - sentAt) * WORD - HZ * held) \in Int
<1>1. org \in Stamps /\ rec \in Stamps /\ xmt \in Stamps
  BY DEF TypeOK
<1>2. PICK out \in Int : out = Value(dst) - Value(org)
  BY <1>1, StampValues
<1>3. WORD \in Nat /\ WORD > 0 /\ HZ \in Nat /\ HZ > 0 /\ SMALL * WORD \in Nat
  BY UnitTypes
<1>4. /\ out < HALF * WORD
      /\ HZ * out - (now - sentAt) * WORD < SMALL * WORD
      /\ HZ * out - (now - sentAt) * WORD > 0 - SMALL * WORD
  BY <1>2, TripIsShown
<1>5. held < HALF * WORD /\ HZ * held <= (now - sentAt) * WORD + HZ - 1
  BY HeldIsShown
<1>6. PICK delay \in Int : delay = Delay(org, rec, xmt, dst) /\ delay = Magnitude(out - held)
  <2>1. Delay(org, rec, xmt, dst) = Magnitude(out - held)
    BY <1>1, <1>2, <1>4, <1>5, DelayIsMagnitude
  <2>2. Magnitude(out - held) \in Int
    BY DEF Magnitude
  <2> QED
    BY <2>1, <2>2
<1>7. PICK tw, x, y \in Int : tw = (now - sentAt) * WORD /\ x = HZ * out /\ y = HZ * held
  BY <1>3, TripTicks
<1>8. CASE out >= held
  <2>1. delay = out - held
    BY <1>6, <1>8 DEF Magnitude
  <2>2. HZ * (out - held) = HZ * out - HZ * held
    BY <1>3
  <2>3. HZ * delay = x - y
    BY <1>7, <2>1, <2>2
  <2> QED
    BY <1>3, <1>4, <1>6, <1>7, <2>3
<1>9. CASE out < held
  <2>1. delay = held - out
    BY <1>6, <1>9 DEF Magnitude
  <2>2. HZ * (held - out) = HZ * held - HZ * out
    BY <1>3
  <2>3. HZ * delay = y - x
    BY <1>7, <2>1, <2>2
  <2>4. x <= y - HZ
    <3>1. \A a, b \in Nat : a * b \in Nat
      OBVIOUS
    <3>2. HZ * (held - out - 1) \in Nat
      BY <1>3, <1>9, <3>1
    <3>3. HZ * (held - out - 1) = HZ * held - HZ * out - HZ
      BY <1>3
    <3> QED
      BY <1>3, <1>7, <3>2, <3>3
  <2> QED
    BY <1>3, <1>4, <1>5, <1>6, <1>7, <2>3, <2>4
<1> QED
  BY <1>8, <1>9

\* Every action keeps the delay of the last sample the time of its trip.
LEMMA StepDelay ==
  ASSUME TypeOK, InFlight, DelayIsTripTime, [Next]_vars
  PROVE  DelayIsTripTime'
<1>1. ASSUME UNCHANGED sample PROVE DelayIsTripTime'
  BY <1>1 DEF DelayIsTripTime, SameEra
<1>2. ASSUME pc = "replied", Taken(TimeAfter(FALSE)) PROVE DelayIsTripTime'
  <2> SUFFICES ASSUME sample'.taken, SameEra'
               PROVE  LET held  == Value(sample'.xmt) - Value(sample'.rec)
                          error == HZ * sample'.delay - (sample'.trip * WORD - HZ * held)
                      IN \/ error < 0 /\ 0 - error < SMALL * WORD + 2 * HZ
                         \/ error >= 0 /\ error < SMALL * WORD + 2 * HZ
    BY DEF DelayIsTripTime, Value
  <2>1. PICK dst \in Stamps : dst = TimeAfter(FALSE)
    BY ClockReads
  <2>2. \/ Skipped(FALSE) /\ dst = localTime
        \/ ~Skipped(FALSE) /\ dst = Reading
    BY <2>1 DEF TimeAfter
  <2>3. Taken(dst)
    BY <1>2, <2>1
  <2>4. /\ sample'.org = org /\ sample'.rec = rec /\ sample'.xmt = xmt /\ sample'.dst = dst
        /\ sample'.trip = now - sentAt /\ sample'.delay = Delay(org, rec, xmt, dst)
    BY <2>3 DEF Taken
  <2>5. ~Before(dst, org) /\ ~Before(xmt, rec)
    BY <2>4 DEF SameEra, Before
  <2>6. PICK held \in Int : held = Value(xmt) - Value(rec)
    BY StampValues DEF TypeOK
  <2>7. PICK error \in Int : /\ error = HZ * Delay(org, rec, xmt, dst) - ((now - sentAt) * WORD - HZ * held)
                             /\ error < SMALL * WORD + 2 * HZ
                             /\ error > 0 - (SMALL * WORD + 2 * HZ)
    BY <1>2, <2>2, <2>5, <2>6, TakenDelay
  <2>8. \/ error < 0 /\ 0 - error < SMALL * WORD + 2 * HZ
        \/ error >= 0 /\ error < SMALL * WORD + 2 * HZ
    BY <2>7, UnitTypes
  <2> QED
    BY <2>4, <2>6, <2>7, <2>8
<1>3. CASE xmit_packet
  BY <1>3 DEF xmit_packet, NoSample, DelayIsTripTime
<1>4. CASE Tick \/ ServerReceives \/ ServerReplies \/ SetFromReply \/ SetFromNothing \/ NoReply
  BY <1>1, <1>4 DEF Tick, ServerReceives, ServerReplies, SetFromReply, SetFromNothing,
     settime, NoReply
<1>5. CASE recv_packet
  BY <1>1, <1>2, <1>5 DEF recv_packet
<1>6. ASSUME NEW offset \in Offsets, ReceiveAndStep(offset) PROVE DelayIsTripTime'
  BY <1>2, <1>6 DEF ReceiveAndStep
<1>7. ASSUME NEW offset \in Adjustments, clock_adjust(offset) PROVE DelayIsTripTime'
  BY <1>1, <1>7 DEF clock_adjust, Correct
<1>8. CASE UNCHANGED vars
  BY <1>1, <1>8 DEF vars
<1>9. ASSUME NEW offset \in Offsets, PollAndStep(offset) PROVE DelayIsTripTime'
  BY <1>1, <1>9 DEF PollAndStep, Correct
<1> QED
  BY <1>3, <1>4, <1>5, <1>6, <1>7, <1>8, <1>9 DEF Next

----------------------------------------------------------------------------
(* The clock and the exchange under way are as exact as each other needs.  *)
TInv == TypeOK /\ Drift /\ InFlight /\ DelayIsTripTime

\* Through every reading of gettime() and every exchange of packet().
THEOREM TimeInvariance == Spec => []TInv
<1>1. Init => Drift /\ InFlight /\ DelayIsTripTime
  BY InitDrift DEF Init, InFlight, DelayIsTripTime, NoSample
<1>2. Init => TInv
  BY <1>1, InitHolds DEF TInv, IInv
<1>3. TInv /\ [Next]_vars => TInv'
  BY StepTypes, StepDrift, StepInFlight, StepDelay DEF TInv
<1> QED
  BY <1>2, <1>3, PTL DEF Spec

(* gettime(): the clock is never ahead of the tick count since it was set  *)
(* by as much as SMALL ticks, nor behind by more than a unit for each      *)
(* reading, through every carry, wrap of the count and era.                *)
THEOREM ClockKeepsTicksAlways == Spec => []ClockKeepsTicks
<1>1. TInv => ClockKeepsTicks
  BY DriftIsKept DEF TInv
<1> QED
  BY TimeInvariance, <1>1, PTL

(* packet(): the delay of every sample is the time its packets spent on    *)
(* the way, however far apart the two clocks are and whatever corrections  *)
(* the clock has had.                                                      *)
THEOREM DelayIsTripTimeAlways == Spec => []DelayIsTripTime
<1>1. TInv => DelayIsTripTime
  BY DEF TInv
<1> QED
  BY TimeInvariance, <1>1, PTL
============================================================================
