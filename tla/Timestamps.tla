----------------------------- MODULE Timestamps ----------------------------
(***************************************************************************)
(* The 64-bit arithmetic on NTP timestamps: NTP_TDMG.c and the differences *)
(* that packet() takes of the four timestamps of an exchange.  A timestamp *)
(* is a pair of words, seconds and fraction; WORD is 2^32 in the code and  *)
(* HALF the weight of the sign bit of a word.                              *)
(***************************************************************************)
EXTENDS Integers

CONSTANT HALF

ASSUME HalfAssumption == HALF \in Nat \ {0}

WORD == 2 * HALF
Words  == 0 .. WORD - 1
Stamps == Words \X Words

Seconds(t)  == t[1]
Fraction(t) == t[2]
Value(t)    == Seconds(t) * WORD + Fraction(t)   \* as a uint64_t

\* The same bits read as an int32_t or an int64_t.
SignedWord(w) == IF w < HALF THEN w ELSE w - WORD
Signed(t)     == SignedWord(Seconds(t)) * WORD + Fraction(t)

Negated(t) ==
  IF Fraction(t) = 0 THEN <<(0 - Seconds(t)) % WORD, 0>>
  ELSE <<(0 - Seconds(t) - 1) % WORD, WORD - Fraction(t)>>

Before(x, y) ==
  Seconds(x) < Seconds(y) \/ (Seconds(x) = Seconds(y) /\ Fraction(x) < Fraction(y))

----------------------------------------------------------------------------
(* subtract_uint64_t() exchanges x and y when x is the smaller, but only   *)
(* after it has taken the words of both, and negates the result.           *)

NeverBorrows(x, y) == 0
Borrow(x, y) == IF Fraction(x) < Fraction(y) THEN 1 ELSE 0
Raw(x, y) ==
  <<(Seconds(x) - Seconds(y) - Borrow(x, y)) % WORD, (Fraction(x) - Fraction(y)) % WORD>>
SubtractSigned(x, y) == Raw(x, y)
subtract_uint64_t(x, y) == IF Before(x, y) THEN Negated(Raw(x, y)) ELSE Raw(x, y)

(* add_int64_t() reads the fractions as signed words.  When their sum      *)
(* overflows, the test for a carry is undefined: compiled as written it    *)
(* compares the wrapped sum, simplified it looks at the signs.  A sum with *)
(* its high bit set is sign-extended by the OR over the seconds.           *)
WrappedSum(x, y) == SignedWord((Fraction(x) + Fraction(y)) % WORD)
CarryTests(x, y) ==
  LET a == SignedWord(Fraction(x))
      b == SignedWord(Fraction(y))
  IN {a < 0 \/ b < 0} \union
     IF a + b = WrappedSum(x, y) THEN {} ELSE {WrappedSum(x, y) < a \/ WrappedSum(x, y) < b}
add_int64_t(x, y) ==
  { LET high == (Seconds(x) + Seconds(y) + (IF carry THEN 1 ELSE 0)) % WORD
    IN <<IF WrappedSum(x, y) < 0 THEN WORD - 1 ELSE high, WrappedSum(x, y) % WORD>> :
      carry \in CarryTests(x, y) }

----------------------------------------------------------------------------
(* packet(): twice the offset and the delay of a sample, before the delay  *)
(* is raised to the precision of the system.                               *)

Sums(org, rec, xmt, dst) ==
  {Signed(t) : t \in add_int64_t(subtract_uint64_t(rec, org), subtract_uint64_t(dst, xmt))}
Delay(org, rec, xmt, dst) ==
  Signed(subtract_uint64_t(subtract_uint64_t(dst, org), subtract_uint64_t(rec, xmt)))
============================================================================
