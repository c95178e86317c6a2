---------------------------- MODULE IntegerBackends ----------------------------
(***************************************************************************)
(* The exact integers of calculo (calculo/src/int.rs): the trait Int and   *)
(* its three backends, i64 with wide intermediates, rug and dashu.  A      *)
(* client holds a few numbers and works on them in place; here the same    *)
(* client runs with each backend beside the others, until an operation     *)
(* reports an error.                                                       *)
(*                                                                         *)
(* rug and dashu do not overflow, so their integers are those of TLA+.     *)
(* An i64 is a word from -Half to Half - 1, an i128 has twice its bits.    *)
(***************************************************************************)
EXTENDS Rationals

CONSTANTS
  Half,       \* half the number of words; 2^63 in the code
  Registers,  \* the numbers that the client holds
  Literals    \* the numbers that the client starts with

ASSUME IntegersAssumption ==
  /\ Half \in Nat \ {0}
  /\ Literals \subseteq -Half .. Half - 1

VARIABLES
  word,   \* word[i]: number i in the client of i64
  rug,    \* rug[i]: the same in the client of rug
  dashu,  \* dashu[i]: the same in the client of dashu
  error   \* the error of the last operation, for each backend

intVars == <<word, rug, dashu, error>>

--------------------------------------------------------------------------------

(* Machine division, rounding towards zero. *)
Truncated(n, d) ==
  IF (n < 0) = (d < 0) THEN Magnitude(n) \div Magnitude(d) ELSE -(Magnitude(n) \div Magnitude(d))

InWord(n) == n \in -Half .. Half - 1

(* The i128 in which a product or a difference of products is computed. *)
Wide(n) == ((n + 2 * Half * Half) % (4 * Half * Half)) - 2 * Half * Half

Order(l, r) == IF l < r THEN "Less" ELSE IF l > r THEN "Greater" ELSE "Equal"

Done(n) == [value |-> n, error |-> "none"]

(* A failed operation leaves the number it works on alone. *)
Refused(self, kind) == [value |-> self, error |-> kind]

--------------------------------------------------------------------------------
(* i64 *)

Narrowed(self, n) == IF InWord(n) THEN Done(n) ELSE Refused(self, "Overflow")

WordNegate(self) == Narrowed(self, -self)

WordAbs(self) == Narrowed(self, Magnitude(self))

WordGcd(self, other) == Narrowed(self, Euclid[<<Magnitude(self), Magnitude(other)>>])

WordLcm(self, other) ==
  LET a == Magnitude(self)
      b == Magnitude(other)
  IN IF a = 0 \/ b = 0
       THEN Done(0)
       ELSE Narrowed(self, (a \div Euclid[<<a, b>>]) * b)

WordMultiply(self, n) == Narrowed(self, Wide(self * n))

WordDivide(self, n) ==
  IF n = 0 THEN Refused(self, "DivisionByZero") ELSE Narrowed(self, Truncated(self, n))

\* mutant of WordPivot
WordPivotOfNumerator(aij, ars, ais, arj, det) ==
  LET numer == aij * ars - ais * arj IN
  IF det = 0 THEN Refused(aij, "DivisionByZero")
  ELSE IF ~InWord(numer) THEN Refused(aij, "Overflow")
  ELSE Done(Truncated(numer, det))

WordPivot(aij, ars, ais, arj, det) ==
  IF det = 0
    THEN Refused(aij, "DivisionByZero")
    ELSE Narrowed(aij, Truncated(Wide(Wide(aij * ars) - Wide(ais * arj)), det))

WordCompare(a, b, c, d) == Order(Wide(a * b), Wide(c * d))

--------------------------------------------------------------------------------
(* rug *)

RugNegate(self) == Done(-self)

RugAbs(self) == Done(Magnitude(self))

RugGcd(self, other) == Done(CommonDivisor(self, other))

RugLcm(self, other) ==
  Done(IF self = 0 \/ other = 0 THEN 0 ELSE Magnitude(self * other) \div CommonDivisor(self, other))

RugMultiply(self, n) == Done(self * n)

RugDivide(self, n) ==
  IF n = 0 THEN Refused(self, "DivisionByZero") ELSE Done(Truncated(self, n))

RugPivot(aij, ars, ais, arj, det) ==
  IF det = 0
    THEN Refused(aij, "DivisionByZero")
    ELSE Done(Truncated(aij * ars - ais * arj, det))

(* significant_bits and bit_len *)
Bits(n) == IF n = 0 THEN 0 ELSE CHOOSE k \in 1..Magnitude(n) :
                                  PowerOfTwo[k - 1] <= Magnitude(n) /\ Magnitude(n) < PowerOfTwo[k]

NegativeProduct(a, b) == a # 0 /\ b # 0 /\ (a < 0) # (b < 0)

Reversed(order) == IF order = "Less" THEN "Greater" ELSE "Less"

\* mutant of RugCompareMagnitudes
RugCompareByOneBit(a, b, c, d) ==
  LET left  == Bits(a) + Bits(b)
      right == Bits(c) + Bits(d)
      Signed(order) == IF NegativeProduct(a, b) THEN Reversed(order) ELSE order
  IN IF left + 1 <= right THEN Signed("Less")
     ELSE IF right + 1 <= left THEN Signed("Greater")
     ELSE Order(a * b, c * d)

(* Two nonzero products of one sign, by the lengths of their factors where *)
(* these decide, and otherwise exactly.                                    *)
RugCompareMagnitudes(a, b, c, d) ==
  LET left  == Bits(a) + Bits(b)
      right == Bits(c) + Bits(d)
      Signed(order) == IF NegativeProduct(a, b) THEN Reversed(order) ELSE order
  IN IF left + 2 <= right THEN Signed("Less")
     ELSE IF right + 2 <= left THEN Signed("Greater")
     ELSE Order(a * b, c * d)

RugCompare(a, b, c, d) ==
  LET leftZero  == a = 0 \/ b = 0
      rightZero == c = 0 \/ d = 0
  IN IF leftZero /\ rightZero THEN "Equal"
     ELSE IF NegativeProduct(a, b) # NegativeProduct(c, d)
       THEN IF NegativeProduct(a, b) THEN "Less" ELSE "Greater"
     ELSE IF leftZero THEN "Less"
     ELSE IF rightZero THEN "Greater"
     ELSE RugCompareMagnitudes(a, b, c, d)

--------------------------------------------------------------------------------
(* dashu, whose greatest common divisor is not defined for two zeros *)

DashuNegate(self) == Done(-self)

DashuAbs(self) == Done(IF self < 0 THEN -self ELSE self)

DashuGcd(self, other) ==
  IF self = 0 THEN IF other = 0 THEN Done(0) ELSE DashuAbs(other)
  ELSE IF other = 0 THEN DashuAbs(self)
  ELSE Done(CommonDivisor(self, other))

DashuLcm(self, other) ==
  LET a == DashuAbs(self).value
      b == DashuAbs(other).value
  IN IF self = 0 \/ other = 0 THEN Done(0) ELSE Done((a \div CommonDivisor(a, b)) * b)

DashuMultiply(self, n) == Done(self * n)

DashuDivide(self, n) ==
  IF n = 0 THEN Refused(self, "DivisionByZero") ELSE Done(Truncated(self, n))

DashuPivot(aij, ars, ais, arj, det) ==
  IF det = 0
    THEN Refused(aij, "DivisionByZero")
    ELSE Done(Truncated(aij * ars - ais * arj, det))

(* Products of one sign, by the lengths of their factors where these       *)
(* decide; dashu takes the signs from the numbers and not from zero tests. *)
DashuCompare(a, b, c, d) ==
  LET leftZero  == a = 0 \/ b = 0
      rightZero == c = 0 \/ d = 0
      leftNeg   == ~leftZero /\ (a < 0) # (b < 0)
      rightNeg  == ~rightZero /\ (c < 0) # (d < 0)
      left      == Bits(a) + Bits(b)
      right     == Bits(c) + Bits(d)
  IN CASE leftZero /\ rightZero -> "Equal"
       [] leftNeg # rightNeg -> IF leftNeg THEN "Less" ELSE "Greater"
       [] leftNeg = rightNeg /\ leftZero # rightZero -> IF leftZero THEN "Less" ELSE "Greater"
       [] OTHER -> IF left + 2 <= right THEN IF leftNeg THEN "Greater" ELSE "Less"
                   ELSE IF right + 2 <= left THEN IF leftNeg THEN "Less" ELSE "Greater"
                   ELSE Order(a * b, c * d)

--------------------------------------------------------------------------------
(* The client: one operation on number i with every backend, unless the    *)
(* last one failed.                                                        *)

NoError == [word |-> "none", rug |-> "none", dashu |-> "none"]

Assign(i, w, r, d) ==
  /\ error = NoError
  /\ word' = [word EXCEPT ![i] = w.value]
  /\ rug' = [rug EXCEPT ![i] = r.value]
  /\ dashu' = [dashu EXCEPT ![i] = d.value]
  /\ error' = [word |-> w.error, rug |-> r.error, dashu |-> d.error]

Negate(i) == Assign(i, WordNegate(word[i]), RugNegate(rug[i]), DashuNegate(dashu[i]))

Abs(i) == Assign(i, WordAbs(word[i]), RugAbs(rug[i]), DashuAbs(dashu[i]))

Gcd(i, j) ==
  Assign(i, WordGcd(word[i], word[j]), RugGcd(rug[i], rug[j]), DashuGcd(dashu[i], dashu[j]))

Lcm(i, j) ==
  Assign(i, WordLcm(word[i], word[j]), RugLcm(rug[i], rug[j]), DashuLcm(dashu[i], dashu[j]))

Multiply(i, j) ==
  Assign(i, WordMultiply(word[i], word[j]), RugMultiply(rug[i], rug[j]),
         DashuMultiply(dashu[i], dashu[j]))

(* "The division must be exact", which is the caller's part. *)
Exact(n, d) == d # 0 => n % Magnitude(d) = 0

DivideExact(i, j) ==
  /\ Exact(rug[i], rug[j])
  /\ Assign(i, WordDivide(word[i], word[j]), RugDivide(rug[i], rug[j]),
            DashuDivide(dashu[i], dashu[j]))

Pivot(i, j, k, l, m) ==
  /\ Exact(rug[i] * rug[j] - rug[k] * rug[l], rug[m])
  /\ Assign(i, WordPivot(word[i], word[j], word[k], word[l], word[m]),
            RugPivot(rug[i], rug[j], rug[k], rug[l], rug[m]),
            DashuPivot(dashu[i], dashu[j], dashu[k], dashu[l], dashu[m]))

IntInit ==
  /\ word \in [Registers -> Literals]
  /\ rug = word
  /\ dashu = word
  /\ error = NoError

IntNext ==
  \E i, j \in Registers :
    \/ Negate(i) \/ Abs(i)
    \/ Gcd(i, j) \/ Lcm(i, j) \/ Multiply(i, j) \/ DivideExact(i, j)
    \/ \E k, l, m \in Registers : Pivot(i, j, k, l, m)

--------------------------------------------------------------------------------
(* Properties *)

(* Whatever a client computes, it computes with every backend: rug and     *)
(* dashu always agree, and i64 agrees with both until it refuses exactly   *)
(* what does not fit.  Then its number is as it was: no intermediate       *)
(* overflows before the result does, and nothing wraps.                    *)
BackendsAgree ==
  /\ rug = dashu
  /\ error.rug = error.dashu
  /\ error.word # "Overflow" => error.word = error.rug
  /\ error.word = "Overflow" <=> \E i \in DOMAIN rug : ~InWord(rug[i])
  /\ \A i \in DOMAIN rug :
       /\ InWord(word[i])
       /\ InWord(rug[i]) => word[i] = rug[i]

(* cmp_product orders two products exactly, with every backend: the bounds *)
(* on the lengths never decide what the products would not.                *)
ComparisonsAreExact ==
  error = NoError =>
    \A i, j, k, l \in DOMAIN rug :
      LET exact == Order(rug[i] * rug[j], rug[k] * rug[l]) IN
      /\ WordCompare(word[i], word[j], word[k], word[l]) = exact
      /\ RugCompare(rug[i], rug[j], rug[k], rug[l]) = exact
      /\ DashuCompare(dashu[i], dashu[j], dashu[k], dashu[l]) = exact
================================================================================
