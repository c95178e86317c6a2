------------------------------- MODULE FloatParts ------------------------------
(***************************************************************************)
(* Floats as exact numbers (calculo/src/num.rs): F64Parts takes a finite   *)
(* f64 apart into a numerator and a denominator, f64_row_to_scaled_ints    *)
(* brings a row of them to one denominator, a float of dashu becomes a     *)
(* rational, and hash_component makes a key of an f64.                     *)
(*                                                                         *)
(* A float has its sign, its exponent bits and its fraction bits as the    *)
(* format has them, with fewer bits.                                       *)
(***************************************************************************)
EXTENDS Rationals, Sequences, SequencesExt, FiniteSetsExt

CONSTANTS
  FractionBits,  \* 52 in an f64
  Exponents,     \* the exponent bits of a finite float; 0..2046
  Bias,          \* 1023
  MaskedBits,    \* the fraction bits that a hash leaves out; 10
  RowLength      \* the floats of a row

ASSUME FloatsAssumption ==
  /\ FractionBits \in Nat
  /\ MaskedBits \in 0..FractionBits
  /\ Exponents \subseteq Nat
  /\ Bias \in Exponents \ {0}
  /\ RowLength \in Nat \ {0}

VARIABLES
  floats,  \* the row of floats
  scaled   \* what f64_row_to_scaled_ints returned for it; <<>> before

floatVars == <<floats, scaled>>

Floats == [sign : {0, 1}, exponent : Exponents, fraction : 0 .. PowerOfTwo[FractionBits] - 1]

--------------------------------------------------------------------------------

(* Both factors of two, as long as both have one. *)
Halved[p \in Int \X Int] ==
  IF p[1] % 2 = 0 /\ p[2] % 2 = 0 THEN Halved[<<p[1] \div 2, p[2] \div 2>>] ELSE p

Signed(f, n) == IF f.sign = 1 THEN -n ELSE n

\* mutant of RugParts
RugPartsOfSubnormals(f) ==
  LET shift == f.exponent - Bias - FractionBits
      n     == IF f.exponent = 0 THEN f.fraction ELSE PowerOfTwo[FractionBits] + f.fraction
  IN IF n = 0 THEN <<0, 1>>
     ELSE IF shift >= 0 THEN Halved[<<Signed(f, n * PowerOfTwo[shift]), 1>>]
     ELSE Halved[<<Signed(f, n), PowerOfTwo[-shift]>>]

(* f64_to_num_den of rug *)
RugParts(f) ==
  LET mantissa == PowerOfTwo[FractionBits] + f.fraction
      shift    == f.exponent - Bias - FractionBits
  IN IF f.exponent = 0 /\ f.fraction = 0 THEN <<0, 1>>
     ELSE IF f.exponent = 0
       THEN Halved[<<Signed(f, f.fraction), PowerOfTwo[Bias - 1 + FractionBits]>>]
     ELSE IF shift >= 0 THEN Halved[<<Signed(f, mantissa * PowerOfTwo[shift]), 1>>]
     ELSE Halved[<<Signed(f, mantissa), PowerOfTwo[-shift]>>]

(* f64_to_num_den of dashu, which tests the lowest bits *)
DashuParts(f) ==
  LET n == IF f.exponent = 0 THEN f.fraction ELSE PowerOfTwo[FractionBits] + f.fraction
      shift == IF f.exponent = 0 THEN -(Bias - 1 + FractionBits)
               ELSE f.exponent - Bias - FractionBits
  IN IF n = 0 THEN <<0, 1>>
     ELSE IF shift >= 0 THEN Halved[<<Signed(f, n * PowerOfTwo[shift]), 1>>]
     ELSE Halved[<<Signed(f, n), PowerOfTwo[-shift]>>]

(* All numerators over the greatest of the denominators. *)
ScaledInts(parts) ==
  LET denom == Max({part[2] : part \in Range(parts)}) IN
  [denom |-> denom,
   ints  |-> [i \in DOMAIN parts |->
                IF parts[i][1] = 0 \/ parts[i][2] = denom
                  THEN parts[i][1]
                  ELSE parts[i][1] * (denom \div parts[i][2])]]

(* A float of dashu is an odd significand, or zero, times a power of two. *)
FromDashuFloat(significand, exponent) ==
  IF exponent >= 0
    THEN FromFrac(significand * PowerOfTwo[exponent], 1)
    ELSE FromFrac(significand, PowerOfTwo[-exponent])

\* mutant of HashComponent
HashOfBits(f) == [f EXCEPT !.fraction = @ - (@ % PowerOfTwo[MaskedBits])]

HashComponent(f) ==
  LET g == IF f.exponent = 0 /\ f.fraction = 0 THEN [f EXCEPT !.sign = 0] ELSE f
  IN [g EXCEPT !.fraction = @ - (@ % PowerOfTwo[MaskedBits])]

ScaleRow ==
  /\ scaled = <<>>
  /\ scaled' = [rug   |-> ScaledInts([i \in DOMAIN floats |-> RugParts(floats[i])]),
                dashu |-> ScaledInts([i \in DOMAIN floats |-> DashuParts(floats[i])])]
  /\ UNCHANGED floats

FloatInit ==
  /\ floats \in [1..RowLength -> Floats]
  /\ scaled = <<>>

FloatNext == ScaleRow

--------------------------------------------------------------------------------
(* Properties *)

(* The value of a finite float, by the format. *)
Power(k) == IF k >= 0 THEN <<PowerOfTwo[k], 1>> ELSE <<1, PowerOfTwo[-k]>>

Value(f) ==
  LET mantissa == IF f.exponent = 0 THEN f.fraction ELSE PowerOfTwo[FractionBits] + f.fraction
      scale    == IF f.exponent = 0 THEN 1 - Bias ELSE f.exponent - Bias
  IN Times(<<Signed(f, mantissa), 1>>, Power(scale - FractionBits))

(* A row of floats, subnormal ones and zeros of either sign included,      *)
(* becomes integers over one denominator without any loss, with both       *)
(* libraries, and a float of dashu becomes the rational it stands for.     *)
FloatsAreExact ==
  scaled # <<>> =>
    /\ scaled.rug = scaled.dashu
    /\ scaled.rug.denom > 0
    /\ \A i \in DOMAIN floats :
         /\ FromFrac(scaled.rug.ints[i], scaled.rug.denom) = Value(floats[i])
         /\ \A k \in 0 .. 2 * Bias + FractionBits :
              LET v == Value(floats[i]) IN
              /\ v[2] = PowerOfTwo[k] => FromDashuFloat(v[1], -k) = v
              /\ v[2] = 1 /\ v[1] % PowerOfTwo[k] = 0 =>
                   FromDashuFloat(v[1] \div PowerOfTwo[k], k) = v

(* Floats that are equal have one key, and only the masked bits of the     *)
(* fraction are forgotten: floats with one key are within one part in      *)
(* 2^(FractionBits - MaskedBits) of each other, or both subnormal.         *)
KeysAreSound ==
  \A i, j \in DOMAIN floats :
    LET a == Value(floats[i])
        b == Value(floats[j])
        gap == AbsoluteValue(Minus(a, b))
    IN /\ a = b => HashComponent(floats[i]) = HashComponent(floats[j])
       /\ HashComponent(floats[i]) = HashComponent(floats[j]) =>
            /\ ~Below(Times(a, b), Zero)
            /\ \/ floats[i].exponent = 0
               \/ Below(Times(gap, <<PowerOfTwo[FractionBits - MaskedBits], 1>>), AbsoluteValue(a))
================================================================================
