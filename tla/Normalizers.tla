------------------------------ MODULE Normalizers ------------------------------
(***************************************************************************)
(* The normalizers of calculo (calculo/src/num.rs): each brings a vector   *)
(* to a standard multiple of itself and, with normalize_pair, a second     *)
(* vector in another type of numbers along with it.  MaxNormalizer and     *)
(* MinNormalizer divide by the entry of the greatest or least magnitude    *)
(* that epsilon does not take for zero, GcdNormalizer makes the entries    *)
(* coprime integers, NoNormalizer only recognises a vector of zeros.       *)
(*                                                                         *)
(* A client picks a normalizer and an epsilon and applies it again and     *)
(* again to the same vector.  The numbers of the vector are rationals;     *)
(* those of the second vector are the same, or of a type that rounds what  *)
(* is converted to it, or does not have it at all.                         *)
(***************************************************************************)
EXTENDS Rationals, Sequences, SequencesExt

CONSTANTS
  Vectors,   \* the vectors that the client starts with
  Epsilons,  \* the epsilons; the default of an exact type is zero
  Others,    \* the other types that the numbers of a shadow may have
  Coerce(_, _),    \* Coerce(f, x): the rational x in the type f, or Failed
  OverIn(_, _, _)  \* OverIn(f, x, c): the quotient of x by c in the type f

Failed == <<>>

ASSUME NormalizersAssumption ==
  /\ Vectors \subseteq Seq(Rat)
  /\ Epsilons \subseteq Rat
  /\ \A e \in Epsilons : ~Below(e, Zero) /\ Below(e, One)
  /\ \A f \in Others : Coerce(f, Zero) = Zero

VARIABLES
  normalizer,  \* the normalizer of the client
  eps,         \* its epsilon
  origin,      \* the vector before it was normalized
  vector,      \* the vector
  shadow,      \* the vector that is normalized with it
  form,        \* the type of the shadow's numbers: "same" or one of the Others
  kept         \* whether the last call kept it, found zeros or panicked;
               \* "unasked" before the first

normVars == <<normalizer, eps, origin, vector, shadow, form, kept>>

Kinds == {"Max", "Min", "Gcd", "No"}

--------------------------------------------------------------------------------

(* Epsilon::is_zero *)
IsZero(v) == ~Below(v, Opposite(eps)) /\ ~Below(eps, v)

Zeroes(v) == [i \in DOMAIN v |-> Zero]

(* What one call makes of the two vectors, and what it returns. *)
Result(v, s, answer) == [vector |-> v, shadow |-> s, kept |-> answer]

AllZero == Result(Zeroes(vector), Zeroes(shadow), "zero")

(* M::coerce_from, which is a clone for numbers of the same type; and the  *)
(* division of that type.                                                  *)
Convert(x) == IF form = "same" THEN x ELSE Coerce(form, x)

Fails(x) == form # "same" /\ Coerce(form, x) = Failed

Quotient(x, c) == IF form = "same" THEN Over(x, c) ELSE OverIn(form, x, c)

\* mutant of Divided: what is lost from the vector stays in the shadow
DividedAlone(scale) ==
  LET divided == [i \in DOMAIN vector |-> Over(vector[i], scale)]
      beside  == [i \in DOMAIN shadow |-> Quotient(shadow[i], Convert(scale))]
      Keep(w) == [i \in DOMAIN w |-> IF IsZero(divided[i]) THEN Zero ELSE w[i]]
  IN IF Fails(scale) THEN Result(divided, shadow, "panicked")
                     ELSE Result(Keep(divided), beside, "kept")

(* Both are divided by the scale, and what is then within epsilon in the   *)
(* vector is zero in both.  The vector has been divided when the scale is  *)
(* converted for the shadow.                                               *)
Divided(scale) ==
  LET divided == [i \in DOMAIN vector |-> Over(vector[i], scale)]
      beside  == [i \in DOMAIN shadow |-> Quotient(shadow[i], Convert(scale))]
      Keep(w) == [i \in DOMAIN w |-> IF IsZero(divided[i]) THEN Zero ELSE w[i]]
  IN IF Fails(scale) THEN Result(divided, shadow, "panicked")
                     ELSE Result(Keep(divided), Keep(beside), "kept")

\* mutant of Candidates
SignedCandidates == {vector[i] : i \in {j \in DOMAIN vector : ~IsZero(AbsoluteValue(vector[j]))}}

Candidates == {AbsoluteValue(vector[i]) : i \in {j \in DOMAIN vector : ~IsZero(AbsoluteValue(vector[j]))}}

MaxNormalized ==
  IF Candidates = {} THEN AllZero
  ELSE Divided(CHOOSE m \in Candidates : \A c \in Candidates : ~Below(m, c))

MinNormalized ==
  IF Candidates = {} THEN AllZero
  ELSE Divided(CHOOSE m \in Candidates : \A c \in Candidates : ~Below(c, m))

(* A vector that is not all zeros stays as it is. *)
NotNormalized ==
  IF \E i \in DOMAIN vector : ~IsZero(vector[i])
    THEN Result(vector, shadow, "kept")
    ELSE AllZero

(* lcm_assign *)
LeastMultiple(a, b) == (Magnitude(a) \div CommonDivisor(a, b)) * Magnitude(b)

Used(v) == {i \in DOMAIN v : v[i] # Zero}

(* The least common multiple of the denominators in use. *)
LeastDenominator(v) ==
  LET acc[k \in Nat] ==
        IF k = 0 THEN 1
        ELSE IF k \in Used(v) THEN LeastMultiple(acc[k - 1], v[k][2])
        ELSE acc[k - 1]
  IN acc[Len(v)]

(* The numerators over one denominator. *)
Numerators(v) ==
  IF \A i \in DOMAIN v : IsInteger(v[i])
    THEN [i \in DOMAIN v |-> v[i][1]]
    ELSE [i \in DOMAIN v |-> v[i][1] * (LeastDenominator(v) \div v[i][2])]

(* The greatest common divisor of those in use. *)
GreatestDivisor(numerators, used) ==
  LET acc[k \in Nat] ==
        IF k = 0 THEN 0
        ELSE IF k \in used THEN CommonDivisor(acc[k - 1], numerators[k])
        ELSE acc[k - 1]
  IN acc[Len(numerators)]

Coprime(v) ==
  LET numerators == Numerators(v)
      gcd        == GreatestDivisor(numerators, Used(v))
  IN [i \in DOMAIN v |-> IF i \in Used(v) THEN FromFrac(numerators[i] \div gcd, 1) ELSE Zero]

\* mutant of GcdNormalized
GcdOfIntegersOnly ==
  LET lcm   == LeastDenominator(vector)
      whole == [i \in DOMAIN vector |-> Times(vector[i], <<lcm, 1>>)]
      made  == IF lcm = 1 THEN Coprime(vector) ELSE whole
  IN IF Used(vector) = {} THEN AllZero ELSE Result(made, made, "kept")

(* The entries become coprime integers; epsilon is not asked.  The shadow  *)
(* is converted from the result, up to the first entry that it cannot be.  *)
GcdNormalized ==
  LET made    == Coprime(vector)
      Made(i) == \A k \in 1 .. i : ~Fails(made[k])
  IN IF Used(vector) = {} THEN AllZero
     ELSE Result(made,
                 [i \in DOMAIN shadow |-> IF Made(i) THEN Convert(made[i]) ELSE shadow[i]],
                 IF Made(Len(vector)) THEN "kept" ELSE "panicked")

Normalize ==
  LET result == CASE normalizer = "Max" -> MaxNormalized
                  [] normalizer = "Min" -> MinNormalized
                  [] normalizer = "Gcd" -> GcdNormalized
                  [] normalizer = "No"  -> NotNormalized
  IN /\ kept # "panicked"
     /\ vector' = result.vector
     /\ shadow' = result.shadow
     /\ kept' = result.kept
     /\ UNCHANGED <<normalizer, eps, origin, form>>

NormInit ==
  /\ normalizer \in Kinds
  /\ eps \in Epsilons
  /\ origin \in Vectors
  /\ vector = origin
  /\ form \in {"same"} \cup Others
  /\ \A i \in DOMAIN origin : ~Fails(origin[i])
  /\ shadow = [i \in DOMAIN origin |-> Convert(origin[i])]
  /\ kept = "unasked"

NormNext == Normalize

--------------------------------------------------------------------------------
(* Properties *)

Parallel(v, w) ==
  \A i, j \in DOMAIN v : Times(v[i], w[j]) = Times(v[j], w[i])

SameSign(x, y) == Below(x, Zero) = Below(y, Zero) /\ Below(Zero, x) = Below(Zero, y)

(* However often a vector is normalized, it keeps its direction, even when *)
(* a call panics: the entries that are left are a positive multiple of     *)
(* those the client had.                                                   *)
(* Only an entry that epsilon takes for zero, as it was or beside the      *)
(* greatest one, is ever lost, and only a vector of nothing but such       *)
(* entries is refused.                                                     *)
DirectionIsKept ==
  LET left == {i \in DOMAIN vector : vector[i] # Zero}
      on   == [i \in left |-> origin[i]]
  IN /\ Parallel([i \in left |-> vector[i]], on)
     /\ \A i \in left : SameSign(vector[i], origin[i])
     /\ \A i \in DOMAIN vector \ left :
          \E j \in DOMAIN vector :
            \/ ~Below(eps, AbsoluteValue(origin[i]))
            \/ ~Below(Times(eps, AbsoluteValue(origin[j])), AbsoluteValue(origin[i]))
     /\ kept = "kept" => left # {}
     /\ kept = "zero" => left = {}

(* A shadow of the same type is the same vector throughout.  One of        *)
(* another type is zero wherever the vector is, and only its conversion    *)
(* can panic.                                                              *)
ShadowFollows ==
  /\ form = "same" => shadow = vector /\ kept # "panicked"
  /\ kept # "panicked" => \A i \in DOMAIN vector : vector[i] = Zero => shadow[i] = Zero

(* What comes out is in normal form, so that two vectors of one direction  *)
(* become the same vector: the greatest magnitude is one, the least one is *)
(* (or was, when epsilon lets a lesser one stay), or the entries are       *)
(* coprime integers.                                                       *)
NormalFormsAreCanonical ==
  LET sizes == {AbsoluteValue(x) : x \in Range(vector)} IN
  kept = "kept" =>
       CASE normalizer = "Max" -> One \in sizes /\ \A x \in sizes : ~Below(One, x)
         [] normalizer = "Min" -> /\ One \in sizes
                                  /\ eps = Zero => \A x \in sizes \ {Zero} : ~Below(x, One)
         [] normalizer = "Gcd" -> /\ \A x \in sizes : IsInteger(x)
                                  /\ \A y \in sizes : \A k \in 2 .. y[1] :
                                       \E x \in sizes : x[1] % k # 0
         [] normalizer = "No"  -> vector = origin
================================================================================
