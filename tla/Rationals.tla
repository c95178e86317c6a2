------------------------------- MODULE Rationals -------------------------------
(***************************************************************************)
(* The exact rationals of calculo (calculo/src/num.rs, RugRat and          *)
(* DashuRat), which rug and dashu keep in lowest terms over a positive     *)
(* denominator: <<numerator, denominator>>.                                *)
(***************************************************************************)
EXTENDS Integers

Magnitude(n) == IF n < 0 THEN -n ELSE n

(* A function where the number is added to or compared with others like it. *)
PowerOfTwo[k \in Nat] == IF k = 0 THEN 1 ELSE 2 * PowerOfTwo[k - 1]

(* gcd_u64 *)
Euclid[p \in Nat \X Nat] == IF p[2] = 0 THEN p[1] ELSE Euclid[<<p[2], p[1] % p[2]>>]

CommonDivisor(a, b) == Euclid[<<Magnitude(a), Magnitude(b)>>]

(* from_frac: any fraction with a denominator other than zero. *)
FromFrac(n, d) ==
  LET g    == CommonDivisor(n, d)
      sign == IF d < 0 THEN -1 ELSE 1
  IN <<sign * (n \div g), Magnitude(d) \div g>>

(* What rug and dashu keep. *)
Rat == {x \in Int \X (Nat \ {0}) : CommonDivisor(x[1], x[2]) = 1}

Zero == <<0, 1>>
One == <<1, 1>>

Plus(x, y) == FromFrac(x[1] * y[2] + y[1] * x[2], x[2] * y[2])
Minus(x, y) == FromFrac(x[1] * y[2] - y[1] * x[2], x[2] * y[2])
Times(x, y) == FromFrac(x[1] * y[1], x[2] * y[2])
Over(x, y) == FromFrac(x[1] * y[2], x[2] * y[1])
Opposite(x) == <<-x[1], x[2]>>
AbsoluteValue(x) == <<Magnitude(x[1]), x[2]>>

Below(x, y) == x[1] * y[2] < y[1] * x[2]

IsInteger(x) == x[2] = 1
================================================================================
