----------------------------- MODULE CalculoProofs -----------------------------
(***************************************************************************)
(* Theorems about calculo: the exact integers, the rows, the floats and    *)
(* the vectors of its clients, after what is needed of numbers.  Induction *)
(* and recursion are those of the well-founded order of the naturals, over *)
(* sets of them.                                                           *)
(***************************************************************************)
EXTENDS Calculo, SequenceTheorems, WellFoundedInduction, TLAPS

--------------------------------------------------------------------------------
(* Numbers: induction and recursion over the naturals, by sets of them.    *)

LEMMA SetInduction ==
  ASSUME NEW S, 0 \in S, \A n \in Nat : n \in S => n + 1 \in S
  PROVE  \A n \in Nat : n \in S
<1> DEFINE T == Nat \ S
           R == OpToRel(<, Nat)
<1> SUFFICES ASSUME T # {} PROVE FALSE
  OBVIOUS
<1>1. IsWellFoundedOn(R, Nat) /\ T \subseteq Nat /\ T # {}
  BY NatLessThanWellFounded
<1>2. \A x, y \in Nat : y < x => <<y, x>> \in R
  BY DEF OpToRel
<1> HIDE DEF R
<1>3. PICK x \in T : \A y \in T : ~(<<y, x>> \in R)
  <2> HIDE DEF T
  <2> QED
    BY <1>1, WFMin
<1>4. x - 1 \in Nat /\ x = (x - 1) + 1 /\ x - 1 < x
  BY <1>3
<1>5. x - 1 \in T
  BY <1>3, <1>4
<1> QED
  BY <1>2, <1>3, <1>4, <1>5

(* A set that has a number once it has all smaller ones.                   *)
LEMMA CompleteInduction ==
  ASSUME NEW S, \A n \in Nat : (\A m \in Nat : m < n => m \in S) => n \in S
  PROVE  \A n \in Nat : n \in S
<1> DEFINE T == {n \in Nat : \A m \in Nat : m < n => m \in S}
<1>1. 0 \in T
  OBVIOUS
<1>2. ASSUME NEW n \in Nat, n \in T PROVE n + 1 \in T
  <2>1. n \in S
    BY <1>2
  <2>2. \A m \in Nat : m < n + 1 => m < n \/ m = n
    OBVIOUS
  <2> QED
    BY <1>2, <2>1, <2>2
<1> HIDE DEF T
<1>3. \A n \in Nat : n \in T
  BY <1>1, <1>2, SetInduction
<1> QED
  BY <1>3 DEF T

(* A value for every number, each from the one before.                     *)
Recursive(f, T, base, step) ==
  f \in [Nat -> T] /\ f[0] = base /\ \A n \in Nat : f[n + 1] = step[<<n, f[n]>>]

LEMMA PrimitiveRecursion ==
  ASSUME NEW T, NEW base \in T, NEW step \in [Nat \X T -> T]
  PROVE  \E f : Recursive(f, T, base, step)
<1> DEFINE Begun(n, f) == f \in [0..n -> T] /\ f[0] = base
                          /\ \A i \in Nat : i < n => f[i + 1] = step[<<i, f[i]>>]
           S == {n \in Nat : \E f \in [0..n -> T] : Begun(n, f)}
<1>1. \A n \in Nat : n \in S
  <2>1. 0 \in S
    <3>1. Begun(0, [i \in 0..0 |-> base])
      OBVIOUS
    <3> QED
      BY <3>1
  <2>2. ASSUME NEW n \in Nat, n \in S PROVE n + 1 \in S
    <3>1. PICK f \in [0..n -> T] : Begun(n, f)
      BY <2>2
    <3> DEFINE g == [i \in 0..(n + 1) |-> IF i = n + 1 THEN step[<<n, f[n]>>] ELSE f[i]]
    <3>2. f[n] \in T /\ step[<<n, f[n]>>] \in T
      BY <3>1
    <3>3. g \in [0..(n + 1) -> T]
      BY <3>1, <3>2
    <3>4. g[0] = base
      BY <3>1
    <3>5. ASSUME NEW i \in Nat, i < n + 1 PROVE g[i + 1] = step[<<i, g[i]>>]
      <4>1. g[i] = f[i]
        BY <3>5
      <4>2. CASE i = n
        <5>1. g[n + 1] = step[<<n, f[n]>>]
          OBVIOUS
        <5> QED
          BY <4>1, <4>2, <5>1
      <4>3. CASE i < n
        BY <3>1, <4>1, <4>3
      <4> QED
        BY <3>5, <4>2, <4>3
    <3> HIDE DEF g
    <3> QED
      BY <3>3, <3>4, <3>5
  <2> HIDE DEF S
  <2> QED
    BY <2>1, <2>2, SetInduction
<1>2. \A n \in Nat : \A f, g : Begun(n, f) /\ Begun(n, g) => \A i \in 0..n : f[i] = g[i]
  <2> SUFFICES ASSUME NEW n \in Nat, NEW f, NEW g, Begun(n, f), Begun(n, g)
               PROVE  \A i \in 0..n : f[i] = g[i]
    <3> HIDE DEF Begun
    <3> QED
      OBVIOUS
  <2> DEFINE E == {i \in Nat : i <= n => f[i] = g[i]}
  <2>1. 0 \in E
    OBVIOUS
  <2>2. ASSUME NEW i \in Nat, i \in E PROVE i + 1 \in E
    <3>1. i + 1 <= n => f[i] = g[i] /\ f[i + 1] = step[<<i, f[i]>>] /\ g[i + 1] = step[<<i, g[i]>>]
      BY <2>2
    <3>2. i + 1 <= n => f[i + 1] = g[i + 1]
      BY <3>1
    <3> QED
      BY <3>2
  <2> HIDE DEF E
  <2>3. \A i \in Nat : i \in E
    BY <2>1, <2>2, SetInduction
  <2> QED
    BY <2>3 DEF E
<1> DEFINE At(n) == CHOOSE f \in [0..n -> T] : Begun(n, f)
           h == [n \in Nat |-> At(n)[n]]
<1>3. \A n \in Nat : Begun(n, At(n))
  BY <1>1
<1>4. \A n \in Nat : h[n] = At(n)[n]
  OBVIOUS
<1> HIDE DEF At, h
<1>5. h \in [Nat -> T]
  <2>1. \A n \in Nat : At(n)[n] \in T
    BY <1>3
  <2> QED
    BY <2>1 DEF h
<1>6. h[0] = base
  BY <1>3, <1>4
<1>7. ASSUME NEW n \in Nat PROVE h[n + 1] = step[<<n, h[n]>>]
  <2>1. Begun(n + 1, At(n + 1)) /\ Begun(n, At(n))
    BY <1>3
  <2>2. At(n + 1)[n] = At(n)[n]
    <3> DEFINE f == [i \in 0..n |-> At(n + 1)[i]]
    <3>1. Begun(n, f)
      BY <2>1
    <3>2. f[n] = At(n)[n]
      <4>1. n \in 0..n
        OBVIOUS
      <4> HIDE DEF f, Begun
      <4> QED
        BY <1>2, <2>1, <3>1, <4>1
    <3> QED
      BY <3>2
  <2>3. At(n + 1)[n + 1] = step[<<n, At(n + 1)[n]>>]
    BY <2>1
  <2> QED
    BY <1>4, <2>2, <2>3
<1> QED
  BY <1>5, <1>6, <1>7 DEF Recursive

--------------------------------------------------------------------------------
(* Numbers: greatest common divisors. *)

Divides(k, n) == \E q \in Int : n = q * k

CommonDivisors(a, b) == {k \in Nat \ {0} : Divides(k, a) /\ Divides(k, b)}

Greatest(a, b) ==
  IF a = 0 /\ b = 0 THEN 0
  ELSE CHOOSE k \in CommonDivisors(a, b) : \A m \in CommonDivisors(a, b) : m <= k

LEMMA DivisorsOfRemainder ==
  ASSUME NEW a \in Nat, NEW b \in Nat \ {0}
  PROVE  CommonDivisors(a, b) = CommonDivisors(b, a % b)
<1> DEFINE q == a \div b
           r == a % b
<1>1. q \in Int /\ r \in Nat /\ a = q * b + r
  OBVIOUS
<1> HIDE DEF q, r
<1>2. ASSUME NEW k \in Nat, Divides(k, a), Divides(k, b) PROVE Divides(k, r)
  <2>1. PICK x \in Int : a = x * k
    BY <1>2 DEF Divides
  <2>2. PICK y \in Int : b = y * k
    BY <1>2 DEF Divides
  <2>3. r = x * k - q * (y * k)
    BY <1>1, <2>1, <2>2
  <2>4. q * (y * k) = (q * y) * k
    BY <1>1
  <2>5. x * k - (q * y) * k = (x - q * y) * k
    BY <1>1
  <2> QED
    BY <1>1, <2>3, <2>4, <2>5 DEF Divides
<1>3. ASSUME NEW k \in Nat, Divides(k, r), Divides(k, b) PROVE Divides(k, a)
  <2>1. PICK x \in Int : r = x * k
    BY <1>3 DEF Divides
  <2>2. PICK y \in Int : b = y * k
    BY <1>3 DEF Divides
  <2>3. a = q * (y * k) + x * k
    BY <1>1, <2>1, <2>2
  <2>4. q * (y * k) + x * k = (q * y + x) * k
    BY <1>1
  <2>5. q * y + x \in Int
    BY <1>1
  <2> QED
    BY <2>3, <2>4, <2>5 DEF Divides
<1> QED
  BY <1>2, <1>3 DEF CommonDivisors, r

(* The recursion of gcd_u64 has a solution, and Euclid is one.             *)
LEMMA EuclidStep ==
  ASSUME NEW a \in Nat, NEW b \in Nat
  PROVE  Euclid[<<a, b>>] = IF b = 0 THEN a ELSE Euclid[<<b, a % b>>]
<1> DEFINE g == [p \in Nat \X Nat |-> Greatest(p[1], p[2])]
<1>1. ASSUME NEW x \in Nat PROVE Greatest(x, 0) = x
  <2>1. CASE x = 0
    BY <2>1 DEF Greatest
  <2>2. CASE x # 0
    <3>1. x \in CommonDivisors(x, 0)
      <4>1. x = 1 * x /\ 0 = 0 * x
        OBVIOUS
      <4> QED
        BY <2>2, <4>1 DEF CommonDivisors, Divides
    <3>2. ASSUME NEW m \in CommonDivisors(x, 0) PROVE m <= x
      <4>1. PICK y \in Int : x = y * m
        BY <3>2 DEF CommonDivisors, Divides
      <4>2. m \in Nat \ {0}
        BY <3>2 DEF CommonDivisors
      <4>3. y > 0
        BY <2>2, <4>1, <4>2
      <4> QED
        BY <4>1, <4>2, <4>3
    <3>3. \A m \in CommonDivisors(x, 0) : m \in Nat
      BY DEF CommonDivisors
    <3> DEFINE c == CHOOSE k \in CommonDivisors(x, 0) : \A m \in CommonDivisors(x, 0) : m <= k
    <3>4. c \in CommonDivisors(x, 0) /\ \A m \in CommonDivisors(x, 0) : m <= c
      BY <3>1, <3>2
    <3>5. c = x
      <4> HIDE DEF c
      <4> QED
        BY <3>1, <3>2, <3>3, <3>4
    <3> QED
      BY <2>2, <3>5 DEF Greatest
  <2> QED
    BY <2>1, <2>2
<1>2. ASSUME NEW x \in Nat, NEW y \in Nat \ {0} PROVE Greatest(x, y) = Greatest(y, x % y)
  <2>1. CommonDivisors(x, y) = CommonDivisors(y, x % y)
    BY DivisorsOfRemainder
  <2> QED
    BY <2>1 DEF Greatest
<1>3. g = [p \in Nat \X Nat |-> IF p[2] = 0 THEN p[1] ELSE g[<<p[2], p[1] % p[2]>>]]
  <2> SUFFICES ASSUME NEW p \in Nat \X Nat
               PROVE  Greatest(p[1], p[2]) = IF p[2] = 0 THEN p[1] ELSE g[<<p[2], p[1] % p[2]>>]
    OBVIOUS
  <2>1. p[1] \in Nat /\ p[2] \in Nat
    OBVIOUS
  <2>2. CASE p[2] = 0
    BY <1>1, <2>1, <2>2
  <2>3. CASE p[2] # 0
    <3>1. p[1] % p[2] \in Nat
      BY <2>1, <2>3
    <3>2. g[<<p[2], p[1] % p[2]>>] = Greatest(p[2], p[1] % p[2])
      BY <2>1, <3>1
    <3> QED
      BY <1>2, <2>1, <2>3, <3>2
  <2> QED
    BY <2>2, <2>3
<1>4. Euclid = [p \in Nat \X Nat |-> IF p[2] = 0 THEN p[1] ELSE Euclid[<<p[2], p[1] % p[2]>>]]
  <2> HIDE DEF g
  <2> QED
    BY <1>3 DEF Euclid
<1> QED
  BY <1>4

(* It is a common divisor, and not zero unless both numbers are.           *)
LEMMA EuclidDivides ==
  ASSUME NEW a \in Nat, NEW b \in Nat
  PROVE  /\ Euclid[<<a, b>>] \in Nat
         /\ Divides(Euclid[<<a, b>>], a) /\ Divides(Euclid[<<a, b>>], b)
         /\ Euclid[<<a, b>>] = 0 => a = 0 /\ b = 0
<1> DEFINE Good(x, y) == /\ Euclid[<<x, y>>] \in Nat
                         /\ Divides(Euclid[<<x, y>>], x) /\ Divides(Euclid[<<x, y>>], y)
                         /\ Euclid[<<x, y>>] = 0 => x = 0 /\ y = 0
           S == {y \in Nat : \A x \in Nat : Good(x, y)}
<1>1. ASSUME NEW y \in Nat, \A m \in Nat : m < y => m \in S PROVE y \in S
  <2> SUFFICES ASSUME NEW x \in Nat PROVE Good(x, y)
    OBVIOUS
  <2>1. CASE y = 0
    <3>1. Euclid[<<x, y>>] = x
      BY <2>1, EuclidStep
    <3>2. x = 1 * x /\ 0 = 0 * x
      OBVIOUS
    <3> QED
      BY <2>1, <3>1, <3>2 DEF Divides
  <2>2. CASE y # 0
    <3> DEFINE r == x % y
               e == Euclid[<<y, r>>]
    <3>1. r \in Nat /\ r < y
      BY <2>2
    <3>2. Good(y, r)
      <4>1. r \in S
        BY <1>1, <3>1
      <4> QED
        BY <4>1
    <3>3. Euclid[<<x, y>>] = e
      BY <2>2, EuclidStep
    <3>4. e \in Nat \ {0}
      BY <2>2, <3>2
    <3>5. e \in CommonDivisors(y, r)
      BY <3>2, <3>4 DEF CommonDivisors
    <3> HIDE DEF e
    <3>6. e \in CommonDivisors(x, y)
      BY <2>2, <3>5, DivisorsOfRemainder
    <3> QED
      BY <2>2, <3>3, <3>4, <3>6 DEF CommonDivisors
  <2> QED
    BY <2>1, <2>2
<1>2. \A n \in Nat : n \in S
  <2> HIDE DEF S
  <2> QED
    BY <1>1, CompleteInduction
<1> QED
  BY <1>2

(* Dividing one factor by a divisor of it divides the product.             *)
LEMMA DivideFactor ==
  ASSUME NEW a \in Nat, NEW b \in Nat, NEW g \in Nat \ {0}, Divides(g, a)
  PROVE  (a \div g) * b = (a * b) \div g
<1>1. PICK q \in Int : a = q * g
  BY DEF Divides
<1>2. a \div g = q
  BY <1>1
<1>3. a * b = (q * b) * g
  BY <1>1
<1>4. q * b \in Int
  BY <1>1
<1> DEFINE p == q * b
<1>5. (p * g) \div g = p
  <2> HIDE DEF p
  <2> QED
    BY <1>4 DEF p
<1> QED
  BY <1>2, <1>3, <1>5

--------------------------------------------------------------------------------
(* Numbers: powers of two, and how many bits a number has.                 *)

LEMMA PowerStep ==
  /\ PowerOfTwo \in [Nat -> Nat \ {0}]
  /\ PowerOfTwo[0] = 1
  /\ \A n \in Nat : PowerOfTwo[n + 1] = 2 * PowerOfTwo[n]
<1> DEFINE Positive == Nat \ {0}
           step == [p \in Nat \X Positive |-> 2 * p[2]]
<1>1. step \in [Nat \X Positive -> Positive] /\ 1 \in Positive
  OBVIOUS
<1>2. \A n \in Nat, m \in Positive : step[<<n, m>>] = 2 * m
  OBVIOUS
<1> HIDE DEF step
<1>3. PICK f : Recursive(f, Positive, 1, step)
  <2> HIDE DEF Positive
  <2> QED
    BY <1>1, PrimitiveRecursion
<1>4. f = [k \in Nat |-> IF k = 0 THEN 1 ELSE 2 * f[k - 1]]
  <2>1. ASSUME NEW k \in Nat, k # 0 PROVE f[k] = 2 * f[k - 1]
    <3>1. k - 1 \in Nat /\ (k - 1) + 1 = k
      BY <2>1
    <3> QED
      BY <1>2, <1>3, <3>1 DEF Recursive
  <2> QED
    BY <1>3, <2>1 DEF Recursive
<1>5. PowerOfTwo = [k \in Nat |-> IF k = 0 THEN 1 ELSE 2 * PowerOfTwo[k - 1]]
  BY <1>4 DEF PowerOfTwo
<1>6. PowerOfTwo[0] = 1 /\ \A n \in Nat : PowerOfTwo[n + 1] = 2 * PowerOfTwo[n]
  BY <1>5
<1> DEFINE S == {n \in Nat : PowerOfTwo[n] \in Nat \ {0}}
<1>7. \A n \in Nat : n \in S
  <2>1. 0 \in S /\ \A n \in Nat : n \in S => n + 1 \in S
    BY <1>6
  <2> HIDE DEF S
  <2> QED
    BY <2>1, SetInduction
<1> QED
  BY <1>5, <1>6, <1>7

LEMMA PowersAdd ==
  ASSUME NEW m \in Nat
  PROVE  \A n \in Nat : PowerOfTwo[m + n] = PowerOfTwo[m] * PowerOfTwo[n]
<1> DEFINE S == {n \in Nat : PowerOfTwo[m + n] = PowerOfTwo[m] * PowerOfTwo[n]}
<1>1. 0 \in S
  BY PowerStep
<1>2. ASSUME NEW n \in Nat, n \in S PROVE n + 1 \in S
  <2> DEFINE p == PowerOfTwo[m]
             q == PowerOfTwo[n]
  <2>1. p \in Nat /\ q \in Nat
    BY PowerStep
  <2>2. PowerOfTwo[m + (n + 1)] = 2 * PowerOfTwo[m + n]
    <3>1. m + n \in Nat /\ m + (n + 1) = (m + n) + 1
      OBVIOUS
    <3> QED
      BY <3>1, PowerStep
  <2>3. PowerOfTwo[n + 1] = 2 * q
    BY PowerStep
  <2>4. PowerOfTwo[m + n] = p * q
    BY <1>2
  <2> HIDE DEF p, q
  <2>5. 2 * (p * q) = p * (2 * q)
    BY <2>1
  <2> QED
    BY <2>2, <2>3, <2>4, <2>5 DEF p
<1> HIDE DEF S
<1>3. \A n \in Nat : n \in S
  BY <1>1, <1>2, SetInduction
<1> QED
  BY <1>3 DEF S

LEMMA PowersGrow ==
  ASSUME NEW m \in Nat, NEW n \in Nat, m <= n
  PROVE  PowerOfTwo[m] <= PowerOfTwo[n]
<1> DEFINE p == PowerOfTwo[m]
           q == PowerOfTwo[n - m]
<1>1. n - m \in Nat /\ m + (n - m) = n
  OBVIOUS
<1>2. PowerOfTwo[n] = p * q /\ p \in Nat /\ q \in Nat \ {0}
  BY <1>1, PowersAdd, PowerStep
<1> HIDE DEF p, q
<1>3. p <= p * q
  BY <1>2
<1> QED
  BY <1>2, <1>3 DEF p

(* A number other than zero is within the powers of two that its bits say. *)
LEMMA BitsBound ==
  ASSUME NEW n \in Int, n # 0
  PROVE  /\ Bits(n) \in Nat \ {0}
         /\ PowerOfTwo[Bits(n) - 1] <= Magnitude(n)
         /\ Magnitude(n) < PowerOfTwo[Bits(n)]
<1> DEFINE Within(k, m) == PowerOfTwo[k - 1] <= m /\ m < PowerOfTwo[k]
           S == {m \in Nat : m # 0 => \E k \in 1..m : Within(k, m)}
<1>1. 0 \in S
  OBVIOUS
<1>2. ASSUME NEW m \in Nat, m \in S PROVE m + 1 \in S
  <2>1. CASE m = 0
    <3>1. Within(1, 1)
      <4>1. PowerOfTwo[0] = 1 /\ PowerOfTwo[0 + 1] = 2 * PowerOfTwo[0]
        BY PowerStep
      <4> QED
        BY <4>1
    <3> HIDE DEF Within
    <3> QED
      BY <2>1, <3>1
  <2>2. CASE m # 0
    <3>1. PICK k \in 1..m : Within(k, m)
      BY <1>2, <2>2
    <3>2. k \in Nat /\ k - 1 \in Nat /\ (k + 1) - 1 = k /\ k \in 1..(m + 1) /\ k + 1 \in 1..(m + 1)
      OBVIOUS
    <3>3. /\ PowerOfTwo[k] \in Nat /\ PowerOfTwo[k - 1] \in Nat /\ PowerOfTwo[k] \in Nat \ {0}
          /\ PowerOfTwo[k + 1] = 2 * PowerOfTwo[k]
      BY <3>2, PowerStep
    <3>4. CASE m + 1 < PowerOfTwo[k]
      <4>1. Within(k, m + 1)
        BY <3>1, <3>2, <3>3, <3>4
      <4> QED
        BY <3>2, <4>1
    <3>5. CASE m + 1 = PowerOfTwo[k]
      <4>1. Within(k + 1, m + 1)
        BY <3>1, <3>2, <3>3, <3>5
      <4> QED
        BY <3>2, <4>1
    <3> QED
      BY <3>1, <3>2, <3>3, <3>4, <3>5
  <2> QED
    BY <2>1, <2>2
<1>3. \A m \in Nat : m \in S
  <2> HIDE DEF S
  <2> QED
    BY <1>1, <1>2, SetInduction
<1>4. Magnitude(n) \in Nat \ {0}
  BY DEF Magnitude
<1>5. \E k \in 1..Magnitude(n) : Within(k, Magnitude(n))
  BY <1>3, <1>4
<1>6. Bits(n) \in 1..Magnitude(n) /\ Within(Bits(n), Magnitude(n))
  BY <1>5 DEF Bits
<1> QED
  BY <1>4, <1>6

--------------------------------------------------------------------------------
(* Numbers: rationals in lowest terms. *)

LEMMA EuclidIsCombination ==
  ASSUME NEW a \in Nat, NEW b \in Nat
  PROVE  \E s, t \in Int : Euclid[<<a, b>>] = s * a + t * b
<1> DEFINE Good(x, y) == \E s, t \in Int : Euclid[<<x, y>>] = s * x + t * y
           S == {y \in Nat : \A x \in Nat : Good(x, y)}
<1>1. ASSUME NEW y \in Nat, \A m \in Nat : m < y => m \in S PROVE y \in S
  <2> SUFFICES ASSUME NEW x \in Nat PROVE Good(x, y)
    OBVIOUS
  <2>1. CASE y = 0
    <3>1. Euclid[<<x, y>>] = x
      BY <2>1, EuclidStep
    <3>2. x = 1 * x + 0 * y
      BY <2>1
    <3> QED
      BY <3>1, <3>2
  <2>2. CASE y # 0
    <3> DEFINE q == x \div y
               r == x % y
    <3>1. r \in Nat /\ r < y /\ q \in Int /\ x = q * y + r
      BY <2>2
    <3>2. Euclid[<<x, y>>] = Euclid[<<y, r>>]
      BY <2>2, EuclidStep
    <3>3. Good(y, r)
      <4>1. r \in S
        BY <1>1, <3>1
      <4> QED
        BY <4>1
    <3> HIDE DEF q, r
    <3>4. PICK s \in Int, t \in Int : Euclid[<<y, r>>] = s * y + t * r
      BY <3>3
    <3>5. t * r = t * x - (t * q) * y
      BY <3>1
    <3>6. (s - t * q) * y = s * y - (t * q) * y
      BY <3>1
    <3>7. t * x \in Int /\ s * y \in Int /\ (t * q) * y \in Int /\ s - t * q \in Int
      BY <3>1
    <3>8. s * y + t * r = t * x + (s - t * q) * y
      BY <3>5, <3>6, <3>7
    <3> QED
      BY <3>2, <3>4, <3>7, <3>8
  <2> QED
    BY <2>1, <2>2
<1>2. \A n \in Nat : n \in S
  <2> HIDE DEF S
  <2> QED
    BY <1>1, CompleteInduction
<1> QED
  BY <1>2

(* A combination that is one leaves no common divisor.                     *)
LEMMA CombinationIsCoprime ==
  ASSUME NEW a \in Nat, NEW b \in Nat, NEW s \in Int, NEW t \in Int, s * a + t * b = 1
  PROVE  Euclid[<<a, b>>] = 1
<1> DEFINE g == Euclid[<<a, b>>]
<1>1. g \in Nat /\ Divides(g, a) /\ Divides(g, b)
  BY EuclidDivides
<1> HIDE DEF g
<1>2. PICK x \in Int : a = x * g
  BY <1>1 DEF Divides
<1>3. PICK y \in Int : b = y * g
  BY <1>1 DEF Divides
<1>4. (s * x + t * y) * g = 1
  <2>1. s * (x * g) + t * (y * g) = (s * x + t * y) * g
    BY <1>1
  <2> QED
    BY <1>2, <1>3, <2>1
<1> DEFINE h == s * x + t * y
<1>5. h \in Int
  OBVIOUS
<1> HIDE DEF h
<1>6. h * g = 1
  BY <1>4 DEF h
<1>7. g = 1
  <2>1. g # 0
    BY <1>1, <1>5, <1>6
  <2>2. h > 0
    BY <1>1, <1>5, <1>6
  <2>3. g > 1 => h * g > 1
    BY <1>1, <1>5, <2>2
  <2> QED
    BY <1>1, <1>6, <2>1, <2>3
<1> QED
  BY <1>7 DEF g

LEMMA RatType ==
  ASSUME NEW x \in Rat
  PROVE  x = <<x[1], x[2]>> /\ x[1] \in Int /\ x[2] \in Nat \ {0}
BY DEF Rat

LEMMA LowestTerms ==
  ASSUME NEW x \in Rat
  PROVE  /\ Euclid[<<Magnitude(x[1]), x[2]>>] = 1
         /\ \E s, t \in Int : s * x[1] + t * x[2] = 1
<1>1. x[1] \in Int /\ x[2] \in Nat \ {0}
  BY RatType
<1> DEFINE a == x[1]
           b == x[2]
           m == Magnitude(a)
<1>2. Magnitude(b) = b /\ m \in Nat /\ (m = a \/ m = -a)
  BY <1>1 DEF Magnitude
<1>3. Euclid[<<m, b>>] = 1
  BY <1>2 DEF Rat, CommonDivisor
<1> HIDE DEF m, b, a
<1>4. PICK s \in Int, t \in Int : s * m + t * b = 1
  <2>1. b \in Nat
    BY <1>1 DEF b
  <2> QED
    BY <1>2, <1>3, <2>1, EuclidIsCombination
<1>5. \E u \in Int : u * a = s * m
  <2>1. CASE m = a
    BY <2>1
  <2>2. CASE m = -a
    <3>1. (-s) * a = s * (-a)
      BY <1>1 DEF a
    <3> QED
      BY <2>2, <3>1
  <2> QED
    BY <1>2, <2>1, <2>2
<1>6. \E u, v \in Int : u * a + v * b = 1
  BY <1>4, <1>5
<1> QED
  BY <1>1, <1>3, <1>6 DEF a, b, m

(* One fraction in lowest terms divides another that equals it.            *)
LEMMA LowestTermsDivide ==
  ASSUME NEW x \in Rat, NEW y \in Rat, x[1] * y[2] = y[1] * x[2]
  PROVE  \E k \in Nat \ {0} : y[2] = k * x[2]
<1> DEFINE a == x[1]
           b == x[2]
           c == y[1]
           d == y[2]
<1>1. a \in Int /\ b \in Nat \ {0} /\ c \in Int /\ d \in Nat \ {0} /\ a * d = c * b
  BY RatType
<1>2. PICK s \in Int, t \in Int : s * a + t * b = 1
  BY LowestTerms
<1> HIDE DEF a, b, c, d
<1>3. d = (s * c + t * d) * b
  <2>1. d = (s * a + t * b) * d
    BY <1>1, <1>2
  <2>2. (s * a + t * b) * d = s * (a * d) + (t * d) * b
    BY <1>1
  <2>3. s * (c * b) + (t * d) * b = (s * c + t * d) * b
    BY <1>1
  <2> QED
    BY <1>1, <2>1, <2>2, <2>3
<1> DEFINE k == s * c + t * d
<1>4. k \in Int
  BY <1>1
<1> HIDE DEF k
<1>5. d = k * b
  BY <1>3 DEF k
<1>6. k > 0
  BY <1>1, <1>4, <1>5
<1> QED
  BY <1>4, <1>5, <1>6 DEF b, d

LEMMA LowestTermsAreUnique ==
  ASSUME NEW x \in Rat, NEW y \in Rat, x[1] * y[2] = y[1] * x[2]
  PROVE  x = y
<1> DEFINE a == x[1]
           b == x[2]
           c == y[1]
           d == y[2]
<1>1. /\ a \in Int /\ b \in Nat \ {0} /\ c \in Int /\ d \in Nat \ {0} /\ a * d = c * b
      /\ x = <<a, b>> /\ y = <<c, d>>
  BY RatType
<1>2. PICK k \in Nat \ {0} : d = k * b
  BY LowestTermsDivide
<1>3. PICK l \in Nat \ {0} : b = l * d
  BY LowestTermsDivide
<1> HIDE DEF a, b, c, d
<1>4. b <= d /\ d <= b
  BY <1>1, <1>2, <1>3
<1>5. b = d
  BY <1>1, <1>4
<1>6. a = c
  BY <1>1, <1>5
<1> QED
  BY <1>1, <1>5, <1>6

(* x is the number n / d.                                                  *)
Is(x, n, d) == x \in Rat /\ x[1] * d = n * x[2]

LEMMA OneNumber ==
  ASSUME NEW n \in Int, NEW d \in Int, d # 0, NEW x, NEW y, Is(x, n, d), Is(y, n, d)
  PROVE  x = y
<1> DEFINE a == x[1]
           b == x[2]
           c == y[1]
           e == y[2]
<1>1. a \in Int /\ b \in Int /\ c \in Int /\ e \in Int /\ a * d = n * b /\ c * d = n * e
  <2>1. x \in Rat /\ y \in Rat /\ a * d = n * b /\ c * d = n * e
    BY DEF Is
  <2>2. a \in Int /\ b \in Int /\ c \in Int /\ e \in Int
    BY <2>1, RatType
  <2> QED
    BY <2>1, <2>2
<1> HIDE DEF a, b, c, e
<1>2. (a * e) * d = (c * b) * d
  <2>1. (a * e) * d = (a * d) * e /\ (c * b) * d = (c * d) * b
    BY <1>1
  <2>2. (n * b) * e = (n * e) * b
    BY <1>1
  <2> QED
    BY <1>1, <2>1, <2>2
<1>3. a * e = c * b
  <2> DEFINE u == a * e
             v == c * b
  <2>1. u \in Int /\ v \in Int /\ u * d = v * d
    BY <1>1, <1>2
  <2> HIDE DEF u, v
  <2>2. u = v
    BY <2>1
  <2> QED
    BY <2>2 DEF u, v
<1> QED
  BY <1>3, LowestTermsAreUnique DEF Is, a, b, c, e

LEMMA FromFracIs ==
  ASSUME NEW n \in Int, NEW d \in Int, d # 0
  PROVE  Is(FromFrac(n, d), n, d)
<1> DEFINE m == Magnitude(n)
           e == Magnitude(d)
           g == Euclid[<<m, e>>]
           sign == IF d < 0 THEN -1 ELSE 1
<1>1. /\ m \in Nat /\ e \in Nat \ {0} /\ d = sign * e /\ sign \in {-1, 1}
      /\ \E u \in {-1, 1} : n = u * m
  BY DEF Magnitude
<1>2. g \in Nat \ {0} /\ Divides(g, m) /\ Divides(g, e)
  BY <1>1, EuclidDivides
<1>3. PICK s \in Int, t \in Int : g = s * m + t * e
  BY <1>1, EuclidIsCombination
<1>4. FromFrac(n, d) = <<sign * (n \div g), e \div g>>
  BY DEF FromFrac, CommonDivisor
<1> HIDE DEF m, e, g, sign
<1>5. PICK u \in {-1, 1} : n = u * m
  BY <1>1
<1>6. PICK p \in Int : m = p * g
  BY <1>2 DEF Divides
<1>7. PICK q \in Int : e = q * g
  BY <1>2 DEF Divides
<1>8. p \in Nat /\ q \in Nat \ {0}
  BY <1>1, <1>2, <1>6, <1>7
<1>9. n = (u * p) * g /\ u * p \in Int
  BY <1>2, <1>5, <1>6
<1>10. n \div g = u * p /\ e \div g = q
  <2> DEFINE w == u * p
  <2>1. w \in Int /\ n = w * g
    BY <1>9
  <2> HIDE DEF w
  <2>2. n \div g = w
    BY <1>2, <2>1
  <2>3. e \div g = q
    BY <1>2, <1>7, <1>8
  <2> QED
    BY <2>2, <2>3 DEF w
<1> DEFINE a == sign * (u * p)
<1>11. a \in Int /\ (a = p \/ a = -p)
  BY <1>1, <1>8
<1>12. FromFrac(n, d) = <<a, q>>
  BY <1>4, <1>10
<1>13. a * d = n * q
  <2>1. sign * sign = 1
    BY <1>1
  <2>2. (sign * (u * p)) * (sign * (q * g)) = (sign * sign) * ((u * p) * g * q)
    BY <1>1, <1>2, <1>8
  <2>3. (u * p) * g * q \in Int /\ ((u * p) * g) * q = n * q
    BY <1>2, <1>8, <1>9
  <2> QED
    BY <1>1, <1>7, <2>1, <2>2, <2>3
<1>14. s * p + t * q = 1
  <2>1. g = (s * p + t * q) * g
    <3>1. s * (p * g) + t * (q * g) = (s * p + t * q) * g
      BY <1>2, <1>8
    <3> QED
      BY <1>3, <1>6, <1>7, <3>1
  <2> DEFINE h == s * p + t * q
  <2>2. h \in Int
    BY <1>8
  <2> HIDE DEF h
  <2>3. g = h * g
    BY <2>1 DEF h
  <2>4. h = 1
    BY <1>2, <2>2, <2>3
  <2> QED
    BY <2>4 DEF h
<1>15. Euclid[<<p, q>>] = 1
  BY <1>8, <1>14, CombinationIsCoprime
<1> HIDE DEF a
<1>16. Magnitude(a) = p /\ Magnitude(q) = q
  BY <1>8, <1>11 DEF Magnitude
<1>17. <<a, q>> \in Rat
  BY <1>8, <1>11, <1>15, <1>16 DEF Rat, CommonDivisor
<1> QED
  BY <1>12, <1>13, <1>17 DEF Is

(* What the operations compute.                                            *)
LEMMA RatIs ==
  ASSUME NEW x \in Rat
  PROVE  Is(x, x[1], x[2])
BY RatType DEF Is

LEMMA FromFracEqual ==
  ASSUME NEW n \in Int, NEW d \in Int, d # 0, NEW x, Is(x, n, d)
  PROVE  FromFrac(n, d) = x
BY FromFracIs, OneNumber

LEMMA ConstantsAreRat ==
  /\ Zero \in Rat /\ One \in Rat
  /\ \A n \in Int : <<n, 1>> \in Rat
<1>1. ASSUME NEW n \in Int PROVE <<n, 1>> \in Rat
  <2>1. Magnitude(n) \in Nat /\ Magnitude(1) = 1
    BY DEF Magnitude
  <2>2. Euclid[<<Magnitude(n), 1>>] = 1
    BY <2>1, CombinationIsCoprime
  <2> QED
    BY <2>1, <2>2 DEF Rat, CommonDivisor
<1> QED
  BY <1>1 DEF Zero, One

LEMMA SumIs ==
  ASSUME NEW x \in Rat, NEW y \in Rat
  PROVE  /\ x[1] * y[2] + y[1] * x[2] \in Int /\ x[1] * y[2] - y[1] * x[2] \in Int
         /\ x[2] * y[2] \in Nat \ {0}
         /\ Is(Plus(x, y), x[1] * y[2] + y[1] * x[2], x[2] * y[2])
         /\ Is(Minus(x, y), x[1] * y[2] - y[1] * x[2], x[2] * y[2])
<1> DEFINE n == x[1] * y[2] + y[1] * x[2]
           m == x[1] * y[2] - y[1] * x[2]
           d == x[2] * y[2]
<1>1. n \in Int /\ m \in Int /\ d \in Nat \ {0}
  BY RatType
<1>2. Plus(x, y) = FromFrac(n, d) /\ Minus(x, y) = FromFrac(m, d)
  BY DEF Plus, Minus
<1> HIDE DEF n, m, d
<1>3. Is(Plus(x, y), n, d) /\ Is(Minus(x, y), m, d)
  BY <1>1, <1>2, FromFracIs
<1> QED
  BY <1>1, <1>3 DEF n, m, d

LEMMA ProductIs ==
  ASSUME NEW x \in Rat, NEW y \in Rat
  PROVE  /\ x[1] * y[1] \in Int /\ x[2] * y[2] \in Nat \ {0}
         /\ Is(Times(x, y), x[1] * y[1], x[2] * y[2])
<1> DEFINE n == x[1] * y[1]
           d == x[2] * y[2]
<1>1. n \in Int /\ d \in Nat \ {0}
  BY RatType
<1>2. Times(x, y) = FromFrac(n, d)
  BY DEF Times
<1> HIDE DEF n, d
<1>3. Is(Times(x, y), n, d)
  BY <1>1, <1>2, FromFracIs
<1> QED
  BY <1>1, <1>3 DEF n, d

LEMMA OperationsAreRat ==
  ASSUME NEW x \in Rat, NEW y \in Rat
  PROVE  /\ Plus(x, y) \in Rat /\ Minus(x, y) \in Rat /\ Times(x, y) \in Rat
         /\ Opposite(x) \in Rat
         /\ y # Zero => Over(x, y) \in Rat
<1>1. Plus(x, y) \in Rat /\ Minus(x, y) \in Rat /\ Times(x, y) \in Rat
  BY SumIs, ProductIs DEF Is
<1>2. Opposite(x) \in Rat
  <2>1. /\ x[1] \in Int /\ -x[1] \in Int /\ x[2] \in Nat \ {0}
        /\ Euclid[<<Magnitude(x[1]), x[2]>>] = 1
    <3>1. Euclid[<<Magnitude(x[1]), x[2]>>] = 1
      BY LowestTerms
    <3> QED
      BY <3>1, RatType
  <2>2. Magnitude(-x[1]) = Magnitude(x[1]) /\ Magnitude(x[2]) = x[2]
    BY <2>1 DEF Magnitude
  <2> QED
    BY <2>1, <2>2 DEF Opposite, Rat, CommonDivisor
<1>3. ASSUME y # Zero PROVE Over(x, y) \in Rat
  <2>1. y[1] # 0
    <3>1. ASSUME y[1] = 0 PROVE FALSE
      <4>1. y[1] * Zero[2] = Zero[1] * y[2] /\ Zero \in Rat
        BY <3>1, RatType, ConstantsAreRat DEF Zero
      <4> QED
        BY <1>3, <4>1, LowestTermsAreUnique
    <3> QED
      BY <3>1
  <2> DEFINE n == x[1] * y[2]
             d == x[2] * y[1]
  <2>2. n \in Int /\ d \in Int /\ d # 0
    BY <2>1, RatType
  <2>3. Over(x, y) = FromFrac(n, d)
    BY DEF Over
  <2> HIDE DEF n, d
  <2> QED
    BY <2>2, <2>3, FromFracIs DEF Is
<1> QED
  BY <1>1, <1>2, <1>3

LEMMA OperationsCommute ==
  ASSUME NEW x \in Rat, NEW y \in Rat
  PROVE  Plus(x, y) = Plus(y, x) /\ Times(x, y) = Times(y, x)
<1>1. /\ x[1] * y[2] + y[1] * x[2] = y[1] * x[2] + x[1] * y[2]
      /\ x[2] * y[2] = y[2] * x[2] /\ x[1] * y[1] = y[1] * x[1]
  BY RatType
<1> QED
  BY <1>1 DEF Plus, Times

(* The sum of three, whichever two are added first.                        *)
LEMMA SumOfThree ==
  ASSUME NEW x \in Rat, NEW y \in Rat, NEW z \in Rat
  PROVE  Is(Plus(Plus(x, y), z),
            (x[1] * y[2] + y[1] * x[2]) * z[2] + z[1] * (x[2] * y[2]), (x[2] * y[2]) * z[2])
<1> DEFINE p == Plus(x, y)
           n == x[1] * y[2] + y[1] * x[2]
           d == x[2] * y[2]
           a == p[1]
           b == p[2]
           c == z[1]
           e == z[2]
           s == Plus(p, z)
           u == s[1]
           v == s[2]
<1>1. /\ n \in Int /\ d \in Nat \ {0} /\ p \in Rat /\ a * d = n * b
      /\ a \in Int /\ b \in Nat \ {0} /\ c \in Int /\ e \in Nat \ {0}
  BY SumIs, RatType DEF Is
<1>2. /\ s \in Rat /\ u * (b * e) = (a * e + c * b) * v
      /\ u \in Int /\ v \in Nat \ {0}
  BY <1>1, SumIs, RatType DEF Is
<1> HIDE DEF n, d, a, b, c, e, u, v
<1>3. u * (d * e) = (n * e + c * d) * v
  <2>1. (u * (d * e)) * b = ((n * e + c * d) * v) * b
    <3>1. (u * (d * e)) * b = (u * (b * e)) * d
      BY <1>1, <1>2
    <3>2. ((a * e + c * b) * v) * d = ((a * d) * e) * v + ((c * d) * v) * b
      BY <1>1, <1>2
    <3>3. ((n * b) * e) * v + ((c * d) * v) * b = ((n * e + c * d) * v) * b
      BY <1>1, <1>2
    <3> QED
      BY <1>1, <1>2, <3>1, <3>2, <3>3
  <2> DEFINE l == u * (d * e)
             r == (n * e + c * d) * v
  <2>2. l \in Int /\ r \in Int
    BY <1>1, <1>2
  <2>3. l * b = r * b
    BY <2>1
  <2> HIDE DEF l, r
  <2>4. l = r
    BY <1>1, <2>2, <2>3
  <2> QED
    BY <2>4 DEF l, r
<1>4. u * (d * e) = (n * e + c * d) * v /\ s \in Rat
  BY <1>2, <1>3
<1> QED
  BY <1>4 DEF Is, u, v, n, d, c, e

LEMMA SumsAssociate ==
  ASSUME NEW x \in Rat, NEW y \in Rat, NEW z \in Rat
  PROVE  Plus(Plus(x, y), z) = Plus(x, Plus(y, z))
<1> DEFINE a == x[1]
           b == x[2]
           c == y[1]
           d == y[2]
           e == z[1]
           f == z[2]
           n == (a * d + c * b) * f + e * (b * d)
           m == (b * d) * f
<1>1. a \in Int /\ b \in Nat \ {0} /\ c \in Int /\ d \in Nat \ {0} /\ e \in Int /\ f \in Nat \ {0}
  BY RatType
<1>2. Is(Plus(Plus(x, y), z), n, m)
  BY SumOfThree
<1>3. Is(Plus(Plus(y, z), x), (c * f + e * d) * b + a * (d * f), (d * f) * b)
  BY SumOfThree
<1> HIDE DEF a, b, c, d, e, f
<1>4. n = (c * f + e * d) * b + a * (d * f) /\ m = (d * f) * b
  BY <1>1
<1>5. n \in Int /\ m \in Int /\ m # 0
  BY <1>1
<1> HIDE DEF n, m
<1>6. Plus(Plus(x, y), z) = Plus(Plus(y, z), x)
  BY <1>2, <1>3, <1>4, <1>5, OneNumber
<1>7. Plus(Plus(y, z), x) = Plus(x, Plus(y, z))
  BY OperationsAreRat, OperationsCommute
<1> QED
  BY <1>6, <1>7

(* The short cuts: zeros, ones, integers, and adding instead of            *)
(* subtracting.                                                            *)
LEMMA NeutralElements ==
  ASSUME NEW x \in Rat
  PROVE  /\ Plus(x, Zero) = x /\ Plus(Zero, x) = x /\ Minus(x, Zero) = x
         /\ Times(x, Zero) = Zero /\ Times(Zero, x) = Zero
         /\ Times(x, One) = x /\ Times(One, x) = x /\ Over(x, One) = x
<1> DEFINE a == x[1]
           b == x[2]
<1>1. a \in Int /\ b \in Nat \ {0} /\ x = <<a, b>>
  BY RatType
<1>2. FromFrac(a, b) = x
  BY <1>1, RatIs, FromFracEqual
<1>3. FromFrac(0, b) = Zero
  <2>1. Is(Zero, 0, b)
    BY <1>1, ConstantsAreRat DEF Is, Zero
  <2> HIDE DEF b
  <2> QED
    BY <1>1, <2>1, FromFracEqual
<1>4. /\ Plus(x, Zero) = FromFrac(a, b) /\ Minus(x, Zero) = FromFrac(a, b)
      /\ Times(x, Zero) = FromFrac(0, b) /\ Times(x, One) = FromFrac(a, b)
      /\ Over(x, One) = FromFrac(a, b)
  <2>1. a * 1 + 0 * b = a /\ a * 1 - 0 * b = a /\ b * 1 = b /\ a * 0 = 0 /\ a * 1 = a
    BY <1>1
  <2> HIDE DEF a, b
  <2> QED
    BY <2>1 DEF Plus, Minus, Times, Over, Zero, One, a, b
<1> QED
  BY <1>2, <1>3, <1>4, OperationsCommute, ConstantsAreRat

LEMMA IntegersAreRat ==
  ASSUME NEW m \in Int, NEW n \in Int
  PROVE  Plus(<<m, 1>>, <<n, 1>>) = <<m + n, 1>> /\ Times(<<m, 1>>, <<n, 1>>) = <<m * n, 1>>
<1>1. ASSUME NEW k \in Int PROVE FromFrac(k, 1) = <<k, 1>>
  <2>1. Is(<<k, 1>>, k, 1)
    BY ConstantsAreRat DEF Is
  <2> QED
    BY <2>1, FromFracEqual
<1>2. Plus(<<m, 1>>, <<n, 1>>) = FromFrac(m + n, 1)
  BY DEF Plus
<1>3. Times(<<m, 1>>, <<n, 1>>) = FromFrac(m * n, 1)
  BY DEF Times
<1> QED
  BY <1>1, <1>2, <1>3

LEMMA SubtractIsAdd ==
  ASSUME NEW x \in Rat, NEW f \in Rat, NEW y \in Rat
  PROVE  Minus(x, Times(f, y)) = Plus(x, Times(Opposite(f), y))
<1> DEFINE p == Times(f, y)
<1>1. p \in Rat /\ Opposite(f) \in Rat /\ Opposite(p) \in Rat
  BY OperationsAreRat
<1>2. Times(Opposite(f), y) = Opposite(p)
  <2> DEFINE a == f[1]
             b == f[2]
             c == y[1]
             d == y[2]
  <2>1. /\ a \in Int /\ b \in Nat \ {0} /\ c \in Int /\ d \in Nat \ {0}
        /\ p[1] \in Int /\ p[2] \in Nat \ {0} /\ p[1] * (b * d) = (a * c) * p[2]
    BY <1>1, RatType, ProductIs DEF Is
  <2> HIDE DEF p
  <2>2. Times(Opposite(f), y) = FromFrac((-a) * c, b * d)
    BY DEF Times, Opposite
  <2>3. Is(Opposite(p), (-a) * c, b * d)
    <3>1. Opposite(p)[1] = -p[1] /\ Opposite(p)[2] = p[2]
      BY DEF Opposite
    <3> HIDE DEF a, b, c, d
    <3>2. (-p[1]) * (b * d) = -(p[1] * (b * d)) /\ ((-a) * c) * p[2] = -((a * c) * p[2])
      BY <2>1
    <3> QED
      BY <1>1, <2>1, <3>1, <3>2 DEF Is
  <2> HIDE DEF a, b, c, d
  <2>4. (-a) * c \in Int /\ b * d \in Int /\ b * d # 0
    BY <2>1
  <2> QED
    BY <2>2, <2>3, <2>4, FromFracEqual
<1> HIDE DEF p
<1>3. Minus(x, p) = Plus(x, Opposite(p))
  <2>1. x[1] \in Int /\ x[2] \in Int /\ p[1] \in Int /\ p[2] \in Int
    BY <1>1, RatType
  <2>2. x[1] * p[2] - p[1] * x[2] = x[1] * p[2] + (-p[1]) * x[2]
    BY <2>1
  <2> QED
    BY <2>2 DEF Minus, Plus, Opposite
<1> QED
  BY <1>2, <1>3 DEF p

--------------------------------------------------------------------------------
(* Words: the wide intermediates of i64 are wide enough, for words of any  *)
(* size, and what i64 computes is what rug computes, or an overflow is     *)
(* reported.                                                               *)

(* The bounds of a product of two words. *)
LEMMA ProductBounds ==
  ASSUME NEW a \in -Half .. Half - 1, NEW b \in -Half .. Half - 1
  PROVE  /\ a * b \in Int
         /\ a * b <= Half * Half
         /\ Half - Half * Half <= a * b
BY IntegersAssumption, Z3T(30)

(* A number within the wide range is not changed by being wide. *)
LEMMA WideIsExact ==
  ASSUME NEW n \in Int, -(2 * Half * Half) <= n, n < 2 * Half * Half
  PROVE  Wide(n) = n
<1> DEFINE h == 2 * Half * Half
<1>1. h \in Nat /\ h > 0
  BY IntegersAssumption
<1>2. 4 * Half * Half = 2 * h
  BY IntegersAssumption
<1>3. n + h \in 0 .. 2 * h - 1
  BY <1>1
<1> HIDE DEF h
<1>4. (n + h) % (2 * h) = n + h
  BY <1>1, <1>3
<1> QED
  BY <1>1, <1>2, <1>4 DEF Wide, h

(* Neither a product of two words nor a difference of two such products    *)
(* overflows an i128.                                                      *)
LEMMA ProductsAreWide ==
  ASSUME NEW a \in -Half .. Half - 1, NEW b \in -Half .. Half - 1,
         NEW c \in -Half .. Half - 1, NEW d \in -Half .. Half - 1
  PROVE  /\ Wide(a * b) = a * b
         /\ Wide(Wide(a * b) - Wide(c * d)) = a * b - c * d
<1> DEFINE hh == Half * Half
             x == a * b
             y == c * d
<1>1. hh \in Nat /\ Half <= hh /\ Half > 0 /\ Half \in Nat /\ 2 * Half * Half = 2 * hh
  BY IntegersAssumption, Z3T(30)
<1>2. x \in Int /\ x <= hh /\ Half - hh <= x
  BY ProductBounds
<1>3. y \in Int /\ y <= hh /\ Half - hh <= y
  BY ProductBounds
<1> HIDE DEF hh, x, y
<1>4. Wide(x) = x
  BY <1>1, <1>2, WideIsExact
<1>5. Wide(y) = y
  BY <1>1, <1>3, WideIsExact
<1>6. Wide(x - y) = x - y
  BY <1>1, <1>2, <1>3, WideIsExact
<1> QED
  BY <1>4, <1>5, <1>6 DEF x, y

(* The product, the exact quotient and the Bareiss update of i64 are those *)
(* of rug, or they are refused because these do not fit into a word, and   *)
(* then the number is left alone.                                          *)
THEOREM WordsAreExactOrRefused ==
  ASSUME NEW aij \in -Half .. Half - 1, NEW ars \in -Half .. Half - 1,
         NEW ais \in -Half .. Half - 1, NEW arj \in -Half .. Half - 1,
         NEW det \in -Half .. Half - 1
  PROVE  /\ WordMultiply(aij, ars) = Narrowed(aij, RugMultiply(aij, ars).value)
         /\ det # 0 =>
              /\ WordDivide(aij, det) = Narrowed(aij, RugDivide(aij, det).value)
              /\ WordPivot(aij, ars, ais, arj, det) =
                   Narrowed(aij, RugPivot(aij, ars, ais, arj, det).value)
<1>1. WordMultiply(aij, ars) = Narrowed(aij, RugMultiply(aij, ars).value)
  BY ProductsAreWide DEF WordMultiply, RugMultiply, Done
<1>2. ASSUME det # 0
        PROVE  WordDivide(aij, det) = Narrowed(aij, RugDivide(aij, det).value)
  BY <1>2 DEF WordDivide, RugDivide, Done
<1>3. ASSUME det # 0
        PROVE  WordPivot(aij, ars, ais, arj, det) =
                 Narrowed(aij, RugPivot(aij, ars, ais, arj, det).value)
  BY <1>3, ProductsAreWide DEF WordPivot, RugPivot, Done
<1> QED
  BY <1>1, <1>2, <1>3

(* cmp_product of i64 is the order of the exact products. *)
THEOREM WordComparisonIsExact ==
  ASSUME NEW a \in -Half .. Half - 1, NEW b \in -Half .. Half - 1,
         NEW c \in -Half .. Half - 1, NEW d \in -Half .. Half - 1
  PROVE  WordCompare(a, b, c, d) = Order(a * b, c * d)
BY ProductsAreWide DEF WordCompare

--------------------------------------------------------------------------------
(* Words: products are compared by their bits only where these decide.     *)

LEMMA ProductBits ==
  ASSUME NEW a \in Int, NEW b \in Int, a # 0, b # 0
  PROVE  /\ Bits(a) + Bits(b) - 2 \in Nat
         /\ PowerOfTwo[Bits(a) + Bits(b) - 2] <= Magnitude(a) * Magnitude(b)
         /\ Magnitude(a) * Magnitude(b) < PowerOfTwo[Bits(a) + Bits(b)]
<1> DEFINE i == Bits(a) - 1
           j == Bits(b) - 1
           x == Magnitude(a)
           y == Magnitude(b)
           p == PowerOfTwo[i]
           q == PowerOfTwo[j]
           r == PowerOfTwo[i + 1]
           s == PowerOfTwo[j + 1]
<1>1. /\ i \in Nat /\ j \in Nat /\ Bits(a) = i + 1 /\ Bits(b) = j + 1
      /\ p <= x /\ x < r /\ q <= y /\ y < s
  BY BitsBound
<1>2. x \in Nat /\ y \in Nat
  BY DEF Magnitude
<1> HIDE DEF i, j, x, y
<1>3. /\ p \in Nat /\ q \in Nat /\ r \in Nat /\ s \in Nat
      /\ PowerOfTwo[i + j] = p * q
      /\ PowerOfTwo[(i + 1) + (j + 1)] = r * s
  BY <1>1, PowerStep, PowersAdd
<1>4. (i + 1) + (j + 1) - 2 = i + j /\ i + j \in Nat
  BY <1>1
<1> HIDE DEF p, q, r, s
<1>5. p * q <= x * y
  <2>1. p * q <= x * q /\ x * q <= x * y
    BY <1>1, <1>2, <1>3
  <2> QED
    BY <2>1, <1>2, <1>3
<1>6. x * y < r * s
  <2>1. x * y <= x * s /\ x * s < r * s
    BY <1>1, <1>2, <1>3
  <2> QED
    BY <2>1, <1>2, <1>3
<1> QED
  BY <1>1, <1>3, <1>4, <1>5, <1>6 DEF x, y

(* The sign of a product, and its magnitude.                               *)
LEMMA ProductSigns ==
  ASSUME NEW a \in Int, NEW b \in Int
  PROVE  /\ a * b \in Int
         /\ a * b = 0 <=> a = 0 \/ b = 0
         /\ NegativeProduct(a, b) <=> a * b < 0
         /\ a * b = IF NegativeProduct(a, b) THEN -(Magnitude(a) * Magnitude(b))
                                             ELSE Magnitude(a) * Magnitude(b)
<1>1. CASE a >= 0 /\ b >= 0
  BY <1>1 DEF Magnitude, NegativeProduct
<1>2. CASE a >= 0 /\ b < 0
  <2>1. a * b = -(a * (-b))
    OBVIOUS
  <2>2. a = 0 => a * b = 0
    OBVIOUS
  <2>3. a > 0 => a * b < 0
    BY <1>2
  <2> QED
    BY <1>2, <2>1, <2>2, <2>3 DEF Magnitude, NegativeProduct
<1>3. CASE a < 0 /\ b >= 0
  <2>1. a * b = -((-a) * b)
    OBVIOUS
  <2>2. b = 0 => a * b = 0
    OBVIOUS
  <2>3. b > 0 => a * b < 0
    BY <1>3
  <2> QED
    BY <1>3, <2>1, <2>2, <2>3 DEF Magnitude, NegativeProduct
<1>4. CASE a < 0 /\ b < 0
  <2>1. a * b = (-a) * (-b) /\ a * b > 0
    BY <1>4
  <2> QED
    BY <1>4, <2>1 DEF Magnitude, NegativeProduct
<1> QED
  BY <1>1, <1>2, <1>3, <1>4

(* Fewer bits by two make a smaller product.                               *)
LEMMA BitsDecide ==
  ASSUME NEW a \in Int, NEW b \in Int, NEW c \in Int, NEW d \in Int,
         a # 0, b # 0, c # 0, d # 0,
         Bits(a) + Bits(b) + 2 <= Bits(c) + Bits(d)
  PROVE  Magnitude(a) * Magnitude(b) < Magnitude(c) * Magnitude(d)
<1> DEFINE m == Bits(a) + Bits(b)
           n == Bits(c) + Bits(d) - 2
           x == Magnitude(a) * Magnitude(b)
           y == Magnitude(c) * Magnitude(d)
<1>1. m \in Nat /\ n \in Nat /\ m <= n
  BY BitsBound
<1>2. x < PowerOfTwo[m] /\ PowerOfTwo[n] <= y
  BY ProductBits
<1>3. PowerOfTwo[m] <= PowerOfTwo[n]
  <2> HIDE DEF m, n
  <2> QED
    BY <1>1, PowersGrow
<1>4. x \in Int /\ y \in Int
  BY DEF Magnitude
<1>5. PowerOfTwo[m] \in Int /\ PowerOfTwo[n] \in Int
  BY <1>1, PowerStep
<1> HIDE DEF m, n, x, y
<1>6. x < y
  BY <1>2, <1>3, <1>4, <1>5
<1> QED
  BY <1>6 DEF x, y

(* cmp_product of rug and of dashu is the order of the exact products.     *)
LEMMA LibrariesCompareExactly ==
  ASSUME NEW a \in Int, NEW b \in Int, NEW c \in Int, NEW d \in Int
  PROVE  /\ RugCompare(a, b, c, d) = Order(a * b, c * d)
         /\ DashuCompare(a, b, c, d) = Order(a * b, c * d)
<1> DEFINE m == Magnitude(a) * Magnitude(b)
           n == Magnitude(c) * Magnitude(d)
           x == a * b
           y == c * d
           i == Bits(a) + Bits(b)
           j == Bits(c) + Bits(d)
<1>1. /\ x \in Int /\ (x = 0 <=> a = 0 \/ b = 0) /\ (NegativeProduct(a, b) <=> x < 0)
      /\ x = IF x < 0 THEN -m ELSE m
  BY ProductSigns
<1>2. /\ y \in Int /\ (y = 0 <=> c = 0 \/ d = 0) /\ (NegativeProduct(c, d) <=> y < 0)
      /\ y = IF y < 0 THEN -n ELSE n
  BY ProductSigns
<1>3. m \in Int /\ n \in Int
  BY DEF Magnitude
<1>4. CASE x = 0 \/ y = 0 \/ (x < 0) # (y < 0)
  <2>1. RugCompare(a, b, c, d) = Order(x, y)
    <3> HIDE DEF x, y
    <3> QED
      BY <1>1, <1>2, <1>4 DEF RugCompare, Order, NegativeProduct
  <2>2. DashuCompare(a, b, c, d) = Order(x, y)
    <3>1. (~(a = 0 \/ b = 0) /\ (a < 0) # (b < 0)) <=> x < 0
      BY <1>1 DEF NegativeProduct
    <3>2. (~(c = 0 \/ d = 0) /\ (c < 0) # (d < 0)) <=> y < 0
      BY <1>2 DEF NegativeProduct
    <3> HIDE DEF x, y
    <3> QED
      BY <1>1, <1>2, <1>4, <3>1, <3>2 DEF DashuCompare, Order
  <2> QED
    BY <2>1, <2>2
<1>5. CASE x # 0 /\ y # 0 /\ (x < 0) = (y < 0)
  <2>1. a # 0 /\ b # 0 /\ c # 0 /\ d # 0
    BY <1>1, <1>2, <1>5
  <2>2. i \in Int /\ j \in Int
    BY <2>1, BitsBound
  <2>3. (i + 2 <= j => m < n) /\ (j + 2 <= i => n < m)
    BY <2>1, <2>2, BitsDecide
  <2> DEFINE Decided == IF i + 2 <= j THEN IF x < 0 THEN "Greater" ELSE "Less"
                        ELSE IF j + 2 <= i THEN IF x < 0 THEN "Less" ELSE "Greater"
                        ELSE Order(x, y)
  <2>4. Decided = Order(x, y)
    <3> HIDE DEF x, y, m, n, i, j
    <3> QED
      BY <1>1, <1>2, <1>3, <1>5, <2>2, <2>3 DEF Order
  <2>5. RugCompare(a, b, c, d) = Decided
    <3>1. RugCompare(a, b, c, d) = RugCompareMagnitudes(a, b, c, d)
      <4> HIDE DEF x, y
      <4> QED
        BY <1>1, <1>2, <1>5, <2>1 DEF RugCompare, NegativeProduct
    <3>2. NegativeProduct(a, b) <=> x < 0
      BY <1>1
    <3> HIDE DEF x, y
    <3> QED
      BY <3>1, <3>2 DEF RugCompareMagnitudes, Reversed, x, y
  <2>6. DashuCompare(a, b, c, d) = Decided
    <3>1. ((a < 0) # (b < 0)) <=> x < 0
      BY <1>1, <2>1 DEF NegativeProduct
    <3>2. ((c < 0) # (d < 0)) <=> y < 0
      BY <1>2, <2>1 DEF NegativeProduct
    <3> QED
      BY <1>5, <2>1, <3>1, <3>2 DEF DashuCompare
  <2> QED
    BY <2>4, <2>5, <2>6
<1> QED
  BY <1>4, <1>5

--------------------------------------------------------------------------------
(* Words: what a client computes with the three backends.                  *)

(* The word is the number that the libraries computed, or it is refused    *)
(* since it does not fit; a division by zero is refused by all.            *)
Agree(self, w, r, d) ==
  /\ r = d /\ r.value \in Int
  /\ \/ r.error = "none" /\ w = Narrowed(self, r.value)
     \/ r.error = "DivisionByZero" /\ r.value = self /\ w = r

Word == -Half .. Half - 1

LEMMA SignsAgree ==
  ASSUME NEW a \in Word
  PROVE  /\ Agree(a, WordNegate(a), RugNegate(a), DashuNegate(a))
         /\ Agree(a, WordAbs(a), RugAbs(a), DashuAbs(a))
BY IntegersAssumption
   DEF Word, Agree, WordNegate, RugNegate, DashuNegate, WordAbs, RugAbs, DashuAbs, Done, Magnitude

LEMMA DivisorsAgree ==
  ASSUME NEW a \in Word, NEW b \in Word
  PROVE  Agree(a, WordGcd(a, b), RugGcd(a, b), DashuGcd(a, b))
<1> DEFINE x == Magnitude(a)
           y == Magnitude(b)
           g == Euclid[<<x, y>>]
<1>1. x \in Nat /\ y \in Nat /\ (x = 0 <=> a = 0) /\ (y = 0 <=> b = 0)
  BY IntegersAssumption DEF Word, Magnitude
<1>2. DashuAbs(a) = Done(x) /\ DashuAbs(b) = Done(y)
  BY DEF DashuAbs, Magnitude
<1> HIDE DEF x, y
<1>3. (b = 0 => g = x) /\ (a = 0 => g = y)
  <2>1. ASSUME b = 0 PROVE g = x
    BY <1>1, <2>1, EuclidStep
  <2>2. ASSUME a = 0, b # 0 PROVE g = y
    <3>1. x % y = 0
      BY <1>1, <2>2
    <3>2. g = Euclid[<<y, 0>>]
      BY <1>1, <2>2, <3>1, EuclidStep
    <3> QED
      BY <1>1, <3>2, EuclidStep
  <2> QED
    BY <1>1, <2>1, <2>2
<1>4. g \in Int
  BY <1>1, EuclidDivides
<1>5. WordGcd(a, b) = Narrowed(a, g) /\ RugGcd(a, b) = Done(g)
  BY DEF WordGcd, RugGcd, CommonDivisor, x, y
<1>6. DashuGcd(a, b) = Done(g)
  BY <1>1, <1>2, <1>3 DEF DashuGcd, CommonDivisor, x, y, Done
<1> QED
  BY <1>4, <1>5, <1>6 DEF Agree, Done

LEMMA MultiplesAgree ==
  ASSUME NEW a \in Word, NEW b \in Word
  PROVE  Agree(a, WordLcm(a, b), RugLcm(a, b), DashuLcm(a, b))
<1> DEFINE x == Magnitude(a)
           y == Magnitude(b)
           g == Euclid[<<x, y>>]
           lcm == IF x = 0 \/ y = 0 THEN 0 ELSE (x \div g) * y
<1>1. a \in Int /\ b \in Int /\ x \in Nat /\ y \in Nat /\ (x = 0 <=> a = 0) /\ (y = 0 <=> b = 0)
  BY IntegersAssumption DEF Word, Magnitude
<1>2. DashuAbs(a) = Done(x) /\ DashuAbs(b) = Done(y) /\ Magnitude(x) = x /\ Magnitude(y) = y
  BY <1>1 DEF DashuAbs, Magnitude
<1>3. Magnitude(a * b) = x * y
  <2>1. a * b = x * y \/ a * b = -(x * y)
    BY <1>1, ProductSigns
  <2> HIDE DEF x, y
  <2>2. x * y \in Nat
    BY <1>1
  <2> QED
    BY <2>1, <2>2 DEF Magnitude
<1> HIDE DEF x, y
<1>4. x # 0 /\ y # 0 => g \in Nat \ {0} /\ (x \div g) * y = (x * y) \div g
  <2>1. g \in Nat /\ Divides(g, x) /\ (g = 0 => x = 0 /\ y = 0)
    BY <1>1, EuclidDivides
  <2> HIDE DEF g
  <2>2. ASSUME g # 0 PROVE (x \div g) * y = (x * y) \div g
    <3>1. g \in Nat \ {0}
      BY <2>1, <2>2
    <3> QED
      BY <1>1, <2>1, <3>1, DivideFactor
  <2> QED
    BY <2>1, <2>2
<1>5. lcm \in Int
  BY <1>1, <1>4
<1>6. WordLcm(a, b) = Narrowed(a, lcm)
  <2>1. InWord(0)
    BY IntegersAssumption DEF InWord
  <2> QED
    BY <2>1 DEF WordLcm, Narrowed, x, y
<1>7. RugLcm(a, b) = Done(lcm)
  BY <1>1, <1>3, <1>4 DEF RugLcm, CommonDivisor, x, y
<1>8. DashuLcm(a, b) = Done(lcm)
  BY <1>1, <1>2 DEF DashuLcm, CommonDivisor, Done
<1> QED
  BY <1>5, <1>6, <1>7, <1>8 DEF Agree, Done

LEMMA TruncatedIsInteger ==
  ASSUME NEW n \in Int, NEW d \in Int, d # 0
  PROVE  Truncated(n, d) \in Int
<1>1. Magnitude(n) \in Nat /\ Magnitude(d) \in Nat \ {0}
  BY DEF Magnitude
<1>2. Magnitude(n) \div Magnitude(d) \in Int
  BY <1>1
<1> QED
  BY <1>2 DEF Truncated

LEMMA ProductsAgree ==
  ASSUME NEW a \in Word, NEW b \in Word
  PROVE  /\ Agree(a, WordMultiply(a, b), RugMultiply(a, b), DashuMultiply(a, b))
         /\ Agree(a, WordDivide(a, b), RugDivide(a, b), DashuDivide(a, b))
<1>1. a \in Int /\ b \in Int
  BY IntegersAssumption DEF Word
<1>2. Agree(a, WordMultiply(a, b), RugMultiply(a, b), DashuMultiply(a, b))
  <2>1. WordMultiply(a, b) = Narrowed(a, RugMultiply(a, b).value)
    BY WordsAreExactOrRefused DEF Word
  <2>2. a * b \in Int
    BY <1>1
  <2> QED
    BY <2>1, <2>2 DEF Agree, RugMultiply, DashuMultiply, Done
<1>3. Agree(a, WordDivide(a, b), RugDivide(a, b), DashuDivide(a, b))
  <2>1. CASE b = 0
    BY <1>1, <2>1 DEF Agree, WordDivide, RugDivide, DashuDivide, Refused
  <2>2. CASE b # 0
    <3>1. WordDivide(a, b) = Narrowed(a, RugDivide(a, b).value)
      BY <2>2, WordsAreExactOrRefused DEF Word
    <3>2. Truncated(a, b) \in Int
      BY <1>1, <2>2, TruncatedIsInteger
    <3> QED
      BY <2>2, <3>1, <3>2 DEF Agree, RugDivide, DashuDivide, Done
  <2> QED
    BY <2>1, <2>2
<1> QED
  BY <1>2, <1>3

LEMMA PivotsAgree ==
  ASSUME NEW a \in Word, NEW b \in Word, NEW c \in Word, NEW d \in Word, NEW e \in Word
  PROVE  Agree(a, WordPivot(a, b, c, d, e), RugPivot(a, b, c, d, e), DashuPivot(a, b, c, d, e))
<1>1. a \in Int /\ a * b - c * d \in Int /\ e \in Int
  <2>1. a \in Int /\ b \in Int /\ c \in Int /\ d \in Int /\ e \in Int
    BY IntegersAssumption DEF Word
  <2> QED
    BY <2>1
<1>2. CASE e = 0
  BY <1>1, <1>2 DEF Agree, WordPivot, RugPivot, DashuPivot, Refused
<1>3. CASE e # 0
  <2>1. WordPivot(a, b, c, d, e) = Narrowed(a, RugPivot(a, b, c, d, e).value)
    BY <1>3, WordsAreExactOrRefused DEF Word
  <2>2. Truncated(a * b - c * d, e) \in Int
    BY <1>1, <1>3, TruncatedIsInteger
  <2> QED
    BY <1>3, <2>1, <2>2 DEF Agree, RugPivot, DashuPivot, Done
<1> QED
  BY <1>2, <1>3

(* The client has the same numbers with every backend, until one of them   *)
(* does not fit into its word.                                             *)
IntInv ==
  /\ word \in [Registers -> Word] /\ rug \in [Registers -> Int] /\ dashu = rug
  /\ error.rug = error.dashu
  /\ error.word # "Overflow" => word = rug /\ error.word = error.rug
  /\ error.word = "Overflow" =>
       /\ \E i \in Registers : ~InWord(rug[i])
       /\ \A i \in Registers : InWord(rug[i]) => word[i] = rug[i]

LEMMA InitIntegers ==
  ASSUME IntInit
  PROVE  IntInv
<1>1. error.word = "none" /\ error.rug = "none" /\ error.dashu = "none"
  BY DEF IntInit, NoError
<1>2. word \in [Registers -> Word]
  BY IntegersAssumption DEF IntInit, Word
<1>3. word \in [Registers -> Int]
  BY <1>2, IntegersAssumption DEF Word
<1> QED
  BY <1>1, <1>2, <1>3 DEF IntInit, IntInv

LEMMA AssignStep ==
  ASSUME IntInv, NEW i \in Registers, NEW w, NEW r, NEW d, Agree(word[i], w, r, d),
         Assign(i, w, r, d)
  PROVE  IntInv'
<1>1. error.word = "none" /\ word = rug /\ dashu = rug
  BY DEF Assign, NoError, IntInv
<1>2. /\ word \in [Registers -> Word] /\ rug \in [Registers -> Int]
      /\ word' = [word EXCEPT ![i] = w.value] /\ rug' = [rug EXCEPT ![i] = r.value]
      /\ dashu' = [dashu EXCEPT ![i] = d.value]
      /\ error'.word = w.error /\ error'.rug = r.error /\ error'.dashu = d.error
  BY DEF Assign, IntInv
<1>3. r = d /\ r.value \in Int /\ \A j \in Registers : InWord(word[j])
  BY <1>2 DEF Agree, Word, InWord
<1>4. CASE r.error = "none" /\ InWord(r.value)
  <2>1. w = Done(r.value) /\ r.value \in Word
    BY <1>4 DEF Agree, Narrowed, InWord, Word
  <2>2. w.value = r.value /\ w.error = "none"
    BY <2>1 DEF Done
  <2> QED
    BY <1>1, <1>2, <1>3, <1>4, <2>1, <2>2 DEF IntInv
<1>5. CASE r.error = "none" /\ ~InWord(r.value)
  <2>1. w = Refused(word[i], "Overflow")
    BY <1>5 DEF Agree, Narrowed
  <2>2. w.value = word[i] /\ w.error = "Overflow"
    BY <2>1 DEF Refused
  <2>3. word' = word /\ rug'[i] = r.value /\ \A j \in Registers \ {i} : rug'[j] = word[j]
    BY <1>1, <1>2, <2>2
  <2> QED
    BY <1>1, <1>2, <1>3, <1>5, <2>2, <2>3 DEF IntInv
<1>6. CASE r.error = "DivisionByZero"
  <2>1. r.value = word[i] /\ w = r
    BY <1>6 DEF Agree
  <2> QED
    BY <1>1, <1>2, <1>3, <1>6, <2>1 DEF IntInv
<1> QED
  BY <1>4, <1>5, <1>6 DEF Agree

LEMMA IntegersStep ==
  ASSUME IntInv, IntNext
  PROVE  IntInv'
<1>1. ASSUME error = NoError PROVE word = rug /\ dashu = rug /\ \A i \in Registers : word[i] \in Word
  BY <1>1 DEF IntInv, NoError
<1>2. ASSUME NEW i \in Registers, Negate(i) \/ Abs(i) PROVE IntInv'
  <2>1. word = rug /\ dashu = rug /\ word[i] \in Word
    BY <1>1, <1>2 DEF Negate, Abs, Assign
  <2>2. CASE Negate(i)
    BY <2>1, <2>2, SignsAgree, AssignStep DEF Negate
  <2>3. CASE Abs(i)
    BY <2>1, <2>3, SignsAgree, AssignStep DEF Abs
  <2> QED
    BY <1>2, <2>2, <2>3
<1>3. ASSUME NEW i \in Registers, NEW j \in Registers,
             Gcd(i, j) \/ Lcm(i, j) \/ Multiply(i, j) \/ DivideExact(i, j)
      PROVE  IntInv'
  <2>1. word = rug /\ dashu = rug /\ word[i] \in Word /\ word[j] \in Word
    BY <1>1, <1>3 DEF Gcd, Lcm, Multiply, DivideExact, Assign
  <2>2. CASE Gcd(i, j)
    BY <2>1, <2>2, DivisorsAgree, AssignStep DEF Gcd
  <2>3. CASE Lcm(i, j)
    BY <2>1, <2>3, MultiplesAgree, AssignStep DEF Lcm
  <2>4. CASE Multiply(i, j)
    BY <2>1, <2>4, ProductsAgree, AssignStep DEF Multiply
  <2>5. CASE DivideExact(i, j)
    BY <2>1, <2>5, ProductsAgree, AssignStep DEF DivideExact
  <2> QED
    BY <1>3, <2>2, <2>3, <2>4, <2>5
<1>4. ASSUME NEW i \in Registers, NEW j \in Registers, NEW k \in Registers, NEW l \in Registers,
             NEW m \in Registers, Pivot(i, j, k, l, m)
      PROVE  IntInv'
  <2>1. /\ word = rug /\ dashu = rug
        /\ word[i] \in Word /\ word[j] \in Word /\ word[k] \in Word /\ word[l] \in Word
        /\ word[m] \in Word
    BY <1>1, <1>4 DEF Pivot, Assign
  <2> QED
    BY <1>4, <2>1, PivotsAgree, AssignStep DEF Pivot
<1> QED
  BY <1>2, <1>3, <1>4 DEF IntNext

LEMMA IntegersSound ==
  ASSUME IntInv
  PROVE  BackendsAgree /\ ComparisonsAreExact
<1>1. DOMAIN rug = Registers
  BY DEF IntInv
<1>2. BackendsAgree
  <2>1. ASSUME NEW i \in Registers PROVE InWord(word[i])
    BY DEF IntInv, Word, InWord
  <2>2. CASE error.word # "Overflow"
    BY <1>1, <2>1, <2>2 DEF IntInv, BackendsAgree
  <2>3. CASE error.word = "Overflow"
    BY <1>1, <2>1, <2>3 DEF IntInv, BackendsAgree
  <2> QED
    BY <2>2, <2>3
<1>3. ComparisonsAreExact
  <2> SUFFICES ASSUME error = NoError,
                      NEW i \in Registers, NEW j \in Registers, NEW k \in Registers, NEW l \in Registers
               PROVE  LET exact == Order(rug[i] * rug[j], rug[k] * rug[l]) IN
                      /\ WordCompare(word[i], word[j], word[k], word[l]) = exact
                      /\ RugCompare(rug[i], rug[j], rug[k], rug[l]) = exact
                      /\ DashuCompare(dashu[i], dashu[j], dashu[k], dashu[l]) = exact
    BY <1>1 DEF ComparisonsAreExact
  <2>1. word = rug /\ dashu = rug
    BY DEF IntInv, NoError
  <2>2. /\ word[i] \in Word /\ word[j] \in Word /\ word[k] \in Word /\ word[l] \in Word
        /\ rug[i] \in Int /\ rug[j] \in Int /\ rug[k] \in Int /\ rug[l] \in Int
    BY DEF IntInv
  <2>3. WordCompare(word[i], word[j], word[k], word[l]) = Order(word[i] * word[j], word[k] * word[l])
    BY <2>2, WordComparisonIsExact DEF Word
  <2>4. /\ RugCompare(rug[i], rug[j], rug[k], rug[l]) = Order(rug[i] * rug[j], rug[k] * rug[l])
        /\ DashuCompare(rug[i], rug[j], rug[k], rug[l]) = Order(rug[i] * rug[j], rug[k] * rug[l])
    <3> DEFINE a == rug[i]
               b == rug[j]
               c == rug[k]
               d == rug[l]
    <3>1. a \in Int /\ b \in Int /\ c \in Int /\ d \in Int
      BY <2>2
    <3> HIDE DEF a, b, c, d
    <3>2. RugCompare(a, b, c, d) = Order(a * b, c * d) /\ DashuCompare(a, b, c, d) = Order(a * b, c * d)
      BY <3>1, LibrariesCompareExactly
    <3> QED
      BY <3>2 DEF a, b, c, d
  <2> QED
    BY <2>1, <2>3, <2>4
<1> QED
  BY <1>2, <1>3

(* Clients of other things have no integers.                               *)
IntegersInv ==
  /\ client = "integers" => IntInv
  /\ client # "integers" => NoIntegers

LEMMA NoIntegersSound ==
  ASSUME NoIntegers
  PROVE  BackendsAgree /\ ComparisonsAreExact
<1>1. /\ rug = <<>> /\ dashu = <<>>
      /\ error.word = "none" /\ error.rug = "none" /\ error.dashu = "none"
      /\ \A i \in DOMAIN rug : FALSE
  BY DEF NoIntegers, NoError
<1> QED
  BY <1>1 DEF BackendsAgree, ComparisonsAreExact

(* Whatever a client computes, rug and dashu compute the same numbers, a   *)
(* machine word has them too or refuses just what does not fit, and each   *)
(* of the three orders products as they are: for words of any size, any    *)
(* number of numbers and any sequence of operations.                       *)
THEOREM IntegersExact ==
  ClientSpec => []IntegersAreExact
<1>1. ClientInit => IntegersInv
  BY InitIntegers DEF ClientInit, IntegersInv
<1>2. IntegersInv /\ [ClientNext]_calculoVars => IntegersInv'
  <2> SUFFICES ASSUME IntegersInv, [ClientNext]_calculoVars PROVE IntegersInv'
    OBVIOUS
  <2>1. ASSUME UNCHANGED <<client, intVars>> PROVE IntegersInv'
    BY <2>1 DEF IntegersInv, NoIntegers, NoError, IntInv, intVars
  <2>2. CASE UNCHANGED calculoVars
    BY <2>1, <2>2 DEF calculoVars
  <2>3. CASE ClientNext
    <3>1. CASE client = "integers" /\ IntNext
      BY <2>3, <3>1, IntegersStep DEF IntegersInv, ClientNext
    <3>2. CASE ~(client = "integers" /\ IntNext)
      BY <2>1, <2>3, <3>2 DEF ClientNext
    <3> QED
      BY <3>1, <3>2
  <2> QED
    BY <2>2, <2>3
<1>3. IntegersInv => IntegersAreExact
  BY IntegersSound, NoIntegersSound DEF IntegersInv, IntegersAreExact
<1> QED
  BY <1>1, <1>2, <1>3, PTL DEF ClientSpec

--------------------------------------------------------------------------------
(* Sums: a recursion over the entries of a row, solved.                    *)

Solves(f, base, terms, used) ==
  /\ f \in [Nat -> Rat]
  /\ f[0] = base
  /\ \A n \in Nat : f[n + 1] = IF n + 1 \in used THEN Plus(f[n], terms[n + 1]) ELSE f[n]

LEMMA OneSum ==
  ASSUME NEW base, NEW terms, NEW used, NEW f, NEW g,
         Solves(f, base, terms, used), Solves(g, base, terms, used)
  PROVE  f = g
<1> DEFINE E == {n \in Nat : f[n] = g[n]}
<1>1. 0 \in E
  BY DEF Solves
<1>2. ASSUME NEW n \in Nat, n \in E PROVE n + 1 \in E
  <2>1. f[n] = g[n]
    BY <1>2
  <2> QED
    BY <2>1 DEF Solves
<1> HIDE DEF E
<1>3. \A n \in Nat : n \in E
  BY <1>1, <1>2, SetInduction
<1> QED
  BY <1>3 DEF E, Solves

LEMMA SumSolved ==
  ASSUME NEW base \in Rat, NEW terms, NEW used, \A k \in used : terms[k] \in Rat
  PROVE  \E f : Solves(f, base, terms, used) /\ SumUp(base, terms, used) = f[Len(terms)]
<1> DEFINE step == [p \in Nat \X Rat |-> IF p[1] + 1 \in used THEN Plus(p[2], terms[p[1] + 1]) ELSE p[2]]
           Next(g) == [k \in Nat |-> IF k = 0 THEN base
                                     ELSE IF k \in used THEN Plus(g[k - 1], terms[k])
                                     ELSE g[k - 1]]
           acc == CHOOSE g : g = Next(g)
<1>1. step \in [Nat \X Rat -> Rat]
  BY OperationsAreRat
<1>2. PICK f : Recursive(f, Rat, base, step)
  BY <1>1, PrimitiveRecursion
<1>3. Solves(f, base, terms, used)
  BY <1>2 DEF Recursive, Solves
<1>4. f = Next(f)
  <2>1. ASSUME NEW k \in Nat PROVE f[k] = Next(f)[k]
    <3>1. CASE k = 0
      BY <1>3, <3>1 DEF Solves
    <3>2. CASE k # 0
      <4>1. k - 1 \in Nat /\ (k - 1) + 1 = k
        BY <3>2
      <4> QED
        BY <1>3, <3>2, <4>1 DEF Solves
    <3> QED
      BY <3>1, <3>2
  <2>2. f \in [Nat -> Rat]
    BY <1>3 DEF Solves
  <2> QED
    BY <2>1, <2>2
<1>5. acc = Next(acc)
  <2> HIDE DEF Next
  <2> QED
    BY <1>4
<1>6. Solves(acc, base, terms, used)
  <2> HIDE DEF acc
  <2>1. acc[0] = base
    BY <1>5
  <2>2. \A n \in Nat : acc[n + 1] = IF n + 1 \in used THEN Plus(acc[n], terms[n + 1]) ELSE acc[n]
    BY <1>5
  <2> DEFINE E == {n \in Nat : acc[n] = f[n]}
  <2>3. 0 \in E
    BY <2>1, <1>3 DEF Solves
  <2>4. ASSUME NEW n \in Nat, n \in E PROVE n + 1 \in E
    BY <2>2, <2>4, <1>3 DEF Solves
  <2> HIDE DEF E
  <2>5. \A n \in Nat : n \in E
    BY <2>3, <2>4, SetInduction
  <2>6. acc = [n \in Nat |-> acc[n]]
    BY <1>5
  <2>7. acc = f
    BY <1>3, <2>5, <2>6 DEF E, Solves
  <2> QED
    BY <1>3, <2>7
<1>7. SumUp(base, terms, used) = acc[Len(terms)]
  BY DEF SumUp
<1> HIDE DEF acc
<1> QED
  BY <1>6, <1>7

(* Two sums of the same terms, from one number on.                         *)
LEMMA SumsMeet ==
  ASSUME NEW m \in Nat, NEW base, NEW b, NEW terms, NEW t, NEW used, NEW u,
         NEW f, NEW g, Solves(f, base, terms, used), Solves(g, b, t, u),
         f[m] = g[m],
         \A n \in Nat : n > m => /\ n \in used <=> n \in u
                                 /\ n \in u => terms[n] = t[n]
  PROVE  \A n \in Nat : n >= m => f[n] = g[n]
<1> DEFINE E == {n \in Nat : n >= m => f[n] = g[n]}
<1>1. 0 \in E
  OBVIOUS
<1>2. ASSUME NEW n \in Nat, n \in E PROVE n + 1 \in E
  <2>1. CASE n + 1 <= m
    BY <2>1
  <2>2. CASE n + 1 > m
    <3>1. f[n] = g[n]
      BY <1>2, <2>2
    <3>2. f[n + 1] = g[n + 1]
      BY <2>2, <3>1 DEF Solves
    <3> QED
      BY <3>2
  <2> QED
    BY <2>1, <2>2
<1> HIDE DEF E
<1>3. \A n \in Nat : n \in E
  BY <1>1, <1>2, SetInduction
<1> QED
  BY <1>3 DEF E

(* Terms that are zero may be left out.                                    *)
LEMMA ZeroesAddNothing ==
  ASSUME NEW terms, NEW used, NEW all, used \subseteq all,
         NEW f, NEW g, Solves(f, Zero, terms, used), Solves(g, Zero, terms, all),
         \A n \in all \ used : terms[n] = Zero
  PROVE  \A n \in Nat : f[n] = g[n]
<1> DEFINE E == {n \in Nat : f[n] = g[n]}
<1>1. 0 \in E
  BY DEF Solves
<1>2. ASSUME NEW n \in Nat, n \in E PROVE n + 1 \in E
  <2>1. f[n] = g[n] /\ g[n] \in Rat
    BY <1>2 DEF Solves
  <2>2. CASE n + 1 \in all \ used
    <3>1. g[n + 1] = Plus(g[n], Zero) /\ f[n + 1] = f[n]
      BY <2>2 DEF Solves
    <3> QED
      BY <2>1, <3>1, NeutralElements
  <2>3. CASE ~(n + 1 \in all \ used)
    BY <2>1, <2>3 DEF Solves
  <2> QED
    BY <2>2, <2>3
<1> HIDE DEF E
<1>3. \A n \in Nat : n \in E
  BY <1>1, <1>2, SetInduction
<1> QED
  BY <1>3 DEF E

(* What a sum starts from may be added in the end.                         *)
LEMMA SumFromBase ==
  ASSUME NEW base \in Rat, NEW terms, NEW used, NEW f, NEW g, \A k \in used : terms[k] \in Rat,
         Solves(f, base, terms, used), Solves(g, Zero, terms, used)
  PROVE  \A n \in Nat : f[n] = Plus(base, g[n])
<1> DEFINE E == {n \in Nat : f[n] = Plus(base, g[n])}
<1>1. 0 \in E
  BY NeutralElements DEF Solves
<1>2. ASSUME NEW n \in Nat, n \in E PROVE n + 1 \in E
  <2>1. f[n] = Plus(base, g[n]) /\ g[n] \in Rat
    BY <1>2 DEF Solves
  <2>2. CASE n + 1 \in used
    <3>1. f[n + 1] = Plus(f[n], terms[n + 1]) /\ g[n + 1] = Plus(g[n], terms[n + 1])
      BY <2>2 DEF Solves
    <3>2. Plus(Plus(base, g[n]), terms[n + 1]) = Plus(base, Plus(g[n], terms[n + 1]))
      BY <2>1, <2>2, SumsAssociate
    <3> QED
      BY <2>1, <3>1, <3>2
  <2>3. CASE n + 1 \notin used
    BY <2>1, <2>3 DEF Solves
  <2> QED
    BY <2>2, <2>3
<1> HIDE DEF E
<1>3. \A n \in Nat : n \in E
  BY <1>1, <1>2, SetInduction
<1> QED
  BY <1>3 DEF E

(* Two sums added are the sum of the terms added.                          *)
LEMMA SumOfSums ==
  ASSUME NEW a, NEW b, NEW c, NEW used, NEW f, NEW g, NEW h,
         \A k \in used : a[k] \in Rat /\ b[k] \in Rat /\ c[k] = Plus(a[k], b[k]),
         Solves(f, Zero, a, used), Solves(g, Zero, b, used), Solves(h, Zero, c, used)
  PROVE  \A n \in Nat : h[n] = Plus(f[n], g[n])
<1> DEFINE E == {n \in Nat : h[n] = Plus(f[n], g[n])}
<1>1. 0 \in E
  BY NeutralElements, ConstantsAreRat DEF Solves
<1>2. ASSUME NEW n \in Nat, n \in E PROVE n + 1 \in E
  <2>1. h[n] = Plus(f[n], g[n]) /\ f[n] \in Rat /\ g[n] \in Rat
    BY <1>2 DEF Solves
  <2>2. CASE n + 1 \in used
    <3> DEFINE x == f[n]
               y == g[n]
               p == a[n + 1]
               q == b[n + 1]
    <3>1. x \in Rat /\ y \in Rat /\ p \in Rat /\ q \in Rat
      BY <2>1, <2>2
    <3>2. /\ h[n + 1] = Plus(Plus(x, y), Plus(p, q))
          /\ f[n + 1] = Plus(x, p) /\ g[n + 1] = Plus(y, q)
      BY <2>1, <2>2 DEF Solves
    <3> HIDE DEF x, y, p, q
    <3>3. Plus(Plus(x, y), Plus(p, q)) = Plus(Plus(x, p), Plus(y, q))
      <4>1. Plus(y, Plus(p, q)) = Plus(p, Plus(y, q))
        <5>1. Plus(y, Plus(p, q)) = Plus(Plus(y, p), q)
          BY <3>1, SumsAssociate
        <5>2. Plus(Plus(y, p), q) = Plus(Plus(p, y), q)
          BY <3>1, OperationsCommute
        <5>3. Plus(Plus(p, y), q) = Plus(p, Plus(y, q))
          BY <3>1, SumsAssociate
        <5> QED
          BY <5>1, <5>2, <5>3
      <4>2. Plus(p, q) \in Rat /\ Plus(y, q) \in Rat
        BY <3>1, OperationsAreRat
      <4>3. Plus(Plus(x, y), Plus(p, q)) = Plus(x, Plus(y, Plus(p, q)))
        BY <3>1, <4>2, SumsAssociate
      <4>4. Plus(x, Plus(p, Plus(y, q))) = Plus(Plus(x, p), Plus(y, q))
        BY <3>1, <4>2, SumsAssociate
      <4> QED
        BY <4>1, <4>3, <4>4
    <3> QED
      BY <3>2, <3>3
  <2>3. CASE n + 1 \notin used
    BY <2>1, <2>3 DEF Solves
  <2> QED
    BY <2>2, <2>3
<1> HIDE DEF E
<1>3. \A n \in Nat : n \in E
  BY <1>1, <1>2, SetInduction
<1> QED
  BY <1>3 DEF E

--------------------------------------------------------------------------------
(* Rows: products of two of them.                                          *)
LEMMA RowOf ==
  ASSUME NEW n \in Nat, NEW row \in [1..n -> Rat]
  PROVE  row \in Seq(Rat) /\ Len(row) = n
<1>1. row \in Seq(Rat)
  BY SeqDef
<1>2. DOMAIN row = 1..n /\ DOMAIN row = 1..Len(row) /\ Len(row) \in Nat
  BY <1>1, LenProperties
<1> QED
  BY <1>1, <1>2

LEMMA ProductsOf ==
  ASSUME NEW lhs \in Seq(Rat), NEW rhs \in Seq(Rat), Len(lhs) = Len(rhs)
  PROVE  /\ DOMAIN lhs = 1..Len(lhs) /\ Len(lhs) \in Nat
         /\ Len(Products(lhs, rhs)) = Len(lhs)
         /\ \A k \in DOMAIN lhs : /\ lhs[k] \in Rat /\ rhs[k] \in Rat
                                  /\ Products(lhs, rhs)[k] = Times(lhs[k], rhs[k])
                                  /\ Products(lhs, rhs)[k] \in Rat
<1>1. DOMAIN lhs = 1..Len(lhs) /\ Len(lhs) \in Nat /\ DOMAIN rhs = 1..Len(lhs)
  BY LenProperties
<1>2. \A k \in DOMAIN lhs : lhs[k] \in Rat /\ rhs[k] \in Rat
  BY <1>1, ElementOfSeq
<1>3. \A k \in DOMAIN lhs : /\ Products(lhs, rhs)[k] = Times(lhs[k], rhs[k])
                            /\ Products(lhs, rhs)[k] \in Rat
  BY <1>2, OperationsAreRat DEF Products
<1>4. Products(lhs, rhs) \in [1..Len(lhs) -> Rat]
  BY <1>1, <1>3 DEF Products
<1>5. Len(Products(lhs, rhs)) = Len(lhs)
  BY <1>1, <1>4, RowOf
<1> QED
  BY <1>1, <1>2, <1>3, <1>5

LEMMA WithoutZeroes ==
  ASSUME NEW lhs \in Seq(Rat), NEW rhs \in Seq(Rat), Len(lhs) = Len(rhs)
  PROVE  SumUp(Zero, Products(lhs, rhs), NonZeroes(lhs, rhs)) = GenericDot(lhs, rhs)
<1> DEFINE p == Products(lhs, rhs)
           used == NonZeroes(lhs, rhs)
           all == DOMAIN lhs
<1>1. used \subseteq all /\ \A n \in all \ used : p[n] = Zero
  BY ProductsOf, NeutralElements DEF NonZeroes
<1>2. Len(p) \in Nat /\ \A k \in all : p[k] \in Rat
  BY ProductsOf
<1>3. GenericDot(lhs, rhs) = SumUp(Zero, p, all)
  BY DEF GenericDot
<1> HIDE DEF p, used, all
<1>4. PICK f : Solves(f, Zero, p, used) /\ SumUp(Zero, p, used) = f[Len(p)]
  BY <1>1, <1>2, SumSolved, ConstantsAreRat
<1>5. PICK g : Solves(g, Zero, p, all) /\ SumUp(Zero, p, all) = g[Len(p)]
  BY <1>1, <1>2, SumSolved, ConstantsAreRat
<1>6. \A n \in Nat : f[n] = g[n]
  BY <1>1, <1>4, <1>5, ZeroesAddNothing
<1>7. SumUp(Zero, p, used) = GenericDot(lhs, rhs)
  BY <1>2, <1>3, <1>4, <1>5, <1>6
<1> QED
  BY <1>7 DEF p, used

(* A sum of integers as one of rationals.                                  *)
SolvesWhole(f, lhs, rhs, used) ==
  /\ f \in [Nat -> Int]
  /\ f[0] = 0
  /\ \A n \in Nat : f[n + 1] = IF n + 1 \in used THEN f[n] + lhs[n + 1][1] * rhs[n + 1][1] ELSE f[n]

LEMMA WholeSumSolved ==
  ASSUME NEW lhs, NEW rhs, NEW used, \A k \in used : lhs[k][1] * rhs[k][1] \in Int
  PROVE  \E f : SolvesWhole(f, lhs, rhs, used) /\ WholeSum(lhs, rhs, used) = f[Len(lhs)]
<1> DEFINE term(k) == lhs[k][1] * rhs[k][1]
           step == [p \in Nat \X Int |-> IF p[1] + 1 \in used THEN p[2] + term(p[1] + 1) ELSE p[2]]
           Next(g) == [k \in Nat |-> IF k = 0 THEN 0
                                     ELSE IF k \in used THEN g[k - 1] + term(k)
                                     ELSE g[k - 1]]
           acc == CHOOSE g : g = Next(g)
           Whole(f) == /\ f \in [Nat -> Int] /\ f[0] = 0
                       /\ \A n \in Nat : f[n + 1] = IF n + 1 \in used THEN f[n] + term(n + 1) ELSE f[n]
<1>0. \A k \in used : term(k) \in Int
  OBVIOUS
<1>7. WholeSum(lhs, rhs, used) = acc[Len(lhs)]
  BY DEF WholeSum
<1>8. \A f : Whole(f) => SolvesWhole(f, lhs, rhs, used)
  BY DEF SolvesWhole
<1> HIDE DEF term
<1>1. step \in [Nat \X Int -> Int]
  BY <1>0
<1>2. PICK f : Recursive(f, Int, 0, step)
  <2> DEFINE T == Int
  <2>1. 0 \in T /\ step \in [Nat \X T -> T]
    BY <1>1
  <2> HIDE DEF step, T
  <2>2. \E g : Recursive(g, T, 0, step)
    BY <2>1, PrimitiveRecursion
  <2> QED
    BY <2>2 DEF T
<1>3. Whole(f)
  BY <1>2 DEF Recursive
<1>4. f = Next(f)
  <2>1. ASSUME NEW k \in Nat PROVE f[k] = Next(f)[k]
    <3>1. CASE k = 0
      BY <1>3, <3>1
    <3>2. CASE k # 0
      <4>1. k - 1 \in Nat /\ (k - 1) + 1 = k
        BY <3>2
      <4> QED
        BY <1>3, <3>2, <4>1
    <3> QED
      BY <3>1, <3>2
  <2> QED
    BY <2>1, <1>3
<1>5. acc = Next(acc)
  <2> HIDE DEF Next
  <2> QED
    BY <1>4
<1>6. acc = f
  <2> HIDE DEF acc
  <2>1. acc[0] = 0
    BY <1>5
  <2>2. \A n \in Nat : acc[n + 1] = IF n + 1 \in used THEN acc[n] + term(n + 1) ELSE acc[n]
    BY <1>5
  <2> DEFINE E == {n \in Nat : acc[n] = f[n]}
  <2>3. 0 \in E
    BY <2>1, <1>3
  <2>4. ASSUME NEW n \in Nat, n \in E PROVE n + 1 \in E
    BY <2>2, <2>4, <1>3
  <2> HIDE DEF E
  <2>5. \A n \in Nat : n \in E
    BY <2>3, <2>4, SetInduction
  <2>6. acc = [n \in Nat |-> acc[n]]
    BY <1>5
  <2> QED
    BY <1>3, <2>5, <2>6 DEF E
<1> HIDE DEF acc, Whole
<1> QED
  BY <1>3, <1>6, <1>7, <1>8

LEMMA WholesAreSums ==
  ASSUME NEW lhs \in Seq(Rat), NEW rhs \in Seq(Rat), Len(lhs) = Len(rhs),
         \A k \in NonZeroes(lhs, rhs) : IsInteger(lhs[k]) /\ IsInteger(rhs[k])
  PROVE  <<WholeSum(lhs, rhs, NonZeroes(lhs, rhs)), 1>> = GenericDot(lhs, rhs)
<1> DEFINE p == Products(lhs, rhs)
           used == NonZeroes(lhs, rhs)
           term(k) == lhs[k][1] * rhs[k][1]
<1>1. used \subseteq DOMAIN lhs
  BY DEF NonZeroes
<1>2. Len(p) \in Nat /\ Len(p) = Len(lhs) /\ \A k \in DOMAIN lhs : p[k] \in Rat
  BY ProductsOf
<1>3. ASSUME NEW k \in used PROVE term(k) \in Int /\ p[k] = <<term(k), 1>>
  <2>1. lhs[k] \in Rat /\ rhs[k] \in Rat /\ p[k] = Times(lhs[k], rhs[k])
    BY <1>1, <1>3, ProductsOf
  <2>2. lhs[k][2] = 1 /\ rhs[k][2] = 1
    BY <1>3 DEF IsInteger
  <2>3. /\ lhs[k] = <<lhs[k][1], 1>> /\ rhs[k] = <<rhs[k][1], 1>>
        /\ lhs[k][1] \in Int /\ rhs[k][1] \in Int
    BY <2>1, <2>2, RatType
  <2>4. Times(<<lhs[k][1], 1>>, <<rhs[k][1], 1>>) = <<term(k), 1>>
    BY <2>3, IntegersAreRat
  <2>5. term(k) \in Int
    BY <2>3
  <2> HIDE DEF p, term
  <2> QED
    BY <2>1, <2>3, <2>4, <2>5
<1>4. SumUp(Zero, p, used) = GenericDot(lhs, rhs)
  BY WithoutZeroes
<1>5. PICK f : SolvesWhole(f, lhs, rhs, used) /\ WholeSum(lhs, rhs, used) = f[Len(lhs)]
  <2>1. \A k \in used : lhs[k][1] * rhs[k][1] \in Int
    BY <1>3
  <2> HIDE DEF used
  <2> QED
    BY <2>1, WholeSumSolved
<1>12. /\ f \in [Nat -> Int] /\ f[0] = 0
       /\ \A n \in Nat : f[n + 1] = IF n + 1 \in used THEN f[n] + term(n + 1) ELSE f[n]
  BY <1>5 DEF SolvesWhole
<1> HIDE DEF p, used, term
<1>6. PICK g : Solves(g, Zero, p, used) /\ SumUp(Zero, p, used) = g[Len(p)]
  BY <1>1, <1>2, SumSolved, ConstantsAreRat
<1> DEFINE E == {n \in Nat : g[n] = <<f[n], 1>>}
<1>7. 0 \in E
  BY <1>6, <1>12 DEF Solves, Zero
<1>8. ASSUME NEW n \in Nat, n \in E PROVE n + 1 \in E
  <2>1. g[n] = <<f[n], 1>> /\ f[n] \in Int
    BY <1>8, <1>12
  <2>2. CASE n + 1 \in used
    <3>1. g[n + 1] = Plus(<<f[n], 1>>, <<term(n + 1), 1>>) /\ term(n + 1) \in Int
      BY <1>3, <1>6, <2>1, <2>2 DEF Solves
    <3>2. f[n + 1] = f[n] + term(n + 1)
      BY <1>12, <2>2
    <3> QED
      BY <2>1, <3>1, <3>2, IntegersAreRat
  <2>3. CASE n + 1 \notin used
    <3>1. g[n + 1] = g[n]
      BY <1>6, <2>3 DEF Solves
    <3>2. f[n + 1] = f[n]
      BY <1>12, <2>3
    <3> QED
      BY <2>1, <3>1, <3>2
  <2> QED
    BY <2>2, <2>3
<1> HIDE DEF E
<1>9. \A n \in Nat : n \in E
  BY <1>7, <1>8, SetInduction
<1>10. g[Len(p)] = <<f[Len(p)], 1>>
  BY <1>2, <1>9 DEF E
<1>11. <<WholeSum(lhs, rhs, used), 1>> = GenericDot(lhs, rhs)
  BY <1>2, <1>4, <1>5, <1>6, <1>10
<1> QED
  BY <1>11 DEF used

--------------------------------------------------------------------------------
(* Rows: how one is cut into registers and a tail.                         *)
LEMMA LanesOfRow ==
  ASSUME NEW n \in Nat, NEW L \in Nat \ {0}
  PROVE  /\ n \div L \in Nat /\ (n \div L) * L \in 0..n
         /\ \A c \in Nat, l \in 1..L : c < n \div L => c * L + l \in 1..n
<1> DEFINE q == n \div L
           r == n % L
<1>0. q \in Int /\ r \in Nat /\ r < L /\ n = q * L + r
  OBVIOUS
<1> HIDE DEF q, r
<1>1. q \in Nat
  <2>1. ASSUME q < 0 PROVE FALSE
    <3>1. -q - 1 \in Nat
      BY <1>0, <2>1
    <3>2. (-q - 1) * L \in Nat /\ (-q - 1) * L = -(q * L) - L
      BY <1>0, <3>1
    <3> QED
      BY <1>0, <3>2
  <2> QED
    BY <1>0, <2>1
<1>2. q * L <= n /\ q * L \in Nat
  BY <1>0, <1>1
<1>3. ASSUME NEW c \in Nat, NEW l \in 1..L, c < q PROVE c * L + l \in 1..n
  <2>1. (q - c - 1) \in Nat
    BY <1>1, <1>3
  <2>2. (q - c - 1) * L \in Nat
    BY <2>1
  <2>3. (q - c - 1) * L = q * L - c * L - L
    BY <1>1
  <2>4. c * L \in Nat
    OBVIOUS
  <2> QED
    BY <1>2, <2>2, <2>3, <2>4
<1> QED
  BY <1>1, <1>2, <1>3 DEF q

(* The lanes of one chunk more, added up.                                  *)
LEMMA NextChunk ==
  ASSUME NEW L \in Nat \ {0}, NEW terms, NEW used, NEW g, NEW s, NEW t,
         NEW a, NEW b, NEW n \in Nat,
         Solves(g, Zero, terms, used),
         \A l \in 1..L : /\ n + l \in used /\ terms[n + l] \in Rat
                         /\ a[l] \in Rat /\ b[l] = Plus(a[l], terms[n + l]),
         Solves(s, Zero, a, 1..L), Solves(t, Zero, b, 1..L),
         s[L] = g[n]
  PROVE  t[L] = g[n + L]
<1> DEFINE d == [l \in 1..L |-> terms[n + l]]
           lanes == 1..L
           E == {l \in Nat : l <= L => \A h : Solves(h, g[n], d, lanes) => h[l] = g[n + l]}
<1>1. \A l \in lanes : d[l] \in Rat /\ d[l] = terms[n + l] /\ b[l] = Plus(a[l], d[l])
  OBVIOUS
<1>2. g[n] \in Rat /\ L \in Nat
  BY DEF Solves
<1> HIDE DEF d
<1>3. 0 \in E
  BY DEF Solves
<1>4. ASSUME NEW l \in Nat, l \in E PROVE l + 1 \in E
  <2> SUFFICES ASSUME l + 1 <= L, NEW h, Solves(h, g[n], d, lanes) PROVE h[l + 1] = g[n + (l + 1)]
    OBVIOUS
  <2>1. h[l] = g[n + l] /\ l + 1 \in lanes
    BY <1>4
  <2>2. h[l + 1] = Plus(h[l], d[l + 1])
    BY <2>1 DEF Solves
  <2>3. n + l \in Nat /\ (n + l) + 1 = n + (l + 1) /\ n + (l + 1) \in used
    BY <2>1
  <2>4. g[(n + l) + 1] = Plus(g[n + l], terms[(n + l) + 1])
    BY <2>3 DEF Solves
  <2> QED
    BY <1>1, <2>1, <2>2, <2>3, <2>4
<1> HIDE DEF E
<1>5. \A l \in Nat : l \in E
  BY <1>3, <1>4, SetInduction
<1> HIDE DEF lanes
<1>6. PICK h : Solves(h, g[n], d, lanes)
  BY <1>1, <1>2, SumSolved
<1>7. PICK k : Solves(k, Zero, d, lanes)
  BY <1>1, SumSolved, ConstantsAreRat
<1>8. h[L] = g[n + L]
  BY <1>2, <1>5, <1>6 DEF E
<1>9. h[L] = Plus(g[n], k[L])
  BY <1>1, <1>2, <1>6, <1>7, SumFromBase
<1>10. t[L] = Plus(s[L], k[L])
  <2>1. \A l \in lanes : a[l] \in Rat /\ d[l] \in Rat /\ b[l] = Plus(a[l], d[l])
    BY <1>1 DEF lanes
  <2>2. Solves(s, Zero, a, lanes) /\ Solves(t, Zero, b, lanes)
    BY DEF lanes
  <2>3. \A m \in Nat : t[m] = Plus(s[m], k[m])
    <3> HIDE DEF E
    <3> QED
      BY ONLY <1>7, <2>1, <2>2, SumOfSums
  <2> QED
    BY <1>2, <2>3
<1> QED
  BY <1>8, <1>9, <1>10

LEMMA BaseUntilUsed ==
  ASSUME NEW m \in Nat, NEW base, NEW terms, NEW used, NEW f, Solves(f, base, terms, used),
         \A k \in 1..m : k \notin used
  PROVE  f[m] = base
<1> DEFINE E == {n \in Nat : n <= m => f[n] = base}
<1>1. 0 \in E
  BY DEF Solves
<1>2. ASSUME NEW n \in Nat, n \in E PROVE n + 1 \in E
  BY <1>2 DEF Solves
<1> HIDE DEF E
<1>3. \A n \in Nat : n \in E
  BY <1>1, <1>2, SetInduction
<1> QED
  BY <1>3 DEF E

LEMMA SimdDotIs ==
  ASSUME NEW lhs \in Seq(Rat), NEW rhs \in Seq(Rat), Len(lhs) = Len(rhs), Lanes \in Nat \ {0}
  PROVE  SimdDot(lhs, rhs) = GenericDot(lhs, rhs)
<1> DEFINE n == Len(lhs)
           C == Chunks(lhs)
           p == Products(lhs, rhs)
           all == DOMAIN lhs
           lanes == 1..Lanes
           chunks == 1..C
           column(l) == [c \in chunks |-> p[(c - 1) * Lanes + l]]
           lane(l) == SumUp(Zero, column(l), chunks)
           sums == [l \in lanes |-> lane(l)]
           sum == SumUp(Zero, sums, lanes)
           tail == (C * Lanes + 1)..n
<1>1. /\ n \in Nat /\ Len(p) = n /\ all = 1..n
      /\ \A k \in all : p[k] \in Rat
  BY ProductsOf
<1>2. /\ C \in Nat /\ C * Lanes \in 0..n
      /\ \A c \in Nat, l \in lanes : c < C => c * Lanes + l \in all
  BY <1>1, LanesOfRow DEF Chunks
<1>3. SimdDot(lhs, rhs) = SumUp(sum, p, tail)
  BY DEF SimdDot, Chunked
<1>4. GenericDot(lhs, rhs) = SumUp(Zero, p, all)
  BY DEF GenericDot
<1>5. tail \subseteq all /\ \A k \in all : k \in tail <=> k > C * Lanes
  BY <1>1, <1>2
<1>6. ASSUME NEW l \in lanes
      PROVE  /\ Len(column(l)) = C
             /\ \A c \in Nat : c < C => c + 1 \in chunks /\ column(l)[c + 1] = p[c * Lanes + l]
             /\ \A c \in chunks : column(l)[c] \in Rat
  <2>1. \A c \in chunks : c - 1 \in Nat /\ c - 1 < C
    BY <1>2
  <2>2. \A c \in chunks : column(l)[c] \in Rat
    BY <1>1, <1>2, <2>1
  <2>3. column(l) \in [1..C -> Rat]
    BY <2>2
  <2>4. Len(column(l)) = C
    BY <1>2, <2>3, RowOf
  <2>5. ASSUME NEW c \in Nat, c < C PROVE c + 1 \in chunks /\ column(l)[c + 1] = p[c * Lanes + l]
    <3>1. c + 1 \in chunks /\ (c + 1) - 1 = c
      BY <1>2, <2>5
    <3> QED
      BY <3>1
  <2> QED
    BY <2>2, <2>4, <2>5
<1> HIDE DEF n, C, p, all, lanes, chunks, column, sum, tail
<1>7. PICK g : Solves(g, Zero, p, all) /\ SumUp(Zero, p, all) = g[Len(p)]
  BY <1>1, SumSolved, ConstantsAreRat
<1>8. \A l \in lanes : \E f : Solves(f, Zero, column(l), chunks) /\ lane(l) = f[C]
  <2> SUFFICES ASSUME NEW l \in lanes
               PROVE  \E f : Solves(f, Zero, column(l), chunks) /\ lane(l) = f[C]
    OBVIOUS
  <2>1. \A c \in chunks : column(l)[c] \in Rat
    BY <1>6
  <2>2. \E f : Solves(f, Zero, column(l), chunks)
                 /\ SumUp(Zero, column(l), chunks) = f[Len(column(l))]
    BY <2>1, SumSolved, ConstantsAreRat
  <2> QED
    BY <1>6, <2>2
<1> HIDE DEF lane
<1> DEFINE H(l) == CHOOSE f : Solves(f, Zero, column(l), chunks) /\ lane(l) = f[C]
           at(c) == [l \in lanes |-> H(l)[c]]
           E == {c \in Nat : c <= C => \A s : Solves(s, Zero, at(c), lanes) => s[Lanes] = g[c * Lanes]}
<1>9. \A l \in lanes : Solves(H(l), Zero, column(l), chunks) /\ lane(l) = H(l)[C]
  BY <1>8
<1> HIDE DEF H
<1>10. \A c \in Nat : \A l \in lanes : at(c)[l] = H(l)[c] /\ at(c)[l] \in Rat
  BY <1>9 DEF Solves
<1>11. 0 \in E
  <2> SUFFICES ASSUME NEW s, Solves(s, Zero, at(0), lanes) PROVE s[Lanes] = g[0 * Lanes]
    OBVIOUS
  <2> DEFINE z == [k \in Nat |-> Zero]
             none == {}
             row == at(0)
  <2>1. Solves(z, Zero, row, none) /\ Solves(s, Zero, row, lanes)
    BY ConstantsAreRat DEF Solves
  <2>2. \A k \in lanes \ none : row[k] = Zero
    BY <1>9 DEF Solves
  <2>3. none \subseteq lanes
    OBVIOUS
  <2> HIDE DEF z, row, none
  <2>4. \A k \in Nat : z[k] = s[k]
    BY ONLY <2>1, <2>2, <2>3, ZeroesAddNothing
  <2>5. s[Lanes] = Zero
    BY <2>4 DEF z
  <2>6. g[0 * Lanes] = Zero
    BY <1>7 DEF Solves
  <2> QED
    BY <2>5, <2>6
<1>12. ASSUME NEW c \in Nat, c \in E PROVE c + 1 \in E
  <2> SUFFICES ASSUME c + 1 <= C, NEW t, Solves(t, Zero, at(c + 1), lanes)
               PROVE  t[Lanes] = g[(c + 1) * Lanes]
    OBVIOUS
  <2> DEFINE a == at(c)
             b == at(c + 1)
             m == c * Lanes
  <2>1. c < C /\ c + 1 \in Nat /\ m \in Nat /\ m + Lanes = (c + 1) * Lanes
    BY <1>2
  <2>2. ASSUME NEW l \in lanes
        PROVE  m + l \in all /\ p[m + l] \in Rat /\ a[l] \in Rat /\ b[l] = Plus(a[l], p[m + l])
    <3>1. c + 1 \in chunks /\ column(l)[c + 1] = p[m + l] /\ m + l \in all
      BY <1>2, <1>6, <2>1
    <3>2. H(l)[c + 1] = Plus(H(l)[c], column(l)[c + 1])
      BY <1>9, <3>1 DEF Solves
    <3> QED
      BY <1>1, <1>10, <2>1, <3>1, <3>2
  <2> HIDE DEF at, m
  <2>3. PICK s : Solves(s, Zero, a, lanes)
    BY <2>2, SumSolved, ConstantsAreRat
  <2>4. s[Lanes] = g[m]
    BY <1>2, <1>12, <2>1, <2>3 DEF m
  <2> HIDE DEF a, b, E
  <2>5. t[Lanes] = g[m + Lanes]
    <3>1. Solves(t, Zero, b, 1..Lanes) /\ m = c * Lanes
      BY DEF b, m, lanes
    <3>2. /\ Solves(s, Zero, a, 1..Lanes)
          /\ \A l \in 1..Lanes : /\ m + l \in all /\ p[m + l] \in Rat
                                /\ a[l] \in Rat /\ b[l] = Plus(a[l], p[m + l])
      BY <1>10, <2>2, <2>3 DEF lanes, a
    <3>3. Solves(g, Zero, p, all) /\ m \in Nat
      BY <1>7, <2>1
    <3> DEFINE L == Lanes
    <3>4. L \in Nat \ {0} /\ s[L] = g[m]
      BY <2>4
    <3>5. /\ Solves(s, Zero, a, 1..L) /\ Solves(t, Zero, b, 1..L)
          /\ \A l \in 1..L : /\ m + l \in all /\ p[m + l] \in Rat
                            /\ a[l] \in Rat /\ b[l] = Plus(a[l], p[m + l])
      BY <3>1, <3>2
    <3> HIDE DEF L
    <3>6. t[L] = g[m + L]
      BY ONLY <3>3, <3>4, <3>5, NextChunk
    <3> QED
      BY <3>6 DEF L
  <2> QED
    BY <2>1, <2>5
<1> HIDE DEF E
<1>13. \A c \in Nat : c \in E
  BY <1>11, <1>12, SetInduction
<1>14. sum \in Rat /\ sum = g[C * Lanes]
  <2>1. sums = at(C)
    BY <1>9
  <2>2. \A l \in lanes : sums[l] \in Rat
    BY <1>2, <1>10, <2>1
  <2>3. Len(sums) = Lanes
    BY <2>2, RowOf DEF lanes
  <2> HIDE DEF sums, at
  <2>4. PICK s : Solves(s, Zero, sums, lanes) /\ SumUp(Zero, sums, lanes) = s[Len(sums)]
    BY <2>2, SumSolved, ConstantsAreRat
  <2>5. s[Lanes] = g[C * Lanes]
    BY <1>2, <1>13, <2>1, <2>4 DEF E
  <2> QED
    BY <2>3, <2>4, <2>5 DEF sum, Solves
<1>15. PICK f : Solves(f, sum, p, tail) /\ SumUp(sum, p, tail) = f[Len(p)]
  BY <1>1, <1>5, <1>14, SumSolved
<1>16. f[C * Lanes] = sum
  <2>1. \A k \in 1..(C * Lanes) : k \notin tail
    BY <1>1, <1>2 DEF tail
  <2> QED
    BY <1>2, <1>15, <2>1, BaseUntilUsed
<1>17. f[n] = g[n]
  <2> DEFINE m == C * Lanes
  <2>1. m \in Nat /\ m <= n /\ f[m] = g[m]
    BY <1>1, <1>2, <1>14, <1>16
  <2>2. \A k \in Nat : k > m => (k \in tail <=> k \in all)
    BY <1>1, <1>2, <1>5
  <2> HIDE DEF m
  <2>3. \A k \in Nat : k >= m => f[k] = g[k]
    BY <1>7, <1>15, <2>1, <2>2, SumsMeet
  <2> QED
    BY <1>1, <2>1, <2>3
<1> QED
  BY <1>1, <1>3, <1>4, <1>7, <1>15, <1>17

--------------------------------------------------------------------------------
(* Rows: one entry; the short cuts change nothing.                         *)
LEMMA EntriesAgree ==
  ASSUME NEW x \in Rat, NEW f \in Rat, NEW y \in Rat
  PROVE  /\ AddMul(x, f, y) \in Rat /\ SubMul(x, f, y) \in Rat
         /\ MulAdd(f, y, x) = AddMul(x, f, y)
         /\ DashuAddMul(x, f, y) = AddMul(x, f, y)
         /\ MulAdd(Opposite(f), y, x) = SubMul(x, f, y)
         /\ DashuSubMul(x, f, y) = SubMul(x, f, y)
         /\ f = Zero => AddMul(x, f, y) = x /\ SubMul(x, f, y) = x
<1> DEFINE p == Times(f, y)
           q == Times(Opposite(f), y)
<1>1. p \in Rat /\ q \in Rat
  BY OperationsAreRat
<1>2. Plus(x, p) \in Rat /\ Minus(x, p) \in Rat
  BY <1>1, OperationsAreRat
<1>3. Plus(p, x) = Plus(x, p) /\ Plus(q, x) = Plus(x, q)
  BY <1>1, OperationsCommute
<1>4. Minus(x, p) = Plus(x, q)
  BY SubtractIsAdd
<1>5. f = Zero \/ y = Zero => p = Zero
  BY NeutralElements
<1>6. p = Zero => Plus(x, p) = x /\ Minus(x, p) = x
  BY NeutralElements
<1> HIDE DEF p, q
<1>7. /\ AddMul(x, f, y) = Plus(x, p) /\ SubMul(x, f, y) = Minus(x, p)
      /\ MulAdd(f, y, x) = Plus(p, x) /\ MulAdd(Opposite(f), y, x) = Plus(q, x)
      /\ DashuAddMul(x, f, y) = IF f = Zero \/ y = Zero THEN x ELSE Plus(x, p)
      /\ DashuSubMul(x, f, y) = IF f = Zero \/ y = Zero THEN x ELSE Minus(x, p)
  BY DEF AddMul, SubMul, MulAdd, DashuAddMul, DashuSubMul, p, q
<1> QED
  BY <1>2, <1>3, <1>4, <1>5, <1>6, <1>7

LEMMA CombinationsAgree ==
  ASSUME NEW l \in Rat, NEW f \in Rat, NEW r \in Rat, NEW g \in Rat
  PROVE  /\ AddMul(Times(l, f), g, r) \in Rat
         /\ MulAdd(g, r, Times(f, l)) = AddMul(Times(l, f), g, r)
         /\ RugCombined(l, f, r, g) = AddMul(Times(l, f), g, r)
         /\ Plus(Times(l, f), Times(r, g)) = AddMul(Times(l, f), g, r)
         /\ g = Zero \/ r = Zero => Times(l, f) = AddMul(Times(l, f), g, r)
         /\ IsInteger(l) /\ IsInteger(f) /\ IsInteger(r) /\ IsInteger(g)
              => <<l[1] * f[1] + r[1] * g[1], 1>> = AddMul(Times(l, f), g, r)
<1> DEFINE a == Times(l, f)
           b == Times(r, g)
<1>1. a \in Rat /\ b \in Rat
  BY OperationsAreRat
<1>2. Times(g, r) = b /\ Times(f, l) = a
  BY OperationsCommute
<1>3. /\ f = Zero \/ l = Zero => a = Zero
      /\ g = Zero \/ r = Zero => b = Zero
      /\ f = One => a = l
      /\ g = One => b = r
  BY NeutralElements
<1>4. IsInteger(l) /\ IsInteger(f) /\ IsInteger(r) /\ IsInteger(g)
        => <<l[1] * f[1] + r[1] * g[1], 1>> = Plus(a, b)
  <2> SUFFICES ASSUME l[2] = 1, f[2] = 1, r[2] = 1, g[2] = 1
               PROVE  <<l[1] * f[1] + r[1] * g[1], 1>> = Plus(a, b)
    BY DEF IsInteger
  <2>1. /\ l[1] \in Int /\ l = <<l[1], 1>> /\ f[1] \in Int /\ f = <<f[1], 1>>
        /\ r[1] \in Int /\ r = <<r[1], 1>> /\ g[1] \in Int /\ g = <<g[1], 1>>
    BY RatType
  <2>2. Times(<<l[1], 1>>, <<f[1], 1>>) = <<l[1] * f[1], 1>>
    BY <2>1, IntegersAreRat
  <2>3. Times(<<r[1], 1>>, <<g[1], 1>>) = <<r[1] * g[1], 1>>
    BY <2>1, IntegersAreRat
  <2>4. l[1] * f[1] \in Int /\ r[1] * g[1] \in Int
    BY <2>1
  <2>5. Plus(<<l[1] * f[1], 1>>, <<r[1] * g[1], 1>>) = <<l[1] * f[1] + r[1] * g[1], 1>>
    BY <2>4, IntegersAreRat
  <2>6. a = <<l[1] * f[1], 1>> /\ b = <<r[1] * g[1], 1>>
    BY <2>1, <2>2, <2>3
  <2> QED
    BY <2>5, <2>6
<1> HIDE DEF a, b
<1>5. /\ Plus(a, b) \in Rat /\ Plus(b, a) = Plus(a, b)
      /\ b = Zero => Plus(a, b) = a
      /\ a = Zero => Plus(a, b) = b
  BY <1>1, OperationsAreRat, OperationsCommute, NeutralElements
<1>6. AddMul(Times(l, f), g, r) = Plus(a, b) /\ MulAdd(g, r, Times(f, l)) = Plus(b, a)
  BY <1>2 DEF AddMul, MulAdd, a
<1>7. RugCombined(l, f, r, g)
        = IF f = Zero \/ l = Zero
            THEN IF g = Zero \/ r = Zero THEN Zero ELSE IF g = One THEN r ELSE b
            ELSE IF g = Zero \/ r = Zero THEN IF f = One THEN l ELSE a
                 ELSE IF g = One THEN Plus(IF f = One THEN l ELSE a, r)
                 ELSE Plus(IF f = One THEN l ELSE a, b)
  BY DEF RugCombined, a, b
<1>8. RugCombined(l, f, r, g) = Plus(a, b)
  BY <1>3, <1>5, <1>7
<1>9. Plus(Times(l, f), Times(r, g)) = Plus(a, b) /\ Times(l, f) = a
  BY DEF a, b
<1> QED
  BY <1>3, <1>4, <1>5, <1>6, <1>8, <1>9

--------------------------------------------------------------------------------
(* Rows: whole ones.                                                       *)
LEMMA EntriesOfRows ==
  ASSUME NEW lhs \in Seq(Rat), NEW rhs \in Seq(Rat), Len(lhs) = Len(rhs)
  PROVE  /\ DOMAIN lhs = 1..Len(lhs) /\ DOMAIN rhs = DOMAIN lhs /\ Len(lhs) \in Nat
         /\ \A k \in DOMAIN lhs : lhs[k] \in Rat /\ rhs[k] \in Rat
         /\ lhs = [k \in DOMAIN lhs |-> lhs[k]]
<1>1. DOMAIN lhs = 1..Len(lhs) /\ Len(lhs) \in Nat /\ DOMAIN rhs = 1..Len(lhs)
  BY LenProperties
<1>2. \A k \in DOMAIN lhs : lhs[k] \in Rat /\ rhs[k] \in Rat
  BY <1>1, ElementOfSeq
<1>3. lhs \in [1..Len(lhs) -> Rat]
  BY LenProperties
<1> QED
  BY <1>1, <1>2, <1>3

LEMMA ByLanesIs ==
  ASSUME NEW row \in Seq(Rat), Lanes \in Nat \ {0}
  PROVE  ByLanes(row) = row
<1> DEFINE n == Len(row)
           m == Chunked(row)
           chunks == [k \in 1..m |-> row[k]]
           tail == [k \in 1..(n - m) |-> row[m + k]]
<1>1. n \in Nat /\ m \in 0..n
  BY LenProperties, LanesOfRow DEF Chunked, Chunks
<1>2. \A k \in 1..n : row[k] \in Rat
  BY ElementOfSeq
<1>3. ByLanes(row) = chunks \o tail
  BY DEF ByLanes
<1> HIDE DEF n, m
<1>4. chunks \in Seq(Rat) /\ Len(chunks) = m
  <2>1. m \in Nat /\ chunks \in [1..m -> Rat]
    BY <1>1, <1>2
  <2> HIDE DEF chunks
  <2> QED
    BY <2>1, RowOf
<1>5. tail \in Seq(Rat) /\ Len(tail) = n - m
  <2>1. n - m \in Nat /\ tail \in [1..(n - m) -> Rat]
    BY <1>1, <1>2
  <2> HIDE DEF tail
  <2> QED
    BY <2>1, RowOf
<1>6. /\ chunks \o tail \in Seq(Rat) /\ Len(chunks \o tail) = n
      /\ \A k \in 1..n : (chunks \o tail)[k] = IF k <= m THEN chunks[k] ELSE tail[k - m]
  <2> HIDE DEF chunks, tail
  <2>1. m + (n - m) = n
    BY <1>1
  <2>2. chunks \in Seq(Rat) /\ tail \in Seq(Rat)
    BY <1>4, <1>5
  <2>3. /\ chunks \o tail \in Seq(Rat)
        /\ Len(chunks \o tail) = Len(chunks) + Len(tail)
        /\ \A k \in 1..(Len(chunks) + Len(tail)) :
             (chunks \o tail)[k] = IF k <= Len(chunks) THEN chunks[k] ELSE tail[k - Len(chunks)]
    BY ONLY <2>2, ConcatProperties
  <2>4. Len(chunks) = m /\ Len(tail) = n - m
    BY <1>4, <1>5
  <2> QED
    BY <2>1, <2>3, <2>4
<1>7. \A k \in 1..n : (chunks \o tail)[k] = row[k]
  <2>1. \A k \in 1..n : k <= m => chunks[k] = row[k]
    BY <1>1
  <2>2. \A k \in 1..n : ~(k <= m) => tail[k - m] = row[k]
    BY <1>1
  <2> HIDE DEF chunks, tail
  <2> QED
    BY <1>6, <2>1, <2>2
<1> HIDE DEF chunks, tail
<1>8. chunks \o tail = row
  BY <1>6, <1>7, SeqEqual DEF n
<1> QED
  BY <1>3, <1>8

LEMMA AxpysAgree ==
  ASSUME NEW dst \in Seq(Rat), NEW rhs \in Seq(Rat), Len(dst) = Len(rhs), NEW f \in Rat,
         Lanes \in Nat \ {0}
  PROVE  LET added      == GenericAxpyAdd(dst, f, rhs)
             subtracted == GenericAxpySub(dst, f, rhs)
         IN /\ added \in Seq(Rat) /\ Len(added) = Len(dst)
            /\ ScalarAxpy(dst, f, rhs) = added /\ SimdAxpy(dst, f, rhs) = added
            /\ RugAxpyAdd(dst, f, rhs) = added /\ DashuAxpyAdd(dst, f, rhs) = added
            /\ subtracted \in Seq(Rat) /\ Len(subtracted) = Len(dst)
            /\ ScalarAxpy(dst, Opposite(f), rhs) = subtracted
            /\ SimdAxpy(dst, Opposite(f), rhs) = subtracted
            /\ RugAxpySub(dst, f, rhs) = subtracted /\ DashuAxpySub(dst, f, rhs) = subtracted
<1> DEFINE added == GenericAxpyAdd(dst, f, rhs)
           subtracted == GenericAxpySub(dst, f, rhs)
           places == DOMAIN dst
<1>1. /\ places = 1..Len(dst) /\ Len(dst) \in Nat
      /\ \A k \in places : dst[k] \in Rat /\ rhs[k] \in Rat
      /\ dst = [k \in places |-> dst[k]]
  BY EntriesOfRows
<1>2. \A k \in places :
        /\ AddMul(dst[k], f, rhs[k]) \in Rat /\ SubMul(dst[k], f, rhs[k]) \in Rat
        /\ MulAdd(f, rhs[k], dst[k]) = AddMul(dst[k], f, rhs[k])
        /\ DashuAddMul(dst[k], f, rhs[k]) = AddMul(dst[k], f, rhs[k])
        /\ MulAdd(Opposite(f), rhs[k], dst[k]) = SubMul(dst[k], f, rhs[k])
        /\ DashuSubMul(dst[k], f, rhs[k]) = SubMul(dst[k], f, rhs[k])
        /\ f = Zero => AddMul(dst[k], f, rhs[k]) = dst[k] /\ SubMul(dst[k], f, rhs[k]) = dst[k]
  BY <1>1, EntriesAgree
<1>3. /\ added = [k \in places |-> AddMul(dst[k], f, rhs[k])]
      /\ subtracted = [k \in places |-> SubMul(dst[k], f, rhs[k])]
  BY DEF GenericAxpyAdd, GenericAxpySub
<1>4. /\ ScalarAxpy(dst, f, rhs) = [k \in places |-> MulAdd(f, rhs[k], dst[k])]
      /\ ScalarAxpy(dst, Opposite(f), rhs) = [k \in places |-> MulAdd(Opposite(f), rhs[k], dst[k])]
      /\ SimdAxpy(dst, f, rhs) = ByLanes(ScalarAxpy(dst, f, rhs))
      /\ SimdAxpy(dst, Opposite(f), rhs) = ByLanes(ScalarAxpy(dst, Opposite(f), rhs))
  BY DEF ScalarAxpy, SimdAxpy
<1>5. /\ RugAxpyAdd(dst, f, rhs) = IF f = Zero THEN dst ELSE added
      /\ RugAxpySub(dst, f, rhs) = IF f = Zero THEN dst ELSE subtracted
  BY DEF RugAxpyAdd, RugAxpySub, GenericAxpyAdd, GenericAxpySub, AddMul, SubMul
<1>6. /\ DashuAxpyAdd(dst, f, rhs)
           = IF f = Zero THEN dst ELSE [k \in places |-> DashuAddMul(dst[k], f, rhs[k])]
      /\ DashuAxpySub(dst, f, rhs)
           = IF f = Zero THEN dst ELSE [k \in places |-> DashuSubMul(dst[k], f, rhs[k])]
  BY DEF DashuAxpyAdd, DashuAxpySub
<1> HIDE DEF added, subtracted, places
<1>7. added \in Seq(Rat) /\ Len(added) = Len(dst)
  <2>1. added \in [1..Len(dst) -> Rat]
    BY <1>1, <1>2, <1>3
  <2> QED
    BY <1>1, <2>1, RowOf
<1>8. subtracted \in Seq(Rat) /\ Len(subtracted) = Len(dst)
  <2>1. subtracted \in [1..Len(dst) -> Rat]
    BY <1>1, <1>2, <1>3
  <2> QED
    BY <1>1, <2>1, RowOf
<1>9. f = Zero => added = dst /\ subtracted = dst
  <2> SUFFICES ASSUME f = Zero PROVE added = dst /\ subtracted = dst
    OBVIOUS
  <2>1. \A k \in places : AddMul(dst[k], f, rhs[k]) = dst[k] /\ SubMul(dst[k], f, rhs[k]) = dst[k]
    BY <1>2
  <2>2. added = [k \in places |-> dst[k]] /\ subtracted = [k \in places |-> dst[k]]
    BY <1>3, <2>1
  <2> QED
    BY <1>1, <2>2
<1>10. /\ [k \in places |-> MulAdd(f, rhs[k], dst[k])] = added
       /\ [k \in places |-> MulAdd(Opposite(f), rhs[k], dst[k])] = subtracted
       /\ [k \in places |-> DashuAddMul(dst[k], f, rhs[k])] = added
       /\ [k \in places |-> DashuSubMul(dst[k], f, rhs[k])] = subtracted
  BY <1>2, <1>3
<1>11. ByLanes(added) = added /\ ByLanes(subtracted) = subtracted
  BY <1>7, <1>8, ByLanesIs
<1>12. /\ ScalarAxpy(dst, f, rhs) = added /\ SimdAxpy(dst, f, rhs) = added
       /\ ScalarAxpy(dst, Opposite(f), rhs) = subtracted
       /\ SimdAxpy(dst, Opposite(f), rhs) = subtracted
  BY <1>4, <1>10, <1>11
<1>13. /\ RugAxpyAdd(dst, f, rhs) = added /\ RugAxpySub(dst, f, rhs) = subtracted
       /\ DashuAxpyAdd(dst, f, rhs) = added /\ DashuAxpySub(dst, f, rhs) = subtracted
  BY <1>5, <1>6, <1>9, <1>10
<1> QED
  BY <1>7, <1>8, <1>12, <1>13 DEF added, subtracted

LEMMA ScalesAgree ==
  ASSUME NEW dst \in Seq(Rat), NEW f \in Rat, Lanes \in Nat \ {0}
  PROVE  LET all == GenericScale(dst, f)
         IN /\ all \in Seq(Rat) /\ Len(all) = Len(dst)
            /\ ScalarScale(dst, f) = all /\ SimdScale(dst, f) = all
            /\ RugScale(dst, f) = all /\ DashuScale(dst, f) = all
<1> DEFINE all == GenericScale(dst, f)
           places == DOMAIN dst
<1>1. /\ places = 1..Len(dst) /\ Len(dst) \in Nat
      /\ \A k \in places : dst[k] \in Rat
      /\ dst = [k \in places |-> dst[k]]
  BY EntriesOfRows
<1>2. \A k \in places : /\ Times(dst[k], f) \in Rat
                        /\ f = Zero => Times(dst[k], f) = Zero
                        /\ f = One => Times(dst[k], f) = dst[k]
  BY <1>1, OperationsAreRat, NeutralElements
<1>3. all = [k \in places |-> Times(dst[k], f)]
  BY DEF GenericScale
<1>4. /\ ScalarScale(dst, f) = all /\ SimdScale(dst, f) = ByLanes(all)
      /\ RugScale(dst, f) = IF f = Zero THEN [k \in places |-> Zero] ELSE all
      /\ DashuScale(dst, f) = IF f = One THEN dst
                              ELSE IF f = Zero THEN [k \in places |-> Zero] ELSE all
  BY DEF GenericScale, ScalarScale, SimdScale, RugScale, DashuScale
<1> HIDE DEF all, places
<1>5. all \in Seq(Rat) /\ Len(all) = Len(dst)
  <2>1. all \in [1..Len(dst) -> Rat]
    BY <1>1, <1>2, <1>3
  <2> QED
    BY <1>1, <2>1, RowOf
<1>6. ByLanes(all) = all
  BY <1>5, ByLanesIs
<1>7. f = Zero => all = [k \in places |-> Zero]
  BY <1>2, <1>3
<1>8. f = One => all = dst
  <2> SUFFICES ASSUME f = One PROVE all = dst
    OBVIOUS
  <2>1. \A k \in places : Times(dst[k], f) = dst[k]
    BY <1>2
  <2>2. all = [k \in places |-> dst[k]]
    BY <1>3, <2>1
  <2> QED
    BY <1>1, <2>2
<1>9. /\ ScalarScale(dst, f) = all /\ SimdScale(dst, f) = all
      /\ RugScale(dst, f) = all /\ DashuScale(dst, f) = all
  BY <1>4, <1>6, <1>7, <1>8
<1> QED
  BY <1>5, <1>9 DEF all

LEMMA DividesAgree ==
  ASSUME NEW dst \in Seq(Rat), NEW d \in Rat, d # Zero, Lanes \in Nat \ {0}
  PROVE  LET divided == GenericDivide(dst, d)
         IN /\ divided \in Seq(Rat) /\ Len(divided) = Len(dst)
            /\ ScalarDivide(dst, d) = divided /\ SimdDivide(dst, d) = divided
            /\ RugDivideRow(dst, d) = divided /\ DashuDivideRow(dst, d) = divided
<1> DEFINE divided == GenericDivide(dst, d)
           places == DOMAIN dst
<1>1. /\ places = 1..Len(dst) /\ Len(dst) \in Nat
      /\ \A k \in places : dst[k] \in Rat
      /\ dst = [k \in places |-> dst[k]]
  BY EntriesOfRows
<1>2. \A k \in places : Over(dst[k], d) \in Rat /\ (d = One => Over(dst[k], d) = dst[k])
  BY <1>1, OperationsAreRat, NeutralElements
<1>3. divided = [k \in places |-> Over(dst[k], d)]
  BY DEF GenericDivide
<1>4. /\ ScalarDivide(dst, d) = divided /\ SimdDivide(dst, d) = ByLanes(divided)
      /\ RugDivideRow(dst, d) = divided
      /\ DashuDivideRow(dst, d) = IF d = One THEN dst ELSE divided
  BY DEF GenericDivide, ScalarDivide, SimdDivide, RugDivideRow, DashuDivideRow
<1> HIDE DEF divided, places
<1>5. divided \in Seq(Rat) /\ Len(divided) = Len(dst)
  <2>1. divided \in [1..Len(dst) -> Rat]
    BY <1>1, <1>2, <1>3
  <2> QED
    BY <1>1, <2>1, RowOf
<1>6. ByLanes(divided) = divided
  BY <1>5, ByLanesIs
<1>7. d = One => divided = dst
  <2> SUFFICES ASSUME d = One PROVE divided = dst
    OBVIOUS
  <2>1. \A k \in places : Over(dst[k], d) = dst[k]
    BY <1>2
  <2>2. divided = [k \in places |-> dst[k]]
    BY <1>3, <2>1
  <2> QED
    BY <1>1, <2>2
<1>8. /\ ScalarDivide(dst, d) = divided /\ SimdDivide(dst, d) = divided
      /\ RugDivideRow(dst, d) = divided /\ DashuDivideRow(dst, d) = divided
  BY <1>4, <1>6, <1>7
<1> QED
  BY <1>5, <1>8 DEF divided

LEMMA LinCombsAgree ==
  ASSUME NEW lhs \in Seq(Rat), NEW rhs \in Seq(Rat), Len(lhs) = Len(rhs),
         NEW f \in Rat, NEW g \in Rat, Lanes \in Nat \ {0}
  PROVE  LET combined == GenericLinComb2(lhs, f, rhs, g)
         IN /\ combined \in Seq(Rat) /\ Len(combined) = Len(lhs)
            /\ ScalarLinComb2(lhs, f, rhs, g) = combined
            /\ SimdLinComb2(lhs, f, rhs, g) = combined
            /\ RugLinComb2(lhs, f, rhs, g) = combined
            /\ DashuLinComb2(lhs, f, rhs, g) = combined
<1> DEFINE combined == GenericLinComb2(lhs, f, rhs, g)
           places == DOMAIN lhs
           entry(k) == AddMul(Times(lhs[k], f), g, rhs[k])
           integral == /\ IsInteger(f) /\ IsInteger(g)
                       /\ \A k \in places : IsInteger(lhs[k]) /\ IsInteger(rhs[k])
           whole(k) == <<lhs[k][1] * f[1] + rhs[k][1] * g[1], 1>>
           dashuEntry(k) == IF g = Zero \/ rhs[k] = Zero THEN Times(lhs[k], f)
                            ELSE Plus(Times(lhs[k], f), Times(rhs[k], g))
<1>1. /\ places = 1..Len(lhs) /\ Len(lhs) \in Nat
      /\ \A k \in places : lhs[k] \in Rat /\ rhs[k] \in Rat
  BY EntriesOfRows
<1>2. \A k \in places :
        /\ entry(k) \in Rat
        /\ MulAdd(g, rhs[k], Times(f, lhs[k])) = entry(k)
        /\ RugCombined(lhs[k], f, rhs[k], g) = entry(k)
        /\ dashuEntry(k) = entry(k)
        /\ integral => whole(k) = entry(k)
  <2> SUFFICES ASSUME NEW k \in places
               PROVE  /\ entry(k) \in Rat
                      /\ MulAdd(g, rhs[k], Times(f, lhs[k])) = entry(k)
                      /\ RugCombined(lhs[k], f, rhs[k], g) = entry(k)
                      /\ dashuEntry(k) = entry(k)
                      /\ integral => whole(k) = entry(k)
    OBVIOUS
  <2> DEFINE l == lhs[k]
             r == rhs[k]
  <2>1. l \in Rat /\ r \in Rat
    BY <1>1
  <2>2. integral => IsInteger(l) /\ IsInteger(f) /\ IsInteger(r) /\ IsInteger(g)
    OBVIOUS
  <2> HIDE DEF l, r, integral
  <2>3. /\ AddMul(Times(l, f), g, r) \in Rat
        /\ MulAdd(g, r, Times(f, l)) = AddMul(Times(l, f), g, r)
        /\ RugCombined(l, f, r, g) = AddMul(Times(l, f), g, r)
        /\ Plus(Times(l, f), Times(r, g)) = AddMul(Times(l, f), g, r)
        /\ g = Zero \/ r = Zero => Times(l, f) = AddMul(Times(l, f), g, r)
        /\ integral => <<l[1] * f[1] + r[1] * g[1], 1>> = AddMul(Times(l, f), g, r)
    BY <2>1, <2>2, CombinationsAgree
  <2> QED
    BY <2>3 DEF l, r
<1>3. combined = [k \in places |-> entry(k)]
  BY DEF GenericLinComb2
<1>4. /\ ScalarLinComb2(lhs, f, rhs, g) = [k \in places |-> MulAdd(g, rhs[k], Times(f, lhs[k]))]
      /\ SimdLinComb2(lhs, f, rhs, g) = ByLanes([k \in places |-> MulAdd(g, rhs[k], Times(f, lhs[k]))])
      /\ DashuLinComb2(lhs, f, rhs, g) = [k \in places |-> dashuEntry(k)]
  BY DEF ScalarLinComb2, SimdLinComb2, DashuLinComb2
<1>5. RugLinComb2(lhs, f, rhs, g)
        = IF integral THEN [k \in places |-> whole(k)]
          ELSE [k \in places |-> RugCombined(lhs[k], f, rhs[k], g)]
  BY DEF RugLinComb2
<1> HIDE DEF combined, places, entry, integral, whole, dashuEntry
<1>6. combined \in Seq(Rat) /\ Len(combined) = Len(lhs)
  <2>1. combined \in [1..Len(lhs) -> Rat]
    BY <1>1, <1>2, <1>3
  <2> QED
    BY <1>1, <2>1, RowOf
<1>7. ByLanes(combined) = combined
  BY <1>6, ByLanesIs
<1>8. /\ [k \in places |-> MulAdd(g, rhs[k], Times(f, lhs[k]))] = combined
      /\ [k \in places |-> dashuEntry(k)] = combined
      /\ [k \in places |-> RugCombined(lhs[k], f, rhs[k], g)] = combined
      /\ integral => [k \in places |-> whole(k)] = combined
  BY <1>2, <1>3
<1>9. /\ ScalarLinComb2(lhs, f, rhs, g) = combined /\ SimdLinComb2(lhs, f, rhs, g) = combined
      /\ RugLinComb2(lhs, f, rhs, g) = combined /\ DashuLinComb2(lhs, f, rhs, g) = combined
  BY <1>4, <1>5, <1>7, <1>8
<1> QED
  BY <1>6, <1>9 DEF combined

LEMMA DotsAgree ==
  ASSUME NEW lhs \in Seq(Rat), NEW a \in Seq(Rat), NEW b \in Seq(Rat),
         Len(lhs) = Len(a), Len(lhs) = Len(b), Lanes \in Nat \ {0}
  PROVE  /\ ScalarDot(lhs, a) = GenericDot(lhs, a) /\ SimdDot(lhs, a) = GenericDot(lhs, a)
         /\ RugDot(lhs, a) = GenericDot(lhs, a) /\ DashuDot(lhs, a) = GenericDot(lhs, a)
         /\ ScalarDot2(lhs, a, b) = GenericDot2(lhs, a, b)
         /\ SimdDot2(lhs, a, b) = GenericDot2(lhs, a, b)
         /\ RugDot2(lhs, a, b) = GenericDot2(lhs, a, b)
         /\ DashuDot2(lhs, a, b) = GenericDot2(lhs, a, b)
<1> DEFINE Skipped(r) == SumUp(Zero, Products(lhs, r), NonZeroes(lhs, r))
           Whole(r) == <<WholeSum(lhs, r, NonZeroes(lhs, r)), 1>>
           Integral(r) == \A k \in NonZeroes(lhs, r) : IsInteger(lhs[k]) /\ IsInteger(r[k])
           both == \A k \in DOMAIN lhs : lhs[k] # Zero => /\ IsInteger(lhs[k])
                                                          /\ a[k] # Zero => IsInteger(a[k])
                                                          /\ b[k] # Zero => IsInteger(b[k])
<1>1. Skipped(a) = GenericDot(lhs, a) /\ Skipped(b) = GenericDot(lhs, b)
  BY WithoutZeroes
<1>2. /\ Integral(a) => Whole(a) = GenericDot(lhs, a)
      /\ Integral(b) => Whole(b) = GenericDot(lhs, b)
  BY WholesAreSums
<1>3. both => Integral(a) /\ Integral(b)
  BY DEF NonZeroes
<1>4. /\ RugDot(lhs, a) = (IF Integral(a) THEN Whole(a) ELSE Skipped(a))
      /\ RugDot2(lhs, a, b) = (IF both THEN <<Whole(a), Whole(b)>> ELSE <<Skipped(a), Skipped(b)>>)
      /\ DashuDot(lhs, a) = Skipped(a) /\ DashuDot2(lhs, a, b) = <<Skipped(a), Skipped(b)>>
  BY DEF RugDot, RugDot2, DashuDot, DashuDot2
<1>5. SimdDot(lhs, a) = GenericDot(lhs, a) /\ SimdDot(lhs, b) = GenericDot(lhs, b)
  BY SimdDotIs
<1>6. /\ ScalarDot(lhs, a) = GenericDot(lhs, a)
      /\ ScalarDot2(lhs, a, b) = GenericDot2(lhs, a, b)
      /\ SimdDot2(lhs, a, b) = <<SimdDot(lhs, a), SimdDot(lhs, b)>>
      /\ GenericDot2(lhs, a, b) = <<GenericDot(lhs, a), GenericDot(lhs, b)>>
  BY DEF ScalarDot, ScalarDot2, SimdDot2, GenericDot, GenericDot2
<1> HIDE DEF Skipped, Whole, Integral, both
<1> QED
  BY <1>1, <1>2, <1>3, <1>4, <1>5, <1>6

--------------------------------------------------------------------------------
(* Rows: the client with every implementation.                             *)

(* The rows that every implementation left the client with, and the sum    *)
(* that every one told it.                                                 *)
RowsAre(held) ==
  /\ held \in [RowNames -> Seq(Rat)]
  /\ \A r, s \in RowNames : Len(held[r]) = Len(held[s])
  /\ rows = [b \in Backends |-> held]

RowInv ==
  /\ \E held : RowsAre(held)
  /\ \E sum : answer = [b \in Backends |-> sum]

LEMMA InitRows ==
  RowInit => RowInv
<1> SUFFICES ASSUME RowInit PROVE RowInv
  OBVIOUS
<1>1. PICK start \in [RowNames -> StartRows] : rows = [b \in Backends |-> start]
  BY DEF RowInit
<1>2. RowsAre(start)
  BY <1>1, RowsAssumption DEF RowsAre
<1> QED
  BY <1>2 DEF RowInit, RowInv

LEMMA RowsSound ==
  ASSUME RowInv
  PROVE  RowsAgree
<1>1. DOMAIN rows = Backends /\ \A b \in Backends : rows[b] = rows["generic"]
  BY DEF RowInv, RowsAre, Backends
<1>2. \A b \in Backends : answer[b] = answer["generic"]
  BY DEF RowInv, Backends
<1> QED
  BY <1>1, <1>2 DEF RowsAgree

(* What every implementation has in store for the same row.                *)
LEMMA StoreKeeps ==
  ASSUME RowInv, NEW held, RowsAre(held), NEW r \in RowNames,
         NEW new \in Seq(Rat), Len(new) = Len(held[r]), Store(r, new, new, new, new, new)
  PROVE  RowInv'
<1> DEFINE after == [held EXCEPT ![r] = new]
<1>1. held \in [RowNames -> Seq(Rat)] /\ \A s, t \in RowNames : Len(held[s]) = Len(held[t])
  BY DEF RowsAre
<1>2. after \in [RowNames -> Seq(Rat)] /\ \A s, t \in RowNames : Len(after[s]) = Len(after[t])
  <2>1. after \in [RowNames -> Seq(Rat)]
    BY <1>1
  <2>2. \A s \in RowNames : Len(after[s]) = Len(held[r])
    BY <1>1
  <2> QED
    BY <2>1, <2>2
<1>3. rows' = [b \in Backends |-> after]
  <2> DEFINE all == [generic |-> new, scalar |-> new, simd |-> new, rug |-> new, dashu |-> new]
  <2>1. rows' = [b \in Backends |-> [rows[b] EXCEPT ![r] = all[b]]]
    BY DEF Store
  <2>2. \A b \in Backends : all[b] = new /\ rows[b] = held
    BY DEF Backends, RowsAre
  <2> HIDE DEF all, after
  <2>3. \A b \in Backends : [rows[b] EXCEPT ![r] = all[b]] = after
    BY <2>2 DEF after
  <2> QED
    BY <2>1, <2>3
<1> HIDE DEF after
<1>4. RowsAre(after)'
  BY <1>2, <1>3 DEF RowsAre
<1>5. answer' = answer
  BY DEF Store
<1> QED
  BY <1>4, <1>5 DEF RowInv

LEMMA TellKeeps ==
  ASSUME RowInv, NEW sum, Tell(sum, sum, sum, sum, sum)
  PROVE  RowInv'
<1>1. answer' = [b \in Backends |-> sum]
  BY DEF Tell, Backends
<1>2. rows' = rows
  BY DEF Tell
<1> QED
  BY <1>1, <1>2 DEF RowInv, RowsAre

(* One step of the client.                                                 *)
LEMMA RowsStep ==
  ASSUME RowInv, RowNext
  PROVE  RowInv'
<1>1. PICK held : RowsAre(held)
  BY DEF RowInv
<1>2. /\ \A r \in RowNames : held[r] \in Seq(Rat)
      /\ \A r, s \in RowNames : Len(held[r]) = Len(held[s])
      /\ rows.generic = held /\ rows.scalar = held /\ rows.simd = held
      /\ rows.rug = held /\ rows.dashu = held
  BY <1>1 DEF RowsAre, Backends
<1>3. Lanes \in Nat \ {0} /\ Factors \subseteq Rat
  BY RowsAssumption
<1>4. ASSUME NEW r \in RowNames, NEW s \in RowNames, Dot(r, s)
      PROVE  RowInv'
  <2>1. Tell(GenericDot(held[r], held[s]), ScalarDot(held[r], held[s]), SimdDot(held[r], held[s]),
             RugDot(held[r], held[s]), DashuDot(held[r], held[s]))
    BY <1>2, <1>4 DEF Dot
  <2> DEFINE sum == GenericDot(held[r], held[s])
  <2>2. /\ ScalarDot(held[r], held[s]) = sum /\ SimdDot(held[r], held[s]) = sum
        /\ RugDot(held[r], held[s]) = sum /\ DashuDot(held[r], held[s]) = sum
    BY <1>2, <1>3, DotsAgree
  <2> HIDE DEF sum
  <2>3. Tell(sum, sum, sum, sum, sum)
    BY <2>1, <2>2 DEF sum
  <2> QED
    BY <2>3, TellKeeps
<1>5. ASSUME NEW r \in RowNames, NEW s \in RowNames, NEW t \in RowNames, Dot2(r, s, t)
      PROVE  RowInv'
  <2>1. Tell(GenericDot2(held[r], held[s], held[t]), ScalarDot2(held[r], held[s], held[t]),
             SimdDot2(held[r], held[s], held[t]), RugDot2(held[r], held[s], held[t]),
             DashuDot2(held[r], held[s], held[t]))
    BY <1>2, <1>5 DEF Dot2
  <2> DEFINE sums == GenericDot2(held[r], held[s], held[t])
  <2>2. /\ ScalarDot2(held[r], held[s], held[t]) = sums /\ SimdDot2(held[r], held[s], held[t]) = sums
        /\ RugDot2(held[r], held[s], held[t]) = sums /\ DashuDot2(held[r], held[s], held[t]) = sums
    BY <1>2, <1>3, DotsAgree
  <2> HIDE DEF sums
  <2>3. Tell(sums, sums, sums, sums, sums)
    BY <2>1, <2>2 DEF sums
  <2> QED
    BY <2>3, TellKeeps
<1>6. ASSUME NEW r \in RowNames, NEW f \in Factors, Scale(r, f)
      PROVE  RowInv'
  <2> DEFINE new == GenericScale(held[r], f)
  <2>1. Store(r, new, ScalarScale(held[r], f), SimdScale(held[r], f), RugScale(held[r], f),
              DashuScale(held[r], f))
    BY <1>2, <1>6 DEF Scale
  <2>2. /\ new \in Seq(Rat) /\ Len(new) = Len(held[r])
        /\ ScalarScale(held[r], f) = new /\ SimdScale(held[r], f) = new
        /\ RugScale(held[r], f) = new /\ DashuScale(held[r], f) = new
    BY <1>2, <1>3, ScalesAgree
  <2> HIDE DEF new
  <2>3. Store(r, new, new, new, new, new)
    BY <2>1, <2>2
  <2> QED
    BY <1>1, <2>2, <2>3, StoreKeeps
<1>7. ASSUME NEW r \in RowNames, NEW d \in Factors, Divide(r, d)
      PROVE  RowInv'
  <2> DEFINE new == GenericDivide(held[r], d)
  <2>1. /\ d # Zero
        /\ Store(r, new, ScalarDivide(held[r], d), SimdDivide(held[r], d),
                 RugDivideRow(held[r], d), DashuDivideRow(held[r], d))
    BY <1>2, <1>7 DEF Divide
  <2>2. /\ new \in Seq(Rat) /\ Len(new) = Len(held[r])
        /\ ScalarDivide(held[r], d) = new /\ SimdDivide(held[r], d) = new
        /\ RugDivideRow(held[r], d) = new /\ DashuDivideRow(held[r], d) = new
    BY <1>2, <1>3, <2>1, DividesAgree
  <2> HIDE DEF new
  <2>3. Store(r, new, new, new, new, new)
    BY <2>1, <2>2
  <2> QED
    BY <1>1, <2>2, <2>3, StoreKeeps
<1>8. ASSUME NEW r \in RowNames, NEW s \in RowNames, NEW f \in Factors, AxpyAdd(r, f, s)
      PROVE  RowInv'
  <2> DEFINE new == GenericAxpyAdd(held[r], f, held[s])
  <2>1. Store(r, new, ScalarAxpy(held[r], f, held[s]), SimdAxpy(held[r], f, held[s]),
              RugAxpyAdd(held[r], f, held[s]), DashuAxpyAdd(held[r], f, held[s]))
    BY <1>2, <1>8 DEF AxpyAdd
  <2>2. /\ new \in Seq(Rat) /\ Len(new) = Len(held[r])
        /\ ScalarAxpy(held[r], f, held[s]) = new /\ SimdAxpy(held[r], f, held[s]) = new
        /\ RugAxpyAdd(held[r], f, held[s]) = new /\ DashuAxpyAdd(held[r], f, held[s]) = new
    BY <1>2, <1>3, AxpysAgree
  <2> HIDE DEF new
  <2>3. Store(r, new, new, new, new, new)
    BY <2>1, <2>2
  <2> QED
    BY <1>1, <2>2, <2>3, StoreKeeps
<1>9. ASSUME NEW r \in RowNames, NEW s \in RowNames, NEW f \in Factors, AxpySub(r, f, s)
      PROVE  RowInv'
  <2> DEFINE new == GenericAxpySub(held[r], f, held[s])
  <2>1. Store(r, new, ScalarAxpy(held[r], Opposite(f), held[s]),
              SimdAxpy(held[r], Opposite(f), held[s]),
              RugAxpySub(held[r], f, held[s]), DashuAxpySub(held[r], f, held[s]))
    BY <1>2, <1>9 DEF AxpySub
  <2>2. /\ new \in Seq(Rat) /\ Len(new) = Len(held[r])
        /\ ScalarAxpy(held[r], Opposite(f), held[s]) = new
        /\ SimdAxpy(held[r], Opposite(f), held[s]) = new
        /\ RugAxpySub(held[r], f, held[s]) = new /\ DashuAxpySub(held[r], f, held[s]) = new
    BY <1>2, <1>3, AxpysAgree
  <2> HIDE DEF new
  <2>3. Store(r, new, new, new, new, new)
    BY <2>1, <2>2
  <2> QED
    BY <1>1, <2>2, <2>3, StoreKeeps
<1>10. ASSUME NEW r \in RowNames, NEW s \in RowNames, NEW f \in Factors, AddMulEntry(r, s, f, 1)
       PROVE  RowInv'
  <2> DEFINE New(e) == [held[r] EXCEPT ![1] = e]
             x == held[r][1]
             y == held[s][1]
  <2>1. \/ Store(r, New(AddMul(x, f, y)), New(MulAdd(f, y, x)), New(MulAdd(f, y, x)),
                    New(AddMul(x, f, y)), New(DashuAddMul(x, f, y)))
        \/ Store(r, New(SubMul(x, f, y)), New(MulAdd(Opposite(f), y, x)),
                    New(MulAdd(Opposite(f), y, x)),
                    New(SubMul(x, f, y)), New(DashuSubMul(x, f, y)))
    BY <1>2, <1>10 DEF AddMulEntry
  <2>2. DOMAIN held[r] = 1..Len(held[r]) /\ Len(held[r]) \in Nat
    BY <1>2, EntriesOfRows
  <2>3. CASE 1 \in DOMAIN held[r]
    <3>1. x \in Rat /\ y \in Rat /\ f \in Rat
      BY <1>2, <1>3, <2>3, EntriesOfRows
    <3> HIDE DEF x, y
    <3>2. /\ AddMul(x, f, y) \in Rat /\ SubMul(x, f, y) \in Rat
          /\ MulAdd(f, y, x) = AddMul(x, f, y) /\ DashuAddMul(x, f, y) = AddMul(x, f, y)
          /\ MulAdd(Opposite(f), y, x) = SubMul(x, f, y) /\ DashuSubMul(x, f, y) = SubMul(x, f, y)
      BY <3>1, EntriesAgree
    <3>3. \E e \in Rat : Store(r, New(e), New(e), New(e), New(e), New(e))
      <4> HIDE DEF New
      <4> QED
        BY <2>1, <3>2
    <3>4. PICK e \in Rat : Store(r, New(e), New(e), New(e), New(e), New(e))
      BY <3>3
    <3>5. New(e) \in Seq(Rat) /\ Len(New(e)) = Len(held[r])
      BY <1>2, <2>2, <2>3, ExceptSeq
    <3> DEFINE new == New(e)
    <3>6. Store(r, new, new, new, new, new) /\ new \in Seq(Rat) /\ Len(new) = Len(held[r])
      BY <3>4, <3>5
    <3> HIDE DEF new
    <3> QED
      BY <1>1, <3>6, StoreKeeps
  <2>4. CASE 1 \notin DOMAIN held[r]
    <3>1. \A e : New(e) = held[r]
      BY <1>2, <2>4, EntriesOfRows
    <3> DEFINE new == held[r]
    <3> HIDE DEF New
    <3>2. Store(r, new, new, new, new, new)
      BY <2>1, <3>1
    <3>3. new \in Seq(Rat) /\ Len(new) = Len(held[r])
      BY <1>2
    <3> HIDE DEF new
    <3> QED
      BY <1>1, <3>2, <3>3, StoreKeeps
  <2> QED
    BY <2>3, <2>4
<1>11. ASSUME NEW r \in RowNames, NEW s \in RowNames, NEW t \in RowNames,
              NEW f \in Factors, NEW g \in Factors, LinComb2(r, s, f, t, g)
       PROVE  RowInv'
  <2> DEFINE new == GenericLinComb2(held[s], f, held[t], g)
  <2>1. Store(r, new, ScalarLinComb2(held[s], f, held[t], g), SimdLinComb2(held[s], f, held[t], g),
              RugLinComb2(held[s], f, held[t], g), DashuLinComb2(held[s], f, held[t], g))
    BY <1>2, <1>11 DEF LinComb2
  <2>2. /\ new \in Seq(Rat) /\ Len(new) = Len(held[s])
        /\ ScalarLinComb2(held[s], f, held[t], g) = new
        /\ SimdLinComb2(held[s], f, held[t], g) = new
        /\ RugLinComb2(held[s], f, held[t], g) = new
        /\ DashuLinComb2(held[s], f, held[t], g) = new
    <3>1. /\ held[s] \in Seq(Rat) /\ held[t] \in Seq(Rat) /\ Len(held[s]) = Len(held[t])
          /\ f \in Rat /\ g \in Rat
      BY <1>2, <1>3
    <3> QED
      BY <1>3, <3>1, LinCombsAgree
  <2>3. Len(new) = Len(held[r])
    BY <1>2, <2>2
  <2> HIDE DEF new
  <2>4. Store(r, new, new, new, new, new)
    BY <2>1, <2>2
  <2> QED
    BY <1>1, <2>2, <2>3, <2>4, StoreKeeps
<1> QED
  BY <1>4, <1>5, <1>6, <1>7, <1>8, <1>9, <1>10, <1>11 DEF RowNext

(* Clients of other things have no rows.                                   *)
RowsInv ==
  /\ client = "rows" => RowInv
  /\ client # "rows" => NoRows

(* Whatever a client does with its rows, all five implementations leave it *)
(* with the same rows and tell it the same sums: for rows of any length,   *)
(* registers of any number of lanes and any sequence of operations.        *)
THEOREM RowsExact ==
  ClientSpec => []RowsAgree
<1>1. ClientInit => RowsInv
  BY InitRows DEF ClientInit, RowsInv
<1>2. RowsInv /\ [ClientNext]_calculoVars => RowsInv'
  <2> SUFFICES ASSUME RowsInv, [ClientNext]_calculoVars PROVE RowsInv'
    OBVIOUS
  <2>1. ASSUME UNCHANGED <<client, rowVars>> PROVE RowsInv'
    BY <2>1 DEF RowsInv, NoRows, RowInv, RowsAre, rowVars
  <2>2. CASE UNCHANGED calculoVars
    BY <2>1, <2>2 DEF calculoVars
  <2>3. CASE ClientNext
    <3>1. CASE client = "rows" /\ RowNext
      BY <2>3, <3>1, RowsStep DEF RowsInv, ClientNext
    <3>2. CASE ~(client = "rows" /\ RowNext)
      BY <2>1, <2>3, <3>2 DEF ClientNext
    <3> QED
      BY <3>1, <3>2
  <2> QED
    BY <2>2, <2>3
<1>3. RowsInv => RowsAgree
  <2>1. NoRows => RowsAgree
    BY DEF NoRows, RowsAgree
  <2> QED
    BY <2>1, RowsSound DEF RowsInv
<1> QED
  BY <1>1, <1>2, <1>3, PTL DEF ClientSpec

--------------------------------------------------------------------------------
(* Floats: numbers over a power of two.                                    *)

(* An odd number has no divisor in common with a power of two.             *)
LEMMA OddIsCoprime ==
  ASSUME NEW q \in Int, q % 2 = 1, NEW m \in Nat
  PROVE  \E s, t \in Int : s * q + t * PowerOfTwo[m] = 1
<1> DEFINE Good(j) == \E s, t \in Int : s * q + t * PowerOfTwo[j] = 1
           S == {j \in Nat : Good(j)}
<1>1. 0 \in S
  <2>1. 0 * q + 1 * PowerOfTwo[0] = 1
    BY PowerStep
  <2>2. 0 \in Int /\ 1 \in Int /\ 0 \in Nat
    OBVIOUS
  <2> QED
    BY <2>1, <2>2, Zenon
<1>2. ASSUME NEW j \in Nat, j \in S PROVE j + 1 \in S
  <2> DEFINE p == PowerOfTwo[j]
  <2>1. PowerOfTwo[j + 1] = 2 * p /\ p \in Nat
    BY PowerStep
  <2>2. PICK s \in Int, t \in Int : s * q + t * p = 1
    BY <1>2
  <2> HIDE DEF p
  <2>3. CASE t % 2 = 0
    <3> DEFINE u == t \div 2
    <3>1. u \in Int /\ t = 2 * u
      BY <2>3
    <3> HIDE DEF u
    <3>2. t * p = u * (2 * p)
      BY <2>1, <3>1
    <3>3. s * q + u * PowerOfTwo[j + 1] = 1
      BY <2>1, <2>2, <3>2
    <3>4. j + 1 \in Nat
      OBVIOUS
    <3> QED
      BY <3>1, <3>3, <3>4, Zenon
  <2>4. CASE t % 2 # 0
    <3> DEFINE u == (t - q) \div 2
    <3>1. u \in Int /\ t = q + 2 * u
      BY <2>4
    <3> HIDE DEF u
    <3>2. (s + p) * q + u * (2 * p) = s * q + (q + 2 * u) * p
      BY <2>1, <3>1
    <3> DEFINE v == s + p
    <3>3. v * q + u * PowerOfTwo[j + 1] = 1 /\ v \in Int
      BY <2>1, <2>2, <3>1, <3>2
    <3> HIDE DEF v
    <3>4. j + 1 \in Nat
      OBVIOUS
    <3> QED
      BY <3>1, <3>3, <3>4, Zenon
  <2> QED
    BY <2>3, <2>4
<1>3. \A j \in Nat : j \in S
  <2> HIDE DEF S
  <2> QED
    BY <1>1, <1>2, SetInduction
<1> QED
  BY <1>3

LEMMA CoprimeIsRat ==
  ASSUME NEW q \in Int, NEW d \in Nat \ {0}, \E s, t \in Int : s * q + t * d = 1
  PROVE  <<q, d>> \in Rat
<1>1. PICK s \in Int, t \in Int : s * q + t * d = 1
  OBVIOUS
<1> DEFINE m == Magnitude(q)
<1>2. m \in Nat /\ (m = q \/ m = -q) /\ Magnitude(d) = d
  BY DEF Magnitude
<1>3. Euclid[<<m, d>>] = 1
  <2>1. CASE m = q
    BY <1>1, <1>2, <2>1, CombinationIsCoprime
  <2>2. CASE m = -q
    <3>1. -s \in Int /\ (-s) * (-q) = s * q
      BY <1>1
    <3>2. (-s) * m + t * d = 1
      BY <1>1, <2>2, <3>1
    <3> HIDE DEF m
    <3> QED
      BY <1>2, <3>1, <3>2, CombinationIsCoprime
  <2> QED
    BY <1>2, <2>1, <2>2
<1> QED
  BY <1>2, <1>3 DEF Rat, CommonDivisor

(* What halving both numbers as often as it can be done ends with.         *)
Halves(p, q) ==
  /\ q \in Int \X Int
  /\ \E k \in Nat : p[1] = q[1] * PowerOfTwo[k] /\ p[2] = q[2] * PowerOfTwo[k]
  /\ q[1] % 2 # 0 \/ q[2] % 2 # 0

(* The loop of f64_to_num_den has a solution, and Halved is one.           *)
LEMMA HalvedStep ==
  ASSUME NEW p \in Int \X Int
  PROVE  Halved[p] = IF p[1] % 2 = 0 /\ p[2] % 2 = 0
                       THEN Halved[<<p[1] \div 2, p[2] \div 2>>] ELSE p
<1> DEFINE Goal(x) == CHOOSE q : Halves(x, q)
           g == [x \in Int \X Int |-> Goal(x)]
           Even(x) == x[1] % 2 = 0 /\ x[2] % 2 = 0
           Half2(x) == <<x[1] \div 2, x[2] \div 2>>
<1>1. ASSUME NEW x \in Int \X Int, Even(x) PROVE Goal(x) = Goal(Half2(x))
  <2> DEFINE a == x[1] \div 2
             b == x[2] \div 2
  <2>1. a \in Int /\ b \in Int /\ x[1] = 2 * a /\ x[2] = 2 * b
    BY <1>1
  <2>2. ASSUME NEW q, Halves(x, q) PROVE Halves(<<a, b>>, q)
    <3>1. PICK k \in Nat : x[1] = q[1] * PowerOfTwo[k] /\ x[2] = q[2] * PowerOfTwo[k]
      BY <2>2 DEF Halves
    <3> DEFINE c == q[1]
               d == q[2]
               m == PowerOfTwo[k - 1]
    <3>2. c \in Int /\ d \in Int /\ (c % 2 # 0 \/ d % 2 # 0)
      BY <2>2 DEF Halves
    <3>3. k # 0
      <4> SUFFICES ASSUME k = 0 PROVE FALSE
        OBVIOUS
      <4>1. x[1] = c /\ x[2] = d
        BY <3>1, <3>2, PowerStep
      <4> QED
        BY <1>1, <3>2, <4>1
    <3>4. k - 1 \in Nat /\ PowerOfTwo[k] = 2 * m /\ m \in Nat
      <4>1. k - 1 \in Nat /\ (k - 1) + 1 = k
        BY <3>3
      <4> QED
        BY <4>1, PowerStep
    <3>5. 2 * a = c * (2 * m) /\ 2 * b = d * (2 * m)
      BY <2>1, <3>1, <3>4
    <3> HIDE DEF a, b, c, d, m
    <3>6. c * (2 * m) = 2 * (c * m) /\ d * (2 * m) = 2 * (d * m) /\ c * m \in Int /\ d * m \in Int
      BY <3>2, <3>4
    <3>7. a = c * m /\ b = d * m
      BY <2>1, <3>5, <3>6
    <3> QED
      BY <2>2, <3>4, <3>7 DEF Halves, c, d, m
  <2>3. ASSUME NEW q, Halves(<<a, b>>, q) PROVE Halves(x, q)
    <3>1. PICK k \in Nat : a = q[1] * PowerOfTwo[k] /\ b = q[2] * PowerOfTwo[k]
      BY <2>3 DEF Halves
    <3> DEFINE c == q[1]
               d == q[2]
               m == PowerOfTwo[k]
    <3>2. c \in Int /\ d \in Int
      BY <2>3 DEF Halves
    <3>3. k + 1 \in Nat /\ PowerOfTwo[k + 1] = 2 * m /\ m \in Nat
      BY PowerStep
    <3>4. a = c * m /\ b = d * m
      BY <3>1
    <3> HIDE DEF a, b, c, d, m
    <3>5. 2 * (c * m) = c * (2 * m) /\ 2 * (d * m) = d * (2 * m)
      BY <3>2, <3>3
    <3>6. x[1] = c * (2 * m) /\ x[2] = d * (2 * m)
      BY <2>1, <3>4, <3>5
    <3> QED
      BY <2>3, <3>3, <3>6 DEF Halves, c, d, m
  <2> HIDE DEF a, b
  <2>4. \A q : Halves(x, q) <=> Halves(<<a, b>>, q)
    BY <2>2, <2>3
  <2> QED
    BY <2>4 DEF a, b
<1>2. ASSUME NEW x \in Int \X Int, ~Even(x) PROVE Goal(x) = x
  <2>1. Halves(x, x)
    <3>1. x[1] = x[1] * 1 /\ x[2] = x[2] * 1
      OBVIOUS
    <3> QED
      BY <1>2, <3>1, PowerStep DEF Halves
  <2>2. ASSUME NEW q, Halves(x, q) PROVE q = x
    <3>1. PICK k \in Nat : x[1] = q[1] * PowerOfTwo[k] /\ x[2] = q[2] * PowerOfTwo[k]
      BY <2>2 DEF Halves
    <3> DEFINE c == q[1]
               d == q[2]
    <3>2. c \in Int /\ d \in Int /\ q = <<c, d>>
      BY <2>2 DEF Halves
    <3>3. k = 0
      <4> SUFFICES ASSUME k # 0 PROVE FALSE
        OBVIOUS
      <4> DEFINE m == PowerOfTwo[k - 1]
      <4>1. k - 1 \in Nat /\ (k - 1) + 1 = k
        OBVIOUS
      <4>2. PowerOfTwo[k] = 2 * m /\ m \in Nat
        BY <4>1, PowerStep
      <4> HIDE DEF c, d, m
      <4>3. x[1] = 2 * (c * m) /\ x[2] = 2 * (d * m)
        <5>1. c * (2 * m) = 2 * (c * m) /\ d * (2 * m) = 2 * (d * m)
          BY <3>2, <4>2
        <5> QED
          BY <3>1, <4>2, <5>1 DEF c, d
      <4>4. c * m \in Int /\ d * m \in Int
        BY <3>2, <4>2
      <4>5. (2 * (c * m)) % 2 = 0 /\ (2 * (d * m)) % 2 = 0
        BY <4>4
      <4> QED
        BY <1>2, <4>3, <4>5
    <3>4. x[1] = c /\ x[2] = d
      BY <3>1, <3>2, <3>3, PowerStep
    <3> QED
      BY <3>2, <3>4
  <2> QED
    BY <2>1, <2>2
<1> HIDE DEF Goal
<1>3. g = [x \in Int \X Int |-> IF Even(x) THEN g[Half2(x)] ELSE x]
  <2> SUFFICES ASSUME NEW x \in Int \X Int
               PROVE  Goal(x) = IF Even(x) THEN g[Half2(x)] ELSE x
    OBVIOUS
  <2>1. Half2(x) \in Int \X Int
    OBVIOUS
  <2>2. g[Half2(x)] = Goal(Half2(x))
    BY <2>1
  <2> QED
    BY <1>1, <1>2, <2>2
<1>4. Halved = [x \in Int \X Int |-> IF x[1] % 2 = 0 /\ x[2] % 2 = 0
                                       THEN Halved[<<x[1] \div 2, x[2] \div 2>>] ELSE x]
  <2> HIDE DEF g
  <2> QED
    BY <1>3 DEF Halved
<1> QED
  BY <1>4

LEMMA HalvedPair ==
  ASSUME NEW n \in Int, NEW d \in Int
  PROVE  Halved[<<n, d>>] = IF n % 2 = 0 /\ d % 2 = 0 THEN Halved[<<n \div 2, d \div 2>>]
                            ELSE <<n, d>>
<1> DEFINE p == <<n, d>>
<1>1. p \in Int \X Int /\ p[1] = n /\ p[2] = d
  OBVIOUS
<1>2. Halved[p] = IF p[1] % 2 = 0 /\ p[2] % 2 = 0
                    THEN Halved[<<p[1] \div 2, p[2] \div 2>>] ELSE p
  <2> HIDE DEF p
  <2> QED
    BY <1>1, HalvedStep
<1> QED
  BY <1>1, <1>2

(* A fraction over a power of two comes out in lowest terms.               *)
LEMMA HalvedIs ==
  ASSUME NEW n \in Int, NEW k \in Nat
  PROVE  /\ Is(Halved[<<n, PowerOfTwo[k]>>], n, PowerOfTwo[k])
         /\ \E m \in 0..k : Halved[<<n, PowerOfTwo[k]>>][2] = PowerOfTwo[m]
<1> DEFINE Good(a, j) ==
      \E m \in 0..j, q \in Int :
        /\ Halved[<<a, PowerOfTwo[j]>>] = <<q, PowerOfTwo[m]>>
        /\ q * PowerOfTwo[j] = a * PowerOfTwo[m]
        /\ m = 0 \/ q % 2 = 1
    S == {j \in Nat : \A a \in Int : Good(a, j)}
<1>1. 0 \in S
  <2> SUFFICES ASSUME NEW a \in Int PROVE Good(a, 0)
    OBVIOUS
  <2>1. PowerOfTwo[0] = 1
    BY PowerStep
  <2>2. Halved[<<a, 1>>] = <<a, 1>>
    <3> DEFINE one == 1
    <3>1. one \in Int /\ one % 2 # 0
      OBVIOUS
    <3> HIDE DEF one
    <3>2. Halved[<<a, one>>] = <<a, one>>
      BY <3>1, HalvedPair
    <3> QED
      BY <3>2 DEF one
  <2> QED
    BY <2>1, <2>2
<1>2. ASSUME NEW j \in Nat, j \in S PROVE j + 1 \in S
  <2> SUFFICES ASSUME NEW a \in Int PROVE Good(a, j + 1)
    OBVIOUS
  <2> DEFINE p == PowerOfTwo[j]
  <2>1. PowerOfTwo[j + 1] = 2 * p /\ p \in Nat \ {0}
    BY PowerStep
  <2> HIDE DEF p
  <2>2. (2 * p) % 2 = 0 /\ (2 * p) \div 2 = p
    BY <2>1
  <2>3. CASE a % 2 = 0
    <3> DEFINE b == a \div 2
    <3>1. b \in Int /\ a = 2 * b
      BY <2>3
    <3>2. Halved[<<a, 2 * p>>] = Halved[<<b, p>>]
      <4> DEFINE d == 2 * p
      <4>1. d \in Int /\ d % 2 = 0 /\ d \div 2 = p
        BY <2>1, <2>2
      <4> HIDE DEF d
      <4>2. Halved[<<a, d>>] = Halved[<<a \div 2, d \div 2>>]
        BY <2>3, <4>1, HalvedPair
      <4> QED
        BY <4>1, <4>2 DEF d
    <3>3. PICK m \in 0..j, q \in Int : /\ Halved[<<b, p>>] = <<q, PowerOfTwo[m]>>
                                       /\ q * p = b * PowerOfTwo[m]
                                       /\ m = 0 \/ q % 2 = 1
      BY <1>2, <3>1 DEF p
    <3> DEFINE r == PowerOfTwo[m]
    <3>4. r \in Nat
      BY PowerStep
    <3> HIDE DEF b, r
    <3>5. q * (2 * p) = a * r
      <4>1. q * (2 * p) = 2 * (q * p) /\ 2 * (b * r) = (2 * b) * r
        BY <2>1, <3>1, <3>4
      <4> QED
        BY <3>1, <3>3, <4>1 DEF r
    <3>6. m \in 0..(j + 1)
      OBVIOUS
    <3> QED
      BY <2>1, <3>2, <3>3, <3>5, <3>6 DEF r
  <2>4. CASE a % 2 # 0
    <3>1. a % 2 = 1
      BY <2>4
    <3>2. Halved[<<a, 2 * p>>] = <<a, 2 * p>>
      <4> DEFINE d == 2 * p
      <4>1. d \in Int
        BY <2>1
      <4> HIDE DEF d
      <4>2. Halved[<<a, d>>] = <<a, d>>
        BY <2>4, <4>1, HalvedPair
      <4> QED
        BY <4>2 DEF d
    <3>3. j + 1 \in 0..(j + 1)
      OBVIOUS
    <3> QED
      BY <2>1, <3>1, <3>2, <3>3
  <2> QED
    BY <2>3, <2>4
<1>3. \A j \in Nat : j \in S
  <2> HIDE DEF S
  <2> QED
    BY <1>1, <1>2, SetInduction
<1>4. PICK m \in 0..k, q \in Int :
        /\ Halved[<<n, PowerOfTwo[k]>>] = <<q, PowerOfTwo[m]>>
        /\ q * PowerOfTwo[k] = n * PowerOfTwo[m]
        /\ m = 0 \/ q % 2 = 1
  BY <1>3
<1>5. <<q, PowerOfTwo[m]>> \in Rat
  <2>1. PowerOfTwo[m] \in Nat \ {0}
    BY PowerStep
  <2>2. \E s, t \in Int : s * q + t * PowerOfTwo[m] = 1
    <3>1. CASE m = 0
      <4>1. 0 * q + 1 * 1 = 1
        OBVIOUS
      <4> QED
        BY <3>1, <4>1, PowerStep
    <3>2. CASE q % 2 = 1
      <4>1. m \in Nat
        OBVIOUS
      <4> QED
        BY <3>2, <4>1, OddIsCoprime
    <3> QED
      BY <1>4, <3>1, <3>2
  <2> QED
    BY <2>1, <2>2, CoprimeIsRat
<1> QED
  BY <1>4, <1>5 DEF Is

LEMMA OppositeOfZero ==
  ASSUME NEW n \in Int, n <= 0, n >= 0
  PROVE  -n = 0
<1> DEFINE m == -n
<1>1. m \in Int /\ m + n = 0
  OBVIOUS
<1> HIDE DEF m
<1>2. m = 0
  BY <1>1
<1> QED
  BY <1>2 DEF m

(* The same number over another denominator.                               *)
LEMMA IsMoves ==
  ASSUME NEW n \in Int, NEW d \in Int, d # 0, NEW m \in Int, NEW e \in Int,
         n * e = m * d, NEW x, Is(x, n, d)
  PROVE  Is(x, m, e)
<1> DEFINE a == x[1]
           b == x[2]
<1>1. a \in Int /\ b \in Int /\ a * d = n * b /\ x \in Rat
  BY RatType DEF Is
<1> HIDE DEF a, b
<1>2. (a * e) * d = (m * b) * d
  <2>1. (a * e) * d = (a * d) * e /\ (n * b) * e = (n * e) * b /\ (m * d) * b = (m * b) * d
    BY <1>1
  <2> QED
    BY <1>1, <2>1
<1>3. a * e = m * b
  <2> DEFINE u == a * e
             v == m * b
  <2>1. u \in Int /\ v \in Int /\ u * d = v * d
    BY <1>1, <1>2
  <2> HIDE DEF u, v
  <2>2. u = v
    BY <2>1
  <2> QED
    BY <2>2 DEF u, v
<1> QED
  BY <1>1, <1>3 DEF Is, a, b

LEMMA ZeroIs ==
  ASSUME NEW d \in Int, d # 0, NEW x, Is(x, 0, d)
  PROVE  x = Zero
<1>1. 0 * d = 0 * 1
  OBVIOUS
<1>2. Is(Zero, 0, d)
  BY <1>1, ConstantsAreRat DEF Is, Zero
<1> QED
  BY <1>2, OneNumber

(* A finite float is so many of the least of them.                         *)
Significand(f) == IF f.exponent = 0 THEN f.fraction ELSE PowerOfTwo[FractionBits] + f.fraction
Lift(f) == IF f.exponent = 0 THEN 0 ELSE f.exponent - 1
Size(f) == Significand(f) * PowerOfTwo[Lift(f)]
Finest == Bias - 1 + FractionBits

LEMMA FloatType ==
  ASSUME NEW f \in Floats
  PROVE  /\ f.sign \in {0, 1} /\ f.exponent \in Nat
         /\ f.fraction \in Nat /\ f.fraction < PowerOfTwo[FractionBits]
         /\ f = [sign |-> f.sign, exponent |-> f.exponent, fraction |-> f.fraction]
         /\ Significand(f) \in Nat /\ Lift(f) \in Nat /\ Size(f) \in Nat
         /\ Finest \in Nat /\ FractionBits \in Nat /\ Bias \in Nat \ {0}
         /\ PowerOfTwo[FractionBits] \in Nat \ {0}
<1>1. FractionBits \in Nat /\ Bias \in Nat \ {0} /\ Finest \in Nat
  BY FloatsAssumption DEF Finest
<1>2. PowerOfTwo[FractionBits] \in Nat \ {0}
  BY <1>1, PowerStep
<1> DEFINE p == PowerOfTwo[FractionBits]
<1> HIDE DEF p
<1>3. /\ f.sign \in {0, 1} /\ f.exponent \in Nat
      /\ f.fraction \in Nat /\ f.fraction < p
      /\ f = [sign |-> f.sign, exponent |-> f.exponent, fraction |-> f.fraction]
  <2>1. f \in [sign : {0, 1}, exponent : Exponents, fraction : 0 .. p - 1]
    BY DEF Floats, p
  <2>2. f = [sign |-> f.sign, exponent |-> f.exponent, fraction |-> f.fraction]
    BY <2>1
  <2>3. f.sign \in {0, 1} /\ f.exponent \in Exponents /\ f.fraction \in 0 .. p - 1
    BY <2>1
  <2>4. p \in Nat
    BY <1>2 DEF p
  <2> QED
    BY <2>2, <2>3, <2>4, FloatsAssumption
<1>4. Significand(f) \in Nat /\ Lift(f) \in Nat
  BY <1>2, <1>3 DEF Significand, Lift, p
<1>5. PowerOfTwo[Lift(f)] \in Nat
  BY <1>4, PowerStep
<1>6. Size(f) \in Nat
  <2> DEFINE a == Significand(f)
             b == PowerOfTwo[Lift(f)]
  <2>1. a \in Nat /\ b \in Nat
    BY <1>4, <1>5
  <2> HIDE DEF a, b
  <2>2. a * b \in Nat
    BY <2>1
  <2> QED
    BY <2>2 DEF Size, a, b
<1> QED
  BY <1>1, <1>2, <1>3, <1>4, <1>6 DEF p

LEMMA SignedTimes ==
  ASSUME NEW f \in Floats, NEW n \in Int, NEW p \in Int
  PROVE  Signed(f, n) \in Int /\ Signed(f, n) * p = Signed(f, n * p)
<1>1. (-n) * p = -(n * p)
  OBVIOUS
<1> QED
  BY <1>1 DEF Signed

(* Taken apart and halved, it is that number.                              *)
LEMMA DashuPartsIs ==
  ASSUME NEW f \in Floats
  PROVE  /\ Is(DashuParts(f), Signed(f, Size(f)), PowerOfTwo[Finest])
         /\ \E m \in 0..Finest : DashuParts(f)[2] = PowerOfTwo[m]
<1> DEFINE n == Significand(f)
           s == Lift(f) - Finest
           l == PowerOfTwo[Lift(f)]
           e == PowerOfTwo[Finest]
           g == Signed(f, n)
<1>1. /\ n \in Nat /\ Lift(f) \in Nat /\ Finest \in Nat /\ s \in Int
      /\ Bias \in Nat /\ FractionBits \in Nat /\ f.exponent \in Nat
  BY FloatType
<1>2. s = IF f.exponent = 0 THEN -(Bias - 1 + FractionBits) ELSE f.exponent - Bias - FractionBits
  BY <1>1 DEF Lift, Finest
<1>3. DashuParts(f) = IF n = 0 THEN <<0, 1>>
                      ELSE IF s >= 0 THEN Halved[<<Signed(f, n * PowerOfTwo[s]), 1>>]
                      ELSE Halved[<<g, PowerOfTwo[-s]>>]
  BY <1>2 DEF DashuParts, Significand
<1>4. l \in Nat \ {0} /\ e \in Nat \ {0}
  BY <1>1, PowerStep
<1>5. g \in Int /\ g * l = Signed(f, Size(f))
  <2>1. Size(f) = n * l
    BY DEF Size
  <2> HIDE DEF n, l
  <2>2. n \in Int /\ l \in Int
    BY <1>1, <1>4
  <2> QED
    BY <2>1, <2>2, SignedTimes
<1> HIDE DEF n, l, e, g, s
<1>6. CASE n = 0
  <2>1. DashuParts(f) = Zero
    BY <1>3, <1>6 DEF Zero
  <2>9. g = 0
    <3>1. n <= 0 /\ n >= 0
      BY <1>6
    <3>2. -n = 0
      BY <1>1, <3>1, OppositeOfZero
    <3>3. g = n \/ g = -n
      BY DEF g, Signed
    <3> QED
      BY <1>6, <3>2, <3>3
  <2>2. g * l = 0 /\ 0 * e = 0 * 1
    BY <1>4, <2>9
  <2>3. Is(Zero, 0, e)
    BY <1>4, <2>2, ConstantsAreRat DEF Is, Zero
  <2>4. 0 \in 0..Finest /\ PowerOfTwo[0] = 1 /\ Zero[2] = 1
    BY <1>1, PowerStep DEF Zero
  <2> QED
    BY <1>5, <2>1, <2>2, <2>3, <2>4, <2>9 DEF e
<1>7. CASE n # 0 /\ s >= 0
  <2> DEFINE p == PowerOfTwo[s]
  <2>1. s \in Nat /\ Lift(f) = Finest + s
    BY <1>1, <1>7 DEF s
  <2>2. p \in Nat /\ l = e * p
    <3>1. PowerOfTwo[Finest + s] = PowerOfTwo[Finest] * PowerOfTwo[s]
      BY <1>1, <2>1, PowersAdd
    <3> QED
      BY <2>1, <3>1, PowerStep DEF l, e
  <2>3. g * p = Signed(f, n * p)
    BY <1>1, <2>2, SignedTimes DEF g
  <2> HIDE DEF p
  <2>4. g * p \in Int
    BY <1>5, <2>2
  <2> DEFINE a == g * p
  <2>5. DashuParts(f) = Halved[<<a, PowerOfTwo[0]>>]
    BY <1>3, <1>7, <2>3, PowerStep DEF p
  <2>6. a * e = (g * l) * 1
    BY <1>4, <1>5, <2>2
  <2> HIDE DEF a
  <2>7. Is(DashuParts(f), a, 1) /\ \E m \in 0..0 : DashuParts(f)[2] = PowerOfTwo[m]
    <3>1. a \in Int /\ 0 \in Nat /\ PowerOfTwo[0] = 1
      BY <2>4, PowerStep DEF a
    <3>2. /\ Is(Halved[<<a, PowerOfTwo[0]>>], a, PowerOfTwo[0])
          /\ \E m \in 0..0 : Halved[<<a, PowerOfTwo[0]>>][2] = PowerOfTwo[m]
      BY <3>1, HalvedIs
    <3> QED
      BY <2>5, <3>1, <3>2
  <2>8. Is(DashuParts(f), g * l, e)
    <3>1. g * l \in Int
      BY <1>4, <1>5
    <3> DEFINE b == g * l
    <3> HIDE DEF b
    <3>2. Is(DashuParts(f), b, e)
      BY <1>4, <2>4, <2>6, <2>7, <3>1, IsMoves DEF a, b
    <3> QED
      BY <3>2 DEF b
  <2>9. 0..0 \subseteq 0..Finest
    BY <1>1
  <2> QED
    BY <1>5, <2>7, <2>8, <2>9 DEF e
<1>8. CASE n # 0 /\ s < 0
  <2> DEFINE p == PowerOfTwo[-s]
  <2>1. -s \in Nat /\ Finest = Lift(f) + (-s) /\ -s <= Finest
    BY <1>1, <1>8 DEF s
  <2>2. p \in Nat \ {0} /\ e = l * p
    BY <1>1, <2>1, PowersAdd, PowerStep DEF l, e
  <2>3. DashuParts(f) = Halved[<<g, p>>]
    BY <1>1, <1>3, <1>8
  <2>4. Is(DashuParts(f), g, p) /\ \E m \in 0..(-s) : DashuParts(f)[2] = PowerOfTwo[m]
    BY <1>5, <2>1, <2>3, HalvedIs
  <2> HIDE DEF p
  <2> DEFINE b == g * l
  <2>5. g * e = b * p /\ b \in Int
    BY <1>4, <1>5, <2>2
  <2> HIDE DEF b
  <2>6. Is(DashuParts(f), b, e)
    BY <1>4, <1>5, <2>2, <2>4, <2>5, IsMoves
  <2>7. 0..(-s) \subseteq 0..Finest
    BY <1>1, <2>1
  <2> QED
    BY <1>5, <2>4, <2>6, <2>7 DEF b, e
<1> QED
  BY <1>1, <1>6, <1>7, <1>8

LEMMA RugPartsAre ==
  ASSUME NEW f \in Floats
  PROVE  RugParts(f) = DashuParts(f)
<1> DEFINE p == PowerOfTwo[FractionBits]
           k == Bias - 1 + FractionBits
<1>1. /\ f.exponent \in Nat /\ f.fraction \in Nat /\ p \in Nat \ {0} /\ k \in Nat
      /\ Bias \in Nat /\ FractionBits \in Nat
  BY FloatType DEF Finest
<1> HIDE DEF p
<1>2. CASE f.exponent = 0 /\ f.fraction = 0
  BY <1>2 DEF RugParts, DashuParts
<1>3. CASE f.exponent = 0 /\ f.fraction # 0
  <2>1. RugParts(f) = Halved[<<Signed(f, f.fraction), PowerOfTwo[k]>>]
    BY <1>3 DEF RugParts
  <2>2. CASE k = 0
    <3>1. -k >= 0 /\ -k = 0
      BY <2>2
    <3>2. DashuParts(f) = Halved[<<Signed(f, f.fraction * PowerOfTwo[-k]), 1>>]
      BY <1>3, <3>1 DEF DashuParts
    <3>3. f.fraction * 1 = f.fraction
      BY <1>1
    <3> HIDE DEF k
    <3> QED
      BY <2>1, <2>2, <3>1, <3>2, <3>3, PowerStep
  <2>3. CASE k # 0
    <3>1. ~(-k >= 0) /\ -(-k) = k
      BY <1>1, <2>3
    <3>2. DashuParts(f) = Halved[<<Signed(f, f.fraction), PowerOfTwo[-(-k)]>>]
      BY <1>3, <3>1 DEF DashuParts
    <3> HIDE DEF k
    <3> QED
      BY <2>1, <3>1, <3>2
  <2> QED
    BY <2>2, <2>3
<1>4. CASE f.exponent # 0
  <2>1. p + f.fraction # 0
    BY <1>1
  <2> QED
    BY <1>4, <2>1 DEF RugParts, DashuParts, p
<1> QED
  BY <1>2, <1>3, <1>4

(* The value of a float, by the format, is what that makes of it.          *)
LEMMA ValueIs ==
  ASSUME NEW f \in Floats
  PROVE  Is(Value(f), Signed(f, Size(f)), PowerOfTwo[Finest])
<1> DEFINE n == Significand(f)
           s == Lift(f) - Finest
           l == PowerOfTwo[Lift(f)]
           e == PowerOfTwo[Finest]
           g == Signed(f, n)
<1>1. /\ n \in Nat /\ Lift(f) \in Nat /\ Finest \in Nat /\ s \in Int
      /\ Bias \in Nat /\ FractionBits \in Nat /\ f.exponent \in Nat
  BY FloatType
<1>2. s = (IF f.exponent = 0 THEN 1 - Bias ELSE f.exponent - Bias) - FractionBits
  BY <1>1 DEF Lift, Finest
<1>3. Value(f) = Times(<<g, 1>>, Power(s))
  BY <1>2 DEF Value, Significand
<1>4. l \in Nat \ {0} /\ e \in Nat \ {0}
  BY <1>1, PowerStep
<1>5. g \in Int /\ g * l = Signed(f, Size(f))
  <2>1. Size(f) = n * l
    BY DEF Size
  <2> HIDE DEF n, l
  <2>2. n \in Int /\ l \in Int
    BY <1>1, <1>4
  <2> QED
    BY <2>1, <2>2, SignedTimes
<1> HIDE DEF n, l, e, g, s
<1> DEFINE b == g * l
<1>6. b \in Int
  BY <1>4, <1>5
<1>7. CASE s >= 0
  <2> DEFINE p == PowerOfTwo[s]
  <2>1. s \in Nat /\ Lift(f) = Finest + s
    BY <1>1, <1>7 DEF s
  <2>2. p \in Nat /\ l = e * p
    <3>1. PowerOfTwo[Finest + s] = PowerOfTwo[Finest] * PowerOfTwo[s]
      BY <1>1, <2>1, PowersAdd
    <3> QED
      BY <2>1, <3>1, PowerStep DEF l, e
  <2>3. Power(s) = <<p, 1>>
    BY <1>7 DEF Power
  <2> HIDE DEF p
  <2> DEFINE a == g * p
  <2>4. a \in Int
    BY <1>5, <2>2
  <2>5. Value(f) = FromFrac(a, 1)
    BY <1>3, <2>3 DEF Times
  <2>6. a * e = b * 1
    BY <1>4, <1>5, <2>2
  <2> HIDE DEF a, b
  <2>7. Is(Value(f), a, 1)
    BY <2>4, <2>5, FromFracIs
  <2>8. Is(Value(f), b, e)
    BY <1>4, <1>6, <2>4, <2>6, <2>7, IsMoves
  <2> QED
    BY <1>5, <2>8 DEF b, e
<1>8. CASE s < 0
  <2> DEFINE p == PowerOfTwo[-s]
  <2>1. -s \in Nat /\ Finest = Lift(f) + (-s)
    BY <1>1, <1>8 DEF s
  <2>2. p \in Nat \ {0} /\ e = l * p
    BY <1>1, <2>1, PowersAdd, PowerStep DEF l, e
  <2>3. Power(s) = <<1, p>>
    BY <1>1, <1>8 DEF Power
  <2> HIDE DEF p
  <2>4. Value(f) = FromFrac(g, p)
    BY <1>3, <1>5, <2>2, <2>3 DEF Times
  <2>5. g * e = b * p
    BY <1>4, <1>5, <2>2
  <2> HIDE DEF b
  <2>6. Is(Value(f), g, p)
    BY <1>5, <2>2, <2>4, FromFracIs
  <2>7. Is(Value(f), b, e)
    BY <1>4, <1>5, <1>6, <2>2, <2>5, <2>6, IsMoves
  <2> QED
    BY <1>5, <2>7 DEF b, e
<1> QED
  BY <1>1, <1>7, <1>8

LEMMA PartsAreValue ==
  ASSUME NEW f \in Floats
  PROVE  /\ RugParts(f) = Value(f) /\ DashuParts(f) = Value(f)
         /\ Value(f) \in Rat
         /\ \E m \in 0..Finest : Value(f)[2] = PowerOfTwo[m]
<1> DEFINE n == Signed(f, Size(f))
           e == PowerOfTwo[Finest]
<1>1. n \in Int /\ e \in Int /\ e # 0
  BY FloatType, SignedTimes, PowerStep
<1>2. Is(Value(f), n, e) /\ Is(DashuParts(f), n, e)
  BY ValueIs, DashuPartsIs
<1> HIDE DEF n, e
<1>3. DashuParts(f) = Value(f)
  BY <1>1, <1>2, OneNumber
<1> QED
  BY <1>2, <1>3, DashuPartsIs, RugPartsAre DEF Is

(* Numbers over one denominator.                                           *)
LEMMA BelowIs ==
  ASSUME NEW d \in Nat \ {0}, NEW m \in Int, NEW n \in Int, NEW x, NEW y,
         Is(x, m, d), Is(y, n, d)
  PROVE  Below(x, y) <=> m < n
<1> DEFINE a == x[1]
           b == x[2]
           c == y[1]
           e == y[2]
<1>1. /\ a \in Int /\ b \in Nat \ {0} /\ c \in Int /\ e \in Nat \ {0}
      /\ a * d = m * b /\ c * d = n * e
  BY RatType DEF Is
<1>2. Below(x, y) <=> a * e < c * b
  BY DEF Below
<1> HIDE DEF a, b, c, e
<1> DEFINE u == a * e
           v == c * b
           w == b * e
<1>3. u \in Int /\ v \in Int /\ w \in Nat \ {0}
  BY <1>1
<1>4. u * d = m * w /\ v * d = n * w
  <2>1. (a * e) * d = (a * d) * e /\ (m * b) * e = m * (b * e)
    BY <1>1
  <2>2. (c * b) * d = (c * d) * b /\ (n * e) * b = n * (b * e)
    BY <1>1
  <2> QED
    BY <1>1, <2>1, <2>2
<1> HIDE DEF u, v, w
<1>5. u < v <=> u * d < v * d
  BY <1>3
<1>6. m < n <=> m * w < n * w
  BY <1>3
<1> QED
  BY <1>2, <1>4, <1>5, <1>6 DEF u, v

LEMMA MinusIs ==
  ASSUME NEW d \in Nat \ {0}, NEW m \in Int, NEW n \in Int, NEW x, NEW y,
         Is(x, m, d), Is(y, n, d)
  PROVE  Is(Minus(x, y), m - n, d)
<1> DEFINE a == x[1]
           b == x[2]
           c == y[1]
           e == y[2]
<1>1. /\ a \in Int /\ b \in Nat \ {0} /\ c \in Int /\ e \in Nat \ {0}
      /\ a * d = m * b /\ c * d = n * e
  BY RatType DEF Is
<1>2. Minus(x, y) = FromFrac(a * e - c * b, b * e)
  BY DEF Minus
<1> HIDE DEF a, b, c, e
<1> DEFINE u == a * e - c * b
           w == b * e
           k == m - n
<1>3. u \in Int /\ w \in Nat \ {0} /\ k \in Int
  BY <1>1
<1>4. u * d = k * w
  <2>1. (a * e - c * b) * d = (a * d) * e - (c * d) * b
    BY <1>1
  <2>2. (m * b) * e - (n * e) * b = (m - n) * (b * e)
    BY <1>1
  <2> QED
    BY <1>1, <2>1, <2>2
<1>5. Minus(x, y) = FromFrac(u, w)
  BY <1>2
<1> HIDE DEF u, w, k
<1>6. Is(Minus(x, y), u, w)
  BY <1>3, <1>5, FromFracIs
<1>7. Is(Minus(x, y), k, d)
  BY <1>3, <1>4, <1>6, IsMoves
<1> QED
  BY <1>7 DEF k

LEMMA AbsoluteIs ==
  ASSUME NEW d \in Nat \ {0}, NEW m \in Int, NEW x, Is(x, m, d)
  PROVE  Is(AbsoluteValue(x), Magnitude(m), d)
<1> DEFINE a == x[1]
           b == x[2]
           k == Magnitude(a)
<1>1. a \in Int /\ b \in Nat \ {0} /\ a * d = m * b /\ x \in Rat
  BY RatType DEF Is
<1>2. k \in Nat /\ Magnitude(k) = k
  BY <1>1 DEF Magnitude
<1>3. AbsoluteValue(x) = <<k, b>>
  BY DEF AbsoluteValue
<1>4. <<k, b>> \in Rat
  BY <1>1, <1>2 DEF Rat, CommonDivisor
<1>5. k * d = Magnitude(m) * b
  <2> HIDE DEF a, b
  <2>1. a < 0 <=> a * d < 0
    BY <1>1
  <2>2. m < 0 <=> m * b < 0
    BY <1>1
  <2>3. (-a) * d = -(a * d) /\ (-m) * b = -(m * b)
    BY <1>1
  <2> QED
    BY <1>1, <2>1, <2>2, <2>3 DEF Magnitude
<1> QED
  BY <1>3, <1>4, <1>5 DEF Is

LEMMA MultipleIs ==
  ASSUME NEW d \in Nat \ {0}, NEW m \in Int, NEW x, Is(x, m, d), NEW p \in Int
  PROVE  Is(Times(x, <<p, 1>>), m * p, d)
<1> DEFINE a == x[1]
           b == x[2]
           u == a * p
           k == m * p
<1>1. a \in Int /\ b \in Nat \ {0} /\ a * d = m * b
  BY RatType DEF Is
<1>2. Times(x, <<p, 1>>) = FromFrac(u, b)
  BY <1>1 DEF Times
<1> HIDE DEF a, b
<1>3. u \in Int /\ k \in Int
  BY <1>1
<1>4. u * d = k * b
  <2>1. (a * p) * d = (a * d) * p /\ (m * b) * p = (m * p) * b
    BY <1>1
  <2> QED
    BY <1>1, <2>1
<1> HIDE DEF u, k
<1>5. Is(Times(x, <<p, 1>>), u, b)
  BY <1>1, <1>2, <1>3, FromFracIs
<1>6. Is(Times(x, <<p, 1>>), k, d)
  BY <1>1, <1>3, <1>4, <1>5, IsMoves
<1> QED
  BY <1>6 DEF k

LEMMA ProductNotBelowZero ==
  ASSUME NEW x \in Rat, NEW y \in Rat, x[1] * y[1] >= 0
  PROVE  ~Below(Times(x, y), Zero)
<1> DEFINE n == x[1] * y[1]
           d == x[2] * y[2]
<1>1. n \in Int /\ d \in Nat \ {0} /\ Is(Times(x, y), n, d)
  BY ProductIs
<1> HIDE DEF n, d
<1>2. 0 * d = 0 * 1
  BY <1>1
<1>3. Is(Zero, 0, d)
  BY <1>2, ConstantsAreRat DEF Is, Zero
<1>4. n >= 0
  BY DEF n
<1> QED
  BY <1>1, <1>3, <1>4, BelowIs

LEMMA SameSigns ==
  ASSUME NEW d \in Nat \ {0}, NEW m \in Int, NEW n \in Int, NEW x, NEW y,
         Is(x, m, d), Is(y, n, d), \/ m >= 0 /\ n >= 0
                                   \/ m <= 0 /\ n <= 0
  PROVE  x[1] * y[1] >= 0
<1> DEFINE a == x[1]
           b == x[2]
           c == y[1]
           e == y[2]
<1>1. /\ a \in Int /\ b \in Nat \ {0} /\ c \in Int /\ e \in Nat \ {0}
      /\ a * d = m * b /\ c * d = n * e
  BY RatType DEF Is
<1> HIDE DEF a, b, c, e
<1>2. a >= 0 <=> m >= 0
  <2>1. a >= 0 <=> a * d >= 0
    BY <1>1
  <2>2. m >= 0 <=> m * b >= 0
    BY <1>1
  <2> QED
    BY <1>1, <2>1, <2>2
<1>3. a <= 0 <=> m <= 0
  <2>1. a <= 0 <=> a * d <= 0
    BY <1>1
  <2>2. m <= 0 <=> m * b <= 0
    BY <1>1
  <2> QED
    BY <1>1, <2>1, <2>2
<1>4. c >= 0 <=> n >= 0
  <2>1. c >= 0 <=> c * d >= 0
    BY <1>1
  <2>2. n >= 0 <=> n * e >= 0
    BY <1>1
  <2> QED
    BY <1>1, <2>1, <2>2
<1>5. c <= 0 <=> n <= 0
  <2>1. c <= 0 <=> c * d <= 0
    BY <1>1
  <2>2. n <= 0 <=> n * e <= 0
    BY <1>1
  <2> QED
    BY <1>1, <2>1, <2>2
<1>6. \/ a >= 0 /\ c >= 0
      \/ a <= 0 /\ c <= 0
  BY <1>2, <1>3, <1>4, <1>5
<1>7. a * c >= 0
  BY <1>1, <1>6
<1> QED
  BY <1>7 DEF a, c

(* Floats are ordered as their exponents and then their fractions are.     *)
LEMMA SizesGrow ==
  ASSUME NEW f \in Floats, NEW g \in Floats, f.exponent < g.exponent
  PROVE  Size(f) < Size(g)
<1> DEFINE p == PowerOfTwo[FractionBits]
           l == PowerOfTwo[Lift(f)]
           k == PowerOfTwo[Lift(g)]
           x == f.fraction
           y == g.fraction
<1>1. /\ p \in Nat \ {0} /\ x \in Nat /\ x < p /\ y \in Nat
      /\ f.exponent \in Nat /\ g.exponent \in Nat
      /\ Lift(f) \in Nat /\ Lift(g) \in Nat
  BY FloatType
<1>2. l \in Nat \ {0} /\ k \in Nat \ {0}
  BY <1>1, PowerStep
<1>3. Size(g) = (p + y) * k
  BY <1>1 DEF Size, Significand
<1>4. CASE f.exponent = 0
  <2>1. Size(f) = x * 1
    BY <1>4, PowerStep DEF Size, Significand, Lift
  <2> HIDE DEF p, k, x, y
  <2>2. x < (p + y) * k
    BY <1>1, <1>2
  <2> QED
    BY <1>1, <1>3, <2>1, <2>2
<1>5. CASE f.exponent # 0
  <2>1. Size(f) = (p + x) * l
    BY <1>5 DEF Size, Significand
  <2>2. 2 * l <= k
    <3>1. Lift(f) + 1 <= Lift(g) /\ Lift(f) + 1 \in Nat
      BY <1>1, <1>5 DEF Lift
    <3>2. PowerOfTwo[Lift(f) + 1] <= PowerOfTwo[Lift(g)]
      BY <1>1, <3>1, PowersGrow
    <3> QED
      BY <1>1, <3>2, PowerStep
  <2> HIDE DEF p, k, l, x, y
  <2>3. (p + x) * l < (2 * p) * l
    <3>1. p + x < 2 * p
      BY <1>1
    <3> DEFINE u == p + x
               v == 2 * p
    <3>2. u \in Int /\ v \in Int /\ u < v
      BY <1>1, <3>1
    <3> HIDE DEF u, v
    <3>3. u * l < v * l
      BY <1>2, <3>2
    <3> QED
      BY <3>3 DEF u, v
  <2>4. (2 * p) * l = p * (2 * l)
    BY <1>1, <1>2
  <2>5. p * (2 * l) <= p * k
    <3> DEFINE u == 2 * l
    <3>1. u \in Int /\ u <= k
      BY <1>2, <2>2
    <3> HIDE DEF u
    <3>2. p * u <= p * k
      BY <1>1, <1>2, <3>1
    <3> QED
      BY <3>2 DEF u
  <2>6. p * k <= (p + y) * k
    <3>1. (p + y) * k = p * k + y * k /\ y * k >= 0 /\ p * k \in Int /\ y * k \in Int
      BY <1>1, <1>2
    <3> QED
      BY <3>1
  <2> DEFINE A == (p + x) * l
             B == (2 * p) * l
             C == p * (2 * l)
             D == p * k
             E == (p + y) * k
  <2>7. A \in Int /\ B \in Int /\ C \in Int /\ D \in Int /\ E \in Int
    BY <1>1, <1>2
  <2>8. A < B /\ B = C /\ C <= D /\ D <= E
    BY <2>3, <2>4, <2>5, <2>6
  <2> HIDE DEF A, B, C, D, E
  <2>9. A < E
    BY <2>7, <2>8
  <2> QED
    BY <1>3, <2>1, <2>9 DEF A, E, p, l, k, x, y
<1> QED
  BY <1>4, <1>5

LEMMA SizesTell ==
  ASSUME NEW f \in Floats, NEW g \in Floats, Size(f) = Size(g)
  PROVE  f.exponent = g.exponent /\ f.fraction = g.fraction
<1>1. /\ f.exponent \in Nat /\ g.exponent \in Nat /\ Size(f) \in Nat /\ Size(g) \in Nat
      /\ f.fraction \in Nat /\ g.fraction \in Nat /\ PowerOfTwo[FractionBits] \in Nat
      /\ Significand(f) \in Nat /\ Significand(g) \in Nat /\ Lift(f) \in Nat
  BY FloatType
<1>2. f.exponent = g.exponent
  <2>1. ~(f.exponent < g.exponent) /\ ~(g.exponent < f.exponent)
    <3>1. f.exponent < g.exponent => Size(f) < Size(g)
      BY SizesGrow
    <3>2. g.exponent < f.exponent => Size(g) < Size(f)
      BY SizesGrow
    <3> QED
      BY <1>1, <3>1, <3>2
  <2> QED
    BY <1>1, <2>1
<1> DEFINE s == Significand(f)
           t == Significand(g)
           l == PowerOfTwo[Lift(f)]
<1>3. s * l = t * l
  BY <1>2 DEF Size, Lift
<1>4. l \in Nat \ {0} /\ s \in Nat /\ t \in Nat
  BY <1>1, PowerStep
<1>5. s = t
  <2> HIDE DEF s, t, l
  <2> QED
    BY <1>3, <1>4
<1> QED
  BY <1>1, <1>2, <1>5 DEF Significand

LEMMA SizeZero ==
  ASSUME NEW f \in Floats
  PROVE  Size(f) = 0 <=> f.exponent = 0 /\ f.fraction = 0
<1> DEFINE s == Significand(f)
           l == PowerOfTwo[Lift(f)]
<1>1. /\ s \in Nat /\ f.exponent \in Nat /\ f.fraction \in Nat /\ Lift(f) \in Nat
      /\ PowerOfTwo[FractionBits] \in Nat \ {0}
  BY FloatType
<1>2. l \in Nat \ {0}
  BY <1>1, PowerStep
<1>3. s = 0 <=> f.exponent = 0 /\ f.fraction = 0
  BY <1>1 DEF Significand
<1>4. Size(f) = s * l
  BY DEF Size
<1> HIDE DEF s, l
<1>5. s * l = 0 <=> s = 0
  BY <1>1, <1>2
<1> QED
  BY <1>3, <1>4, <1>5

(* A set of numbers up to some bound has a greatest one.                   *)
LEMMA GreatestExists ==
  ASSUME NEW b \in Nat, NEW S, S \subseteq 0..b, S # {}
  PROVE  Max(S) \in S /\ \A n \in S : n <= Max(S)
<1> DEFINE Topped(T) == \E m \in T : \A n \in T : n <= m
           B == {c \in Nat : \A T \in SUBSET (0..c) : T # {} => Topped(T)}
<1>1. 0 \in B
  <2>1. \A n \in 0..0 : n = 0
    OBVIOUS
  <2>2. 0 <= 0
    OBVIOUS
  <2> QED
    BY <2>1, <2>2
<1>2. ASSUME NEW c \in Nat, c \in B PROVE c + 1 \in B
  <2> SUFFICES ASSUME NEW T \in SUBSET (0..(c + 1)), T # {} PROVE Topped(T)
    OBVIOUS
  <2>1. CASE c + 1 \in T
    <3>1. \A n \in T : n <= c + 1
      OBVIOUS
    <3> QED
      BY <2>1, <3>1
  <2>2. CASE c + 1 \notin T
    <3>1. T \in SUBSET (0..c)
      <4>1. \A n \in 0..(c + 1) : n # c + 1 => n \in 0..c
        OBVIOUS
      <4> QED
        BY <2>2, <4>1
    <3> QED
      BY <1>2, <3>1
  <2> QED
    BY <2>1, <2>2
<1>3. \A c \in Nat : c \in B
  <2> HIDE DEF B
  <2> QED
    BY <1>1, <1>2, SetInduction
<1>4. PICK m \in S : \A n \in S : n <= m
  BY <1>3
<1>5. \A x, y \in S : x >= y <=> y <= x
  <2>1. \A x \in S : x \in Int
    OBVIOUS
  <2> QED
    BY <2>1
<1>6. \E x \in S : \A y \in S : x >= y
  BY <1>4, <1>5
<1>7. Max(S) \in S /\ \A y \in S : Max(S) >= y
  BY <1>6 DEF Max
<1> QED
  BY <1>5, <1>7

LEMMA PowersOrdered ==
  ASSUME NEW m \in Nat, NEW n \in Nat, PowerOfTwo[m] <= PowerOfTwo[n]
  PROVE  m <= n
<1> SUFFICES ASSUME n + 1 <= m PROVE FALSE
  OBVIOUS
<1> DEFINE p == PowerOfTwo[n]
           q == PowerOfTwo[m]
<1>1. PowerOfTwo[n + 1] <= q
  BY PowersGrow
<1>2. PowerOfTwo[n + 1] = 2 * p /\ p \in Nat \ {0} /\ q \in Nat
  BY PowerStep
<1>3. q <= p
  OBVIOUS
<1> HIDE DEF p, q
<1> QED
  BY <1>1, <1>2, <1>3

(* A row of fractions over powers of two, brought to the greatest of them. *)
LEMMA ScaledIntsAreExact ==
  ASSUME NEW n \in Nat \ {0}, NEW parts \in [1..n -> Rat], NEW k \in Nat,
         \A i \in 1..n : \E m \in 0..k : parts[i][2] = PowerOfTwo[m]
  PROVE  /\ ScaledInts(parts).denom > 0
         /\ \A i \in 1..n : FromFrac(ScaledInts(parts).ints[i], ScaledInts(parts).denom) = parts[i]
<1> DEFINE D == {part[2] : part \in Range(parts)}
           denom == Max(D)
<1>1. D = {parts[i][2] : i \in 1..n}
  <2>1. Range(parts) = {parts[i] : i \in 1..n}
    BY DEF Range
  <2> QED
    BY <2>1
<1>2. PowerOfTwo[k] \in Nat
  BY PowerStep
<1>3. \A x \in D : \E m \in 0..k : x = PowerOfTwo[m]
  BY <1>1
<1>4. D \subseteq 0..PowerOfTwo[k]
  <2> SUFFICES ASSUME NEW x \in D PROVE x \in 0..PowerOfTwo[k]
    OBVIOUS
  <2>1. PICK m \in 0..k : x = PowerOfTwo[m]
    BY <1>3
  <2>2. m \in Nat /\ m <= k
    OBVIOUS
  <2>3. PowerOfTwo[m] \in Nat /\ PowerOfTwo[m] <= PowerOfTwo[k]
    BY <2>2, PowersGrow, PowerStep
  <2> QED
    BY <1>2, <2>1, <2>3
<1>5. D # {}
  <2>1. 1 \in 1..n
    OBVIOUS
  <2> QED
    BY <1>1, <2>1
<1>6. denom \in D /\ \A x \in D : x <= denom
  <2> HIDE DEF D
  <2> QED
    BY <1>2, <1>4, <1>5, GreatestExists
<1>7. PICK l \in 0..k : denom = PowerOfTwo[l]
  BY <1>3, <1>6
<1>8. l \in Nat /\ denom \in Nat \ {0}
  BY <1>7, PowerStep
<1>9. ScaledInts(parts).denom = denom
  BY DEF ScaledInts
<1>10. DOMAIN parts = 1..n
  OBVIOUS
<1>11. \A i \in 1..n : ScaledInts(parts).ints[i] =
                         IF parts[i][1] = 0 \/ parts[i][2] = denom THEN parts[i][1]
                         ELSE parts[i][1] * (denom \div parts[i][2])
  BY <1>10 DEF ScaledInts
<1>12. \A i \in 1..n : parts[i][2] <= denom
  BY <1>1, <1>6
<1> HIDE DEF denom
<1>13. ASSUME NEW i \in 1..n
       PROVE  FromFrac(ScaledInts(parts).ints[i], denom) = parts[i]
  <2> DEFINE v == parts[i]
             a == v[1]
             b == v[2]
  <2>1. v \in Rat /\ Is(v, a, b) /\ a \in Int /\ b \in Nat \ {0}
    BY RatIs, RatType
  <2>2. PICK m \in 0..k : b = PowerOfTwo[m]
    OBVIOUS
  <2>3. m \in Nat
    OBVIOUS
  <2>4. m <= l
    BY <1>7, <1>8, <1>12, <2>2, <2>3, PowersOrdered
  <2> DEFINE q == PowerOfTwo[l - m]
  <2>5. q \in Nat /\ denom = b * q
    <3>1. l - m \in Nat /\ m + (l - m) = l
      BY <1>8, <2>3, <2>4
    <3>2. PowerOfTwo[m + (l - m)] = PowerOfTwo[m] * PowerOfTwo[l - m]
      BY <2>3, <3>1, PowersAdd
    <3> QED
      BY <1>7, <2>2, <3>1, <3>2, PowerStep
  <2>6. ScaledInts(parts).ints[i] = IF a = 0 \/ b = denom THEN a ELSE a * (denom \div b)
    BY <1>11
  <2> HIDE DEF v, a, b, q
  <2>7. denom \div b = q
    BY <2>1, <2>5
  <2>8. CASE a = 0
    <3>1. 0 * denom = 0 * b
      BY <1>8, <2>1
    <3>2. Is(v, 0, denom)
      <4>1. v[1] * b = 0 * v[2] /\ v[1] = 0
        BY <2>1, <2>8 DEF Is, a, b
      <4> QED
        BY <1>8, <2>1, <2>8, <3>1, <4>1 DEF Is, a, b
    <3> QED
      BY <1>8, <2>1, <2>6, <2>8, <3>2, FromFracEqual DEF v
  <2>9. CASE b = denom
    BY <1>8, <2>1, <2>6, <2>9, FromFracEqual DEF v
  <2>10. CASE a # 0 /\ b # denom
    <3> DEFINE c == a * q
    <3>1. c \in Int /\ a * denom = c * b
      BY <2>1, <2>5
    <3>2. ScaledInts(parts).ints[i] = c
      BY <2>6, <2>7, <2>10
    <3> HIDE DEF c
    <3>3. Is(v, c, denom)
      BY <1>8, <2>1, <3>1, IsMoves
    <3> QED
      BY <1>8, <3>1, <3>2, <3>3, FromFracEqual DEF v
  <2> QED
    BY <2>8, <2>9, <2>10
<1> QED
  BY <1>8, <1>9, <1>13

(* A float of dashu, whatever power of two it keeps apart, is the number.  *)
LEMMA DashuFloatIs ==
  ASSUME NEW v \in Rat, NEW k \in Nat
  PROVE  /\ v[2] = PowerOfTwo[k] => FromDashuFloat(v[1], -k) = v
         /\ v[2] = 1 /\ v[1] % PowerOfTwo[k] = 0 =>
              FromDashuFloat(v[1] \div PowerOfTwo[k], k) = v
<1> DEFINE a == v[1]
           b == v[2]
           p == PowerOfTwo[k]
<1>1. a \in Int /\ b \in Nat \ {0} /\ p \in Nat \ {0} /\ Is(v, a, b)
  BY RatType, RatIs, PowerStep
<1>2. FromFrac(a, b) = v
  BY <1>1, FromFracEqual
<1>3. ASSUME b = p PROVE FromDashuFloat(a, -k) = v
  <2>1. CASE k = 0
    <3>1. -k = 0 /\ PowerOfTwo[0] = 1
      <4>0. k <= 0 /\ k >= 0
        BY <2>1
      <4>1. -k = 0
        BY <4>0, OppositeOfZero
      <4> QED
        BY <4>1, PowerStep
    <3>2. FromDashuFloat(a, -k) = FromFrac(a * PowerOfTwo[-k], 1)
      BY <3>1 DEF FromDashuFloat
    <3>3. a * 1 = a /\ b = 1
      BY <1>1, <1>3, <2>1, <3>1
    <3> QED
      BY <1>2, <3>1, <3>2, <3>3
  <2>2. CASE k # 0
    <3>1. ~(-k >= 0) /\ -(-k) = k
      BY <2>2
    <3> QED
      BY <1>2, <1>3, <3>1 DEF FromDashuFloat
  <2> QED
    BY <2>1, <2>2
<1>4. ASSUME b = 1, a % p = 0 PROVE FromDashuFloat(a \div p, k) = v
  <2>1. FromDashuFloat(a \div p, k) = FromFrac((a \div p) * p, 1)
    BY DEF FromDashuFloat
  <2> HIDE DEF a, b, p
  <2>2. (a \div p) * p = a
    BY <1>1, <1>4
  <2> QED
    BY <1>2, <1>4, <2>1, <2>2
<1> QED
  BY <1>3, <1>4

LEMMA HashIs ==
  ASSUME NEW f \in Floats
  PROVE  HashComponent(f) =
           [sign     |-> IF f.exponent = 0 /\ f.fraction = 0 THEN 0 ELSE f.sign,
            exponent |-> f.exponent,
            fraction |-> f.fraction - (f.fraction % PowerOfTwo[MaskedBits])]
<1> DEFINE u == PowerOfTwo[MaskedBits]
           s == IF f.exponent = 0 /\ f.fraction = 0 THEN 0 ELSE f.sign
           g == [sign |-> s, exponent |-> f.exponent, fraction |-> f.fraction]
<1>1. f = [sign |-> f.sign, exponent |-> f.exponent, fraction |-> f.fraction]
  BY FloatType
<1>2. (IF f.exponent = 0 /\ f.fraction = 0 THEN [f EXCEPT !.sign = 0] ELSE f) = g
  BY <1>1
<1>3. HashComponent(f) = [g EXCEPT !.fraction = @ - (@ % u)]
  <2> HIDE DEF g
  <2> QED
    BY <1>2 DEF HashComponent
<1>4. [g EXCEPT !.fraction = @ - (@ % u)]
        = [sign |-> s, exponent |-> f.exponent, fraction |-> f.fraction - (f.fraction % u)]
  <2> HIDE DEF s, u
  <2> QED
    OBVIOUS
<1> QED
  BY <1>3, <1>4

(* Floats that are equal have one key.                                     *)
LEMMA EqualFloatsHaveOneKey ==
  ASSUME NEW f \in Floats, NEW g \in Floats, Value(f) = Value(g)
  PROVE  HashComponent(f) = HashComponent(g)
<1> DEFINE m == Signed(f, Size(f))
           n == Signed(g, Size(g))
           d == PowerOfTwo[Finest]
           v == Value(f)
<1>1. /\ m \in Int /\ n \in Int /\ d \in Nat \ {0}
      /\ Size(f) \in Nat /\ Size(g) \in Nat /\ f.sign \in {0, 1} /\ g.sign \in {0, 1}
  BY FloatType, SignedTimes, PowerStep
<1>2. v[2] \in Nat \ {0} /\ v[1] * d = m * v[2] /\ v[1] * d = n * v[2]
  <2>1. Is(Value(f), m, d) /\ Is(Value(g), n, d)
    BY ValueIs
  <2> QED
    BY <2>1, RatType DEF Is
<1>3. m = n
  <2> DEFINE b == v[2]
  <2>1. m * b = n * b /\ b \in Nat \ {0}
    BY <1>2
  <2> HIDE DEF m, n, b
  <2> QED
    BY <1>1, <2>1
<1>4. Size(f) = Size(g) /\ (f.sign = g.sign \/ Size(f) = 0)
  BY <1>1, <1>3 DEF Signed
<1>5. f.exponent = g.exponent /\ f.fraction = g.fraction
  BY <1>4, SizesTell
<1>6. f.sign = g.sign \/ (f.exponent = 0 /\ f.fraction = 0)
  BY <1>4, SizeZero
<1> QED
  BY <1>5, <1>6, HashIs

(* Floats of one exponent and sign whose fractions agree but for the       *)
(* masked bits.                                                            *)
LEMMA MaskedGap ==
  ASSUME NEW f \in Floats, NEW g \in Floats,
         f.exponent # 0, f.exponent = g.exponent, f.sign = g.sign,
         f.fraction - (f.fraction % PowerOfTwo[MaskedBits])
           = g.fraction - (g.fraction % PowerOfTwo[MaskedBits])
  PROVE  Magnitude(Signed(f, Size(f)) - Signed(g, Size(g))) * PowerOfTwo[FractionBits - MaskedBits]
           < Magnitude(Signed(f, Size(f)))
<1> DEFINE p == PowerOfTwo[FractionBits]
           u == PowerOfTwo[MaskedBits]
           w == PowerOfTwo[FractionBits - MaskedBits]
           l == PowerOfTwo[Lift(f)]
           x == f.fraction
           y == g.fraction
           z == x - y
<1>1. /\ p \in Nat \ {0} /\ x \in Nat /\ y \in Nat /\ Lift(f) \in Nat
      /\ f.sign \in {0, 1} /\ f.exponent \in Nat
      /\ Size(f) \in Nat /\ Size(g) \in Nat
  BY FloatType
<1>2. /\ MaskedBits \in Nat /\ FractionBits - MaskedBits \in Nat
      /\ MaskedBits + (FractionBits - MaskedBits) = FractionBits
  BY FloatsAssumption
<1>3. u \in Nat \ {0} /\ w \in Nat \ {0} /\ l \in Nat \ {0}
  BY <1>1, <1>2, PowerStep
<1>4. p = u * w
  <2>1. PowerOfTwo[MaskedBits + (FractionBits - MaskedBits)]
          = PowerOfTwo[MaskedBits] * PowerOfTwo[FractionBits - MaskedBits]
    BY <1>2, PowersAdd
  <2> QED
    BY <1>2, <2>1
<1>5. Size(f) = (p + x) * l /\ Size(g) = (p + y) * l
  BY DEF Size, Significand, Lift
<1>6. Magnitude(z) < u /\ Magnitude(z) \in Nat
  <2>1. x - (x % u) = y - (y % u)
    OBVIOUS
  <2>2. x % u \in 0 .. u - 1 /\ y % u \in 0 .. u - 1
    <3> HIDE DEF x, y, u
    <3> QED
      BY <1>1, <1>3
  <2>3. z = (x % u) - (y % u)
    <3> DEFINE a == x % u
               b == y % u
    <3>1. x - a = y - b /\ a \in Int /\ b \in Int
      BY <1>1, <1>3, <2>1, <2>2
    <3> HIDE DEF a, b, x, y
    <3>2. x - y = a - b
      BY <1>1, <3>1
    <3> QED
      BY <3>2 DEF a, b, x, y
  <2> DEFINE a == x % u
             b == y % u
  <2>4. a \in 0 .. u - 1 /\ b \in 0 .. u - 1 /\ z = a - b
    BY <2>2, <2>3
  <2> HIDE DEF a, b, z, u
  <2> QED
    BY <1>3, <2>4 DEF Magnitude
<1>7. Magnitude(Signed(f, Size(f))) = Size(f)
  BY <1>1 DEF Signed, Magnitude
<1>8. Magnitude(Signed(f, Size(f)) - Signed(g, Size(g))) = Magnitude(Size(f) - Size(g))
  BY <1>1 DEF Signed, Magnitude
<1>9. z \in Int
  BY <1>1
<1>10. Size(f) - Size(g) = z * l
  <2> HIDE DEF p, x, y, l, z
  <2>1. (p + x) * l - (p + y) * l = (x - y) * l
    BY <1>1, <1>3
  <2> QED
    BY <1>5, <2>1 DEF z, x, y
<1> DEFINE t == Magnitude(z)
<1> HIDE DEF p, x, y, l, z, u, w
<1>11. Magnitude(z * l) = t * l
  <2>1. z < 0 <=> z * l < 0
    BY <1>3, <1>9
  <2>2. (-z) * l = -(z * l)
    BY <1>3, <1>9
  <2> QED
    BY <2>1, <2>2 DEF Magnitude
<1>12. (t * l) * w < (p + x) * l
  <2> HIDE DEF t
  <2>1. t < u /\ t \in Nat
    BY <1>6 DEF t
  <2>2. (t * l) * w < (u * l) * w
    <3> DEFINE k == l * w
    <3>1. k \in Nat \ {0} /\ (t * l) * w = t * k /\ (u * l) * w = u * k
      BY <1>3, <2>1
    <3> HIDE DEF k
    <3>2. t * k < u * k
      BY <1>3, <2>1, <3>1
    <3> QED
      BY <3>1, <3>2
  <2>3. (u * l) * w = p * l
    <3>1. (u * l) * w = (u * w) * l
      BY <1>3
    <3> QED
      BY <1>4, <3>1
  <2>4. p * l <= (p + x) * l
    <3>1. (p + x) * l = p * l + x * l /\ x * l >= 0 /\ p * l \in Int /\ x * l \in Int
      BY <1>1, <1>3
    <3> QED
      BY <3>1
  <2> DEFINE A == (t * l) * w
             B == (u * l) * w
             C == (p + x) * l
             D == p * l
  <2>5. A \in Int /\ B \in Int /\ C \in Int /\ D \in Int /\ A < B /\ B = D /\ D <= C
    BY <1>1, <1>3, <2>1, <2>2, <2>3, <2>4
  <2> HIDE DEF A, B, C, D
  <2>6. A < C
    BY <2>5
  <2> QED
    BY <2>6 DEF A, C
<1> QED
  BY <1>5, <1>7, <1>8, <1>10, <1>11, <1>12 DEF w

(* Floats of one key are near each other.                                  *)
LEMMA OneKeyIsNear ==
  ASSUME NEW f \in Floats, NEW g \in Floats, HashComponent(f) = HashComponent(g)
  PROVE  /\ ~Below(Times(Value(f), Value(g)), Zero)
         /\ \/ f.exponent = 0
            \/ Below(Times(AbsoluteValue(Minus(Value(f), Value(g))),
                           <<PowerOfTwo[FractionBits - MaskedBits], 1>>),
                     AbsoluteValue(Value(f)))
<1> DEFINE m == Signed(f, Size(f))
           n == Signed(g, Size(g))
           d == PowerOfTwo[Finest]
           w == PowerOfTwo[FractionBits - MaskedBits]
           a == Value(f)
           b == Value(g)
<1>1. /\ m \in Int /\ n \in Int /\ d \in Nat \ {0}
      /\ Size(f) \in Nat /\ Size(g) \in Nat /\ f.sign \in {0, 1} /\ g.sign \in {0, 1}
  BY FloatType, SignedTimes, PowerStep
<1>2. Is(a, m, d) /\ Is(b, n, d) /\ a \in Rat /\ b \in Rat
  BY ValueIs DEF Is
<1>3. /\ f.exponent = g.exponent
      /\ f.fraction - (f.fraction % PowerOfTwo[MaskedBits])
           = g.fraction - (g.fraction % PowerOfTwo[MaskedBits])
      /\ (IF f.exponent = 0 /\ f.fraction = 0 THEN 0 ELSE f.sign)
           = (IF g.exponent = 0 /\ g.fraction = 0 THEN 0 ELSE g.sign)
  <2> DEFINE sf == IF f.exponent = 0 /\ f.fraction = 0 THEN 0 ELSE f.sign
             sg == IF g.exponent = 0 /\ g.fraction = 0 THEN 0 ELSE g.sign
             xf == f.fraction - (f.fraction % PowerOfTwo[MaskedBits])
             xg == g.fraction - (g.fraction % PowerOfTwo[MaskedBits])
  <2>1. [sign |-> sf, exponent |-> f.exponent, fraction |-> xf]
          = [sign |-> sg, exponent |-> g.exponent, fraction |-> xg]
    BY HashIs
  <2> HIDE DEF sf, sg, xf, xg
  <2>2. sf = sg /\ f.exponent = g.exponent /\ xf = xg
    BY <2>1
  <2> QED
    BY <2>2 DEF sf, sg, xf, xg
<1>4. f.sign = g.sign \/ Size(f) = 0 \/ Size(g) = 0
  BY <1>3, SizeZero
<1>5. \/ m >= 0 /\ n >= 0
      \/ m <= 0 /\ n <= 0
  BY <1>1, <1>4 DEF Signed
<1>6. ~Below(Times(a, b), Zero)
  <2> HIDE DEF m, n, d, a, b
  <2>1. a[1] * b[1] >= 0
    BY <1>1, <1>2, <1>5, SameSigns
  <2> QED
    BY <1>2, <2>1, ProductNotBelowZero
<1>7. ASSUME f.exponent # 0
      PROVE  Below(Times(AbsoluteValue(Minus(a, b)), <<w, 1>>), AbsoluteValue(a))
  <2>1. f.sign = g.sign
    BY <1>3, <1>7
  <2>2. Magnitude(m - n) * w < Magnitude(m)
    BY <1>3, <1>7, <2>1, MaskedGap
  <2>3. w \in Nat
    <3>1. FractionBits - MaskedBits \in Nat
      BY FloatsAssumption
    <3> QED
      BY <3>1, PowerStep
  <2> HIDE DEF m, n, d, a, b, w
  <2> DEFINE k == Magnitude(m - n)
             h == Magnitude(m)
             c == k * w
  <2>4. k \in Nat /\ h \in Nat /\ m - n \in Int
    BY <1>1 DEF Magnitude
  <2>5. Is(AbsoluteValue(Minus(a, b)), k, d)
    BY <1>1, <1>2, <2>4, MinusIs, AbsoluteIs
  <2>6. Is(AbsoluteValue(a), h, d)
    BY <1>1, <1>2, AbsoluteIs
  <2> HIDE DEF k, h
  <2>7. c \in Int
    BY <2>3, <2>4
  <2>8. Is(Times(AbsoluteValue(Minus(a, b)), <<w, 1>>), c, d)
    BY <1>1, <2>3, <2>4, <2>5, MultipleIs
  <2>9. c < h
    BY <2>2 DEF k, h
  <2> HIDE DEF c
  <2> QED
    BY <1>1, <2>4, <2>6, <2>7, <2>8, <2>9, BelowIs
<1> QED
  BY <1>6, <1>7

--------------------------------------------------------------------------------
(* Floats: a row of them.                                                  *)

RugRow(row) == [i \in DOMAIN row |-> RugParts(row[i])]
DashuRow(row) == [i \in DOMAIN row |-> DashuParts(row[i])]

(* A row of floats is there, and what it is as integers once it is scaled. *)
FloatInv ==
  /\ floats \in [1..RowLength -> Floats]
  /\ scaled = <<>> \/ scaled = [rug   |-> ScaledInts(RugRow(floats)),
                                dashu |-> ScaledInts(DashuRow(floats))]

LEMMA FloatStep ==
  ASSUME FloatInv, FloatNext
  PROVE  FloatInv'
BY DEF FloatInv, FloatNext, ScaleRow, RugRow, DashuRow

LEMMA ScaledRow ==
  ASSUME FloatInv
  PROVE  FloatsAreExact
<1> SUFFICES ASSUME scaled # <<>> PROVE FloatsAreExact
  BY DEF FloatsAreExact
<1> DEFINE n == RowLength
           values == [i \in 1..n |-> Value(floats[i])]
<1>1. n \in Nat \ {0} /\ DOMAIN floats = 1..n /\ \A i \in 1..n : floats[i] \in Floats
  BY FloatsAssumption DEF FloatInv
<1>2. RugRow(floats) = values /\ DashuRow(floats) = values
  BY <1>1, PartsAreValue DEF RugRow, DashuRow
<1>3. values \in [1..n -> Rat] /\ \A i \in 1..n : \E m \in 0..Finest : values[i][2] = PowerOfTwo[m]
  BY <1>1, PartsAreValue
<1>4. Finest \in Nat
  BY FloatsAssumption DEF Finest
<1>5. scaled.rug = ScaledInts(values) /\ scaled.dashu = ScaledInts(values)
  BY <1>2 DEF FloatInv
<1>6. \A i \in 1..n : values[i] = Value(floats[i])
  OBVIOUS
<1> HIDE DEF values
<1>7. /\ ScaledInts(values).denom > 0
      /\ \A i \in 1..n : FromFrac(ScaledInts(values).ints[i], ScaledInts(values).denom) = values[i]
  BY <1>1, <1>3, <1>4, ScaledIntsAreExact
<1>8. ASSUME NEW i \in 1..n, NEW k \in 0 .. 2 * Bias + FractionBits
      PROVE  LET v == Value(floats[i]) IN
             /\ v[2] = PowerOfTwo[k] => FromDashuFloat(v[1], -k) = v
             /\ v[2] = 1 /\ v[1] % PowerOfTwo[k] = 0 =>
                  FromDashuFloat(v[1] \div PowerOfTwo[k], k) = v
  <2>1. k \in Nat
    OBVIOUS
  <2>2. Value(floats[i]) \in Rat
    BY <1>1, PartsAreValue
  <2> QED
    BY <2>1, <2>2, DashuFloatIs
<1> QED
  BY <1>1, <1>5, <1>6, <1>7, <1>8 DEF FloatsAreExact

LEMMA KeysOfRow ==
  ASSUME FloatInv
  PROVE  KeysAreSound
<1>1. \A i \in DOMAIN floats : floats[i] \in Floats
  BY DEF FloatInv
<1> SUFFICES ASSUME NEW i \in DOMAIN floats, NEW j \in DOMAIN floats
             PROVE  /\ Value(floats[i]) = Value(floats[j]) =>
                         HashComponent(floats[i]) = HashComponent(floats[j])
                    /\ HashComponent(floats[i]) = HashComponent(floats[j]) =>
                         /\ ~Below(Times(Value(floats[i]), Value(floats[j])), Zero)
                         /\ \/ floats[i].exponent = 0
                            \/ Below(Times(AbsoluteValue(Minus(Value(floats[i]), Value(floats[j]))),
                                           <<PowerOfTwo[FractionBits - MaskedBits], 1>>),
                                     AbsoluteValue(Value(floats[i])))
  BY DEF KeysAreSound
<1> QED
  BY <1>1, EqualFloatsHaveOneKey, OneKeyIsNear

(* Clients of other things have no floats.                                 *)
FloatsInv ==
  /\ client = "floats" => FloatInv
  /\ client # "floats" => NoFloats

(* Whatever row of floats a client has, both libraries take it apart into  *)
(* integers over one denominator that are the same numbers, a float of     *)
(* dashu becomes the rational that it is, equal floats have one key and    *)
(* floats of one key are near each other: for a format of any width, any   *)
(* bias and any number of masked bits, and rows of any length.             *)
THEOREM FloatsExact ==
  ClientSpec => []FloatsAreSound
<1>1. ClientInit => FloatsInv
  BY DEF ClientInit, FloatsInv, FloatInit, FloatInv
<1>2. FloatsInv /\ [ClientNext]_calculoVars => FloatsInv'
  <2> SUFFICES ASSUME FloatsInv, [ClientNext]_calculoVars PROVE FloatsInv'
    OBVIOUS
  <2>1. ASSUME UNCHANGED <<client, floatVars>> PROVE FloatsInv'
    BY <2>1 DEF FloatsInv, NoFloats, FloatInv, RugRow, DashuRow, floatVars
  <2>2. CASE UNCHANGED calculoVars
    BY <2>1, <2>2 DEF calculoVars
  <2>3. CASE ClientNext
    <3>1. CASE client = "floats" /\ FloatNext
      BY <2>3, <3>1, FloatStep DEF FloatsInv, ClientNext
    <3>2. CASE ~(client = "floats" /\ FloatNext)
      BY <2>1, <2>3, <3>2 DEF ClientNext
    <3> QED
      BY <3>1, <3>2
  <2> QED
    BY <2>2, <2>3
<1>3. FloatsInv => FloatsAreSound
  <2>1. NoFloats => FloatsAreExact /\ KeysAreSound
    <3>1. NoFloats => scaled = <<>> /\ \A i \in DOMAIN floats : FALSE
      BY DEF NoFloats
    <3> QED
      BY <3>1 DEF FloatsAreExact, KeysAreSound
  <2> QED
    BY <2>1, ScaledRow, KeysOfRow DEF FloatsInv, FloatsAreSound
<1> QED
  BY <1>1, <1>2, <1>3, PTL DEF ClientSpec

--------------------------------------------------------------------------------
(* Numbers: their order under products and quotients.                      *)
LEMMA ProductsAssociate ==
  ASSUME NEW x \in Rat, NEW y \in Rat, NEW z \in Rat
  PROVE  Times(Times(x, y), z) = Times(x, Times(y, z))
<1> DEFINE n == x[1] * y[1]
           d == x[2] * y[2]
           p == Times(x, y)
           s == y[1] * z[1]
           t == y[2] * z[2]
           q == Times(y, z)
           N == n * z[1]
           D == d * z[2]
<1>1. /\ n \in Int /\ d \in Nat \ {0} /\ p \in Rat /\ p[1] * d = n * p[2]
      /\ s \in Int /\ t \in Nat \ {0} /\ q \in Rat /\ q[1] * t = s * q[2]
  BY ProductIs DEF Is
<1>2. /\ x[1] \in Int /\ x[2] \in Nat \ {0} /\ z[1] \in Int /\ z[2] \in Nat \ {0}
      /\ p[1] \in Int /\ p[2] \in Nat \ {0} /\ q[1] \in Int /\ q[2] \in Nat \ {0}
      /\ y[1] \in Int /\ y[2] \in Nat \ {0}
  BY <1>1, RatType
<1>3. N \in Int /\ D \in Int /\ D # 0
  <2> HIDE DEF n, d
  <2> QED
    BY <1>1, <1>2
<1>4. N = x[1] * s /\ D = x[2] * t
  BY <1>2
<1>5. Is(Times(p, z), N, D)
  <2> DEFINE a == p[1] * z[1]
             b == p[2] * z[2]
  <2>1. a \in Int /\ b \in Nat \ {0} /\ Is(Times(p, z), a, b)
    BY <1>1, ProductIs
  <2>2. a * D = N * b
    <3> HIDE DEF n, d, p
    <3>1. (p[1] * z[1]) * (d * z[2]) = (p[1] * d) * (z[1] * z[2])
      BY <1>1, <1>2
    <3>2. (n * z[1]) * (p[2] * z[2]) = (n * p[2]) * (z[1] * z[2])
      BY <1>1, <1>2
    <3> QED
      BY <1>1, <3>1, <3>2
  <2> HIDE DEF a, b, N, D, p
  <2> QED
    BY <1>3, <2>1, <2>2, IsMoves
<1>6. Is(Times(x, q), N, D)
  <2> DEFINE a == x[1] * q[1]
             b == x[2] * q[2]
  <2>1. a \in Int /\ b \in Nat \ {0} /\ Is(Times(x, q), a, b)
    BY <1>1, ProductIs
  <2>2. a * D = N * b
    <3> HIDE DEF s, t, q
    <3>1. (x[1] * q[1]) * (x[2] * t) = (q[1] * t) * (x[1] * x[2])
      BY <1>1, <1>2
    <3>2. (x[1] * s) * (x[2] * q[2]) = (s * q[2]) * (x[1] * x[2])
      BY <1>1, <1>2
    <3> HIDE DEF N, D
    <3> QED
      BY <1>1, <1>4, <3>1, <3>2
  <2> HIDE DEF a, b, N, D, q
  <2> QED
    BY <1>3, <2>1, <2>2, IsMoves
<1> HIDE DEF N, D, p, q
<1>7. Times(p, z) = Times(x, q)
  BY <1>3, <1>5, <1>6, OneNumber
<1> QED
  BY <1>7 DEF p, q

LEMMA NotBelowTransitive ==
  ASSUME NEW x \in Rat, NEW y \in Rat, NEW z \in Rat, ~Below(y, x), ~Below(z, y)
  PROVE  ~Below(z, x)
<1> DEFINE a == x[1]
           b == x[2]
           c == y[1]
           d == y[2]
           e == z[1]
           f == z[2]
<1>1. /\ a \in Int /\ b \in Nat \ {0} /\ c \in Int /\ d \in Nat \ {0}
      /\ e \in Int /\ f \in Nat \ {0}
  BY RatType
<1>2. ~(c * b < a * d) /\ ~(e * d < c * f)
  BY DEF Below
<1>3. Below(z, x) <=> e * b < a * f
  BY DEF Below
<1> HIDE DEF a, b, c, d, e, f
<1> DEFINE A == a * d
           B == c * b
           C == c * f
           D == e * d
           E == e * b
           F == a * f
<1>4. A \in Int /\ B \in Int /\ C \in Int /\ D \in Int /\ E \in Int /\ F \in Int
  BY <1>1
<1>5. A * f = F * d /\ B * f = C * b /\ D * b = E * d
  <2>1. (a * d) * f = (a * f) * d /\ (c * b) * f = (c * f) * b /\ (e * d) * b = (e * b) * d
    BY <1>1
  <2> QED
    BY <2>1
<1>6. ~(B < A) /\ ~(D < C)
  BY <1>2
<1> HIDE DEF A, B, C, D, E, F
<1>7. A * f <= B * f
  BY <1>1, <1>4, <1>6
<1>8. C * b <= D * b
  BY <1>1, <1>4, <1>6
<1>9. F * d <= E * d
  <2> DEFINE u == A * f
             v == B * f
             w == D * b
  <2>1. u \in Int /\ v \in Int /\ w \in Int /\ u <= v /\ v <= w
    BY <1>1, <1>4, <1>5, <1>7, <1>8
  <2> HIDE DEF u, v, w
  <2>2. u <= w
    BY <2>1
  <2> QED
    BY <1>5, <2>2 DEF u, w
<1>10. ~(E < F)
  BY <1>1, <1>4, <1>9
<1> QED
  BY <1>3, <1>10 DEF E, F

LEMMA BelowAsymmetric ==
  ASSUME NEW x \in Rat, NEW y \in Rat
  PROVE  /\ ~(Below(x, y) /\ Below(y, x)) /\ ~Below(x, x)
         /\ ~Below(x, y) /\ ~Below(y, x) => x = y
<1> DEFINE u == x[1] * y[2]
           v == y[1] * x[2]
<1>1. u \in Int /\ v \in Int
  BY RatType
<1>2. (Below(x, y) <=> u < v) /\ (Below(y, x) <=> v < u)
  BY DEF Below
<1>3. ~Below(x, x)
  <2> DEFINE w == x[1] * x[2]
  <2>1. w \in Int
    BY RatType
  <2>2. Below(x, x) <=> w < w
    BY DEF Below
  <2> HIDE DEF w
  <2> QED
    BY <2>1, <2>2
<1>4. u = v => x = y
  BY LowestTermsAreUnique
<1> HIDE DEF u, v
<1> QED
  BY <1>1, <1>2, <1>3, <1>4

(* Numbers above zero.                                                     *)
Positives == {c \in Rat : Below(Zero, c)}

LEMMA PositiveIs ==
  ASSUME NEW x \in Rat
  PROVE  /\ Below(Zero, x) <=> x[1] > 0
         /\ Below(x, Zero) <=> x[1] < 0
         /\ x = Zero <=> x[1] = 0
<1>1. x = <<x[1], x[2]>> /\ x[1] \in Int /\ x[2] \in Nat \ {0}
  BY RatType
<1> DEFINE a == x[1]
<1>2. (Below(Zero, x) <=> 0 * x[2] < a * 1) /\ (Below(x, Zero) <=> a * 1 < 0 * x[2])
  BY DEF Below, Zero
<1>3. 0 * x[2] = 0 /\ a * 1 = a
  BY <1>1
<1>4. a = 0 => x = Zero
  <2> SUFFICES ASSUME a = 0 PROVE x = Zero
    OBVIOUS
  <2>1. x[1] * Zero[2] = Zero[1] * x[2] /\ Zero \in Rat
    BY <1>1, ConstantsAreRat DEF Zero
  <2> QED
    BY <2>1, LowestTermsAreUnique
<1>5. x = Zero => a = 0
  BY DEF Zero
<1> QED
  BY <1>1, <1>2, <1>3, <1>4, <1>5

LEMMA BelowTimes ==
  ASSUME NEW c \in Positives, NEW x \in Rat, NEW y \in Rat
  PROVE  Below(Times(c, x), Times(c, y)) <=> Below(x, y)
<1> DEFINE p == c[1]
           q == c[2]
           a == x[1]
           b == x[2]
           e == y[1]
           f == y[2]
           d == q * b
           g == q * f
           D == d * f
           m == p * a
           n == p * e
           M == m * f
           N == n * b
           u == a * f
           v == e * b
<1>1. /\ p \in Nat \ {0} /\ q \in Nat \ {0} /\ a \in Int /\ b \in Nat \ {0}
      /\ e \in Int /\ f \in Nat \ {0} /\ c \in Rat
  <2>1. c \in Rat /\ p > 0
    BY PositiveIs DEF Positives
  <2> QED
    BY <2>1, RatType
<1>2. Below(x, y) <=> u < v
  BY DEF Below
<1>3. /\ m \in Int /\ d \in Nat \ {0} /\ Is(Times(c, x), m, d)
      /\ n \in Int /\ g \in Nat \ {0} /\ Is(Times(c, y), n, g)
  BY <1>1, ProductIs
<1> HIDE DEF p, q, a, b, e, f
<1>4. D = g * b
  BY <1>1
<1>5. M = p * u /\ N = p * v /\ u \in Int /\ v \in Int
  BY <1>1
<1> HIDE DEF m, n, d, g, u, v
<1>6. M \in Int /\ N \in Int /\ D \in Nat \ {0} /\ m * D = M * d /\ n * D = N * g
  <2>1. m * (d * f) = (m * f) * d /\ n * (g * b) = (n * b) * g
    BY <1>1, <1>3
  <2>2. M \in Int /\ N \in Int /\ D \in Nat \ {0}
    BY <1>1, <1>3
  <2> QED
    BY <1>4, <2>1, <2>2
<1> HIDE DEF M, N, D
<1>7. Is(Times(c, x), M, D) /\ Is(Times(c, y), N, D)
  BY <1>3, <1>6, IsMoves
<1>8. Below(Times(c, x), Times(c, y)) <=> M < N
  BY <1>6, <1>7, BelowIs
<1>9. p * u < p * v <=> u < v
  BY <1>1, <1>5
<1> QED
  BY <1>2, <1>5, <1>8, <1>9

LEMMA AbsoluteType ==
  ASSUME NEW x \in Rat
  PROVE  /\ AbsoluteValue(x) \in Rat /\ ~Below(AbsoluteValue(x), Zero)
         /\ AbsoluteValue(x) = Zero <=> x = Zero
         /\ AbsoluteValue(AbsoluteValue(x)) = AbsoluteValue(x)
         /\ ~Below(x, Zero) => AbsoluteValue(x) = x
<1> DEFINE a == x[1]
           k == Magnitude(a)
           y == AbsoluteValue(x)
<1>1. a \in Int /\ x[2] \in Nat \ {0} /\ Is(x, a, x[2]) /\ x = <<a, x[2]>>
  BY RatIs, RatType
<1>2. y \in Rat
  BY <1>1, AbsoluteIs DEF Is
<1>3. k \in Nat /\ (k = 0 <=> a = 0) /\ Magnitude(k) = k /\ (a >= 0 => k = a)
  BY <1>1 DEF Magnitude
<1>4. y = <<k, x[2]>> /\ y[1] = k
  BY DEF AbsoluteValue
<1>5. AbsoluteValue(y) = y
  BY <1>3, <1>4 DEF AbsoluteValue
<1>6. ~Below(y, Zero) /\ (y = Zero <=> k = 0)
  BY <1>2, <1>3, <1>4, PositiveIs
<1>7. (x = Zero <=> a = 0) /\ (Below(x, Zero) <=> a < 0)
  BY PositiveIs
<1> QED
  BY <1>1, <1>2, <1>3, <1>4, <1>5, <1>6, <1>7

LEMMA AbsoluteTimes ==
  ASSUME NEW c \in Positives, NEW x \in Rat
  PROVE  AbsoluteValue(Times(c, x)) = Times(c, AbsoluteValue(x))
<1> DEFINE p == c[1]
           a == x[1]
           n == p * a
           d == c[2] * x[2]
           k == Magnitude(a)
<1>1. c \in Rat /\ p > 0
  BY PositiveIs DEF Positives
<1>2. p \in Nat \ {0} /\ a \in Int /\ k \in Nat
  BY <1>1, RatType DEF Magnitude
<1>3. n \in Int /\ d \in Nat \ {0} /\ Is(Times(c, x), n, d)
  BY <1>1, ProductIs
<1>4. Magnitude(n) = p * k
  <2> HIDE DEF p, a
  <2>1. p * a < 0 <=> a < 0
    BY <1>2
  <2>2. p * (-a) = -(p * a)
    BY <1>2
  <2> QED
    BY <1>2, <2>1, <2>2 DEF Magnitude
<1>5. Is(Times(c, AbsoluteValue(x)), p * k, d)
  <2>1. AbsoluteValue(x) \in Rat /\ AbsoluteValue(x)[1] = k /\ AbsoluteValue(x)[2] = x[2]
    <3>1. AbsoluteValue(x) = <<k, x[2]>>
      BY DEF AbsoluteValue
    <3> QED
      BY <3>1, AbsoluteType
  <2> QED
    BY <1>1, <2>1, ProductIs
<1> DEFINE N == p * k
<1>6. N \in Int
  BY <1>2
<1> HIDE DEF n, d, N
<1>7. Is(AbsoluteValue(Times(c, x)), Magnitude(n), d)
  BY <1>3, AbsoluteIs
<1>8. Is(AbsoluteValue(Times(c, x)), N, d) /\ Is(Times(c, AbsoluteValue(x)), N, d)
  BY <1>4, <1>5, <1>7 DEF N
<1> QED
  BY <1>3, <1>6, <1>8, OneNumber

(* Dividing is multiplying by the inverse.                                 *)
LEMMA OverIs ==
  ASSUME NEW m \in Positives
  PROVE  \E r \in Positives : Times(r, m) = One /\ \A x \in Rat : Over(x, m) = Times(r, x)
<1> DEFINE a == m[1]
           b == m[2]
           r == FromFrac(b, a)
<1>1. m \in Rat /\ a \in Nat \ {0} /\ b \in Nat \ {0}
  <2>1. m \in Rat /\ a > 0
    BY PositiveIs DEF Positives
  <2> QED
    BY <2>1, RatType
<1> DEFINE s == r[1]
           t == r[2]
<1>2. r \in Rat /\ s * a = b * t
  <2> HIDE DEF a, b
  <2>1. Is(FromFrac(b, a), b, a)
    BY <1>1, FromFracIs
  <2> QED
    BY <2>1 DEF Is
<1>3. s \in Int /\ t \in Nat \ {0}
  BY <1>2, RatType
<1>4. s > 0
  <2> HIDE DEF s, t, a, b
  <2>1. b * t > 0
    BY <1>1, <1>3
  <2> QED
    BY <1>1, <1>2, <1>3, <2>1
<1>5. r \in Positives
  BY <1>2, <1>4, PositiveIs DEF Positives
<1>6. Times(r, m) = One
  <2>1. Times(r, m) = FromFrac(s * a, t * b)
    BY DEF Times
  <2> HIDE DEF s, t, a, b
  <2> DEFINE n == s * a
             d == t * b
  <2>2. n \in Int /\ d \in Nat \ {0} /\ 1 * d = n * 1
    <3>1. b * t = t * b
      BY <1>1, <1>3
    <3> QED
      BY <1>1, <1>2, <1>3, <3>1
  <2> HIDE DEF n, d
  <2>3. Is(One, n, d)
    BY <2>2, ConstantsAreRat DEF Is, One
  <2> QED
    BY <2>1, <2>2, <2>3, FromFracEqual DEF n, d
<1>7. ASSUME NEW x \in Rat PROVE Over(x, m) = Times(r, x)
  <2> DEFINE e == x[1]
             f == x[2]
             n == e * b
             d == f * a
             k == s * e
             l == t * f
  <2>1. e \in Int /\ f \in Nat \ {0}
    BY RatType
  <2>2. Over(x, m) = FromFrac(n, d)
    BY DEF Over
  <2>3. k \in Int /\ l \in Nat \ {0} /\ Is(Times(r, x), k, l)
    BY <1>2, ProductIs
  <2> HIDE DEF a, b, s, t, e, f, r
  <2>4. n \in Int /\ d \in Nat \ {0}
    BY <1>1, <2>1
  <2>5. k * d = n * l
    <3>1. (s * e) * (f * a) = (s * a) * (e * f) /\ (e * b) * (t * f) = (b * t) * (e * f)
      BY <1>1, <1>3, <2>1
    <3> QED
      BY <1>2, <3>1
  <2> HIDE DEF n, d, k, l
  <2>6. Is(Times(r, x), n, d)
    BY <2>3, <2>4, <2>5, IsMoves
  <2> QED
    BY <2>2, <2>4, <2>6, FromFracEqual
<1> HIDE DEF r
<1> QED
  BY <1>5, <1>6, <1>7

LEMMA TimesKeeps ==
  ASSUME NEW c \in Positives, NEW x \in Rat
  PROVE  /\ Times(c, x) \in Rat
         /\ Times(c, x) = Zero <=> x = Zero
         /\ SameSign(Times(c, x), x)
         /\ x \in Positives => Times(c, x) \in Positives
<1>1. c \in Rat /\ Zero \in Rat /\ Times(c, x) \in Rat /\ Times(c, Zero) = Zero
  BY OperationsAreRat, NeutralElements, ConstantsAreRat DEF Positives
<1>2. /\ Below(Times(c, x), Zero) <=> Below(x, Zero)
      /\ Below(Zero, Times(c, x)) <=> Below(Zero, x)
  <2>1. Below(Times(c, x), Times(c, Zero)) <=> Below(x, Zero)
    BY <1>1, BelowTimes
  <2>2. Below(Times(c, Zero), Times(c, x)) <=> Below(Zero, x)
    BY <1>1, BelowTimes
  <2> QED
    BY <1>1, <2>1, <2>2
<1>3. Times(c, x) = Zero => x = Zero
  <2> SUFFICES ASSUME Times(c, x) = Zero PROVE x = Zero
    OBVIOUS
  <2>1. ~Below(x, Zero) /\ ~Below(Zero, x)
    BY <1>1, <1>2, BelowAsymmetric
  <2> QED
    BY <1>1, <2>1, BelowAsymmetric
<1>4. SameSign(Times(c, x), x)
  <2>1. \A y, z \in Rat : Below(y, z) \in BOOLEAN
    BY DEF Below
  <2> QED
    BY <1>1, <1>2, <2>1 DEF SameSign
<1>5. x \in Positives => Times(c, x) \in Positives
  BY <1>1, <1>2 DEF Positives
<1> QED
  BY <1>1, <1>3, <1>4, <1>5

(* Of finitely many numbers one is the greatest, and one is the least.     *)
LEMMA ExtremesExist ==
  ASSUME NEW n \in Nat, NEW J, J \subseteq 1..n, J # {}, NEW size,
         \A i \in J : size[i] \in Rat
  PROVE  /\ \E j \in J : \A i \in J : ~Below(size[j], size[i])
         /\ \E j \in J : \A i \in J : ~Below(size[i], size[j])
<1> DEFINE Topped(T) == \E j \in T : \A i \in T : ~Below(size[j], size[i])
           Floored(T) == \E j \in T : \A i \in T : ~Below(size[i], size[j])
           E == {k \in Nat : \A T \in SUBSET J : T \subseteq 1..k /\ T # {} => Topped(T) /\ Floored(T)}
<1>1. 0 \in E
  <2>1. \A i \in 1..0 : FALSE
    OBVIOUS
  <2>2. \A T \in SUBSET J : ~(T \subseteq 1..0 /\ T # {})
    BY <2>1
  <2> QED
    BY <2>2
<1>2. ASSUME NEW k \in Nat, k \in E PROVE k + 1 \in E
  <2> SUFFICES ASSUME NEW T \in SUBSET J, T \subseteq 1..(k + 1), T # {}
               PROVE  Topped(T) /\ Floored(T)
    OBVIOUS
  <2> DEFINE U == T \ {k + 1}
  <2>1. U \in SUBSET J /\ U \subseteq 1..k
    <3>1. \A i \in 1..(k + 1) : i # k + 1 => i \in 1..k
      OBVIOUS
    <3> QED
      BY <3>1
  <2>2. \A i \in T : size[i] \in Rat
    OBVIOUS
  <2>3. CASE k + 1 \notin T
    <3>1. U = T
      BY <2>3
    <3> QED
      BY <1>2, <2>1, <3>1
  <2>4. CASE k + 1 \in T /\ U = {}
    <3>1. T = {k + 1}
      BY <2>4
    <3>2. ~Below(size[k + 1], size[k + 1])
      BY <2>2, <2>4, BelowAsymmetric
    <3> QED
      BY <3>1, <3>2
  <2>5. CASE k + 1 \in T /\ U # {}
    <3>1. Topped(U) /\ Floored(U)
      BY <1>2, <2>1, <2>5
    <3>2. Topped(T)
      <4>1. PICK j \in U : \A i \in U : ~Below(size[j], size[i])
        BY <3>1
      <4>2. CASE Below(size[j], size[k + 1])
        <5>1. ~Below(size[k + 1], size[j])
          BY <2>2, <2>5, <4>2, BelowAsymmetric
        <5>2. ASSUME NEW i \in U PROVE ~Below(size[k + 1], size[i])
          <6>1. size[i] \in Rat /\ size[j] \in Rat /\ size[k + 1] \in Rat
            BY <2>2, <2>5
          <6>2. ~Below(size[j], size[i])
            BY <4>1
          <6> QED
            BY <5>1, <6>1, <6>2, NotBelowTransitive
        <5>3. ~Below(size[k + 1], size[k + 1])
          BY <2>2, <2>5, BelowAsymmetric
        <5>4. \A i \in T : i \in U \/ i = k + 1
          OBVIOUS
        <5>5. \A i \in T : ~Below(size[k + 1], size[i])
          BY <5>2, <5>3, <5>4
        <5> QED
          BY <2>5, <5>5
      <4>3. CASE ~Below(size[j], size[k + 1])
        <5>1. \A i \in T : i \in U \/ i = k + 1
          OBVIOUS
        <5>2. j \in T /\ \A i \in T : ~Below(size[j], size[i])
          BY <4>1, <4>3, <5>1
        <5> QED
          BY <5>2
      <4> QED
        BY <4>2, <4>3
    <3>3. Floored(T)
      <4>1. PICK j \in U : \A i \in U : ~Below(size[i], size[j])
        BY <3>1
      <4>2. CASE Below(size[k + 1], size[j])
        <5>1. ~Below(size[j], size[k + 1])
          BY <2>2, <2>5, <4>2, BelowAsymmetric
        <5>2. ASSUME NEW i \in U PROVE ~Below(size[i], size[k + 1])
          <6>1. size[i] \in Rat /\ size[j] \in Rat /\ size[k + 1] \in Rat
            BY <2>2, <2>5
          <6>2. ~Below(size[i], size[j])
            BY <4>1
          <6> QED
            BY <5>1, <6>1, <6>2, NotBelowTransitive
        <5>3. ~Below(size[k + 1], size[k + 1])
          BY <2>2, <2>5, BelowAsymmetric
        <5>4. \A i \in T : i \in U \/ i = k + 1
          OBVIOUS
        <5>5. \A i \in T : ~Below(size[i], size[k + 1])
          BY <5>2, <5>3, <5>4
        <5> QED
          BY <2>5, <5>5
      <4>3. CASE ~Below(size[k + 1], size[j])
        <5>1. \A i \in T : i \in U \/ i = k + 1
          OBVIOUS
        <5>2. j \in T /\ \A i \in T : ~Below(size[i], size[j])
          BY <4>1, <4>3, <5>1
        <5> QED
          BY <5>2
      <4> QED
        BY <4>2, <4>3
    <3> QED
      BY <3>2, <3>3
  <2> QED
    BY <2>3, <2>4, <2>5
<1>3. \A k \in Nat : k \in E
  <2> HIDE DEF E
  <2> QED
    BY <1>1, <1>2, SetInduction
<1>4. Topped(J) /\ Floored(J)
  <2>1. n \in E /\ J \in SUBSET J
    BY <1>3
  <2> HIDE DEF Topped, Floored
  <2> QED
    BY <2>1
<1> QED
  BY <1>4

--------------------------------------------------------------------------------
(* Normalizers: common denominators and divisors, by recursion.            *)

(* The recursion that combines one number after another.                   *)
Combines(g, base, used, next) ==
  g = [k \in Nat |-> IF k = 0 THEN base
                     ELSE IF k \in used THEN next[<<g[k - 1], k>>]
                     ELSE g[k - 1]]

LEMMA CombinationExists ==
  ASSUME NEW base \in Nat, NEW used, NEW next, \A a \in Nat, k \in used : next[<<a, k>>] \in Nat
  PROVE  \E f \in [Nat -> Nat] : Combines(f, base, used, next)
<1> DEFINE step == [p \in Nat \X Nat |-> IF p[1] + 1 \in used THEN next[<<p[2], p[1] + 1>>] ELSE p[2]]
<1>1. step \in [Nat \X Nat -> Nat]
  OBVIOUS
<1>2. PICK f : Recursive(f, Nat, base, step)
  BY <1>1, PrimitiveRecursion
<1>3. /\ f \in [Nat -> Nat] /\ f[0] = base
      /\ \A n \in Nat : f[n + 1] = IF n + 1 \in used THEN next[<<f[n], n + 1>>] ELSE f[n]
  BY <1>2 DEF Recursive
<1>4. ASSUME NEW k \in Nat
      PROVE  f[k] = IF k = 0 THEN base ELSE IF k \in used THEN next[<<f[k - 1], k>>] ELSE f[k - 1]
  <2>1. CASE k = 0
    BY <1>3, <2>1
  <2>2. CASE k # 0
    <3>1. k - 1 \in Nat /\ (k - 1) + 1 = k
      BY <2>2
    <3> QED
      BY <1>3, <2>2, <3>1
  <2> QED
    BY <2>1, <2>2
<1>5. Combines(f, base, used, next)
  BY <1>3, <1>4 DEF Combines
<1> QED
  BY <1>3, <1>5

LEMMA LeastMultipleIs ==
  ASSUME NEW a \in Nat \ {0}, NEW b \in Nat \ {0}
  PROVE  /\ LeastMultiple(a, b) \in Nat \ {0}
         /\ Divides(a, LeastMultiple(a, b)) /\ Divides(b, LeastMultiple(a, b))
<1> DEFINE g == Euclid[<<a, b>>]
<1>1. g \in Nat \ {0} /\ Divides(g, a) /\ Divides(g, b)
  BY EuclidDivides
<1>2. LeastMultiple(a, b) = (a \div g) * b
  <2>1. Magnitude(a) = a /\ Magnitude(b) = b
    BY DEF Magnitude
  <2> QED
    BY <2>1 DEF LeastMultiple, CommonDivisor
<1> HIDE DEF g
<1>3. PICK p \in Int : a = p * g
  BY <1>1 DEF Divides
<1>4. PICK q \in Int : b = q * g
  BY <1>1 DEF Divides
<1>5. a \div g = p /\ p > 0 /\ q > 0
  BY <1>1, <1>3, <1>4
<1>6. LeastMultiple(a, b) = p * b
  BY <1>2, <1>5
<1>7. p * b = q * a
  <2>1. p * (q * g) = q * (p * g)
    BY <1>1, <1>5
  <2> QED
    BY <1>3, <1>4, <2>1
<1>8. p * b \in Nat \ {0}
  BY <1>5
<1> QED
  BY <1>4, <1>6, <1>7, <1>8 DEF Divides

LEMMA DividesTransitive ==
  ASSUME NEW a \in Int, NEW b \in Int, NEW c \in Int, Divides(a, b), Divides(b, c)
  PROVE  Divides(a, c)
<1>1. PICK p \in Int : b = p * a
  BY DEF Divides
<1>2. PICK q \in Int : c = q * b
  BY DEF Divides
<1> DEFINE r == q * p
<1>3. r \in Int /\ c = r * a
  <2>1. q * (p * a) = (q * p) * a
    OBVIOUS
  <2> QED
    BY <1>1, <1>2, <2>1
<1> HIDE DEF r
<1> QED
  BY <1>3 DEF Divides

(* Every denominator in use divides the common one.                        *)
LEMMA LeastDenominatorIs ==
  ASSUME NEW v \in Seq(Rat)
  PROVE  /\ LeastDenominator(v) \in Nat \ {0}
         /\ \A i \in Used(v) : Divides(v[i][2], LeastDenominator(v))
<1> DEFINE used == Used(v)
           next == [p \in Nat \X used |-> LeastMultiple(p[1], v[p[2]][2])]
           Next(g) == [k \in Nat |-> IF k = 0 THEN 1
                                     ELSE IF k \in used THEN LeastMultiple(g[k - 1], v[k][2])
                                     ELSE g[k - 1]]
           acc == CHOOSE g : g = Next(g)
<1>1. \A k \in used : /\ k \in Nat \ {0} /\ k <= Len(v)
                      /\ v[k] \in Rat /\ v[k][2] \in Nat \ {0}
  BY RatType DEF Used
<1>2. ASSUME NEW a \in Nat, NEW k \in used
      PROVE  LeastMultiple(a, v[k][2]) \in Nat /\ next[<<a, k>>] = LeastMultiple(a, v[k][2])
  <2> DEFINE b == v[k][2]
  <2>1. b \in Nat \ {0}
    BY <1>1
  <2>2. LeastMultiple(a, b) \in Nat
    <3>1. CASE a # 0
      BY <2>1, <3>1, LeastMultipleIs
    <3>2. CASE a = 0
      <4> DEFINE g == Euclid[<<a, b>>]
      <4>1. g \in Nat \ {0}
        BY <2>1, EuclidDivides
      <4>2. LeastMultiple(a, b) = (a \div g) * b
        <5>1. Magnitude(a) = a /\ Magnitude(b) = b
          BY <2>1 DEF Magnitude
        <5> QED
          BY <5>1 DEF LeastMultiple, CommonDivisor
      <4> HIDE DEF g, b
      <4>3. a \div g = 0
        BY <3>2, <4>1
      <4>4. 0 * b = 0
        BY <2>1
      <4> QED
        BY <4>2, <4>3, <4>4
    <3> QED
      BY <3>1, <3>2
  <2>3. next[<<a, k>>] = LeastMultiple(a, b)
    OBVIOUS
  <2> QED
    BY <2>2, <2>3
<1> HIDE DEF next
<1>3. PICK f \in [Nat -> Nat] : Combines(f, 1, used, next)
  BY <1>2, CombinationExists
<1>4. f = Next(f)
  <2>1. ASSUME NEW k \in Nat, k # 0, k \in used
        PROVE  next[<<f[k - 1], k>>] = LeastMultiple(f[k - 1], v[k][2])
    <3>1. k - 1 \in Nat /\ f[k - 1] \in Nat
      BY <2>1
    <3> QED
      BY <1>2, <2>1, <3>1
  <2> HIDE DEF used
  <2> QED
    BY <1>3, <2>1 DEF Combines
<1>5. acc = Next(acc)
  <2> HIDE DEF Next
  <2> QED
    BY <1>4
<1>6. LeastDenominator(v) = acc[Len(v)]
  BY DEF LeastDenominator
<1> HIDE DEF acc, used
<1> DEFINE S == {n \in Nat : /\ acc[n] \in Nat \ {0}
                             /\ \A i \in used : i <= n => Divides(v[i][2], acc[n])}
<1>7. 0 \in S
  <2>1. acc[0] = 1
    BY <1>5
  <2>2. \A i \in used : ~(i <= 0)
    BY <1>1
  <2> QED
    BY <2>1, <2>2
<1>8. ASSUME NEW n \in Nat, n \in S PROVE n + 1 \in S
  <2>1. n + 1 \in Nat /\ n + 1 # 0 /\ (n + 1) - 1 = n
    OBVIOUS
  <2>2. acc[n + 1] = IF n + 1 \in used THEN LeastMultiple(acc[n], v[n + 1][2]) ELSE acc[n]
    BY <1>5, <2>1
  <2>3. acc[n] \in Nat \ {0} /\ \A i \in used : i <= n => Divides(v[i][2], acc[n])
    BY <1>8
  <2>4. \A i \in used : i \in Nat /\ (i <= n + 1 => i <= n \/ i = n + 1)
    BY <1>1
  <2>5. CASE n + 1 \notin used
    <3>1. acc[n + 1] = acc[n]
      BY <2>2, <2>5
    <3>2. \A i \in used : i <= n + 1 => i <= n
      BY <2>4, <2>5
    <3> QED
      BY <2>1, <2>3, <3>1, <3>2
  <2>6. CASE n + 1 \in used
    <3> DEFINE b == v[n + 1][2]
               m == LeastMultiple(acc[n], b)
    <3>1. b \in Nat \ {0}
      BY <1>1, <2>6
    <3>2. m \in Nat \ {0} /\ Divides(acc[n], m) /\ Divides(b, m)
      BY <2>3, <3>1, LeastMultipleIs
    <3>3. acc[n + 1] = m
      BY <2>2, <2>6
    <3> HIDE DEF m
    <3>4. ASSUME NEW i \in used, i <= n + 1 PROVE Divides(v[i][2], m)
      <4>1. CASE i = n + 1
        BY <3>2, <4>1
      <4>2. CASE i <= n
        <5>1. Divides(v[i][2], acc[n])
          BY <2>3, <4>2
        <5>2. v[i][2] \in Nat /\ acc[n] \in Nat /\ m \in Nat
          BY <1>1, <2>3, <3>2
        <5>3. \A x \in Nat : x \in Int
          OBVIOUS
        <5> QED
          BY <3>2, <5>1, <5>2, <5>3, DividesTransitive
      <4> QED
        BY <2>4, <3>4, <4>1, <4>2
    <3> QED
      BY <2>1, <3>2, <3>3, <3>4
  <2> QED
    BY <2>5, <2>6
<1>9. \A n \in Nat : n \in S
  <2> HIDE DEF S
  <2> QED
    BY <1>7, <1>8, SetInduction
<1>10. Len(v) \in S /\ \A i \in used : i <= Len(v)
  <2>1. Len(v) \in Nat
    OBVIOUS
  <2> HIDE DEF S
  <2> QED
    BY <1>1, <1>9, <2>1
<1> QED
  BY <1>6, <1>10 DEF used

LEMMA DividesMagnitude ==
  ASSUME NEW d \in Int, NEW n \in Int
  PROVE  Divides(d, Magnitude(n)) <=> Divides(d, n)
<1>1. ASSUME NEW a \in Int, NEW b \in Int, b = -a, Divides(d, a) PROVE Divides(d, b)
  <2>1. PICK q \in Int : a = q * d
    BY <1>1 DEF Divides
  <2>2. -q \in Int /\ (-q) * d = -(q * d)
    OBVIOUS
  <2>3. b = (-q) * d
    BY <1>1, <2>1, <2>2
  <2> QED
    BY <2>2, <2>3 DEF Divides
<1>2. CASE n >= 0
  <2>1. Magnitude(n) = n
    BY <1>2 DEF Magnitude
  <2> QED
    BY <2>1
<1>3. CASE n < 0
  <2> DEFINE m == -n
  <2>1. Magnitude(n) = m /\ m \in Int /\ n = -m
    BY <1>3 DEF Magnitude
  <2> HIDE DEF m
  <2>2. m = -n
    BY DEF m
  <2> QED
    BY <1>1, <2>1, <2>2
<1> QED
  BY <1>2, <1>3

(* A common divisor of two numbers divides what Euclid gives.              *)
LEMMA EuclidIsGreatest ==
  ASSUME NEW a \in Nat, NEW b \in Nat, NEW d \in Int, Divides(d, a), Divides(d, b)
  PROVE  Divides(d, Euclid[<<a, b>>])
<1>1. PICK s \in Int, t \in Int : Euclid[<<a, b>>] = s * a + t * b
  BY EuclidIsCombination
<1>2. PICK p \in Int : a = p * d
  BY DEF Divides
<1>3. PICK q \in Int : b = q * d
  BY DEF Divides
<1> DEFINE r == s * p + t * q
<1>4. r \in Int /\ s * a + t * b = r * d
  <2>1. s * (p * d) + t * (q * d) = (s * p + t * q) * d
    OBVIOUS
  <2> QED
    BY <1>2, <1>3, <2>1
<1> HIDE DEF r
<1> QED
  BY <1>1, <1>4 DEF Divides

(* The divisor of the numbers in use divides each, and each of their       *)
(* common divisors divides it.                                             *)
LEMMA GreatestDivisorIs ==
  ASSUME NEW n \in Nat, NEW numerators \in Seq(Int), Len(numerators) = n,
         NEW used, used \subseteq 1..n, used # {}, \A i \in used : numerators[i] # 0
  PROVE  LET g == GreatestDivisor(numerators, used) IN
         /\ g \in Nat \ {0}
         /\ \A i \in used : Divides(g, numerators[i])
         /\ \A d \in Int : (\A i \in used : Divides(d, numerators[i])) => Divides(d, g)
<1> DEFINE next == [p \in Nat \X used |-> CommonDivisor(p[1], numerators[p[2]])]
           Next(g) == [k \in Nat |-> IF k = 0 THEN 0
                                     ELSE IF k \in used THEN CommonDivisor(g[k - 1], numerators[k])
                                     ELSE g[k - 1]]
           acc == CHOOSE g : g = Next(g)
<1>1. \A k \in used : k \in Nat /\ k # 0 /\ k <= n /\ numerators[k] \in Int
  <2>1. DOMAIN numerators = 1..n /\ \A k \in 1..n : numerators[k] \in Int
    OBVIOUS
  <2>2. \A k \in 1..n : k \in Nat /\ k # 0 /\ k <= n
    OBVIOUS
  <2> QED
    BY <2>1, <2>2
<1>2. ASSUME NEW a \in Nat, NEW k \in used
      PROVE  /\ CommonDivisor(a, numerators[k]) = Euclid[<<a, Magnitude(numerators[k])>>]
             /\ Magnitude(numerators[k]) \in Nat /\ Magnitude(numerators[k]) # 0
             /\ CommonDivisor(a, numerators[k]) \in Nat \ {0}
             /\ next[<<a, k>>] = CommonDivisor(a, numerators[k])
  <2>1. Magnitude(a) = a
    BY DEF Magnitude
  <2>2. numerators[k] \in Int /\ numerators[k] # 0
    BY <1>1
  <2> DEFINE m == Magnitude(numerators[k])
  <2>3. m \in Nat /\ m # 0
    BY <2>2 DEF Magnitude
  <2>4. CommonDivisor(a, numerators[k]) = Euclid[<<a, m>>]
    BY <2>1 DEF CommonDivisor
  <2>5. next[<<a, k>>] = CommonDivisor(a, numerators[k])
    OBVIOUS
  <2> HIDE DEF m
  <2>6. Euclid[<<a, m>>] \in Nat \ {0}
    BY <2>3, EuclidDivides
  <2> QED
    BY <2>3, <2>4, <2>5, <2>6 DEF m
<1> HIDE DEF next
<1>3. PICK f \in [Nat -> Nat] : Combines(f, 0, used, next)
  <2>1. \A a \in Nat, k \in used : next[<<a, k>>] \in Nat
    BY <1>2
  <2>2. 0 \in Nat
    OBVIOUS
  <2> QED
    BY <2>1, <2>2, CombinationExists
<1>4. f = Next(f)
  <2>1. ASSUME NEW k \in Nat, k # 0, k \in used
        PROVE  next[<<f[k - 1], k>>] = CommonDivisor(f[k - 1], numerators[k])
    <3>1. f[k - 1] \in Nat
      <4>1. k - 1 \in Nat
        BY <2>1
      <4> QED
        BY <4>1
    <3> QED
      BY <1>2, <2>1, <3>1
  <2> QED
    BY <1>3, <2>1 DEF Combines
<1>5. acc = Next(acc)
  <2> HIDE DEF Next
  <2> QED
    BY <1>4
<1>6. GreatestDivisor(numerators, used) = acc[n]
  BY DEF GreatestDivisor
<1> HIDE DEF acc
<1> DEFINE Common(d, k) == \A i \in used : i <= k => Divides(d, numerators[i])
           S == {k \in Nat : /\ acc[k] \in Nat
                             /\ acc[k] = 0 => \A i \in used : ~(i <= k)
                             /\ Common(acc[k], k)
                             /\ \A d \in Int : Common(d, k) => Divides(d, acc[k])}
<1>7. 0 \in S
  <2>1. acc[0] = 0
    BY <1>5
  <2>2. \A i \in used : ~(i <= 0)
    BY <1>1
  <2>3. \A d \in Int : Divides(d, 0)
    <3>1. \A d \in Int : 0 = 0 * d
      OBVIOUS
    <3>2. 0 \in Int
      OBVIOUS
    <3> QED
      BY <3>1, <3>2, Zenon DEF Divides
  <2> QED
    BY <2>1, <2>2, <2>3
<1>8. ASSUME NEW k \in Nat, k \in S PROVE k + 1 \in S
  <2>1. k + 1 \in Nat /\ k + 1 # 0 /\ (k + 1) - 1 = k
    OBVIOUS
  <2>2. acc[k + 1] = IF k + 1 \in used THEN CommonDivisor(acc[k], numerators[k + 1]) ELSE acc[k]
    BY <1>5, <2>1
  <2>3. /\ acc[k] \in Nat /\ (acc[k] = 0 => \A i \in used : ~(i <= k)) /\ Common(acc[k], k)
        /\ \A d \in Int : Common(d, k) => Divides(d, acc[k])
    BY <1>8
  <2>4. \A i \in used : i \in Nat /\ (i <= k + 1 <=> i <= k \/ i = k + 1)
    <3>1. \A i \in Nat : i <= k + 1 <=> i <= k \/ i = k + 1
      OBVIOUS
    <3>2. \A i \in used : i \in Nat
      BY <1>1
    <3> QED
      BY <3>1, <3>2
  <2>5. CASE k + 1 \notin used
    <3>1. acc[k + 1] = acc[k]
      BY <2>2, <2>5
    <3>2. \A i \in used : i <= k + 1 <=> i <= k
      BY <2>4, <2>5
    <3> QED
      BY <2>1, <2>3, <3>1, <3>2
  <2>6. CASE k + 1 \in used
    <3> DEFINE x == numerators[k + 1]
               m == Magnitude(x)
               e == Euclid[<<acc[k], m>>]
    <3>1. x \in Int /\ m \in Nat /\ m # 0 /\ acc[k + 1] = e /\ e \in Nat \ {0}
      BY <1>1, <1>2, <2>2, <2>3, <2>6
    <3>2. Divides(e, acc[k]) /\ Divides(e, m)
      BY <2>3, <3>1, EuclidDivides
    <3>3. ASSUME NEW d \in Int, Divides(d, acc[k]), Divides(d, m) PROVE Divides(d, e)
      BY <2>3, <3>1, <3>3, EuclidIsGreatest
    <3>4. \A d \in Int : Divides(d, m) <=> Divides(d, x)
      BY <3>1, DividesMagnitude
    <3> HIDE DEF x, m, e
    <3>5. Common(e, k + 1)
      <4> SUFFICES ASSUME NEW i \in used, i <= k + 1 PROVE Divides(e, numerators[i])
        OBVIOUS
      <4>1. CASE i = k + 1
        BY <3>1, <3>2, <3>4, <4>1 DEF x
      <4>2. CASE i <= k
        <5>1. Divides(acc[k], numerators[i])
          BY <2>3, <4>2
        <5>2. numerators[i] \in Int
          BY <1>1
        <5>3. acc[k] \in Nat /\ e \in Nat
          BY <2>3, <3>1
        <5>4. \A y \in Nat : y \in Int
          OBVIOUS
        <5> QED
          BY <3>2, <5>1, <5>2, <5>3, <5>4, DividesTransitive
      <4> QED
        BY <2>4, <4>1, <4>2
    <3>6. ASSUME NEW d \in Int, Common(d, k + 1) PROVE Divides(d, e)
      <4>1. Common(d, k)
        BY <2>4, <3>6
      <4>2. Divides(d, acc[k])
        BY <2>3, <4>1
      <4>3. Divides(d, x)
        BY <2>4, <2>6, <3>6 DEF x
      <4> QED
        BY <3>3, <3>4, <4>2, <4>3
    <3> HIDE DEF Common
    <3> QED
      BY <2>1, <3>1, <3>5, <3>6
  <2> QED
    BY <2>5, <2>6
<1>9. \A k \in Nat : k \in S
  <2> HIDE DEF S
  <2> QED
    BY <1>7, <1>8, SetInduction
<1>10. n \in S
  BY <1>9
<1>11. acc[n] # 0
  <2>1. PICK i \in used : TRUE
    OBVIOUS
  <2>2. i <= n
    BY <1>1
  <2> QED
    BY <1>10, <2>2
<1>12. \A i \in used : i <= n
  BY <1>1
<1>13. /\ acc[n] \in Nat /\ Common(acc[n], n)
       /\ \A d \in Int : Common(d, n) => Divides(d, acc[n])
  BY <1>10
<1> QED
  BY <1>6, <1>11, <1>12, <1>13

--------------------------------------------------------------------------------
(* Normal forms.                                                           *)

(* Entry i was within epsilon of zero, as it was or beside another one.    *)
Lost(i) == \E j \in DOMAIN origin :
             \/ ~Below(eps, AbsoluteValue(origin[i]))
             \/ ~Below(Times(eps, AbsoluteValue(origin[j])), AbsoluteValue(origin[i]))

(* A positive multiple of what the client had, without what was lost.      *)
OnLine(v) ==
  /\ v \in [DOMAIN origin -> Rat]
  /\ \E c \in Positives : \A i \in DOMAIN origin : v[i] = Times(c, origin[i]) \/ v[i] = Zero
  /\ \A i \in DOMAIN origin : v[i] = Zero => Lost(i)

HasOne(v) == \E i \in DOMAIN v : AbsoluteValue(v[i]) = One

Normal(v) ==
  /\ \E i \in DOMAIN v : v[i] # Zero
  /\ normalizer = "Max" => HasOne(v) /\ \A i \in DOMAIN v : ~Below(One, AbsoluteValue(v[i]))
  /\ normalizer = "Min" =>
       /\ HasOne(v)
       /\ eps = Zero => \A i \in DOMAIN v : v[i] # Zero => ~Below(AbsoluteValue(v[i]), One)
  /\ normalizer = "Gcd" =>
       /\ \A i \in DOMAIN v : IsInteger(v[i])
       /\ \A k \in Nat : k >= 2 => \E i \in DOMAIN v : ~Divides(k, v[i][1])
  /\ normalizer = "No" => v = origin /\ \E i \in DOMAIN v : ~IsZero(v[i])

(* The same vector, or one with a zero wherever it has one.                *)
Follows(s, v, reply) ==
  /\ DOMAIN s = DOMAIN origin
  /\ form = "same" => s = v /\ reply # "panicked"
  /\ reply # "panicked" => \A i \in DOMAIN origin : v[i] = Zero => s[i] = Zero

NormType ==
  /\ normalizer \in Kinds
  /\ form \in {"same"} \cup Others
  /\ eps \in Rat /\ ~Below(eps, Zero) /\ Below(eps, One)
  /\ origin \in Seq(Rat)

NormInv ==
  /\ NormType
  /\ OnLine(vector) /\ Follows(shadow, vector, kept)
  /\ kept \in {"unasked", "kept", "zero", "panicked"}
  /\ kept = "unasked" => vector = origin
  /\ kept = "zero" => \A i \in DOMAIN vector : vector[i] = Zero
  /\ kept = "kept" => Normal(vector)

(* What a call may return.                                                 *)
Sound(result) ==
  /\ OnLine(result.vector) /\ Follows(result.shadow, result.vector, result.kept)
  /\ \/ result.kept = "zero" /\ \A i \in DOMAIN result.vector : result.vector[i] = Zero
     \/ result.kept = "kept" /\ Normal(result.vector)
     \/ result.kept = "panicked"

LEMMA IsZeroIs ==
  ASSUME NormType, NEW x \in Rat
  PROVE  IsZero(x) <=> ~Below(eps, AbsoluteValue(x))
<1> DEFINE a == x[1]
           b == x[2]
           p == eps[1]
           q == eps[2]
<1>1. a \in Int /\ b \in Nat \ {0} /\ p \in Int /\ q \in Nat \ {0}
  BY RatType DEF NormType
<1>2. p >= 0
  <2>1. ~(p < 0)
    BY PositiveIs DEF NormType
  <2> QED
    BY <1>1, <2>1
<1>3. Below(x, Opposite(eps)) <=> a * q < (-p) * b
  BY DEF Below, Opposite
<1>4. Below(eps, x) <=> p * b < a * q
  BY DEF Below
<1>5. Below(eps, AbsoluteValue(x)) <=> p * b < Magnitude(a) * q
  BY DEF Below, AbsoluteValue
<1> HIDE DEF a, b, p, q
<1> DEFINE u == p * b
           w == a * q
           t == (-p) * b
           s == Magnitude(a) * q
<1>6. u \in Nat /\ w \in Int /\ t = -u /\ s \in Int
  BY <1>1, <1>2 DEF Magnitude
<1>7. (a >= 0 => w >= 0 /\ s = w) /\ (a < 0 => w < 0 /\ s = -w)
  BY <1>1 DEF Magnitude
<1> HIDE DEF u, w, t, s
<1>8. (~(w < t) /\ ~(u < w)) <=> ~(u < s)
  <2>1. CASE a >= 0
    BY <1>1, <1>6, <1>7, <2>1
  <2>2. CASE a < 0
    BY <1>1, <1>6, <1>7, <2>2
  <2> QED
    BY <1>1, <2>1, <2>2
<1> QED
  BY <1>3, <1>4, <1>5, <1>8 DEF IsZero, u, w, t, s

(* Every epsilon takes zero for zero, and every type has it.               *)
LEMMA ZeroStays ==
  ASSUME NormType
  PROVE  IsZero(Zero) /\ Convert(Zero) = Zero
<1>1. AbsoluteValue(Zero) = Zero
  BY DEF AbsoluteValue, Magnitude, Zero
<1>2. IsZero(Zero)
  BY <1>1, IsZeroIs, ConstantsAreRat DEF NormType
<1>3. Convert(Zero) = Zero
  BY NormalizersAssumption DEF NormType, Convert
<1> QED
  BY <1>2, <1>3

(* What epsilon does not take for zero is not zero.                        *)
LEMMA AboveEpsilon ==
  ASSUME NormType, NEW x \in Rat, Below(eps, x)
  PROVE  x \in Positives /\ AbsoluteValue(x) = x /\ x # Zero
<1>1. Below(Zero, x)
  BY NotBelowTransitive, ConstantsAreRat DEF NormType
<1>2. ~Below(x, Zero) /\ x # Zero
  BY <1>1, BelowAsymmetric, ConstantsAreRat
<1> QED
  BY <1>1, <1>2, AbsoluteType DEF Positives

LEMMA VectorIs ==
  ASSUME NormInv
  PROVE  /\ DOMAIN vector = DOMAIN origin /\ DOMAIN origin = 1 .. Len(origin)
         /\ Len(origin) \in Nat /\ vector \in Seq(Rat) /\ Len(vector) = Len(origin)
         /\ \A i \in DOMAIN origin : /\ vector[i] \in Rat /\ origin[i] \in Rat
                                     /\ AbsoluteValue(vector[i]) \in Rat
<1>1. origin \in Seq(Rat) /\ vector \in [DOMAIN origin -> Rat]
  BY DEF NormInv, NormType, OnLine
<1>2. /\ Len(origin) \in Nat /\ origin \in [1 .. Len(origin) -> Rat]
      /\ DOMAIN origin = 1 .. Len(origin)
  BY <1>1, LenProperties
<1>3. vector \in Seq(Rat)
  BY <1>1, <1>2, SeqDef
<1>4. Len(vector) = Len(origin)
  BY <1>1, <1>2, <1>3, LenProperties
<1>5. \A i \in DOMAIN origin : vector[i] \in Rat /\ origin[i] \in Rat
  BY <1>1, <1>2
<1>6. \A i \in DOMAIN origin : AbsoluteValue(vector[i]) \in Rat
  BY <1>5, AbsoluteType
<1>7. DOMAIN vector = DOMAIN origin
  BY <1>1
<1> QED
  BY <1>2, <1>3, <1>4, <1>5, <1>6, <1>7

(* Nothing is left of a vector of which nothing is far from zero.          *)
LEMMA AllZeroSound ==
  ASSUME NormInv, \A i \in DOMAIN origin : Lost(i)
  PROVE  Sound(AllZero)
<1>1. DOMAIN vector = DOMAIN origin /\ DOMAIN shadow = DOMAIN origin
  BY VectorIs DEF NormInv, Follows
<1>2. AllZero.vector = [i \in DOMAIN origin |-> Zero] /\ AllZero.shadow = AllZero.vector
  BY <1>1 DEF AllZero, Result, Zeroes
<1>3. AllZero.kept = "zero"
  BY DEF AllZero, Result
<1>4. Zero \in Rat /\ One \in Positives
  <2>1. Below(Zero, One)
    BY DEF Below, Zero, One
  <2> QED
    BY <2>1, ConstantsAreRat DEF Positives
<1>5. OnLine([i \in DOMAIN origin |-> Zero])
  BY <1>4 DEF OnLine
<1>6. Follows(AllZero.shadow, AllZero.vector, AllZero.kept)
  BY <1>2, <1>3 DEF Follows
<1> QED
  BY <1>2, <1>3, <1>5, <1>6 DEF Sound

LEMMA SomeLost ==
  ASSUME NormInv, NEW i \in DOMAIN origin, IsZero(origin[i])
  PROVE  Lost(i)
<1>1. origin[i] \in Rat
  BY VectorIs
<1>2. ~Below(eps, AbsoluteValue(origin[i]))
  BY <1>1, IsZeroIs DEF NormInv
<1> QED
  BY <1>2 DEF Lost

LEMMA CandidatesAre ==
  ASSUME NormInv, NEW i \in DOMAIN origin
  PROVE  /\ IsZero(AbsoluteValue(vector[i])) <=> ~Below(eps, AbsoluteValue(vector[i]))
         /\ IsZero(vector[i]) <=> ~Below(eps, AbsoluteValue(vector[i]))
<1>1. vector[i] \in Rat /\ AbsoluteValue(vector[i]) \in Rat /\ NormType
  BY VectorIs DEF NormInv
<1>2. AbsoluteValue(AbsoluteValue(vector[i])) = AbsoluteValue(vector[i])
  BY <1>1, AbsoluteType
<1> QED
  BY <1>1, <1>2, IsZeroIs

LEMMA NoCandidates ==
  ASSUME NormInv, kept # "panicked", normalizer \in {"Max", "Min"}, Candidates = {}
  PROVE  Sound(AllZero)
<1>1. DOMAIN vector = DOMAIN origin
  BY VectorIs
<1>2. \A i \in DOMAIN origin : ~Below(eps, AbsoluteValue(vector[i]))
  BY <1>1, CandidatesAre DEF Candidates
<1>3. kept # "kept"
  <2> SUFFICES ASSUME kept = "kept" PROVE FALSE
    OBVIOUS
  <2>1. HasOne(vector)
    BY DEF NormInv, Normal
  <2>2. Below(eps, One)
    BY DEF NormInv, NormType
  <2> QED
    BY <1>1, <1>2, <2>1, <2>2 DEF HasOne
<1>4. ASSUME NEW i \in DOMAIN origin PROVE Lost(i)
  <2>1. CASE kept = "unasked"
    BY <1>2, <2>1 DEF NormInv, Lost
  <2>2. CASE kept = "zero"
    BY <1>1, <2>2 DEF NormInv, OnLine
  <2> QED
    BY <1>3, <2>1, <2>2 DEF NormInv
<1> QED
  BY <1>4, AllZeroSound

(* A vector divided by the size of an entry that is far from zero.         *)
LEMMA DividedIs ==
  ASSUME NormInv, NEW k \in DOMAIN origin, Below(eps, AbsoluteValue(vector[k]))
  PROVE  LET m == AbsoluteValue(vector[k])
             w == Divided(m).vector
         IN /\ Divided(m).kept \in {"kept", "panicked"}
            /\ Follows(Divided(m).shadow, w, Divided(m).kept)
            /\ OnLine(w) /\ AbsoluteValue(w[k]) = One /\ w[k] # Zero
            /\ \E r \in Positives :
                 /\ Times(r, m) = One
                 /\ \A i \in DOMAIN origin : w[i] = Times(r, vector[i]) \/ w[i] = Zero
<1> DEFINE m == AbsoluteValue(vector[k])
           w == Divided(m).vector
           d == [i \in DOMAIN vector |-> Over(vector[i], m)]
<1>1. /\ DOMAIN vector = DOMAIN origin /\ DOMAIN shadow = DOMAIN origin /\ NormType
      /\ form = "same" => shadow = vector
      /\ \A i \in DOMAIN origin : vector[i] \in Rat /\ origin[i] \in Rat
  BY VectorIs DEF NormInv, Follows
<1>2. m \in Rat /\ m \in Positives /\ m # Zero
  BY <1>1, VectorIs, AboveEpsilon
<1> DEFINE beside == [i \in DOMAIN shadow |-> Quotient(shadow[i], Convert(m))]
           Keep(x) == [i \in DOMAIN x |-> IF IsZero(d[i]) THEN Zero ELSE x[i]]
<1>3. /\ Fails(m) => Divided(m) = [vector |-> d, shadow |-> shadow, kept |-> "panicked"]
      /\ ~Fails(m) => Divided(m) = [vector |-> Keep(d), shadow |-> Keep(beside), kept |-> "kept"]
  BY DEF Divided, Result
<1>4. Divided(m).kept \in {"kept", "panicked"} /\ DOMAIN w = DOMAIN origin
  BY <1>1, <1>3
<1>5. \A i \in DOMAIN origin : w[i] = d[i] \/ (IsZero(d[i]) /\ w[i] = Zero)
  BY <1>1, <1>3
<1>6. Follows(Divided(m).shadow, w, Divided(m).kept)
  <2>1. CASE Fails(m)
    BY <1>1, <1>3, <2>1 DEF Follows, Fails
  <2>2. CASE ~Fails(m)
    <3> HIDE DEF m
    <3>1. /\ w = [i \in DOMAIN origin |-> IF IsZero(d[i]) THEN Zero ELSE d[i]]
          /\ Divided(m).shadow = [i \in DOMAIN origin |-> IF IsZero(d[i]) THEN Zero ELSE beside[i]]
      BY <1>1, <1>3, <2>2
    <3>2. ASSUME form = "same" PROVE beside = d
      BY <1>1, <3>2 DEF Quotient, Convert
    <3> HIDE DEF d, beside, w
    <3>3. form = "same" => Divided(m).shadow = w
      BY <3>1, <3>2
    <3>4. \A i \in DOMAIN origin : w[i] = Zero => Divided(m).shadow[i] = Zero
      BY <1>1, <3>1, ZeroStays
    <3>5. Divided(m).kept = "kept" /\ DOMAIN Divided(m).shadow = DOMAIN origin
      BY <1>3, <2>2, <3>1
    <3> QED
      BY <3>3, <3>4, <3>5 DEF Follows
  <2> QED
    BY <2>1, <2>2
<1> HIDE DEF beside, Keep
<1>7. vector[k] # Zero
  BY <1>1, <1>2, AbsoluteType
<1> HIDE DEF m
<1>8. PICK r \in Positives : Times(r, m) = One /\ \A x \in Rat : Over(x, m) = Times(r, x)
  BY <1>2, OverIs
<1>9. \A i \in DOMAIN origin :
        /\ d[i] = Times(r, vector[i]) /\ d[i] \in Rat
        /\ AbsoluteValue(d[i]) = Times(r, AbsoluteValue(vector[i]))
        /\ d[i] = Zero <=> vector[i] = Zero
  BY <1>1, <1>8, TimesKeeps, AbsoluteTimes
<1>10. w \in [DOMAIN origin -> Rat]
  <2>1. \A i \in DOMAIN origin : w[i] \in Rat
    BY <1>9, <1>5, ConstantsAreRat
  <2>2. w = [i \in DOMAIN origin |-> w[i]]
    BY <1>1, <1>3 DEF Keep
  <2> HIDE DEF w
  <2> QED
    BY <2>1, <2>2
<1> HIDE DEF w, d
<1>11. AbsoluteValue(d[k]) = One
  BY <1>8, <1>9 DEF m
<1>12. ~IsZero(d[k])
  BY <1>1, <1>9, <1>11, IsZeroIs DEF NormType
<1>13. AbsoluteValue(w[k]) = One /\ w[k] # Zero
  BY <1>7, <1>9, <1>5, <1>11, <1>12
<1>14. PICK c \in Positives :
         \A i \in DOMAIN origin : vector[i] = Times(c, origin[i]) \/ vector[i] = Zero
  BY DEF NormInv, OnLine
<1> DEFINE e == Times(r, c)
<1>15. e \in Positives
  BY <1>8, <1>14, TimesKeeps DEF Positives
<1>16. \A i \in DOMAIN origin : vector[i] = Zero \/ d[i] = Times(e, origin[i])
  <2>1. r \in Rat /\ c \in Rat
    BY DEF Positives
  <2>2. ASSUME NEW i \in DOMAIN origin, vector[i] # Zero PROVE d[i] = Times(e, origin[i])
    <3>1. d[i] = Times(r, Times(c, origin[i]))
      BY <1>9, <1>14, <2>2
    <3> QED
      BY <1>1, <2>1, <3>1, ProductsAssociate
  <2> QED
    BY <2>2
<1> HIDE DEF e
<1>17. ASSUME NEW i \in DOMAIN origin, w[i] = Zero PROVE Lost(i)
  <2>1. CASE vector[i] = Zero
    BY <2>1 DEF NormInv, OnLine
  <2>2. CASE vector[i] # Zero
    <3> DEFINE x == AbsoluteValue(origin[i])
               y == AbsoluteValue(origin[k])
    <3>1. x \in Rat /\ y \in Rat /\ eps \in Rat /\ e \in Rat
      BY <1>1, <1>15, AbsoluteType DEF NormType, Positives
    <3>2. IsZero(d[i])
      BY <1>9, <1>5, <1>17, <2>2
    <3>3. ~Below(eps, AbsoluteValue(d[i]))
      BY <1>1, <1>9, <3>2, IsZeroIs
    <3>4. AbsoluteValue(d[i]) = Times(e, x) /\ Times(e, y) = One
      BY <1>1, <1>7, <1>11, <1>15, <1>16, <2>2, AbsoluteTimes
    <3> HIDE DEF x, y
    <3>5. eps = Times(e, Times(eps, y))
      <4>1. eps = Times(eps, Times(e, y))
        BY <3>1, <3>4, NeutralElements
      <4>2. Times(eps, Times(e, y)) = Times(Times(eps, e), y)
        BY <3>1, ProductsAssociate
      <4>3. Times(eps, e) = Times(e, eps)
        BY <3>1, OperationsCommute
      <4>4. Times(Times(e, eps), y) = Times(e, Times(eps, y))
        BY <3>1, ProductsAssociate
      <4> QED
        BY <4>1, <4>2, <4>3, <4>4
    <3>6. Times(eps, y) \in Rat
      BY <3>1, OperationsAreRat
    <3>7. ~Below(Times(e, Times(eps, y)), Times(e, x))
      BY <3>3, <3>4, <3>5
    <3>8. ~Below(Times(eps, y), x)
      BY <1>15, <3>1, <3>6, <3>7, BelowTimes
    <3> QED
      BY <3>8 DEF Lost, x, y
  <2> QED
    BY <2>1, <2>2
<1>18. \A i \in DOMAIN origin : w[i] = Times(e, origin[i]) \/ w[i] = Zero
  BY <1>9, <1>5, <1>16
<1>19. OnLine(w)
  BY <1>10, <1>15, <1>17, <1>18 DEF OnLine
<1>20. \A i \in DOMAIN origin : w[i] = Times(r, vector[i]) \/ w[i] = Zero
  BY <1>9, <1>5
<1> QED
  BY <1>4, <1>8, <1>13, <1>19, <1>20, <1>6 DEF w, m

(* The greatest or the least size of those that are far from zero is that  *)
(* of an entry.                                                            *)
LEMMA CandidatesEnd ==
  ASSUME NormInv, Candidates # {}
  PROVE  /\ LET m == CHOOSE m \in Candidates : \A c \in Candidates : ~Below(m, c) IN
            \E k \in DOMAIN origin :
              /\ m = AbsoluteValue(vector[k]) /\ Below(eps, m)
              /\ \A i \in DOMAIN origin : Below(eps, AbsoluteValue(vector[i])) =>
                                            ~Below(m, AbsoluteValue(vector[i]))
         /\ LET m == CHOOSE m \in Candidates : \A c \in Candidates : ~Below(c, m) IN
            \E k \in DOMAIN origin :
              /\ m = AbsoluteValue(vector[k]) /\ Below(eps, m)
              /\ \A i \in DOMAIN origin : Below(eps, AbsoluteValue(vector[i])) =>
                                            ~Below(AbsoluteValue(vector[i]), m)
<1> DEFINE J == {i \in DOMAIN origin : Below(eps, AbsoluteValue(vector[i]))}
           size == [i \in DOMAIN origin |-> AbsoluteValue(vector[i])]
<1>1. DOMAIN vector = DOMAIN origin /\ DOMAIN origin = 1 .. Len(origin) /\ Len(origin) \in Nat
  BY VectorIs
<1>2. Candidates = {size[i] : i \in J}
  BY <1>1, CandidatesAre DEF Candidates
<1>3. \A i \in J : size[i] \in Rat
  BY VectorIs
<1>4. J # {} /\ J \subseteq 1 .. Len(origin)
  BY <1>1, <1>2
<1>5. \A i \in J : size[i] = AbsoluteValue(vector[i]) /\ Below(eps, size[i]) /\ i \in DOMAIN origin
  OBVIOUS
<1>6. \A i \in DOMAIN origin : Below(eps, AbsoluteValue(vector[i])) => i \in J
  OBVIOUS
<1> HIDE DEF J, size
<1>7. /\ \E j \in J : \A i \in J : ~Below(size[j], size[i])
      /\ \E j \in J : \A i \in J : ~Below(size[i], size[j])
  BY <1>1, <1>3, <1>4, ExtremesExist
<1> DEFINE top == CHOOSE m \in Candidates : \A c \in Candidates : ~Below(m, c)
           low == CHOOSE m \in Candidates : \A c \in Candidates : ~Below(c, m)
<1>8. top \in Candidates /\ \A c \in Candidates : ~Below(top, c)
  <2>1. \E m \in Candidates : \A c \in Candidates : ~Below(m, c)
    BY <1>2, <1>7
  <2> QED
    BY <2>1
<1>9. low \in Candidates /\ \A c \in Candidates : ~Below(c, low)
  <2>1. \E m \in Candidates : \A c \in Candidates : ~Below(c, m)
    BY <1>2, <1>7
  <2> QED
    BY <2>1
<1> HIDE DEF top, low
<1>10. \E k \in DOMAIN origin :
         /\ top = AbsoluteValue(vector[k]) /\ Below(eps, top)
         /\ \A i \in DOMAIN origin : Below(eps, AbsoluteValue(vector[i])) =>
                                       ~Below(top, AbsoluteValue(vector[i]))
  BY <1>2, <1>5, <1>6, <1>8
<1>11. \E k \in DOMAIN origin :
         /\ low = AbsoluteValue(vector[k]) /\ Below(eps, low)
         /\ \A i \in DOMAIN origin : Below(eps, AbsoluteValue(vector[i])) =>
                                       ~Below(AbsoluteValue(vector[i]), low)
  BY <1>2, <1>5, <1>6, <1>9
<1> QED
  BY <1>10, <1>11 DEF top, low

LEMMA MaxSound ==
  ASSUME NormInv, kept # "panicked", normalizer = "Max"
  PROVE  Sound(MaxNormalized)
<1>1. CASE Candidates = {}
  BY <1>1, NoCandidates DEF MaxNormalized
<1>2. CASE Candidates # {}
  <2> DEFINE m == CHOOSE m \in Candidates : \A c \in Candidates : ~Below(m, c)
  <2>1. MaxNormalized = Divided(m)
    BY <1>2 DEF MaxNormalized
  <2>2. PICK k \in DOMAIN origin :
          /\ m = AbsoluteValue(vector[k]) /\ Below(eps, m)
          /\ \A i \in DOMAIN origin : Below(eps, AbsoluteValue(vector[i])) =>
                                        ~Below(m, AbsoluteValue(vector[i]))
    BY <1>2, CandidatesEnd
  <2> HIDE DEF m
  <2> DEFINE w == Divided(m).vector
  <2>3. /\ Divided(m).kept \in {"kept", "panicked"}
        /\ Follows(Divided(m).shadow, w, Divided(m).kept)
        /\ OnLine(w) /\ AbsoluteValue(w[k]) = One /\ w[k] # Zero
        /\ \E r \in Positives :
             /\ Times(r, m) = One
             /\ \A i \in DOMAIN origin : w[i] = Times(r, vector[i]) \/ w[i] = Zero
    BY <2>2, DividedIs
  <2> HIDE DEF w
  <2>4. PICK r \in Positives :
             /\ Times(r, m) = One
             /\ \A i \in DOMAIN origin : w[i] = Times(r, vector[i]) \/ w[i] = Zero
    BY <2>3
  <2>5. DOMAIN w = DOMAIN origin
    BY <2>3 DEF OnLine
  <2>6. ASSUME NEW i \in DOMAIN origin PROVE ~Below(One, AbsoluteValue(w[i]))
    <3> DEFINE x == AbsoluteValue(vector[i])
    <3>1. vector[i] \in Rat /\ x \in Rat /\ m \in Rat /\ eps \in Rat
      BY <2>2, VectorIs DEF NormInv, NormType
    <3>2. CASE w[i] = Zero
      <4>1. AbsoluteValue(Zero) = Zero /\ ~Below(One, Zero)
        BY DEF AbsoluteValue, Magnitude, Below, Zero, One
      <4> QED
        BY <3>2, <4>1
    <3>3. CASE w[i] = Times(r, vector[i])
      <4>1. AbsoluteValue(w[i]) = Times(r, x)
        BY <3>1, <3>3, AbsoluteTimes
      <4> HIDE DEF x
      <4>2. ~Below(m, x)
        <5>1. CASE Below(eps, x)
          BY <2>2, <5>1 DEF x
        <5>2. CASE ~Below(eps, x)
          <6>1. ~Below(m, eps)
            BY <2>2, <3>1, BelowAsymmetric
          <6> QED
            BY <3>1, <5>2, <6>1, NotBelowTransitive
        <5> QED
          BY <5>1, <5>2
      <4>3. ~Below(Times(r, m), Times(r, x))
        BY <3>1, <4>2, BelowTimes
      <4> QED
        BY <2>4, <4>1, <4>3
    <3> QED
      BY <2>4, <3>2, <3>3
  <2>7. Normal(w)
    BY <2>3, <2>5, <2>6 DEF Normal, HasOne
  <2> QED
    BY <2>1, <2>3, <2>7 DEF Sound, w
<1> QED
  BY <1>1, <1>2

LEMMA MinSound ==
  ASSUME NormInv, kept # "panicked", normalizer = "Min"
  PROVE  Sound(MinNormalized)
<1>1. CASE Candidates = {}
  BY <1>1, NoCandidates DEF MinNormalized
<1>2. CASE Candidates # {}
  <2> DEFINE m == CHOOSE m \in Candidates : \A c \in Candidates : ~Below(c, m)
  <2>1. MinNormalized = Divided(m)
    BY <1>2 DEF MinNormalized
  <2>2. PICK k \in DOMAIN origin :
          /\ m = AbsoluteValue(vector[k]) /\ Below(eps, m)
          /\ \A i \in DOMAIN origin : Below(eps, AbsoluteValue(vector[i])) =>
                                        ~Below(AbsoluteValue(vector[i]), m)
    BY <1>2, CandidatesEnd
  <2> HIDE DEF m
  <2> DEFINE w == Divided(m).vector
  <2>3. /\ Divided(m).kept \in {"kept", "panicked"}
        /\ Follows(Divided(m).shadow, w, Divided(m).kept)
        /\ OnLine(w) /\ AbsoluteValue(w[k]) = One /\ w[k] # Zero
        /\ \E r \in Positives :
             /\ Times(r, m) = One
             /\ \A i \in DOMAIN origin : w[i] = Times(r, vector[i]) \/ w[i] = Zero
    BY <2>2, DividedIs
  <2> HIDE DEF w
  <2>4. PICK r \in Positives :
             /\ Times(r, m) = One
             /\ \A i \in DOMAIN origin : w[i] = Times(r, vector[i]) \/ w[i] = Zero
    BY <2>3
  <2>5. DOMAIN w = DOMAIN origin
    BY <2>3 DEF OnLine
  <2>6. ASSUME NEW i \in DOMAIN origin, w[i] # Zero, eps = Zero
        PROVE  ~Below(AbsoluteValue(w[i]), One)
    <3> DEFINE x == AbsoluteValue(vector[i])
    <3>1. vector[i] \in Rat /\ x \in Rat /\ m \in Rat
      BY <2>2, VectorIs
    <3>2. w[i] = Times(r, vector[i])
      BY <2>4, <2>6
    <3>3. vector[i] # Zero
      BY <2>6, <3>1, <3>2, TimesKeeps
    <3>4. Below(eps, x)
      BY <2>6, <3>1, <3>3, AbsoluteType, BelowAsymmetric, ConstantsAreRat
    <3>5. AbsoluteValue(w[i]) = Times(r, x)
      BY <3>1, <3>2, AbsoluteTimes
    <3>6. ~Below(x, m)
      BY <2>2, <3>4
    <3> HIDE DEF x
    <3>7. ~Below(Times(r, x), Times(r, m))
      BY <3>1, <3>6, BelowTimes
    <3> QED
      BY <2>4, <3>5, <3>7
  <2>7. Normal(w)
    BY <2>3, <2>5, <2>6 DEF Normal, HasOne
  <2> QED
    BY <2>1, <2>3, <2>7 DEF Sound, w
<1> QED
  BY <1>1, <1>2

LEMMA NoSound ==
  ASSUME NormInv, kept # "panicked", normalizer = "No"
  PROVE  Sound(NotNormalized)
<1>1. DOMAIN vector = DOMAIN origin /\ OnLine(vector) /\ NormType
  BY VectorIs DEF NormInv
<1>2. CASE \A i \in DOMAIN vector : IsZero(vector[i])
  <2>1. kept # "kept"
    BY <1>2 DEF NormInv, Normal
  <2>2. ASSUME NEW i \in DOMAIN origin PROVE Lost(i)
    <3>1. CASE kept = "unasked"
      BY <1>1, <1>2, <3>1, SomeLost DEF NormInv
    <3>2. CASE kept = "zero"
      BY <1>1, <3>2 DEF NormInv, OnLine
    <3> QED
      BY <2>1, <3>1, <3>2 DEF NormInv
  <2> QED
    BY <1>2, <2>2, AllZeroSound DEF NotNormalized
<1>3. CASE \E i \in DOMAIN vector : ~IsZero(vector[i])
  <2>1. PICK i \in DOMAIN vector : ~IsZero(vector[i])
    BY <1>3
  <2>2. vector[i] # Zero
    BY <1>1, <2>1, ZeroStays
  <2>3. vector = origin
    BY <1>1, <2>2 DEF NormInv, Normal
  <2>4. Normal(vector)
    BY <2>1, <2>2, <2>3 DEF Normal
  <2>5. Follows(shadow, vector, "kept")
    BY DEF NormInv, Follows
  <2> QED
    BY <1>1, <1>3, <2>4, <2>5 DEF NotNormalized, Result, Sound
<1> QED
  BY <1>2, <1>3

(* The numerators are those of the vector, times one number.               *)
LEMMA NumeratorsAre ==
  ASSUME NEW n \in Nat, NEW v \in Seq(Rat), Len(v) = n
  PROVE  /\ Numerators(v) \in Seq(Int) /\ Len(Numerators(v)) = n
         /\ \E m \in Nat \ {0} : \A i \in Used(v) : Numerators(v)[i] * v[i][2] = v[i][1] * m
<1>1. DOMAIN v = 1..n /\ \A i \in 1..n : v[i] \in Rat
  BY LenProperties
<1>2. \A i \in 1..n : v[i][1] \in Int /\ v[i][2] \in Nat \ {0}
  BY <1>1, RatType
<1> DEFINE N == Numerators(v)
<1>3. ASSUME N \in [1..n -> Int] PROVE N \in Seq(Int) /\ Len(N) = n
  <2> HIDE DEF N
  <2>1. N \in Seq(Int)
    BY <1>3, SeqDef
  <2>2. DOMAIN N = 1 .. Len(N) /\ Len(N) \in Nat
    BY <2>1, LenProperties
  <2>3. DOMAIN N = 1..n
    BY <1>3
  <2>4. Len(N) = n
    <3> DEFINE l == Len(N)
    <3>1. l \in Nat /\ 1..l = 1..n
      BY <2>2, <2>3
    <3> HIDE DEF l
    <3>2. l = n
      <4>1. \A a, b \in Nat : a < b => b \in 1..b /\ b \notin 1..a
        OBVIOUS
      <4> QED
        BY <3>1, <4>1
    <3> QED
      BY <3>2 DEF l
  <2> QED
    BY <2>1, <2>4
<1>4. CASE \A i \in DOMAIN v : IsInteger(v[i])
  <2>1. N = [i \in 1..n |-> v[i][1]]
    BY <1>1, <1>4 DEF Numerators
  <2>2. N \in [1..n -> Int]
    BY <1>2, <2>1
  <2>3. \A i \in 1..n : v[i][2] = 1
    BY <1>1, <1>4 DEF IsInteger
  <2>4. \A i \in Used(v) : N[i] * v[i][2] = v[i][1] * 1
    BY <1>1, <1>2, <2>1, <2>3 DEF Used
  <2>5. 1 \in Nat \ {0}
    OBVIOUS
  <2> HIDE DEF N
  <2> QED
    BY <1>3, <2>2, <2>4, <2>5 DEF N
<1>5. CASE ~(\A i \in DOMAIN v : IsInteger(v[i]))
  <2> DEFINE l == LeastDenominator(v)
  <2>1. l \in Nat \ {0} /\ \A i \in Used(v) : Divides(v[i][2], l)
    BY LeastDenominatorIs
  <2>2. N = [i \in 1..n |-> v[i][1] * (l \div v[i][2])]
    BY <1>1, <1>5 DEF Numerators
  <2> HIDE DEF l
  <2>3. ASSUME NEW i \in 1..n PROVE v[i][1] * (l \div v[i][2]) \in Int
    BY <1>2, <2>1
  <2>4. N \in [1..n -> Int]
    BY <2>2, <2>3
  <2>5. ASSUME NEW i \in Used(v) PROVE N[i] * v[i][2] = v[i][1] * l
    <3> DEFINE a == v[i][1]
               b == v[i][2]
    <3>1. i \in 1..n /\ a \in Int /\ b \in Nat \ {0} /\ Divides(b, l)
      BY <1>1, <1>2, <2>1 DEF Used
    <3>2. N[i] = a * (l \div b)
      BY <2>2, <3>1
    <3> HIDE DEF a, b
    <3>3. PICK q \in Int : l = q * b
      BY <3>1 DEF Divides
    <3>4. l \div b = q
      BY <3>1, <3>3
    <3>5. (a * q) * b = a * (q * b)
      BY <3>1
    <3>6. N[i] * b = a * l
      BY <3>2, <3>3, <3>4, <3>5
    <3> QED
      BY <3>6 DEF a, b
  <2> HIDE DEF N
  <2> QED
    BY <1>3, <2>1, <2>4, <2>5 DEF N
<1> QED
  BY <1>4, <1>5

(* A vector over the greatest common divisor of its numerators.            *)
LEMMA CoprimeVectorIs ==
  ASSUME NEW n \in Nat, NEW v \in Seq(Rat), Len(v) = n, Used(v) # {}
  PROVE  LET w == Coprime(v) IN
         /\ w \in [1..n -> Rat] /\ \A i \in 1..n : IsInteger(w[i])
         /\ \E h \in Positives : \A i \in 1..n : w[i] = Times(h, v[i])
         /\ \A k \in Nat : k >= 2 => \E i \in 1..n : ~Divides(k, w[i][1])
<1> DEFINE N == Numerators(v)
           g == GreatestDivisor(N, Used(v))
           w == Coprime(v)
<1>1. DOMAIN v = 1..n /\ \A i \in 1..n : v[i] \in Rat
  BY LenProperties
<1>2. \A i \in 1..n : v[i][1] \in Int /\ v[i][2] \in Nat \ {0}
  BY <1>1, RatType
<1>3. Used(v) \subseteq 1..n /\ \A i \in 1..n : i \in Used(v) <=> v[i] # Zero
  BY <1>1 DEF Used
<1>4. N \in Seq(Int) /\ Len(N) = n
  BY NumeratorsAre
<1>5. PICK m \in Nat \ {0} : \A i \in Used(v) : N[i] * v[i][2] = v[i][1] * m
  BY NumeratorsAre
<1>6. w = [i \in 1..n |-> IF i \in Used(v) THEN FromFrac(N[i] \div g, 1) ELSE Zero]
  BY <1>1 DEF Coprime
<1> HIDE DEF N
<1>7. \A i \in 1..n : N[i] \in Int
  BY <1>4, LenProperties
<1>8. ASSUME NEW i \in Used(v) PROVE N[i] # 0
  <2> DEFINE a == v[i][1]
             b == v[i][2]
             e == N[i]
  <2>1. a \in Int /\ a # 0 /\ b \in Nat \ {0} /\ e \in Int /\ e * b = a * m
    BY <1>1, <1>2, <1>3, <1>5, <1>7, PositiveIs
  <2> HIDE DEF a, b, e
  <2>2. SUFFICES ASSUME e = 0 PROVE FALSE
    BY DEF e
  <2>3. a * m = 0
    BY <2>1, <2>2
  <2>4. a * m # 0
    BY <2>1
  <2> QED
    BY <2>3, <2>4
<1>9. /\ g \in Nat \ {0}
      /\ \A i \in Used(v) : Divides(g, N[i])
      /\ \A d \in Int : (\A i \in Used(v) : Divides(d, N[i])) => Divides(d, g)
  BY <1>3, <1>4, <1>8, GreatestDivisorIs
<1> HIDE DEF g
<1>10. ASSUME NEW i \in Used(v)
       PROVE  \E q \in Int : N[i] = q * g /\ w[i] = <<q, 1>>
  <2>1. PICK q \in Int : N[i] = q * g
    BY <1>9 DEF Divides
  <2>2. N[i] \div g = q
    BY <1>9, <2>1
  <2>3. Is(<<q, 1>>, q, 1) /\ 1 \in Int /\ 1 # 0
    BY ConstantsAreRat DEF Is
  <2>4. FromFrac(q, 1) = <<q, 1>>
    BY <2>3, FromFracEqual
  <2> QED
    BY <1>3, <1>6, <2>1, <2>2, <2>4
<1>11. \A i \in 1..n : i \notin Used(v) => w[i] = <<0, 1>> /\ v[i] = Zero
  BY <1>3, <1>6 DEF Zero
<1>12. \A i \in 1..n : w[i] \in Rat /\ IsInteger(w[i])
  <2>1. \A q \in Int : <<q, 1>> \in Rat /\ IsInteger(<<q, 1>>)
    BY ConstantsAreRat DEF IsInteger
  <2>2. 0 \in Int
    OBVIOUS
  <2> QED
    BY <1>10, <1>11, <2>1, <2>2
<1>13. w \in [1..n -> Rat]
  <2>1. DOMAIN w = 1..n /\ w = [i \in 1..n |-> w[i]]
    BY <1>6
  <2> HIDE DEF w
  <2> QED
    BY <1>12, <2>1
<1> HIDE DEF w
<1> DEFINE h == FromFrac(m, g)
<1>14. Is(h, m, g)
  BY <1>5, <1>9, FromFracIs
<1>15. h \in Rat /\ h[1] \in Int /\ h[2] \in Nat \ {0} /\ h[1] * g = m * h[2]
  BY <1>14, RatType DEF Is
<1> HIDE DEF h
<1>16. h \in Positives
  <2> DEFINE a == h[1]
             b == h[2]
  <2>1. a \in Int /\ b \in Nat \ {0} /\ a * g = m * b
    BY <1>15
  <2> HIDE DEF a, b
  <2>2. m * b > 0
    BY <1>5, <2>1
  <2>3. a > 0
    <3> SUFFICES ASSUME a <= 0 PROVE FALSE
      BY <2>1
    <3>1. a * g <= 0
      BY <1>9, <2>1
    <3> QED
      BY <2>1, <2>2, <3>1
  <2> QED
    BY <1>15, <2>3, PositiveIs DEF Positives, a
<1>17. ASSUME NEW i \in 1..n PROVE w[i] = Times(h, v[i])
  <2>1. CASE i \notin Used(v)
    BY <1>11, <1>15, <2>1, NeutralElements DEF Zero
  <2>2. CASE i \in Used(v)
    <3>1. PICK q \in Int : N[i] = q * g /\ w[i] = <<q, 1>>
      BY <1>10, <2>2
    <3> DEFINE a == v[i][1]
               b == v[i][2]
               c == h[1]
               d == h[2]
               x == c * a
               y == d * b
    <3>2. /\ a \in Int /\ b \in Nat \ {0} /\ c \in Int /\ d \in Nat \ {0}
          /\ c * g = m * d /\ (q * g) * b = a * m /\ v[i] \in Rat
      BY <1>1, <1>2, <1>5, <1>15, <2>2, <3>1
    <3>3. x \in Int /\ y \in Nat \ {0} /\ Is(Times(h, v[i]), x, y)
      BY <1>15, <3>2, ProductIs
    <3>4. x * 1 = q * y
      <4> HIDE DEF a, b, c, d
      <4>1. (c * a) * g = (c * g) * a /\ (m * d) * a = (a * m) * d
        BY <1>5, <1>9, <3>2
      <4>2. ((q * g) * b) * d = (q * (d * b)) * g
        BY <1>9, <3>2
      <4>3. (c * a) * g = (q * (d * b)) * g
        BY <3>2, <4>1, <4>2
      <4> DEFINE u == c * a
                 t == q * (d * b)
      <4>4. u \in Int /\ t \in Int /\ u * g = t * g
        BY <3>2, <4>3
      <4> HIDE DEF u, t
      <4>5. u = t
        BY <1>9, <4>4
      <4>6. u \in Int /\ u * 1 = u
        BY <4>4
      <4> QED
        BY <4>5, <4>6 DEF u, t
    <3> HIDE DEF x, y, a, b, c, d
    <3>5. Is(Times(h, v[i]), q, 1)
      BY <3>3, <3>4, IsMoves
    <3>6. Is(<<q, 1>>, q, 1) /\ 1 \in Int /\ 1 # 0
      BY ConstantsAreRat DEF Is
    <3>7. Times(h, v[i]) = <<q, 1>>
      BY <3>5, <3>6, OneNumber
    <3> QED
      BY <3>1, <3>7
  <2> QED
    BY <2>1, <2>2
<1>18. ASSUME NEW k \in Nat, k >= 2, \A i \in 1..n : Divides(k, w[i][1]) PROVE FALSE
  <2> DEFINE d == k * g
  <2>1. d \in Int
    BY <1>9
  <2>2. ASSUME NEW i \in Used(v) PROVE Divides(d, N[i])
    <3>1. PICK q \in Int : N[i] = q * g /\ w[i] = <<q, 1>>
      BY <1>10
    <3>2. Divides(k, q)
      BY <1>3, <1>18, <3>1
    <3>3. PICK s \in Int : q = s * k
      BY <3>2 DEF Divides
    <3>4. N[i] = s * d
      BY <1>9, <3>1, <3>3
    <3> QED
      BY <3>4, Zenon DEF Divides
  <2>3. Divides(d, g)
    BY <1>9, <2>1, <2>2
  <2>4. PICK s \in Int : g = s * (k * g)
    BY <2>3 DEF Divides
  <2> DEFINE t == s * k
  <2>5. t \in Int /\ g = t * g
    <3>1. s * (k * g) = (s * k) * g
      BY <1>9
    <3> QED
      BY <2>4, <3>1
  <2> HIDE DEF t
  <2>6. t = 1
    BY <1>9, <2>5
  <2>7. s * k # 1
    BY <1>18
  <2> QED
    BY <2>6, <2>7 DEF t
<1> QED
  BY <1>12, <1>13, <1>16, <1>17, <1>18 DEF w

LEMMA GcdSound ==
  ASSUME NormInv, kept # "panicked", normalizer = "Gcd"
  PROVE  Sound(GcdNormalized)
<1>1. /\ DOMAIN vector = DOMAIN origin /\ DOMAIN origin = 1 .. Len(origin)
      /\ Len(origin) \in Nat /\ vector \in Seq(Rat) /\ Len(vector) = Len(origin)
      /\ \A i \in DOMAIN origin : vector[i] \in Rat /\ origin[i] \in Rat
  BY VectorIs
<1>2. CASE Used(vector) = {}
  <2>1. \A i \in DOMAIN origin : vector[i] = Zero
    BY <1>1, <1>2 DEF Used
  <2>2. \A i \in DOMAIN origin : Lost(i)
    BY <2>1 DEF NormInv, OnLine
  <2> QED
    BY <1>2, <2>2, AllZeroSound DEF GcdNormalized
<1>3. CASE Used(vector) # {}
  <2> DEFINE w == Coprime(vector)
  <2> DEFINE Made(i) == \A k \in 1 .. i : ~Fails(w[k])
             s == [i \in DOMAIN shadow |-> IF Made(i) THEN Convert(w[i]) ELSE shadow[i]]
             reply == IF Made(Len(vector)) THEN "kept" ELSE "panicked"
  <2>1. GcdNormalized = [vector |-> w, shadow |-> s, kept |-> reply]
    BY <1>3 DEF GcdNormalized, Result
  <2>2. /\ w \in [DOMAIN origin -> Rat] /\ \A i \in DOMAIN origin : IsInteger(w[i])
        /\ \E h \in Positives : \A i \in DOMAIN origin : w[i] = Times(h, vector[i])
        /\ \A k \in Nat : k >= 2 => \E i \in DOMAIN origin : ~Divides(k, w[i][1])
    BY <1>1, <1>3, CoprimeVectorIs
  <2> HIDE DEF w
  <2>3. PICK h \in Positives : \A i \in DOMAIN origin : w[i] = Times(h, vector[i])
    BY <2>2
  <2>4. PICK c \in Positives :
          \A i \in DOMAIN origin : vector[i] = Times(c, origin[i]) \/ vector[i] = Zero
    BY DEF NormInv, OnLine
  <2>5. \A i \in DOMAIN origin : w[i] = Zero <=> vector[i] = Zero
    BY <1>1, <2>3, TimesKeeps
  <2> DEFINE e == Times(h, c)
  <2>6. e \in Positives
    BY <2>4, TimesKeeps DEF Positives
  <2>7. \A i \in DOMAIN origin : w[i] = Times(e, origin[i]) \/ w[i] = Zero
    <3>1. h \in Rat /\ c \in Rat
      BY DEF Positives
    <3>2. ASSUME NEW i \in DOMAIN origin, vector[i] # Zero PROVE w[i] = Times(e, origin[i])
      <4>1. w[i] = Times(h, Times(c, origin[i]))
        BY <2>3, <2>4, <3>2
      <4> QED
        BY <1>1, <3>1, <4>1, ProductsAssociate
    <3> QED
      BY <2>5, <3>2
  <2> HIDE DEF e
  <2>8. \A i \in DOMAIN origin : w[i] = Zero => Lost(i)
    BY <2>5 DEF NormInv, OnLine
  <2>9. OnLine(w)
    BY <2>2, <2>6, <2>7, <2>8 DEF OnLine
  <2>10. DOMAIN w = DOMAIN origin
    BY <2>2
  <2>11. \E i \in DOMAIN w : w[i] # Zero
    BY <1>1, <1>3, <2>5, <2>10 DEF Used
  <2>12. Normal(w)
    BY <2>2, <2>10, <2>11 DEF Normal
  <2>13. Follows(s, w, reply)
    <3>1. s = [i \in DOMAIN origin |-> IF Made(i) THEN Convert(w[i]) ELSE shadow[i]]
      BY DEF NormInv, Follows
    <3>2. ASSUME form = "same" PROVE s = w /\ reply = "kept"
      <4>1. \A i \in DOMAIN origin : Made(i) /\ Convert(w[i]) = w[i]
        BY <3>2 DEF Fails, Convert
      <4>2. Made(Len(vector))
        BY <3>2 DEF Fails
      <4> QED
        BY <2>2, <3>1, <4>1, <4>2
    <3>3. ASSUME reply = "kept", NEW i \in DOMAIN origin, w[i] = Zero PROVE s[i] = Zero
      <4>1. Made(i)
        BY <1>1, <3>3
      <4>2. Convert(Zero) = Zero
        BY ZeroStays DEF NormInv
      <4> QED
        BY <3>1, <3>3, <4>1, <4>2
    <3>4. reply # "panicked" => reply = "kept"
      OBVIOUS
    <3>5. DOMAIN s = DOMAIN origin
      BY <3>1
    <3> HIDE DEF s, reply
    <3> QED
      BY <3>2, <3>3, <3>4, <3>5 DEF Follows
  <2>14. reply \in {"kept", "panicked"}
    OBVIOUS
  <2> HIDE DEF s, reply
  <2> QED
    BY <2>1, <2>9, <2>12, <2>13, <2>14 DEF Sound
<1> QED
  BY <1>2, <1>3

LEMMA InitVector ==
  ASSUME NormInit
  PROVE  NormInv
<1>1. normalizer \in Kinds /\ eps \in Epsilons /\ origin \in Vectors
      /\ vector = origin /\ kept = "unasked" /\ form \in {"same"} \cup Others
      /\ shadow = [i \in DOMAIN origin |-> Convert(origin[i])]
  BY DEF NormInit
<1>2. NormType
  BY <1>1, NormalizersAssumption DEF NormType
<1>3. origin \in [DOMAIN origin -> Rat]
  BY <1>2, LenProperties DEF NormType
<1>4. One \in Positives
  <2>1. Below(Zero, One)
    BY DEF Below, Zero, One
  <2> QED
    BY <2>1, ConstantsAreRat DEF Positives
<1>5. \A i \in DOMAIN origin : origin[i] = Times(One, origin[i])
  BY <1>3, NeutralElements
<1>6. ASSUME NEW i \in DOMAIN origin, origin[i] = Zero PROVE Lost(i)
  <2>1. AbsoluteValue(origin[i]) = Zero
    BY <1>6 DEF AbsoluteValue, Magnitude, Zero
  <2>2. ~Below(eps, Zero)
    BY <1>2 DEF NormType
  <2> QED
    BY <2>1, <2>2 DEF Lost
<1>7. OnLine(origin)
  BY <1>3, <1>4, <1>5, <1>6 DEF OnLine
<1>8. Follows(shadow, vector, kept)
  <2>1. form = "same" => shadow = origin
    BY <1>1, <1>3 DEF Convert
  <2>2. \A i \in DOMAIN origin : origin[i] = Zero => shadow[i] = Zero
    BY <1>1, <1>2, ZeroStays
  <2> QED
    BY <1>1, <2>1, <2>2 DEF Follows
<1> QED
  BY <1>1, <1>2, <1>7, <1>8 DEF NormInv

LEMMA NormStep ==
  ASSUME NormInv, Normalize
  PROVE  NormInv'
<1> DEFINE result == CASE normalizer = "Max" -> MaxNormalized
                       [] normalizer = "Min" -> MinNormalized
                       [] normalizer = "Gcd" -> GcdNormalized
                       [] normalizer = "No"  -> NotNormalized
<1>1. normalizer \in {"Max", "Min", "Gcd", "No"}
  BY DEF NormInv, NormType, Kinds
<1>2. /\ normalizer = "Max" => result = MaxNormalized
      /\ normalizer = "Min" => result = MinNormalized
      /\ normalizer = "Gcd" => result = GcdNormalized
      /\ normalizer = "No" => result = NotNormalized
  OBVIOUS
<1>3. /\ vector' = result.vector /\ shadow' = result.shadow /\ kept' = result.kept
      /\ normalizer' = normalizer /\ eps' = eps /\ origin' = origin /\ form' = form
      /\ kept # "panicked"
  BY DEF Normalize
<1> HIDE DEF result
<1>4. Sound(result)
  BY <1>1, <1>2, <1>3, MaxSound, MinSound, GcdSound, NoSound
<1>5. /\ OnLine(vector') /\ Follows(shadow', vector', kept')
      /\ \/ kept' = "zero" /\ \A i \in DOMAIN vector' : vector'[i] = Zero
         \/ kept' = "kept" /\ Normal(vector')
         \/ kept' = "panicked"
  BY <1>3, <1>4 DEF Sound
<1>6. NormType'
  BY <1>3 DEF NormInv, NormType, Kinds
<1>7. OnLine(vector)'
  BY <1>3, <1>5 DEF OnLine, Lost
<1>8. Normal(vector') => Normal(vector)'
  BY <1>3 DEF Normal, HasOne, IsZero
<1>9. Follows(shadow, vector, kept)'
  BY <1>3, <1>5 DEF Follows
<1> QED
  BY <1>5, <1>6, <1>7, <1>8, <1>9 DEF NormInv

LEMMA DirectionHolds ==
  ASSUME NormInv
  PROVE  DirectionIsKept
<1> DEFINE left == {i \in DOMAIN vector : vector[i] # Zero}
           on   == [i \in left |-> origin[i]]
           now  == [i \in left |-> vector[i]]
<1>1. DOMAIN vector = DOMAIN origin /\ \A i \in DOMAIN origin : origin[i] \in Rat
  BY VectorIs
<1>2. PICK c \in Positives :
        \A i \in DOMAIN origin : vector[i] = Times(c, origin[i]) \/ vector[i] = Zero
  BY DEF NormInv, OnLine
<1>3. \A i \in left : vector[i] = Times(c, origin[i]) /\ origin[i] \in Rat
  BY <1>1, <1>2
<1>4. ASSUME NEW i \in left, NEW j \in left
      PROVE  Times(vector[i], origin[j]) = Times(vector[j], origin[i])
  <2> DEFINE x == origin[i]
             y == origin[j]
  <2>1. x \in Rat /\ y \in Rat /\ c \in Rat /\ vector[i] = Times(c, x) /\ vector[j] = Times(c, y)
    BY <1>3 DEF Positives
  <2> HIDE DEF x, y
  <2>2. Times(Times(c, x), y) = Times(Times(c, y), x)
    BY <2>1, ProductsAssociate, OperationsCommute
  <2> QED
    BY <2>1, <2>2 DEF x, y
<1>5. Parallel(now, on)
  BY <1>4 DEF Parallel
<1>6. \A i \in left : SameSign(vector[i], origin[i])
  BY <1>3, TimesKeeps
<1>7. \A i \in DOMAIN vector \ left : Lost(i)
  BY <1>1 DEF NormInv, OnLine
<1>8. kept = "kept" => left # {}
  BY DEF NormInv, Normal
<1>9. kept = "zero" => left = {}
  BY DEF NormInv
<1> QED
  BY <1>1, <1>5, <1>6, <1>7, <1>8, <1>9 DEF DirectionIsKept, Lost

LEMMA NormalHolds ==
  ASSUME NormInv
  PROVE  NormalFormsAreCanonical
<1> DEFINE sizes == {AbsoluteValue(x) : x \in Range(vector)}
<1>1. /\ normalizer \in Kinds
      /\ \A i \in DOMAIN vector : vector[i] \in Rat /\ AbsoluteValue(vector[i]) \in Rat
  BY VectorIs DEF NormInv, NormType
<1>2. sizes = {AbsoluteValue(vector[i]) : i \in DOMAIN vector}
  BY DEF Range
<1> SUFFICES ASSUME kept = "kept"
             PROVE  /\ normalizer = "Max" => One \in sizes /\ \A x \in sizes : ~Below(One, x)
                    /\ normalizer = "Min" => /\ One \in sizes
                                             /\ eps = Zero => \A x \in sizes \ {Zero} : ~Below(x, One)
                    /\ normalizer = "Gcd" => /\ \A x \in sizes : IsInteger(x)
                                             /\ \A y \in sizes : \A k \in 2 .. y[1] :
                                                  \E x \in sizes : x[1] % k # 0
                    /\ normalizer = "No" => vector = origin
  BY <1>1 DEF NormalFormsAreCanonical, Kinds
<1> HIDE DEF sizes
<1>3. Normal(vector)
  BY DEF NormInv
<1>4. HasOne(vector) => One \in sizes
  BY <1>2 DEF HasOne
<1>5. \A i \in DOMAIN vector : AbsoluteValue(vector[i]) # Zero => vector[i] # Zero
  BY <1>1, AbsoluteType
<1>6. ASSUME normalizer = "Gcd"
      PROVE  /\ \A x \in sizes : IsInteger(x)
             /\ \A y \in sizes : \A k \in 2 .. y[1] : \E x \in sizes : x[1] % k # 0
  <2>1. \A x \in sizes : IsInteger(x)
    BY <1>2, <1>3, <1>6 DEF Normal, IsInteger, AbsoluteValue
  <2>2. ASSUME NEW y \in sizes, NEW k \in 2 .. y[1] PROVE \E x \in sizes : x[1] % k # 0
    <3>1. k \in Nat /\ k >= 2
      <4>1. y[1] \in Int
        BY <1>1, <1>2, RatType
      <4> QED
        BY <4>1
    <3>2. PICK i \in DOMAIN vector : ~Divides(k, vector[i][1])
      BY <1>3, <1>6, <3>1 DEF Normal
    <3> DEFINE a == vector[i][1]
               m == Magnitude(a)
    <3>3. a \in Int /\ m \in Int /\ AbsoluteValue(vector[i])[1] = m
      BY <1>1, RatType DEF Magnitude, AbsoluteValue
    <3>4. ~Divides(k, m)
      <4>1. k \in Int
        BY <3>1
      <4> QED
        BY <3>2, <3>3, <4>1, DividesMagnitude
    <3> HIDE DEF m
    <3>5. m % k # 0
      <4> SUFFICES ASSUME m % k = 0 PROVE FALSE
        OBVIOUS
      <4> DEFINE q == m \div k
      <4>1. q \in Int /\ m = q * k
        BY <3>1, <3>3
      <4> HIDE DEF q
      <4> QED
        BY <3>4, <4>1 DEF Divides
    <3> QED
      BY <1>2, <3>3, <3>5
  <2> QED
    BY <2>1, <2>2
<1> QED
  BY <1>2, <1>3, <1>4, <1>5, <1>6 DEF Normal

LEMMA ShadowHolds ==
  ASSUME NormInv
  PROVE  ShadowFollows
<1>1. DOMAIN vector = DOMAIN origin
  BY VectorIs
<1> QED
  BY <1>1 DEF NormInv, Follows, ShadowFollows

(* Clients of other things have no vector.                                 *)
VectorsInv ==
  /\ client = "vectors" => NormInv
  /\ client # "vectors" => NoVectors

(* However often a vector is normalized, what is left of it is a positive  *)
(* multiple of what it was, nothing but what epsilon takes for zero is     *)
(* lost, and what is kept is in normal form.  A vector of the same type    *)
(* that goes with it stays the same; one of a type that rounds or refuses  *)
(* has a zero wherever it has one, unless a conversion has panicked: for   *)
(* vectors of any length and of any rationals, each normalizer, any        *)
(* epsilon below one and any other type that has zero.                     *)
THEOREM NormalFormsHold ==
  ClientSpec => []NormalFormsAreSound
<1>1. ClientInit => VectorsInv
  BY InitVector DEF ClientInit, VectorsInv
<1>2. VectorsInv /\ [ClientNext]_calculoVars => VectorsInv'
  <2> SUFFICES ASSUME VectorsInv, [ClientNext]_calculoVars PROVE VectorsInv'
    OBVIOUS
  <2>1. ASSUME UNCHANGED <<client, normVars>> PROVE VectorsInv'
    <3>1. /\ client' = client /\ normalizer' = normalizer /\ eps' = eps /\ origin' = origin
          /\ vector' = vector /\ shadow' = shadow /\ kept' = kept /\ form' = form
      BY <2>1 DEF normVars
    <3> QED
      BY <3>1 DEF VectorsInv, NoVectors, NormInv, NormType, OnLine, Lost, Normal, HasOne, IsZero,
        Follows
  <2>2. CASE UNCHANGED calculoVars
    BY <2>1, <2>2 DEF calculoVars
  <2>3. CASE ClientNext
    <3>1. CASE client = "vectors" /\ NormNext
      BY <2>3, <3>1, NormStep DEF VectorsInv, ClientNext, NormNext
    <3>2. CASE ~(client = "vectors" /\ NormNext)
      BY <2>1, <2>3, <3>2 DEF ClientNext
    <3> QED
      BY <3>1, <3>2
  <2> QED
    BY <2>2, <2>3
<1>3. VectorsInv => NormalFormsAreSound
  <2>1. ASSUME NoVectors PROVE DirectionIsKept /\ NormalFormsAreCanonical /\ ShadowFollows
    <3>1. vector = <<>> /\ shadow = <<>> /\ kept = "unasked" /\ \A i \in DOMAIN vector : FALSE
      BY <2>1 DEF NoVectors
    <3> QED
      BY <3>1 DEF DirectionIsKept, NormalFormsAreCanonical, ShadowFollows, Parallel
  <2> QED
    BY <2>1, DirectionHolds, NormalHolds, ShadowHolds DEF VectorsInv, NormalFormsAreSound
<1> QED
  BY <1>1, <1>2, <1>3, PTL DEF ClientSpec
================================================================================
