------------------------------ MODULE RowBackends ------------------------------
(***************************************************************************)
(* The row operations of calculo (calculo/src/linalg.rs): one trait,       *)
(* LinAlgOps, and four implementations of it, the third in two builds.     *)
(* GenericOps is the plain one; F64Ops works on chunks of lanes and then   *)
(* on what is left of the row, or entry by entry without the feature simd; *)
(* RugRatOps and DashuRatOps take short cuts for zeros, ones and integers. *)
(*                                                                         *)
(* A client holds rows and combines them; here the same client runs with   *)
(* every implementation.  The numbers are such that a float is exact.      *)
(***************************************************************************)
EXTENDS Rationals, Sequences

CONSTANTS
  RowNames,   \* the rows that the client holds
  StartRows,  \* what they may hold at first
  Factors,    \* the factors that the client uses
  Lanes,      \* the floats of a vector register
  RowSteps    \* a bound on the operations of the client

ASSUME RowsAssumption ==
  /\ StartRows \subseteq Seq(Rat)
  /\ \A r, s \in StartRows : Len(r) = Len(s)
  /\ Factors \subseteq Rat
  /\ Lanes \in Nat \ {0}
  /\ RowSteps \in Nat

VARIABLES
  rows,    \* rows[b][r]: row r in the client of implementation b
  answer,  \* answer[b]: what dot or dot2 returned to it last
  taken    \* how many operations it did

rowVars == <<rows, answer, taken>>

Backends == {"generic", "scalar", "simd", "rug", "dashu"}

--------------------------------------------------------------------------------
(* One entry *)

AddMul(acc, factor, rhs) == Plus(acc, Times(factor, rhs))

SubMul(acc, factor, rhs) == Minus(acc, Times(factor, rhs))

(* f64::mul_add *)
MulAdd(factor, rhs, acc) == Plus(Times(factor, rhs), acc)

DashuAddMul(acc, factor, rhs) ==
  IF factor = Zero \/ rhs = Zero THEN acc ELSE Plus(acc, Times(factor, rhs))

DashuSubMul(acc, factor, rhs) ==
  IF factor = Zero \/ rhs = Zero THEN acc ELSE Minus(acc, Times(factor, rhs))

--------------------------------------------------------------------------------
(* Products of two rows *)

Products(lhs, rhs) == [k \in DOMAIN lhs |-> Times(lhs[k], rhs[k])]

(* base and the terms that are used, added up in their order. *)
SumUp(base, terms, used) ==
  LET acc[k \in Nat] ==
        IF k = 0 THEN base
        ELSE IF k \in used THEN Plus(acc[k - 1], terms[k])
        ELSE acc[k - 1]
  IN acc[Len(terms)]

(* The products of the numerators that are used. *)
WholeSum(lhs, rhs, used) ==
  LET acc[k \in Nat] ==
        IF k = 0 THEN 0
        ELSE IF k \in used THEN acc[k - 1] + lhs[k][1] * rhs[k][1]
        ELSE acc[k - 1]
  IN acc[Len(lhs)]

GenericDot(lhs, rhs) == SumUp(Zero, Products(lhs, rhs), DOMAIN lhs)

ScalarDot(lhs, rhs) == SumUp(Zero, Products(lhs, rhs), DOMAIN lhs)

(* How many registers a row fills, and the entries that do; the rest is    *)
(* the tail.                                                               *)
Chunks(row) == Len(row) \div Lanes

Chunked(row) == Chunks(row) * Lanes

(* Lane l of the accumulator sums every entry at place l of its chunk; the *)
(* lanes are added and the tail goes on from there.                        *)
SimdDot(lhs, rhs) ==
  LET terms   == Products(lhs, rhs)
      Lane(l) == SumUp(Zero, [c \in 1..Chunks(lhs) |-> terms[(c - 1) * Lanes + l]], 1..Chunks(lhs))
      sum     == SumUp(Zero, [l \in 1..Lanes |-> Lane(l)], 1..Lanes)
  IN SumUp(sum, terms, (Chunked(lhs) + 1)..Len(lhs))

NonZeroes(lhs, rhs) == {k \in DOMAIN lhs : lhs[k] # Zero /\ rhs[k] # Zero}

(* Integers are summed as integers, until a pair is met that is none. *)
RugDot(lhs, rhs) ==
  LET used == NonZeroes(lhs, rhs) IN
  IF \A k \in used : IsInteger(lhs[k]) /\ IsInteger(rhs[k])
    THEN <<WholeSum(lhs, rhs, used), 1>>
    ELSE SumUp(Zero, Products(lhs, rhs), used)

DashuDot(lhs, rhs) == SumUp(Zero, Products(lhs, rhs), NonZeroes(lhs, rhs))

GenericDot2(lhs, a, b) == <<GenericDot(lhs, a), GenericDot(lhs, b)>>

ScalarDot2(lhs, a, b) == <<ScalarDot(lhs, a), ScalarDot(lhs, b)>>

SimdDot2(lhs, a, b) == <<SimdDot(lhs, a), SimdDot(lhs, b)>>

\* mutant of RugDot2
RugDot2OfTheFirst(lhs, a, b) ==
  LET Whole(r) == WholeSum(lhs, r, NonZeroes(lhs, r))
  IN IF \A k \in NonZeroes(lhs, a) : IsInteger(lhs[k]) /\ IsInteger(a[k])
       THEN <<<<Whole(a), 1>>, <<Whole(b), 1>>>>
       ELSE <<RugDot(lhs, a), RugDot(lhs, b)>>

(* Both sums are of integers, or none is. *)
RugDot2(lhs, a, b) ==
  LET Integral(k) == /\ IsInteger(lhs[k])
                     /\ a[k] # Zero => IsInteger(a[k])
                     /\ b[k] # Zero => IsInteger(b[k])
      Whole(r)    == <<WholeSum(lhs, r, NonZeroes(lhs, r)), 1>>
      Exact(r)    == SumUp(Zero, Products(lhs, r), NonZeroes(lhs, r))
  IN IF \A k \in DOMAIN lhs : lhs[k] # Zero => Integral(k)
       THEN <<Whole(a), Whole(b)>>
       ELSE <<Exact(a), Exact(b)>>

DashuDot2(lhs, a, b) == <<DashuDot(lhs, a), DashuDot(lhs, b)>>

--------------------------------------------------------------------------------
(* Operations on a row in place *)

GenericAxpyAdd(dst, f, rhs) == [k \in DOMAIN dst |-> AddMul(dst[k], f, rhs[k])]
GenericAxpySub(dst, f, rhs) == [k \in DOMAIN dst |-> SubMul(dst[k], f, rhs[k])]
GenericScale(dst, f) == [k \in DOMAIN dst |-> Times(dst[k], f)]
GenericDivide(dst, d) == [k \in DOMAIN dst |-> Over(dst[k], d)]
GenericLinComb2(lhs, f, rhs, g) ==
  [k \in DOMAIN lhs |-> AddMul(Times(lhs[k], f), g, rhs[k])]

ScalarAxpy(dst, f, rhs) == [k \in DOMAIN dst |-> MulAdd(f, rhs[k], dst[k])]
ScalarScale(dst, f) == [k \in DOMAIN dst |-> Times(dst[k], f)]
ScalarDivide(dst, d) == [k \in DOMAIN dst |-> Over(dst[k], d)]
ScalarLinComb2(lhs, f, rhs, g) ==
  [k \in DOMAIN lhs |-> MulAdd(g, rhs[k], Times(f, lhs[k]))]

(* The chunks by whole registers, and the tail entry by entry. *)
ByLanes(new) ==
  [k \in 1..Chunked(new) |-> new[k]]
    \o [k \in 1..Len(new) - Chunked(new) |-> new[Chunked(new) + k]]

SimdAxpy(dst, f, rhs) == ByLanes([k \in DOMAIN dst |-> MulAdd(f, rhs[k], dst[k])])
SimdScale(dst, f) == ByLanes([k \in DOMAIN dst |-> Times(dst[k], f)])
SimdDivide(dst, d) == ByLanes([k \in DOMAIN dst |-> Over(dst[k], d)])
SimdLinComb2(lhs, f, rhs, g) ==
  ByLanes([k \in DOMAIN lhs |-> MulAdd(g, rhs[k], Times(f, lhs[k]))])

RugAxpyAdd(dst, f, rhs) ==
  IF f = Zero THEN dst ELSE [k \in DOMAIN dst |-> Plus(dst[k], Times(f, rhs[k]))]
RugAxpySub(dst, f, rhs) ==
  IF f = Zero THEN dst ELSE [k \in DOMAIN dst |-> Minus(dst[k], Times(f, rhs[k]))]
RugScale(dst, f) ==
  IF f = Zero THEN [k \in DOMAIN dst |-> Zero] ELSE [k \in DOMAIN dst |-> Times(dst[k], f)]
RugDivideRow(dst, d) == [k \in DOMAIN dst |-> Over(dst[k], d)]

(* An entry of RugLinComb2, with every product by zero or one left out. *)
RugCombined(l, f, r, g) ==
  LET left == IF f = One THEN l ELSE Times(l, f) IN
  IF f = Zero \/ l = Zero
    THEN IF g = Zero \/ r = Zero THEN Zero
         ELSE IF g = One THEN r
         ELSE Times(r, g)
    ELSE IF g = Zero \/ r = Zero THEN left
         ELSE IF g = One THEN Plus(left, r)
         ELSE Plus(left, Times(r, g))

(* With factors that are integers, entries are computed as integers up to  *)
(* the first that is none; then the whole row is computed again.           *)
RugLinComb2(lhs, f, rhs, g) ==
  LET integral == /\ IsInteger(f) /\ IsInteger(g)
                  /\ \A k \in DOMAIN lhs : IsInteger(lhs[k]) /\ IsInteger(rhs[k])
  IN IF integral
       THEN [k \in DOMAIN lhs |-> <<lhs[k][1] * f[1] + rhs[k][1] * g[1], 1>>]
       ELSE [k \in DOMAIN lhs |-> RugCombined(lhs[k], f, rhs[k], g)]

DashuAxpyAdd(dst, f, rhs) ==
  IF f = Zero THEN dst ELSE [k \in DOMAIN dst |-> DashuAddMul(dst[k], f, rhs[k])]
DashuAxpySub(dst, f, rhs) ==
  IF f = Zero THEN dst ELSE [k \in DOMAIN dst |-> DashuSubMul(dst[k], f, rhs[k])]
DashuScale(dst, f) ==
  IF f = One THEN dst
  ELSE IF f = Zero THEN [k \in DOMAIN dst |-> Zero]
  ELSE [k \in DOMAIN dst |-> Times(dst[k], f)]
DashuDivideRow(dst, d) ==
  IF d = One THEN dst ELSE [k \in DOMAIN dst |-> Over(dst[k], d)]
DashuLinComb2(lhs, f, rhs, g) ==
  [k \in DOMAIN lhs |->
     IF g = Zero \/ rhs[k] = Zero
       THEN Times(lhs[k], f)
       ELSE Plus(Times(lhs[k], f), Times(rhs[k], g))]

--------------------------------------------------------------------------------
(* The client: each operation with every implementation. *)

Store(r, generic, scalar, simd, rugRow, dashuRow) ==
  LET new == [generic |-> generic, scalar |-> scalar, simd |-> simd,
              rug |-> rugRow, dashu |-> dashuRow]
  IN /\ taken < RowSteps
     /\ taken' = taken + 1
     /\ rows' = [b \in Backends |-> [rows[b] EXCEPT ![r] = new[b]]]
     /\ UNCHANGED answer

Tell(generic, scalar, simd, rugSum, dashuSum) ==
  /\ taken < RowSteps
  /\ taken' = taken + 1
  /\ answer' = [generic |-> generic, scalar |-> scalar, simd |-> simd,
                rug |-> rugSum, dashu |-> dashuSum]
  /\ UNCHANGED rows

AddMulEntry(r, s, f, k) ==
  LET New(b, acc) == [rows[b][r] EXCEPT ![k] = acc]
      Old(b)      == rows[b][r][k]
      Rhs(b)      == rows[b][s][k]
  IN \/ Store(r, New("generic", AddMul(Old("generic"), f, Rhs("generic"))),
                 New("scalar", MulAdd(f, Rhs("scalar"), Old("scalar"))),
                 New("simd", MulAdd(f, Rhs("simd"), Old("simd"))),
                 New("rug", AddMul(Old("rug"), f, Rhs("rug"))),
                 New("dashu", DashuAddMul(Old("dashu"), f, Rhs("dashu"))))
     \/ Store(r, New("generic", SubMul(Old("generic"), f, Rhs("generic"))),
                 New("scalar", MulAdd(Opposite(f), Rhs("scalar"), Old("scalar"))),
                 New("simd", MulAdd(Opposite(f), Rhs("simd"), Old("simd"))),
                 New("rug", SubMul(Old("rug"), f, Rhs("rug"))),
                 New("dashu", DashuSubMul(Old("dashu"), f, Rhs("dashu"))))

Dot(r, s) ==
  Tell(GenericDot(rows.generic[r], rows.generic[s]), ScalarDot(rows.scalar[r], rows.scalar[s]),
       SimdDot(rows.simd[r], rows.simd[s]), RugDot(rows.rug[r], rows.rug[s]),
       DashuDot(rows.dashu[r], rows.dashu[s]))

Dot2(r, s, t) ==
  Tell(GenericDot2(rows.generic[r], rows.generic[s], rows.generic[t]),
       ScalarDot2(rows.scalar[r], rows.scalar[s], rows.scalar[t]),
       SimdDot2(rows.simd[r], rows.simd[s], rows.simd[t]),
       RugDot2(rows.rug[r], rows.rug[s], rows.rug[t]),
       DashuDot2(rows.dashu[r], rows.dashu[s], rows.dashu[t]))

AxpyAdd(r, f, s) ==
  Store(r, GenericAxpyAdd(rows.generic[r], f, rows.generic[s]),
           ScalarAxpy(rows.scalar[r], f, rows.scalar[s]),
           SimdAxpy(rows.simd[r], f, rows.simd[s]),
           RugAxpyAdd(rows.rug[r], f, rows.rug[s]),
           DashuAxpyAdd(rows.dashu[r], f, rows.dashu[s]))

AxpySub(r, f, s) ==
  Store(r, GenericAxpySub(rows.generic[r], f, rows.generic[s]),
           ScalarAxpy(rows.scalar[r], Opposite(f), rows.scalar[s]),
           SimdAxpy(rows.simd[r], Opposite(f), rows.simd[s]),
           RugAxpySub(rows.rug[r], f, rows.rug[s]),
           DashuAxpySub(rows.dashu[r], f, rows.dashu[s]))

Scale(r, f) ==
  Store(r, GenericScale(rows.generic[r], f), ScalarScale(rows.scalar[r], f),
           SimdScale(rows.simd[r], f), RugScale(rows.rug[r], f), DashuScale(rows.dashu[r], f))

Divide(r, d) ==
  /\ d # Zero
  /\ Store(r, GenericDivide(rows.generic[r], d), ScalarDivide(rows.scalar[r], d),
              SimdDivide(rows.simd[r], d), RugDivideRow(rows.rug[r], d),
              DashuDivideRow(rows.dashu[r], d))

LinComb2(r, s, f, t, g) ==
  Store(r, GenericLinComb2(rows.generic[s], f, rows.generic[t], g),
           ScalarLinComb2(rows.scalar[s], f, rows.scalar[t], g),
           SimdLinComb2(rows.simd[s], f, rows.simd[t], g),
           RugLinComb2(rows.rug[s], f, rows.rug[t], g),
           DashuLinComb2(rows.dashu[s], f, rows.dashu[t], g))

RowInit ==
  /\ \E start \in [RowNames -> StartRows] : rows = [b \in Backends |-> start]
  /\ answer = [b \in Backends |-> Zero]
  /\ taken = 0

(* A row that is written is borrowed by nobody else. *)
RowNext ==
  \E r, s \in RowNames :
    \/ Dot(r, s)
    \/ \E t \in RowNames : Dot2(r, s, t)
    \/ \E f \in Factors :
         \/ r = s /\ Scale(r, f)
         \/ r = s /\ Divide(r, f)
         \/ r # s /\ AxpyAdd(r, f, s)
         \/ r # s /\ AxpySub(r, f, s)
         \/ r # s /\ AddMulEntry(r, s, f, 1)
    \/ \E t \in RowNames \ {r}, f, g \in Factors : r # s /\ LinComb2(r, s, f, t, g)

--------------------------------------------------------------------------------
(* Properties *)

(* Whatever the client does, each implementation leaves it with the rows   *)
(* and tells it the sums that every other one does: no short cut, no lane  *)
(* and no tail changes a result.                                           *)
RowsAgree ==
  \A b \in DOMAIN rows : rows[b] = rows["generic"] /\ answer[b] = answer["generic"]
================================================================================
