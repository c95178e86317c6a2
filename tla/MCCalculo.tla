------------------------------- MODULE MCCalculo -------------------------------
(* A small instance of Calculo. *)
EXTENDS Calculo

\* The ends of four bits, both sides of zero, a pair with a common divisor.
MCLiterals == {-8, -1, 0, 3, 6}

\* Rows with and without fractions, in either place, and with zeros.
MCStartRows == {
  <<Zero, One, <<-2, 1>>>>,
  <<<<1, 2>>, Zero, One>>,
  <<One, <<1, 2>>, Zero>>,
  <<<<-1, 1>>, <<2, 1>>, One>> }

MCFactors == {Zero, One, <<-2, 1>>, <<1, 2>>}

MCEntries == {Zero, One, <<-2, 1>>, <<1, 2>>, <<-2, 3>>, <<4, 1>>, <<1, 4>>}

MCVectors == [1..3 -> MCEntries]

MCEpsilons == {Zero, <<1, 4>>}

\* Halves, to which all else is rounded, and numbers from -2 to 1 only.
MCOthers == {"rounded", "narrow"}

\* What a float is that is divided by zero.
NotFinite == <<1, 0>>

Rounded(x) == FromFrac((4 * x[1] + x[2] - 1) \div (2 * x[2]), 2)

MCCoerce(f, x) ==
  IF f = "rounded" THEN Rounded(x)
  ELSE IF Below(One, x) \/ Below(x, <<-2, 1>>) THEN Failed ELSE x

MCOverIn(f, x, c) ==
  IF f = "narrow" THEN Over(x, c)
  ELSE IF x = NotFinite \/ c = Zero THEN NotFinite ELSE Rounded(Over(x, c))

MCExponents == 0..5
================================================================================
