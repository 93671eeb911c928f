---------------------------------- MODULE Numbers ----------------------------------
(* The real functions the library's formulas use, on integers: fractions are      *)
(* thousandths, rounded down.  The arguments are small enough for 32 bits.        *)
EXTENDS Integers, FiniteSetsExt

\* std::clamp
Within(lo, hi, n) == Max({lo, Min({n, hi})})

\* std::sqrt of n >= 0, bit by bit.
Root(n) == LET above[k \in 0..16] ==
                   IF k = 16 THEN 0
                   ELSE LET high == above[k + 1]
                            r == high + 2 ^ k
                        IN  IF r <= 46340 /\ r * r <= n THEN r ELSE high
           IN  above[0]

\* std::exp(-x), x >= 0: one over six terms of the series of exp(x), by Horner's rule.
Decay(x) == LET u == Min({x, 7000})
                from[k \in 1..7] == IF k = 7 THEN 1000 ELSE 1000 + (u * from[k + 1]) \div (1000 * k)
            IN  1000000 \div from[1]

\* std::tanh(x), x >= 0
Tanh(x) == LET e == Decay(2 * x) IN (1000 * (1000 - e)) \div (1000 + e)

\* The sum of f[i] for i in 1..n.
SumUpTo(n, f(_)) == MapThenSumSet(f, 1..n)
====================================================================================
