-------------------------------- MODULE Sums --------------------------------
(***************************************************************************)
(* Sums, iterations and powers, in the form in which they can be reasoned  *)
(* about: what is summed up or iterated is a function, not an operator.    *)
(***************************************************************************)
EXTENDS Integers, FiniteSetsExt

\* The sum of f[x] for all x in the finite set S.
SumOver(f, S) == MapThenSumSet(LAMBDA x : f[x], S)

\* f, applied n times.
Iterate(f, start, n) ==
  LET value[i \in 0 .. n] == IF i = 0 THEN start ELSE f[value[i - 1]] IN value[n]

\* b^n, for natural numbers.
Power(b, n) == Iterate([x \in Nat |-> b * x], 1, n)
=============================================================================
