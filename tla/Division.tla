------------------------------ MODULE Division ------------------------------
(***************************************************************************)
(* Division by a constant that is no power of two (conv/codegen.cpp): the  *)
(* multiplier and the shift that stand for the divisor, and what the       *)
(* multiply-high sequence makes of a dividend with them.                   *)
(***************************************************************************)
EXTENDS Values

Pow2[n \in Nat] == IF n = 0 THEN 1 ELSE 2 * Pow2[n - 1]

\* n_c: the largest number below Half that leaves the remainder d - 1.
LargestDividend(d) == Half - (Half % d) - 1

\* What the multiplier for the shift s, times d, is too large by.
\* A mutant: the error is taken to be the remainder.
ErrorIsRest(d, s) == (2 * Half * Pow2[s]) % d
Error(d, s) == d - ((2 * Half * Pow2[s]) % d)

TooShort(d, s) == 2 * Half * Pow2[s] =< LargestDividend(d) * Error(d, s)

\* The first shift that is long enough; there is one, well below Half.
DivMagicInfo(d) ==
  LET s == CHOOSE s \in 0..Half : ~TooShort(d, s) /\ \A t \in 0..(s - 1) : TooShort(d, t)
  IN  [magic |-> ((2 * Half * Pow2[s] + Error(d, s)) \div d) % (2 * Half), shift |-> s]

\* The high word of the product, to which the dividend is added again when the
\* multiplier is negative as a register; shifted; and one more for a negative dividend.
HighProduct(x, magic) ==
  IF magic >= Half THEN Wrap(x + HighWord(x, Wrap(magic))) ELSE HighWord(x, Wrap(magic))
MagicQuotient(x, info) ==
  Wrap((HighProduct(x, info.magic) \div Pow2[info.shift]) + (Unsigned(x) \div Half))
=============================================================================
