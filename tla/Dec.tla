-------------------------------- MODULE Dec --------------------------------
(***************************************************************************)
(* The fixed-point decimals of types/decimal.go: a decimal is the integer  *)
(* number of its smallest units, of which One make 1. Overflow of the 315  *)
(* bits is left out.                                                       *)
(***************************************************************************)
EXTENDS Integers

CONSTANT One    \* 10^18 in the code

ASSUME OneAssumption == One \in Nat \ {0} /\ One % 2 = 0

\* Remove the precision of the product of two decimals that are not negative,
\* rounding to the nearest and a half to the even one.
chopPrecisionAndRound(d) ==
    LET quo == d \div One
        rem == d % One
    IN  IF 2 * rem < One \/ (2 * rem = One /\ quo % 2 = 0) THEN quo ELSE quo + 1

Mul(d, e)     == chopPrecisionAndRound(d * e)
MulInt(d, i)  == d * i
Quo(d, e)     == chopPrecisionAndRound((d * One * One) \div e)
TruncateInt(d) == d \div One
MulTruncate(d, e) == (d * e) \div One
QuoTruncate(d, e) == ((d * One * One) \div e) \div One
QuoInt(d, i)      == d \div i

\* Rounded up in the last place: the quotient itself was truncated before.
QuoRoundUp(d, e) ==
    LET quo == (d * One * One) \div e
    IN  IF quo % One = 0 THEN quo \div One ELSE quo \div One + 1
=============================================================================
