-------------------------------- MODULE Mint --------------------------------
(***************************************************************************)
(* x/mint: the inflation moves towards the rate that draws the goal of     *)
(* bonded tokens, and every block mints its part of the yearly provisions  *)
(* into the account that collects the fees.                                *)
(***************************************************************************)
EXTENDS Dec

CONSTANTS InflationMin, InflationMax, InflationRateChange, GoalBonded, BlocksPerYear

\* The roundings of a decimal treat its negative like itself.
Signed(op(_), d) == IF d < 0 THEN -op(-d) ELSE op(d)

NextInflationRate(inflation, bondedRatio) ==
    LET perYear == Signed(LAMBDA d : Mul(d, InflationRateChange), One - Quo(bondedRatio, GoalBonded))
        next    == inflation + Signed(LAMBDA d : Quo(d, BlocksPerYear * One), perYear)
    IN  IF next > InflationMax THEN InflationMax
        ELSE IF next < InflationMin THEN InflationMin ELSE next

NextAnnualProvisions(inflation, supply) == MulInt(inflation, supply)

BlockProvision(annualProvisions) == TruncateInt(QuoInt(annualProvisions, BlocksPerYear))

BondedRatio(bonded, supply) == IF supply > 0 THEN QuoInt(bonded * One, supply) ELSE 0

\* supply is the bank's, before the block mints.
BeginBlocker(s, supply) ==
    LET inflation == NextInflationRate(s.inflation, BondedRatio(s.bonded, supply))
        minted    == BlockProvision(NextAnnualProvisions(inflation, supply))
    IN  [s EXCEPT !.inflation = inflation, !.fees = @ + minted, !.minted = @ + minted]
=============================================================================
