----------------------------- MODULE Validators -----------------------------
(***************************************************************************)
(* The validator of x/staking/types, a record, with the arithmetic of its  *)
(* shares.                                                                 *)
(***************************************************************************)
EXTENDS Dec, Stores

CONSTANT PowerReduction     \* tokens that make one unit of power

NewValidator(minSelf, rate, time) ==
    [status |-> "unbonded", jailed |-> FALSE, tokens |-> 0, shares |-> 0, minSelf |-> minSelf,
     rate |-> rate, rateTime |-> time, unbondingTime |-> 0, unbondingHeight |-> 0]

IsBonded(val) == val.status = "bonded"

InvalidExRate(val) == val.tokens = 0 /\ val.shares > 0

TokensFromShares(val, shares)          == Quo(MulInt(shares, val.tokens), val.shares)
TokensFromSharesTruncated(val, shares) == QuoTruncate(MulInt(shares, val.tokens), val.shares)
SharesFromTokens(val, amt)             == QuoInt(MulInt(val.shares, amt), val.tokens)
SharesFromTokensTruncated(val, amt)    == QuoTruncate(MulInt(val.shares, amt), val.tokens * One)

PotentialConsensusPower(val) == val.tokens \div PowerReduction
ConsensusPower(val)          == IF IsBonded(val) THEN PotentialConsensusPower(val) ELSE 0

\* The first delegation sets the exchange rate to one.
AddTokensFromDel(val, amt) ==
    LET issued == IF val.shares = 0 THEN amt * One ELSE SharesFromTokens(val, amt)
    IN  [val |-> [val EXCEPT !.tokens = @ + amt, !.shares = @ + issued], shares |-> issued]

\* The last shares take what truncation left in the validator.
RemoveDelShares(val, shares) ==
    LET remaining == val.shares - shares
        issued    == IF remaining = 0 THEN val.tokens ELSE TruncateInt(TokensFromShares(val, shares))
    IN  [val |-> [val EXCEPT !.tokens = @ - issued, !.shares = remaining], tokens |-> issued]
=============================================================================
