------------------------------- MODULE Vesting -------------------------------
(***************************************************************************)
(* The vesting accounts of x/auth/vesting/types, one denomination: how     *)
(* much of the original amount has vested at a block time, how much is     *)
(* locked, and how the amounts delegated are tracked. An account is a      *)
(* record; "base" is one that does not vest.                               *)
(***************************************************************************)
EXTENDS Dec, FiniteSetsExt, SequencesExt

BaseAccount(number) == [type |-> "base", number |-> number]

\* start, end and periods are read for the types that have them.
VestingAccount(type, number, original, start, end, periods) ==
    [type |-> type, number |-> number, original |-> original, start |-> start, end |-> end,
     periods |-> periods, delegatedFree |-> 0, delegatedVesting |-> 0]

IsVesting(acc) == acc.type # "base"

ContinuousVested(acc, t) ==
    LET s == Quo((t - acc.start) * One, (acc.end - acc.start) * One)
    IN  IF t <= acc.start THEN 0
        ELSE IF t >= acc.end THEN acc.original
        ELSE chopPrecisionAndRound(Mul(acc.original * One, s))

\* A period counts once it, and so every period before it, is over.
PeriodicVested(acc, t) ==
    LET Over(i) == t - acc.start >= FoldLeft(LAMBDA n, p : n + p.length, 0, SubSeq(acc.periods, 1, i))
    IN  IF t <= acc.start THEN 0
        ELSE IF t >= acc.end THEN acc.original
        ELSE MapThenSumSet(LAMBDA i : acc.periods[i].amount, {i \in DOMAIN acc.periods : Over(i)})

DelayedVested(acc, t) == IF t >= acc.end THEN acc.original ELSE 0

PermanentVested(acc, t) == 0

GetVestingCoins(acc, t) ==
    acc.original - CASE acc.type = "continuous" -> ContinuousVested(acc, t)
                     [] acc.type = "periodic"   -> PeriodicVested(acc, t)
                     [] acc.type = "delayed"    -> DelayedVested(acc, t)
                     [] acc.type = "permanent"  -> PermanentVested(acc, t)

LockedCoinsFromVesting(acc, vesting) == Max({vesting - acc.delegatedVesting, 0})

\* As a bug: what is already delegated is taken as still there to delegate.
TrackAllVesting(acc, t, amt) ==
    LET x == Min({GetVestingCoins(acc, t), amt})
    IN  [acc EXCEPT !.delegatedVesting = @ + x, !.delegatedFree = @ + (amt - x)]

\* Vesting coins are delegated first.
TrackDelegation(acc, t, amt) ==
    LET x == Min({Max({GetVestingCoins(acc, t) - acc.delegatedVesting, 0}), amt})
    IN  [acc EXCEPT !.delegatedVesting = @ + x, !.delegatedFree = @ + (amt - x)]

\* Free coins come back first; a slash leaves amounts that never come back.
TrackUndelegation(acc, amt) ==
    LET x == Min({acc.delegatedFree, amt})
        y == Min({acc.delegatedVesting, amt - x})
    IN  [acc EXCEPT !.delegatedFree = @ - x, !.delegatedVesting = @ - y]
=============================================================================
