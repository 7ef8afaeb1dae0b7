------------------------------ MODULE Staking ------------------------------
(***************************************************************************)
(* The keeper of x/staking: validators and their power index, delegations  *)
(* as shares of a validator's tokens, unbonding delegations and            *)
(* redelegations that wait in queues, slashing, and the updates of the     *)
(* validator set that the EndBlocker returns to Tendermint.                *)
(*                                                                         *)
(* A keeper method is an operator from the state of the application to the *)
(* state it leaves, as methods call one another within one block. The      *)
(* hooks that other modules register are parameters: they take and return  *)
(* the state too.                                                          *)
(*                                                                         *)
(* A validator is known by its operator, whose account delegates under the *)
(* same name, and has one consensus key. Addresses are numbers, in the     *)
(* order of their bytes. Coins have the bond denomination.                 *)
(***************************************************************************)
EXTENDS Integers, FiniteSets, SequencesExt

CONSTANTS
    One, PowerReduction,
    Operators, Delegators,      \* naturals, Operators \subseteq Delegators
    MaxValidators, MaxEntries, UnbondingTime,       \* parameters
    HistoricalEntries, MinCommissionRate,           \* parameters
    MaxRate, MaxChangeRate, Day,    \* of the commission of every validator
    ForkHeight,                 \* from here on CreateValidator asks for MinCommissionRate
    AfterValidatorCreated(_, _), AfterValidatorRemoved(_, _), AfterValidatorBonded(_, _),
    BeforeDelegationCreated(_, _, _), BeforeDelegationSharesModified(_, _, _),
    AfterDelegationModified(_, _, _), BeforeDelegationRemoved(_, _, _),
    BeforeValidatorSlashed(_, _, _)

LOCAL INSTANCE Validators

-----------------------------------------------------------------------------
(* The validator stores                                                    *)

GetValidatorsByPowerIndexKey(val, v) == <<PotentialConsensusPower(val), v>>

SetValidatorByPowerIndex(s, v) ==
    IF s.val[v].jailed THEN s
    ELSE [s EXCEPT !.power = @ \cup {GetValidatorsByPowerIndexKey(s.val[v], v)}]

DeleteValidatorByPowerIndex(s, v, val) ==
    [s EXCEPT !.power = @ \ {GetValidatorsByPowerIndexKey(val, v)}]

\* The record val of a validator, read before, is changed to new: the index
\* follows its tokens.
Reindexed(s, v, val, new) ==
    SetValidatorByPowerIndex(
        [DeleteValidatorByPowerIndex(s, v, val) EXCEPT !.val = Set(@, v, new)], v)

jailValidator(s, v) ==
    LET s1 == Require(s, ~s.val[v].jailed, "cannot jail already jailed validator")
    IN  DeleteValidatorByPowerIndex([s1 EXCEPT !.val[v].jailed = TRUE], v, s.val[v])

unjailValidator(s, v) ==
    LET s1 == Require(s, s.val[v].jailed, "cannot unjail already unjailed validator")
    IN  SetValidatorByPowerIndex([s1 EXCEPT !.val[v].jailed = FALSE], v)

RemoveValidator(s, v) ==
    LET s1 == Require(s, s.val[v].status = "unbonded" /\ s.val[v].tokens = 0,
                      "cannot remove a validator that is bonded or holds tokens")
        s2 == [DeleteValidatorByPowerIndex(s1, v, s.val[v]) EXCEPT !.val = Delete(@, v)]
    IN  AfterValidatorRemoved(s2, v)

-----------------------------------------------------------------------------
(* Coins: the two pools and the accounts                                   *)

bondedTokensToNotBonded(s, amt) ==
    [Require(s, amt <= s.bonded, "bonded pool is short of tokens")
        EXCEPT !.bonded = @ - amt, !.notBonded = @ + amt]

notBondedTokensToBonded(s, amt) ==
    [Require(s, amt <= s.notBonded, "not bonded pool is short of tokens")
        EXCEPT !.notBonded = @ - amt, !.bonded = @ + amt]

\* Mutant of Burn: slashed tokens are always taken from the pool of what is not bonded.
BurnNotBonded(s, status, amt) ==
    [Require(s, amt <= s.notBonded, "not bonded pool is short of tokens")
        EXCEPT !.notBonded = @ - amt, !.burned = @ + amt]

\* Tokens are burned from the pool that holds those of a validator of status.
Burn(s, status, amt) ==
    IF status = "bonded"
    THEN [Require(s, amt <= s.bonded, "bonded pool is short of tokens")
             EXCEPT !.bonded = @ - amt, !.burned = @ + amt]
    ELSE [Require(s, amt <= s.notBonded, "not bonded pool is short of tokens")
             EXCEPT !.notBonded = @ - amt, !.burned = @ + amt]

\* The coins of a delegation come from the account of the delegator, to which a
\* hook may just have paid, or from the pool of the validator they leave.
DelegateCoins(s, d, amt, source, status, subtractAccount) ==
    LET s1 == Require(s, amt <= s.balance[d], "insufficient funds") IN
    CASE subtractAccount /\ status = "bonded" ->
            [s1 EXCEPT !.balance[d] = @ - amt, !.bonded = @ + amt]
      [] subtractAccount /\ status # "bonded" ->
            [s1 EXCEPT !.balance[d] = @ - amt, !.notBonded = @ + amt]
      [] ~subtractAccount /\ source # "bonded" /\ status = "bonded" -> notBondedTokensToBonded(s, amt)
      [] ~subtractAccount /\ source = "bonded" /\ status # "bonded" -> bondedTokensToNotBonded(s, amt)
      [] OTHER -> s

-----------------------------------------------------------------------------
(* Delegations                                                             *)

GetDelegation(s, d, v) == IF Has(s.del, <<d, v>>) THEN s.del[d, v] ELSE 0

\* val is the validator as it was read by the caller.
Delegate(s, d, amt, source, v, val, subtractAccount) ==
    LET s1 == IF Has(s.del, <<d, v>>) THEN BeforeDelegationSharesModified(s, d, v)
              ELSE BeforeDelegationCreated(s, d, v)
        s2 == DelegateCoins(s1, d, amt, source, val.status, subtractAccount)
        added == AddTokensFromDel(val, amt)
        s3 == Reindexed(s2, v, val, added.val)
        s4 == [s3 EXCEPT !.del = Set(@, <<d, v>>, GetDelegation(s, d, v) + added.shares)]
    IN  [s |-> AfterDelegationModified(s4, d, v), shares |-> added.shares]

\* A self-delegation that falls below the validator's minimum jails it.
JailBelowMinimum(s, d, v, left) ==
    IF d = v /\ ~s.val[v].jailed
             /\ TruncateInt(TokensFromShares(s.val[v], left)) < s.val[v].minSelf
    THEN jailValidator(s, v) ELSE s

SetDelegation(s, d, v, left) ==
    IF left = 0 THEN [BeforeDelegationRemoved(s, d, v) EXCEPT !.del = Delete(@, <<d, v>>)]
    ELSE AfterDelegationModified([s EXCEPT !.del[<<d, v>>] = left], d, v)

\* A validator that is not unbonded outlives its last delegation.
RemoveShares(s, v, shares) ==
    LET removed == RemoveDelShares(s.val[v], shares)
        s1      == Reindexed(s, v, s.val[v], removed.val)
    IN  [s      |-> IF removed.val.shares = 0 /\ removed.val.status = "unbonded"
                    THEN RemoveValidator(s1, v) ELSE s1,
         amount |-> removed.tokens]

Unbond(s, d, v, shares) ==
    LET left == s.del[d, v] - shares
        s1   == JailBelowMinimum(BeforeDelegationSharesModified(s, d, v), d, v, left)
    IN  RemoveShares(SetDelegation(s1, d, v, left), v, shares)

\* The shares that an amount of tokens is worth, if the delegator has them.
CanUnbond(s, d, v, amt) ==
    /\ Has(s.val, v) /\ Has(s.del, <<d, v>>)
    /\ s.val[v].tokens > 0
    /\ SharesFromTokensTruncated(s.val[v], amt) <= s.del[d, v]
ValidateUnbondAmount(s, d, v, amt) ==
    LET shares == SharesFromTokens(s.val[v], amt)
    IN  IF shares > s.del[d, v] THEN s.del[d, v] ELSE shares

Entries(f, k) == IF Has(f, k) THEN f[k] ELSE <<>>

\* Entries of one pair that mature at the same time stand in the queue once:
\* the second finds nothing mature in the code.
SetUnbondingDelegationEntry(s, d, v, amount) ==
    LET done  == s.time + UnbondingTime
        entry == [height |-> s.height, time |-> done, initial |-> amount, balance |-> amount]
    IN  [s EXCEPT !.ubd = Set(@, <<d, v>>, Append(Entries(@, <<d, v>>), entry)),
                  !.ubdQ = @ \cup {<<done, d, v>>}]

\* The tokens of a validator that is bonded change pools.
QueueUnbonded(unbonded, d, v, bonded) ==
    SetUnbondingDelegationEntry(
        IF bonded THEN bondedTokensToNotBonded(unbonded.s, unbonded.amount) ELSE unbonded.s,
        d, v, unbonded.amount)

Undelegate(s, d, v, shares) ==
    QueueUnbonded(Unbond(s, d, v, shares), d, v, IsBonded(s.val[v]))

IsMature(s, entry) == entry.time <= s.time
Immature(s, entries) == SelectSeq(entries, LAMBDA e : ~IsMature(s, e))

CompleteUnbonding(s, d, v) ==
    LET entries == Entries(s.ubd, <<d, v>>)
        left    == Immature(s, entries)
        paid    == FoldLeft(LAMBDA n, e : IF IsMature(s, e) THEN n + e.balance ELSE n, 0, entries)
        s1      == Require(s, paid <= s.notBonded, "not bonded pool is short of tokens")
    IN  [s1 EXCEPT !.ubd = IF left = <<>> THEN Delete(@, <<d, v>>) ELSE Set(@, <<d, v>>, left),
                   !.notBonded = @ - paid, !.balance[d] = @ + paid]

\* When the stake of a source validator stops being answerable for it: a source
\* that was removed counts as a bonded one.
getBeginInfo(s, v) ==
    IF ~Has(s.val, v) \/ IsBonded(s.val[v])
    THEN [time |-> s.time + UnbondingTime, height |-> s.height, completeNow |-> FALSE]
    ELSE [time |-> s.val[v].unbondingTime, height |-> s.val[v].unbondingHeight,
          completeNow |-> s.val[v].status = "unbonded"]

HasReceivingRedelegation(s, d, v) == \E k \in DOMAIN s.red : k[1] = d /\ k[3] = v

CanRedelegate(s, d, src, dst) ==
    /\ src # dst /\ Has(s.val, dst) /\ Has(s.val, src)
    /\ ~HasReceivingRedelegation(s, d, src)
    /\ Len(Entries(s.red, <<d, src, dst>>)) < MaxEntries
    /\ ~InvalidExRate(s.val[dst])

\* delegated is what Delegate returned for the amount; a source that is unbonded
\* has nothing more to answer for.
SetRedelegationEntry(delegated, k, amount, begin) ==
    LET entry == [height |-> begin.height, time |-> begin.time,
                  initial |-> amount, shares |-> delegated.shares]
    IN  IF begin.completeNow THEN delegated.s
        ELSE [delegated.s EXCEPT !.red = Set(@, k, Append(Entries(@, k), entry)),
                                 !.redQ = @ \cup {<<begin.time>> \o k}]

\* The destination is the record that was read before the shares were unbonded.
Redelegate(unbonded, d, src, status, dst, val) ==
    LET s1 == Require(unbonded.s, unbonded.amount > 0, "too few tokens to redelegate")
    IN  SetRedelegationEntry(Delegate(s1, d, unbonded.amount, status, dst, val, FALSE),
                             <<d, src, dst>>, unbonded.amount, getBeginInfo(unbonded.s, src))

BeginRedelegation(s, d, src, dst, shares) ==
    Redelegate(Unbond(s, d, src, shares), d, src, s.val[src].status, dst, s.val[dst])

CompleteRedelegation(s, d, src, dst) ==
    LET left == Immature(s, Entries(s.red, <<d, src, dst>>))
    IN  [s EXCEPT !.red = IF left = <<>> THEN Delete(@, <<d, src, dst>>)
                          ELSE Set(@, <<d, src, dst>>, left)]

-----------------------------------------------------------------------------
(* Slashing                                                                *)

\* Only what left the validator at or after the infraction, and is not mature.
Answerable(s, entry, infractionHeight) ==
    entry.height >= infractionHeight /\ ~IsMature(s, entry)

\* slashed is the amount that counts as slashed, which may be more than the
\* entries still held.
SlashUnbondingDelegation(s, k, infractionHeight, factor) ==
    LET amount(e)  == IF Answerable(s, e, infractionHeight)
                      THEN TruncateInt(MulInt(factor, e.initial)) ELSE 0
        burn(e)    == IF amount(e) < e.balance THEN amount(e) ELSE e.balance
        entries    == s.ubd[k]
        burned     == FoldLeft(LAMBDA n, e : n + burn(e), 0, entries)
    IN  [s       |-> Burn([s EXCEPT !.ubd[k] = [i \in DOMAIN entries |->
                                        [entries[i] EXCEPT !.balance = @ - burn(entries[i])]]],
                          "unbonding", burned),
         slashed |-> FoldLeft(LAMBDA n, e : n + amount(e), 0, entries)]

DestinationGone == "destination validator not found"

\* The destination that was unbonded lost its last shares to Unbond, and is gone.
BurnUnbonded(unbonded, dst) ==
    IF Has(unbonded.s.val, dst)
    THEN Burn(unbonded.s, unbonded.s.val[dst].status, unbonded.amount)
    ELSE Panic(unbonded.s, DestinationGone)

\* The shares that a redelegation bought are unbonded from its destination.
SlashRedelegationEntry(r, k, e, infractionHeight, factor) ==
    LET s == r.s  d == k[1]  dst == k[3]
        toUnbond == Mul(factor, e.shares)
        held     == GetDelegation(s, d, dst)
    IN  IF ~Answerable(s, e, infractionHeight) \/ s.panic # "" THEN r
        ELSE [slashed |-> r.slashed + TruncateInt(MulInt(factor, e.initial)),
              s |-> IF toUnbond = 0 \/ held = 0 THEN s
                    ELSE BurnUnbonded(Unbond(s, d, dst, Min({toUnbond, held})), dst)]

SlashRedelegation(s, k, infractionHeight, factor) ==
    FoldLeft(LAMBDA r, e : SlashRedelegationEntry(r, k, e, infractionHeight, factor),
             [s |-> s, slashed |-> 0], s.red[k])

\* What left the validator since the infraction is slashed first.
SlashDeparted(s, v, infractionHeight, factor) ==
    LET add(r, one) == [s |-> one.s, slashed |-> r.slashed + one.slashed]
        ubds == SetToSortSeq({k \in DOMAIN s.ubd : k[2] = v}, Lexicographic)
        reds == SetToSortSeq({k \in DOMAIN s.red : k[2] = v}, Lexicographic)
        r1   == FoldLeft(LAMBDA r, k : add(r, SlashUnbondingDelegation(r.s, k, infractionHeight, factor)),
                         [s |-> s, slashed |-> 0], ubds)
        r2   == FoldLeft(LAMBDA r, k : add(r, SlashRedelegation(r.s, k, infractionHeight, factor)), r1, reds)
    IN  IF infractionHeight < s.height THEN r2 ELSE [s |-> s, slashed |-> 0]

\* The validator, as it was before, is slashed for the rest of the amount.
SlashRest(departed, v, val, amount) ==
    LET burn == Max({0, Min({amount - departed.slashed, val.tokens})})
        s1   == IF val.tokens > 0
                THEN BeforeValidatorSlashed(departed.s, v, QuoRoundUp(burn * One, val.tokens * One))
                ELSE departed.s
    IN  IF departed.s.panic # "" THEN departed.s
        ELSE Burn(Reindexed(s1, v, val, [val EXCEPT !.tokens = @ - burn]), val.status, burn)

Slash(s, v, infractionHeight, power, factor) ==
    IF ~Has(s.val, v) THEN s
    ELSE IF s.val[v].status = "unbonded" THEN Panic(s, "should not be slashing unbonded validator")
    ELSE IF infractionHeight > s.height THEN Panic(s, "impossible attempt to slash future infraction")
    ELSE SlashRest(SlashDeparted(s, v, infractionHeight, factor), v, s.val[v],
                   TruncateInt(Mul(power * PowerReduction * One, factor)))

-----------------------------------------------------------------------------
(* The EndBlocker                                                          *)

\* Mutant of bondValidator: a validator that bonds again stays in the unbonding queue.
bondKeepsQueue(s, v) ==
    AfterValidatorBonded(Reindexed(s, v, s.val[v], [s.val[v] EXCEPT !.status = "bonded"]), v)

bondValidator(s, v) ==
    LET val == s.val[v]
        s1  == Reindexed(s, v, val, [val EXCEPT !.status = "bonded"])
    IN  AfterValidatorBonded(
            [s1 EXCEPT !.valQ = @ \ {<<val.unbondingTime, val.unbondingHeight, v>>}], v)

beginUnbondingValidator(s, v) ==
    LET val  == s.val[v]
        done == s.time + UnbondingTime
        s1   == Require(s, IsBonded(val), "bad state transition bondedToUnbonding")
        s2   == Reindexed(s1, v, val, [val EXCEPT !.status = "unbonding", !.unbondingTime = done,
                                                  !.unbondingHeight = s.height])
    IN  [s2 EXCEPT !.valQ = @ \cup {<<done, s.height, v>>}]

\* The highest power first, and the lowest address among equals.
ByPower(a, b) == a[1] > b[1] \/ (a[1] = b[1] /\ a[2] < b[2])

\* The validators that the power index has first.
Ranked(s) ==
    LET keys == SetToSortSeq(s.power, ByPower)
    IN  [i \in 1 .. Min({MaxValidators, Len(keys)}) |-> keys[i][2]]

\* What the power index should never have.
Misplaced(s, v) == ~Has(s.val, v) \/ s.val[v].jailed

\* Where the loop over them ends before the last, or 0.
StopsAt(s) ==
    SelectInSeq(Ranked(s), LAMBDA v : Misplaced(s, v) \/ PotentialConsensusPower(s.val[v]) = 0)

\* Mutant of Elected: a validator without power is bonded too.
ElectedPowerless(s) == Ranked(s)

\* The validators that the loop bonds, if they are not.
Elected(s) == IF StopsAt(s) = 0 THEN Ranked(s) ELSE SubSeq(Ranked(s), 1, StopsAt(s) - 1)

\* The tokens of the validators that change their status move in one transfer.
MoveTokens(s, enter, gone) ==
    LET sum(S) == SumFunctionOnSet([v \in S |-> s.val[v].tokens], S)
    IN  IF sum(enter) > sum(gone) THEN notBondedTokensToBonded(s, sum(enter) - sum(gone))
        ELSE bondedTokensToNotBonded(s, sum(gone) - sum(enter))

\* Only what changed is returned, and only then the total is stored.
SetLastPowers(s, powers, gone) ==
    LET changed == {v \in DOMAIN powers : ~Has(s.last, v) \/ s.last[v] # powers[v]}
    IN  [s EXCEPT !.last = powers,
                  !.total = IF changed \cup gone = {} THEN @ ELSE SumFunction(powers),
                  !.updates = [v \in changed \cup gone |-> IF v \in gone THEN 0 ELSE powers[v]]]

\* Those elected are bonded, those no longer elected begin to unbond.
BondElected(s, elected, gone, enter) ==
    LET s1 == FoldLeft(LAMBDA r, v : IF v \in enter THEN bondValidator(r, v) ELSE r, s, elected)
    IN  MoveTokens(ForEach(beginUnbondingValidator, s1, gone, <), enter, gone)

UpdatePowers(s, elected, gone) ==
    SetLastPowers(s, [v \in ToSet(elected) |-> ConsensusPower(s.val[v])], gone)

UpdateElected(s, elected) ==
    LET gone  == DOMAIN s.last \ ToSet(elected)
        enter == {v \in ToSet(elected) : ~IsBonded(s.val[v])}
    IN  UpdatePowers(BondElected(s, elected, gone, enter), elected, gone)

ApplyAndReturnValidatorSetUpdates(s) ==
    IF StopsAt(s) # 0 /\ Misplaced(s, Ranked(s)[StopsAt(s)])
    THEN Panic(s, "should never retrieve a jailed validator from the power store")
    ELSE UpdateElected(s, Elected(s))

UnbondMatureValidator(s, q) ==
    LET v  == q[3]
        s1 == [s EXCEPT !.val[v].status = "unbonded", !.valQ = @ \ {q}]
    IN  IF ~Has(s.val, v) \/ s.val[v].status # "unbonding"
        THEN Panic(s, "unexpected validator in unbonding queue")
        ELSE IF s.val[v].shares = 0 THEN RemoveValidator(s1, v) ELSE s1

UnbondAllMatureValidators(s) ==
    ForEach(UnbondMatureValidator, s,
            {q \in s.valQ : q[1] <= s.time /\ q[2] <= s.height}, Lexicographic)

\* What is due leaves the queues at once.
CompleteUnbondings(s) ==
    LET due == {q \in s.ubdQ : q[1] <= s.time}
    IN  ForEach(LAMBDA r, q : CompleteUnbonding(r, q[2], q[3]),
                [s EXCEPT !.ubdQ = @ \ due], due, Lexicographic)

CompleteRedelegations(s) ==
    LET due == {q \in s.redQ : q[1] <= s.time}
    IN  ForEach(LAMBDA r, q : CompleteRedelegation(r, q[2], q[3], q[4]),
                [s EXCEPT !.redQ = @ \ due], due, Lexicographic)

BlockValidatorUpdates(s) ==
    CompleteRedelegations(CompleteUnbondings(UnbondAllMatureValidators(
        ApplyAndReturnValidatorSetUpdates(s))))

-----------------------------------------------------------------------------
(* The BeginBlocker: of the historical infos, their heights                *)

\* The loop goes down from the newest entry to drop and ends at the first that
\* is not there.
TrackHistoricalInfo(s) ==
    LET newest == s.height - HistoricalEntries
        drop   == {i \in 0 .. newest : \A j \in i .. newest : j \in s.hist}
        s1     == Require(s, Cardinality(DOMAIN s.last) <= MaxValidators,
                          "more validators than maxValidators found")
    IN  IF HistoricalEntries = 0 THEN [s EXCEPT !.hist = @ \ drop]
        ELSE [s1 EXCEPT !.hist = (@ \ drop) \cup {s.height}]

-----------------------------------------------------------------------------
(* Genesis: validators with their delegations, in tokens                   *)

EmptyStores(balance) ==
    [val |-> <<>>, del |-> <<>>, ubd |-> <<>>, red |-> <<>>, power |-> {}, last |-> <<>>, total |-> 0,
     valQ |-> {}, ubdQ |-> {}, redQ |-> {}, bonded |-> 0, notBonded |-> 0, burned |-> 0,
     balance |-> balance, height |-> 0, time |-> 0, updates |-> <<>>, hist |-> {}, panic |-> ""]

GenesisValidator(s, v, genesis) ==
    LET tokens == SumFunctionOnSet(genesis.del, {k \in DOMAIN genesis.del : k[2] = v})
        val    == [NewValidator(genesis.val[v].minSelf, genesis.val[v].rate, 0)
                      EXCEPT !.tokens = tokens, !.shares = tokens * One]
    IN  AfterValidatorCreated(
            SetValidatorByPowerIndex([s EXCEPT !.val = Set(@, v, val), !.notBonded = @ + tokens], v), v)

GenesisDelegation(s, k, genesis) ==
    LET s1 == BeforeDelegationCreated(s, k[1], k[2])
    IN  AfterDelegationModified([s1 EXCEPT !.del = Set(@, k, genesis.del[k] * One)], k[1], k[2])

InitGenesis(s, genesis) ==
    LET s1 == ForEach(LAMBDA r, v : GenesisValidator(r, v, genesis), s, DOMAIN genesis.val, <)
        s2 == ForEach(LAMBDA r, k : GenesisDelegation(r, k, genesis), s1, DOMAIN genesis.del,
                      Lexicographic)
    IN  ApplyAndReturnValidatorSetUpdates(s2)

\* What the export of a chain holds. The power index, the queues and the
\* historical infos are left out.
ExportGenesis(s) ==
    [val |-> s.val, del |-> s.del, ubd |-> s.ubd, red |-> s.red, last |-> s.last, total |-> s.total]

\* The validators of the genesis file, for Tendermint.
WriteValidators(s) == [v \in DOMAIN s.last |-> ConsensusPower(s.val[v])]

ImportValidator(s, v, val) ==
    LET s1 == SetValidatorByPowerIndex([s EXCEPT !.val = Set(@, v, val)], v)
    IN  IF val.status # "unbonding" THEN s1
        ELSE [s1 EXCEPT !.valQ = @ \cup {<<val.unbondingTime, val.unbondingHeight, v>>}]

QueueOf(waiting) == UNION {{<<e.time>> \o k : e \in ToSet(waiting[k])} : k \in DOMAIN waiting}

\* The pools hold what the bank gave them before.
RequirePools(s) ==
    LET tokens(S) == SumFunctionOnSet([v \in DOMAIN s.val |-> s.val[v].tokens],
                                      {v \in DOMAIN s.val : IsBonded(s.val[v]) \in S})
        waiting == SumFunction([k \in DOMAIN s.ubd |->
                                   FoldLeft(LAMBDA n, e : n + e.balance, 0, s.ubd[k])])
    IN  Require(s, s.bonded = tokens({TRUE}) /\ s.notBonded = tokens({FALSE}) + waiting,
                "pool balance is different from the coins")

\* BaseApp compares the updates of InitChain with the validators of the file.
RequireValidators(s, validators) ==
    Require(s, s.updates = validators, "genesis validators are not those of InitGenesis")

\* InitGenesis of an exported state: no hook runs, and the updates are the last
\* powers.
InitExported(s, g, validators) ==
    LET s1 == ForEach(LAMBDA r, v : ImportValidator(r, v, g.val[v]), s, DOMAIN g.val, <)
        s2 == [s1 EXCEPT !.del = g.del, !.ubd = g.ubd, !.ubdQ = QueueOf(g.ubd),
                         !.red = g.red, !.redQ = QueueOf(g.red),
                         !.last = g.last, !.total = g.total, !.updates = g.last]
        s3 == Require(RequirePools(s2), DOMAIN g.last \subseteq DOMAIN g.val, "validator not found")
    IN  RequireValidators(s3, validators)

-----------------------------------------------------------------------------
(* The messages. One that fails, or panics, leaves no trace.               *)

VARIABLE app

Delivered(s) == s.panic = "" /\ app' = s

\* MaxRate and MaxChangeRate are in order for every validator.
CreateValidator(v, amt, minSelf, rate) ==
    LET val == NewValidator(minSelf, rate, app.time)
        s1  == [app EXCEPT !.val = Set(@, v, val), !.power = @ \cup {GetValidatorsByPowerIndexKey(val, v)}]
        s2  == AfterValidatorCreated(s1, v)
    IN  /\ ~Has(app.val, v) /\ amt >= minSelf
        /\ app.height >= ForkHeight => rate >= MinCommissionRate
        /\ rate \in 0 .. MaxRate
        /\ Delivered(Delegate(s2, v, amt, "unbonded", v, val, TRUE).s)

\* The commission may change once a day, and rise by no more than a step. What
\* the message leaves out is Nil.
UpdateValidatorCommission(val, rate) ==
    /\ app.time - val.rateTime >= Day
    /\ rate \in MinCommissionRate .. MaxRate /\ rate - val.rate <= MaxChangeRate

EditValidator(v, rate, minSelf) ==
    LET val == app.val[v]
        new == [val EXCEPT !.rate = IF rate = Nil THEN @ ELSE rate,
                           !.rateTime = IF rate = Nil THEN @ ELSE app.time,
                           !.minSelf = IF minSelf = Nil THEN @ ELSE minSelf]
    IN  /\ Has(app.val, v)
        /\ rate # Nil => UpdateValidatorCommission(val, rate)
        /\ minSelf # Nil => minSelf > val.minSelf /\ minSelf <= val.tokens
        /\ Delivered([app EXCEPT !.val[v] = new])

MsgDelegate(d, v, amt) ==
    /\ Has(app.val, v) /\ ~InvalidExRate(app.val[v])
    /\ Delivered(Delegate(app, d, amt, "unbonded", v, app.val[v], TRUE).s)

MsgUndelegate(d, v, amt) ==
    /\ CanUnbond(app, d, v, amt)
    /\ Len(Entries(app.ubd, <<d, v>>)) < MaxEntries
    /\ Delivered(Undelegate(app, d, v, ValidateUnbondAmount(app, d, v, amt)))

MsgBeginRedelegate(d, src, dst, amt) ==
    /\ CanUnbond(app, d, src, amt) /\ CanRedelegate(app, d, src, dst)
    /\ Delivered(BeginRedelegation(app, d, src, dst, ValidateUnbondAmount(app, d, src, amt)))
=============================================================================
