---------------------------- MODULE Distribution ----------------------------
(***************************************************************************)
(* x/distribution on top of x/staking: what x/mint and the fees bring in   *)
(* is split, block by block, between the proposer, the voters and the      *)
(* community pool, and is withdrawn by the delegators whenever they like.  *)
(* Nothing is paid when it accrues. A validator counts periods: the end of *)
(* one records the rewards of a token since genesis, a delegation remembers*)
(* the period it started from, and every change of its shares withdraws,   *)
(* through the hooks of x/staking. Slashes are recorded as events.         *)
(*                                                                         *)
(* Who is slashed, in x/slashing and x/evidence, is any voter here. Of the *)
(* transactions that fail there is the fee. Coins have one denomination.   *)
(***************************************************************************)
EXTENDS Validators

CONSTANTS
    Operators, Delegators, MaxValidators, MaxEntries, UnbondingTime,
    HistoricalEntries, MinCommissionRate, MaxRate, MaxChangeRate, Day, ForkHeight,
    InflationMin, InflationMax, InflationRateChange, GoalBonded, BlocksPerYear,
    CommunityTax, BaseProposerReward, BonusProposerReward,      \* parameters
    WithdrawAddrEnabled, SlashFraction,                         \* parameters
    BlockedAddrs,   \* the module accounts
    Genesis,        \* validators, delegations and balances
    Amounts,        \* tokens of one message
    JailAllowed,    \* the validators that an export for height zero does not jail, or {}
    MaxBlocks,      \* bound: blocks
    MaxMessages,    \* bound: messages delivered
    WithdrawAddrs,  \* bound: the addresses that rewards are redirected to
    MaxIncidents,   \* bound: validators slashed, and exports
    MaxExports      \* bound: exports

VARIABLES
    app,            \* the stores of staking, distribution and mint, and the header
    sets,           \* the validators of the last block, of this one and of the next
    phase,          \* "begin" before BeginBlock, "txs" after it, "halted" by a panic
    messages, slashed, exports

vars == <<app, sets, phase, messages, slashed, exports>>

Minter == INSTANCE Mint

-----------------------------------------------------------------------------
(* Periods and the references to them                                      *)

\* A record that is not there reads as one of zeros.
GetValidatorHistoricalRewards(s, v, period) ==
    IF Has(s.historical, <<v, period>>) THEN s.historical[v, period] ELSE [ratio |-> 0, refs |-> 0]

incrementReferenceCount(s, v, period) ==
    LET record == GetValidatorHistoricalRewards(s, v, period)
        s1     == Require(s, record.refs <= 2, "reference count should never exceed 2")
    IN  [s1 EXCEPT !.historical = Set(@, <<v, period>>, [record EXCEPT !.refs = @ + 1])]

decrementReferenceCount(s, v, period) ==
    LET record == GetValidatorHistoricalRewards(s, v, period)
        s1     == Require(s, record.refs > 0, "cannot set negative reference count")
    IN  [s1 EXCEPT !.historical =
            IF record.refs = 1 THEN Delete(@, <<v, period>>)
            ELSE Set(@, <<v, period>>, [record EXCEPT !.refs = @ - 1])]

initializeValidator(s, v) ==
    [s EXCEPT !.historical = Set(@, <<v, 0>>, [ratio |-> 0, refs |-> 1]),
              !.current = Set(@, v, [rewards |-> 0, period |-> 1]),
              !.commission = Set(@, v, 0),
              !.outstanding = Set(@, v, 0)]

\* Mutant of RewardsPerToken: rounded to the nearest.
RewardsPerTokenRounded(rewards, tokens) == IF tokens > 0 THEN Quo(rewards, tokens * One) ELSE 0

\* Truncated, so that no more can be withdrawn than is owed.
RewardsPerToken(rewards, tokens) == IF tokens > 0 THEN QuoTruncate(rewards, tokens * One) ELSE 0

\* The period that ends is s.current[v].period. Rewards of a validator without
\* tokens belong to no delegator.
IncrementValidatorPeriod(s, v) ==
    LET ended  == s.current[v]
        tokens == s.val[v].tokens
        s1     == IF tokens > 0 THEN s
                  ELSE [Require(s, ended.rewards <= s.outstanding[v], "negative coin amount")
                           EXCEPT !.pool = @ + ended.rewards, !.outstanding[v] = @ - ended.rewards]
        ratio  == RewardsPerToken(ended.rewards, tokens)
        last   == GetValidatorHistoricalRewards(s, v, ended.period - 1).ratio
        s2     == decrementReferenceCount(s1, v, ended.period - 1)
    IN  [s2 EXCEPT !.historical = Set(@, <<v, ended.period>>, [ratio |-> last + ratio, refs |-> 1]),
                   !.current[v] = [rewards |-> 0, period |-> ended.period + 1]]

\* Mutant of updateValidatorSlashFraction: the event does not hold its period.
SlashWithoutReference(s, v, fraction) ==
    [IncrementValidatorPeriod(s, v) EXCEPT
        !.slashes = Set(@, <<v, s.height, s.current[v].period>>, fraction)]

updateValidatorSlashFraction(s, v, fraction) ==
    LET s1     == Require(s, fraction \in 0 .. One, "fraction must be >=0 and <=1")
        period == s.current[v].period
        s2     == incrementReferenceCount(IncrementValidatorPeriod(s1, v), v, period)
    IN  [s2 EXCEPT !.slashes = Set(@, <<v, s.height, period>>, fraction)]

-----------------------------------------------------------------------------
(* The rewards of a delegation                                             *)

\* The period has been ended by the caller. The stake is truncated.
initializeDelegation(s, d, v) ==
    LET previous == s.current[v].period - 1
        stake    == TokensFromSharesTruncated(s.val[v], s.del[d, v])
    IN  [incrementReferenceCount(s, v, previous)
            EXCEPT !.starting = Set(@, <<d, v>>,
                                    [period |-> previous, stake |-> stake, height |-> s.height])]

\* r walks the periods of a delegation: the rewards so far, and the stake that
\* earns from r.period on.
calculateDelegationRewardsBetween(s, v, r, ending) ==
    LET difference == GetValidatorHistoricalRewards(s, v, ending).ratio
                        - GetValidatorHistoricalRewards(s, v, r.period).ratio
        ok         == r.period <= ending /\ difference >= 0
    IN  [r EXCEPT !.rewards = @ + (IF ok THEN MulTruncate(difference, r.stake) ELSE 0),
                  !.panic = IF ok THEN @ ELSE "negative rewards should not be possible"]

MarginOfErr == 3

\* Every slash since the delegation started ends a stretch of constant stake.
\* Only an error in the last digits is forgiven between the stake that is left
\* and what the shares are worth.
CalculateDelegationRewards(s, d, v, ending) ==
    LET start   == s.starting[d, v]
        start0  == [rewards |-> 0, stake |-> start.stake, period |-> start.period, panic |-> ""]
        events  == {k \in DOMAIN s.slashes : k[1] = v /\ k[2] \in start.height .. s.height}
        walked  == FoldLeft(
                       LAMBDA r, k :
                           IF k[3] <= r.period THEN r
                           ELSE [calculateDelegationRewardsBetween(s, v, r, k[3]) EXCEPT
                                    !.stake = MulTruncate(@, One - s.slashes[k]), !.period = k[3]],
                       start0, SetToSortSeq(events, Lexicographic))
        worth   == TokensFromShares(s.val[v], s.del[d, v])
        checked == [walked EXCEPT
                       !.stake = Min({@, worth}),
                       !.panic = IF walked.stake <= worth + MarginOfErr THEN @
                                 ELSE "calculated final stake greater than current stake"]
    IN  IF start.height = s.height THEN start0
        ELSE calculateDelegationRewardsBetween(s, v, checked, ending)

PayFromModule(s, d, coins) ==
    [Require(s, coins <= s.module, "distribution account is short of coins")
        EXCEPT !.module = @ - coins, !.balance[s.withdrawAddr[d]] = @ + coins]

\* Whole coins are paid, and the rest is left to the community.
PayRewards(s, d, v, rewards) ==
    LET coins == TruncateInt(rewards)
    IN  [PayFromModule(s, d, coins)
            EXCEPT !.outstanding[v] = @ - rewards, !.pool = @ + rewards - coins * One]

\* What was calculated, but no more than is outstanding.
WithdrawCalculated(s, d, v, raw) ==
    LET s1 == Require(s, raw.panic = "", raw.panic)
        s2 == PayRewards(s1, d, v, Min({raw.rewards, s.outstanding[v]}))
    IN  [decrementReferenceCount(s2, v, s.starting[d, v].period) EXCEPT !.starting = Delete(@, <<d, v>>)]

WithdrawEnded(s, d, v, ending) ==
    WithdrawCalculated(s, d, v, CalculateDelegationRewards(s, d, v, ending))

withdrawDelegationRewards(s, d, v) ==
    IF ~Has(s.starting, <<d, v>>) THEN Panic(s, "no delegation distribution info")
    ELSE WithdrawEnded(IncrementValidatorPeriod(s, v), d, v, s.current[v].period)

-----------------------------------------------------------------------------
(* The hooks                                                               *)

\* The commission is paid out, and what is left by roundings is the community's.
DistributionAfterValidatorRemoved(s, v) ==
    LET commission == s.commission[v]
        s1 == Require(s, commission <= s.outstanding[v], "negative coin amount")
        s2 == PayFromModule(s1, v, TruncateInt(commission))
    IN  [s2 EXCEPT
            !.pool = @ + s.outstanding[v] - TruncateInt(commission) * One,
            !.outstanding = Delete(@, v), !.commission = Delete(@, v), !.current = Delete(@, v),
            !.slashes = Restrict(@, {k \in DOMAIN @ : k[1] # v}),
            !.historical = Restrict(@, {k \in DOMAIN @ : k[1] # v})]

\* Mutant of DistributionBeforeDelegationCreated: the period goes on.
DelegationCreatedInPeriod(s, d, v) == s

DistributionBeforeDelegationCreated(s, d, v) == IncrementValidatorPeriod(s, v)

NoValidatorHook(s, v)     == s
NoDelegationHook(s, d, v) == s

INSTANCE Staking WITH
    AfterValidatorCreated <- initializeValidator,
    AfterValidatorRemoved <- DistributionAfterValidatorRemoved,
    AfterValidatorBonded <- NoValidatorHook,
    BeforeDelegationCreated <- DistributionBeforeDelegationCreated,
    BeforeDelegationSharesModified <- withdrawDelegationRewards,
    AfterDelegationModified <- initializeDelegation,
    BeforeDelegationRemoved <- NoDelegationHook,
    BeforeValidatorSlashed <- updateValidatorSlashFraction

-----------------------------------------------------------------------------
(* Allocation                                                              *)

\* Mutant of AllocateTokensToValidator: the commission is not counted as outstanding.
AllocateShared(s, v, tokens) ==
    LET commission == Mul(tokens, s.val[v].rate)
    IN  IF ~Has(s.val, v) THEN Panic(s, "validator of a vote not found")
        ELSE [s EXCEPT !.commission[v] = @ + commission,
                       !.current[v].rewards = @ + tokens - commission,
                       !.outstanding[v] = @ + tokens - commission]

AllocateTokensToValidator(s, v, tokens) ==
    LET commission == Mul(tokens, s.val[v].rate)
    IN  IF ~Has(s.val, v) THEN Panic(s, "validator of a vote not found")
        ELSE [s EXCEPT !.commission[v] = @ + commission,
                       !.current[v].rewards = @ + tokens - commission,
                       !.outstanding[v] = @ + tokens]

VoteMultiplier(proposerMultiplier) == One - proposerMultiplier - CommunityTax

\* votes: the power of every validator of the last commit; signed: those of them
\* that signed it. A proposer that is gone leaves its reward to the community.
AllocateTokens(s, votes, signed) ==
    LET fees  == s.fees * One
        total == SumFunction(votes)
        fraction   == Quo(SumFunctionOnSet(votes, signed) * One, total * One)
        multiplier == BaseProposerReward + MulTruncate(BonusProposerReward, fraction)
        proposed   == IF Has(s.val, s.proposer) THEN MulTruncate(fees, multiplier) ELSE 0
        reward(v)  == MulTruncate(MulTruncate(fees, VoteMultiplier(multiplier)),
                                  QuoTruncate(votes[v] * One, total * One))
        paid == proposed + SumFunction([v \in DOMAIN votes |-> reward(v)])
        s1   == [s EXCEPT !.fees = 0, !.module = @ + s.fees]
        s2   == IF Has(s.val, s.proposer) THEN AllocateTokensToValidator(s1, s.proposer, proposed)
                ELSE s1
        s3   == ForEach(LAMBDA r, v : AllocateTokensToValidator(r, v, reward(v)),
                        Require(s2, paid <= fees, "negative coin amount"), DOMAIN votes, <)
    IN  IF total = 0 THEN [s1 EXCEPT !.pool = @ + fees]
        ELSE [s3 EXCEPT !.pool = @ + fees - paid]

DistributionBeginBlocker(s, votes, signed, proposer) ==
    LET s1 == IF s.height > 1 THEN AllocateTokens(s, votes, signed) ELSE s
    IN  [s1 EXCEPT !.proposer = proposer]

-----------------------------------------------------------------------------
(* The messages                                                            *)

WithdrawRewards(s, d, v) == initializeDelegation(withdrawDelegationRewards(s, d, v), d, v)

WithdrawDelegationRewards(d, v) ==
    /\ Has(app.val, v) /\ Has(app.del, <<d, v>>)
    /\ Delivered(WithdrawRewards(app, d, v))

\* What is not a whole coin stays, to be withdrawn later.
PayCommission(s, v, coins) ==
    PayFromModule([Require(s, coins * One <= s.outstanding[v], "negative coin amount")
                      EXCEPT !.commission[v] = @ - coins * One, !.outstanding[v] = @ - coins * One],
                  v, coins)

WithdrawValidatorCommission(v) ==
    /\ Has(app.commission, v) /\ app.commission[v] > 0
    /\ Delivered(PayCommission(app, v, TruncateInt(app.commission[v])))

SetWithdrawAddr(d, w) ==
    /\ w \notin BlockedAddrs /\ WithdrawAddrEnabled
    /\ Delivered([app EXCEPT !.withdrawAddr[d] = w])

FundCommunityPool(d, amt) ==
    /\ amt <= app.balance[d]
    /\ Delivered([app EXCEPT !.balance[d] = @ - amt, !.module = @ + amt, !.pool = @ + amt * One])

\* What a proposal that passed does.
DistributeFromFeePool(d, amt) ==
    /\ amt * One <= app.pool /\ amt <= app.module
    /\ Delivered([app EXCEPT !.balance[d] = @ + amt, !.module = @ - amt, !.pool = @ - amt * One])

DeductFees(d, amt) ==
    /\ amt <= app.balance[d]
    /\ Delivered([app EXCEPT !.balance[d] = @ - amt, !.fees = @ + amt])

-----------------------------------------------------------------------------
(* The blocks                                                              *)

\* The supply that the bank keeps.
Supply(s) == SumFunction(s.balance) + s.bonded + s.notBonded + s.module + s.fees

EmptyRewards ==
    [historical |-> <<>>, current |-> <<>>, commission |-> <<>>, outstanding |-> <<>>,
     starting |-> <<>>, slashes |-> <<>>, pool |-> 0, module |-> 0, fees |-> 0, minted |-> 0,
     inflation |-> InflationMin, proposer |-> Nil, withdrawAddr |-> [d \in Delegators |-> d]]

Init ==
    /\ app = InitGenesis(EmptyStores(Genesis.balance) @@ EmptyRewards, Genesis)
    /\ sets = <<(<<>>), app.last, app.last>>
    /\ phase = "begin"
    /\ messages = 0 /\ slashed = 0 /\ exports = 0

\* What x/slashing does for a block that was missed, or signed twice.
JailOnce(s, v) == IF s.panic # "" \/ s.val[v].jailed THEN s ELSE jailValidator(s, v)
SlashAndJail(s, v, power) == JailOnce(Slash(s, v, s.height - 2, power, SlashFraction), v)

\* In the order of the module manager: mint, distribution, slashing, staking.
BeginBlock(signed, proposer, punished) ==
    LET s0 == [app EXCEPT !.height = @ + 1, !.time = @ + 1, !.updates = <<>>]
        s1 == Minter!BeginBlocker(s0, Supply(s0))
        s2 == DistributionBeginBlocker(s1, sets[1], signed, proposer)
        s3 == ForEach(LAMBDA r, v : SlashAndJail(r, v, sets[1][v]), s2, punished, <)
        s4 == TrackHistoricalInfo(s3)
    IN  /\ app' = s4
        /\ phase' = IF app'.panic = "" THEN "txs" ELSE "halted"
        /\ slashed' = slashed + Cardinality(punished)
        /\ UNCHANGED <<sets, messages, exports>>

\* Tendermint lets the validators of a block propose it in turn.
Proposer(h) ==
    LET turn == SetToSortSeq(DOMAIN sets[2], <)
    IN  turn[1 + (h % Len(turn))]

\* More than two thirds of the power sign a block. A validator that unbonded is
\* not slashed any more.
NextBlock ==
    LET voters == DOMAIN sets[1]
        liable == {v \in voters : Has(app.val, v) /\ app.val[v].status # "unbonded"}
    IN  /\ phase = "begin" /\ app.time < MaxBlocks /\ sets[2] # <<>>
        /\ \E signed \in SUBSET voters, punished \in SUBSET liable :
              /\ 3 * SumFunctionOnSet(sets[1], signed) > 2 * SumFunction(sets[1]) \/ voters = {}
              /\ slashed + exports + Cardinality(punished) <= MaxIncidents
              /\ BeginBlock(signed, Proposer(app.height + 1), punished)

EndBlock ==
    LET next == app'.updates @@ sets[3]
    IN  /\ phase = "txs"
        /\ app' = BlockValidatorUpdates(app)
        /\ phase' = IF app'.panic = "" THEN "begin" ELSE "halted"
        /\ sets' = <<sets[2], sets[3], Restrict(next, {v \in DOMAIN next : next[v] > 0})>>
        /\ UNCHANGED <<messages, slashed, exports>>

Message ==
    \/ \E v \in Operators, amt \in Amounts : CreateValidator(v, amt, 1, MaxChangeRate)
    \/ \E v \in Operators : EditValidator(v, MaxChangeRate, Nil) \/ WithdrawValidatorCommission(v)
    \/ \E d \in Delegators, amt \in Amounts :
          FundCommunityPool(d, amt) \/ DistributeFromFeePool(d, amt) \/ DeductFees(d, amt)
    \/ \E d \in Delegators, w \in WithdrawAddrs : d # w /\ SetWithdrawAddr(d, w)
    \/ \E d \in Delegators, v \in Operators :
          \/ WithdrawDelegationRewards(d, v)
          \/ \E amt \in Amounts : \/ MsgDelegate(d, v, amt)
                                 \/ MsgUndelegate(d, v, amt)
                                 \/ \E dst \in Operators : MsgBeginRedelegate(d, v, dst, amt)

DeliverTx ==
    /\ phase = "txs" /\ messages < MaxMessages
    /\ Message
    /\ messages' = messages + 1
    /\ UNCHANGED <<sets, phase, slashed, exports>>

-----------------------------------------------------------------------------
(* Export and import                                                       *)

\* Everything is withdrawn, errors of those with nothing to withdraw ignored.
WithdrawAll(s) ==
    LET paid == ForEach(LAMBDA r, v : IF r.commission[v] = 0 THEN r
                                      ELSE PayCommission(r, v, TruncateInt(r.commission[v])),
                        s, DOMAIN s.val, <)
    IN  ForEach(LAMBDA r, k : WithdrawRewards(r, k[1], k[2]), paid, DOMAIN s.del, Lexicographic)

\* The fractions that could not be withdrawn go to the community.
ReinitializeValidator(s, v) == initializeValidator([s EXCEPT !.pool = @ + s.outstanding[v]], v)

ReinitializeDelegation(s, d, v) ==
    initializeDelegation(DistributionBeforeDelegationCreated(s, d, v), d, v)

\* Every record starts again, from height zero.
ReinitializeRewards(s) ==
    LET s1 == ForEach(ReinitializeValidator, [s EXCEPT !.slashes = <<>>, !.historical = <<>>, !.height = 0],
                      DOMAIN s.val, <)
    IN  ForEach(LAMBDA r, k : ReinitializeDelegation(r, k[1], k[2]), s1, DOMAIN s.del, Lexicographic)

\* A validator that is jailed here keeps its place in the power index.
ResetHeights(s) ==
    LET reset(waiting) == [k \in DOMAIN waiting |->
                              [i \in DOMAIN waiting[k] |-> [waiting[k][i] EXCEPT !.height = 0]]]
        jailed(v) == JailAllowed # {} /\ v \notin JailAllowed
    IN  [s EXCEPT !.red = reset(@), !.ubd = reset(@),
                  !.val = [v \in DOMAIN @ |-> [@[v] EXCEPT !.unbondingHeight = 0,
                                                         !.jailed = @ \/ jailed(v)]]]

\* The validator set is updated at the height of the export. (The invariants that
\* the code asserts first are left to the properties, and the signing infos to
\* x/slashing.)
prepForZeroHeightGenesis(s) ==
    LET reset == [ResetHeights(ReinitializeRewards(WithdrawAll(s))) EXCEPT !.height = s.height]
    IN  [ApplyAndReturnValidatorSetUpdates(reset) EXCEPT !.height = 0]

\* The account must hold what is outstanding and the pool, in whole coins.
DistributionInitGenesis(s, g) ==
    LET holdings == SumFunction(g.outstanding) + g.pool
    IN  Require([s EXCEPT !.historical = g.historical, !.current = g.current, !.starting = g.starting,
                          !.commission = g.commission, !.outstanding = g.outstanding,
                          !.slashes = g.slashes, !.pool = g.pool, !.proposer = g.proposer,
                          !.withdrawAddr = g.withdrawAddr],
                s.module = TruncateInt(holdings), "module balance does not match the module holdings")

\* What bank and mint bring along.
Balances(s) ==
    [EmptyStores(s.balance) @@ EmptyRewards EXCEPT
        !.bonded = s.bonded, !.notBonded = s.notBonded, !.module = s.module, !.fees = s.fees,
        !.burned = s.burned, !.minted = s.minted, !.inflation = s.inflation,
        !.height = s.height, !.time = s.time]

Import(s) ==
    IF s.panic # "" THEN s
    ELSE InitExported(DistributionInitGenesis(Balances(s), s), ExportGenesis(s), WriteValidators(s))

\* The chain is exported, and another one starts from the genesis file, at the
\* next height or at the first. Its first block has no votes.
ExportImport(forZeroHeight) ==
    /\ phase = "begin" /\ app.height > 0 /\ app.last # <<>>
    /\ exports < MaxExports /\ slashed + exports < MaxIncidents
    /\ app' = Import(IF forZeroHeight THEN prepForZeroHeightGenesis(app) ELSE app)
    /\ phase' = IF app'.panic = "" THEN "begin" ELSE "halted"
    /\ sets' = <<(<<>>), app'.last, app'.last>>
    /\ exports' = exports + 1
    /\ UNCHANGED <<messages, slashed>>

Next == NextBlock \/ DeliverTx \/ EndBlock \/ \E zero \in BOOLEAN : ExportImport(zero)

Spec == Init /\ [][Next]_vars

-----------------------------------------------------------------------------
(* Properties                                                              *)

\* The account of the module holds, to the last digit, what is outstanding for
\* the validators and what is the community's, through every rounding, removal
\* and slash; and the supply changes only by what is minted and burned.
AccountExact ==
    /\ app.module * One = SumFunction(app.outstanding) + app.pool
    /\ Supply(app) + app.burned = app.minted + SumFunction(Genesis.del) + SumFunction(Genesis.balance)

\* The record of a period is kept exactly as long as the validator, a delegation
\* or a slash refers to it, and "reference count should never exceed 2": without
\* the record rewards would be computed from zero, and a reference too many keeps
\* it forever.
ReferencesExact ==
    LET references(v, p) ==
            (IF p = app.current[v].period - 1 THEN 1 ELSE 0)
            + Cardinality({k \in DOMAIN app.starting : k[2] = v /\ app.starting[k].period = p})
            + Cardinality({k \in DOMAIN app.slashes : k[1] = v /\ k[3] = p})
    IN  /\ DOMAIN app.current = DOMAIN app.val /\ DOMAIN app.starting = DOMAIN app.del
        /\ \A v \in DOMAIN app.val, p \in 0 .. Max({app.current[w].period : w \in DOMAIN app.val}) :
              /\ GetValidatorHistoricalRewards(app, v, p).refs = references(v, p)
              /\ references(v, p) <= 2

\* What a delegation could withdraw now.
Pending(s, d, v) == CalculateDelegationRewards(IncrementValidatorPeriod(s, v), d, v, s.current[v].period)

\* Every delegator could withdraw at any time, without a panic, and what they and
\* the commissions amount to is outstanding: nobody is paid short because others
\* withdrew first. No allocation or slash of a block panics, which would stop
\* every node, but for a slash that finds the destination of a redelegation gone.
RewardsCovered ==
    /\ phase = "halted" => app.panic = DestinationGone
    /\ \A k \in DOMAIN app.del : withdrawDelegationRewards(app, k[1], k[2]).panic = ""
    /\ \A v \in DOMAIN app.val :
          LET dels == {k \in DOMAIN app.del : k[2] = v}
          IN  app.commission[v] + SumFunctionOnSet([k \in dels |-> Pending(app, k[1], v).rewards], dels)
                <= app.outstanding[v]

\* What one delegator does takes nothing from the rewards that another has
\* accrued, and adds nothing to them, but for a rounding in the last digit of
\* every token.
NoDilution ==
    [][ messages' > messages =>
        \A k \in DOMAIN app.del \cap DOMAIN app'.del :
            app'.starting[k] = app.starting[k] =>
                LET before == Pending(app, k[1], k[2]).rewards
                    after  == Pending(app', k[1], k[2]).rewards
                    digit  == TruncateInt(app.starting[k].stake) + 1
                IN  after \in before - digit .. before + digit ]_vars
=============================================================================
