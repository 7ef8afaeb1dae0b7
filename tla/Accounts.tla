------------------------------ MODULE Accounts ------------------------------
(***************************************************************************)
(* The coins of the chain's accounts under transactions and blocks: x/auth *)
(* and x/auth/vesting, x/bank, x/feegrant and x/authz together, with the   *)
(* decorator that deducts the fees. A transaction carries one message. Its *)
(* fee is deducted first and stays deducted when the message fails.        *)
(*                                                                         *)
(* x/staking is reduced to one validator, which stays bonded, and x/mint   *)
(* to a fixed provision; modules Staking and Mint have them in full.       *)
(* MsgExec inside MsgExec is left out.                                     *)
(***************************************************************************)
EXTENDS FeeGrant, Validators

CONSTANTS Messages,     \* the messages transactions carry
          Geneses,      \* the genesis states: what the modules store
          Fee,          \* the fee of every transaction
          Provision,    \* what a block mints
          Payout,       \* what a module pays to several accounts at once
          UnbondingTime, MaxEntries, SlashFraction,     \* parameters
          TimeSteps,    \* how far the time of one block is from the next
          MaxTime, MaxTxs, MaxSlashes, MaxPayouts

VARIABLES app,          \* the stores and the block time
          charged,      \* history: fees under each allowance granted, by time
          moved,        \* history: what was executed under each authorization
          done          \* how many of each bounded step there were
vars == <<app, charged, moved, done>>

None == "none"
FeeCollector == "fee_collector"
BondedPool == "bonded_tokens_pool"
NotBondedPool == "not_bonded_tokens_pool"

-----------------------------------------------------------------------------
(* Staking, as the bank sees it: the validator's tokens and shares, who    *)
(* holds the shares, and what is unbonding.                                *)

Shares(s, d)  == IF Has(s.del, d) THEN s.del[d] ELSE 0
Entries(s, d) == IF Has(s.ubd, d) THEN s.ubd[d] ELSE <<>>

Delegate(s, msg) ==
    LET added == AddTokensFromDel(s.val, msg.amt)
    IN  IF InvalidExRate(s.val) THEN Panic(s, "invalid exchange rate")
        ELSE [DelegateCoinsFromAccountToModule(s, msg.signer, BondedPool, msg.amt)
                EXCEPT !.val = added.val, !.del = Set(@, msg.signer, Shares(s, msg.signer) + added.shares)]

CanUndelegate(s, d, amt) ==
    /\ Has(s.del, d) /\ s.val.tokens > 0
    /\ SharesFromTokensTruncated(s.val, amt) <= s.del[d]
    /\ Len(Entries(s, d)) < MaxEntries

\* The tokens wait in the other pool until the entry matures.
Unbond(s, d, shares) ==
    LET removed == RemoveDelShares(s.val, shares)
        entry   == [time |-> s.time + UnbondingTime, initial |-> removed.tokens, balance |-> removed.tokens]
    IN  [SendCoinsToModule(s, BondedPool, NotBondedPool, removed.tokens)
            EXCEPT !.val = removed.val,
                   !.del = IF shares = @[d] THEN Delete(@, d) ELSE Set(@, d, @[d] - shares),
                   !.ubd = Set(@, d, Append(Entries(s, d), entry))]

Undelegate(s, msg) ==
    LET d == msg.signer
    IN  IF CanUndelegate(s, d, msg.amt)
        THEN Unbond(s, d, Min({SharesFromTokens(s.val, msg.amt), s.del[d]}))
        ELSE Panic(s, "invalid shares amount")

\* Nothing is tracked for an entry that slashes took as a whole.
CompleteUnbonding(s, d) ==
    LET mature(e) == e.time <= s.time
        left      == SelectSeq(s.ubd[d], LAMBDA e : ~mature(e))
        paid      == SelectSeq(s.ubd[d], LAMBDA e : mature(e) /\ e.balance # 0)
    IN  FoldLeft(LAMBDA r, e : UndelegateCoinsFromModuleToAccount(r, NotBondedPool, d, e.balance),
                 [s EXCEPT !.ubd = IF left = <<>> THEN Delete(@, d) ELSE Set(@, d, left)], paid)

StakingEndBlocker(s) == FoldSet(LAMBDA d, r : CompleteUnbonding(r, d), s, DOMAIN s.ubd)

Unbonding(ubd, amount(_)) ==
    MapThenSumSet(LAMBDA d : FoldLeft(LAMBDA n, e : n + amount(e), 0, ubd[d]), DOMAIN ubd)

\* The entries that began to unbond since the infraction are slashed first, the
\* validator for the rest. Its power at the infraction is taken to be that of now.
Slash(s, infraction) ==
    LET owed(e) == IF e.time - UnbondingTime >= infraction /\ e.time > s.time
                   THEN TruncateInt(MulInt(SlashFraction, e.initial)) ELSE 0
        burn(e) == Min({owed(e), e.balance})
        amount  == TruncateInt(Mul(s.val.tokens * One, SlashFraction))
        rest    == Max({0, Min({amount - Unbonding(s.ubd, owed), s.val.tokens})})
        slashed == [s EXCEPT
            !.val.tokens = @ - rest,
            !.ubd = [d \in DOMAIN @ |-> [i \in DOMAIN @[d] |-> [@[d][i] EXCEPT !.balance = @ - burn(s.ubd[d][i])]]]]
    IN  BurnCoins(BurnCoins(slashed, NotBondedPool, Unbonding(s.ubd, burn)), BondedPool, rest)

\* The pools must hold what the validators and the entries say.
StakingInitGenesis(s, g) ==
    LET pools == GetModuleAccount(GetModuleAccount(s, BondedPool), NotBondedPool)
        held  == /\ GetBalance(s, BondedPool) = g.val.tokens
                 /\ GetBalance(s, NotBondedPool) = Unbonding(g.ubd, LAMBDA e : e.balance)
    IN  [Require(pools, held, "pool balance is different") EXCEPT !.val = g.val, !.del = g.del, !.ubd = g.ubd]

-----------------------------------------------------------------------------
(* Transactions *)

Handle(s, msg) ==
    CASE msg.type = "Send"                 -> Send(s, msg)
      [] msg.type = "MultiSend"            -> MultiSend(s, msg)
      [] msg.type = "CreateVestingAccount" -> CreateVestingAccount(s, msg)
      [] msg.type = "Delegate"             -> Delegate(s, msg)
      [] msg.type = "Undelegate"           -> Undelegate(s, msg)
      [] msg.type = "GrantAllowance"       -> MsgGrantAllowance(s, msg)
      [] msg.type = "RevokeAllowance"      -> MsgRevokeAllowance(s, msg)

INSTANCE Authz WITH Handler <- Handle

RunMsg(s, msg) ==
    CASE msg.type = "Grant"  -> Grant(s, msg)
      [] msg.type = "Revoke" -> Revoke(s, msg)
      [] msg.type = "Exec"   -> Exec(s, msg)
      [] OTHER               -> Handle(s, msg)

DeductFees(s, from) == SendCoinsToModule(s, from, FeeCollector, Fee)

DeductFeeDecorator(s, payer, granter, msgType) ==
    LET from    == IF granter = None THEN payer ELSE granter
        allowed == IF granter \in {None, payer} THEN s
                   ELSE UseGrantedFees(s, granter, payer, Fee, msgType)
    IN  DeductFees(Require(allowed, Has(s.accounts, from), "unknown address"), from)

At(f, t) == IF Has(f, t) THEN f[t] ELSE 0

\* ends has the times at which a fee was charged as a period and the next were over.
Uncharged(allowance) == [granted |-> allowance, at |-> <<>>, ends |-> {}]

\* History of a transaction: the fee, then what its message granted or did.
ChargedBy(c, msg, granter, ok) ==
    LET key  == <<granter, msg.signer>>
        used == app.allowances[key]
        ends == IF used.period # Nil /\ app.time = used.reset + used.period THEN {app.time} ELSE {}
        paid == IF granter \in {None, msg.signer} THEN c
                ELSE [c EXCEPT ![key].at = Set(@, app.time, At(@, app.time) + Fee),
                               ![key].ends = @ \cup ends]
    IN  IF ok /\ msg.type = "GrantAllowance"
        THEN Set(paid, <<msg.signer, msg.grantee>>, Uncharged(msg.allowance)) ELSE paid

Executed(m, grantee, msg) ==
    IF msg.signer = grantee THEN m
    ELSE [m EXCEPT ![<<grantee, msg.signer, msg.type>>].amt = @ + msg.amt,
                   ![<<grantee, msg.signer, msg.type>>].last = app.time]

MovedBy(m, msg, ok) ==
    IF ~ok THEN m
    ELSE IF msg.type = "Grant"
    THEN Set(m, <<msg.grantee, msg.signer, msg.auth.msgType>>,
             [granted |-> msg.auth, expiration |-> msg.expiration, amt |-> 0, last |-> 0])
    ELSE IF msg.type = "Exec" THEN FoldLeft(LAMBDA r, x : Executed(r, msg.signer, x), m, msg.msgs)
    ELSE m

DeliverTx(msg, granter) ==
    LET ante == DeductFeeDecorator(app, msg.signer, granter, msg.type)
        ran  == RunMsg(ante, msg)
        ok   == ran.panic = ""
    IN  /\ done.txs < MaxTxs
        /\ Has(app.accounts, msg.signer)
        /\ msg.type = "GrantAllowance" => ValidateGrantAllowance(msg)
        /\ ante.panic = ""
        /\ app' = IF ok THEN ran ELSE ante
        /\ charged' = ChargedBy(charged, msg, granter, ok)
        /\ moved' = MovedBy(moved, msg, ok)
        /\ done' = [done EXCEPT !.txs = @ + 1]

-----------------------------------------------------------------------------
(* Blocks *)

\* It mints and hands on to the fee collector.
MintBeginBlocker(s) ==
    SendCoinsToModule(MintCoins(s, Minter, Provision), Minter, FeeCollector, Provision)

\* A block ends and the next begins, in which an infraction may be punished.
NextBlock(dt, infraction) ==
    LET begun == MintBeginBlocker([StakingEndBlocker(app) EXCEPT !.time = @ + dt])
    IN  /\ app.time + dt <= MaxTime
        /\ infraction # Nil => infraction <= app.time /\ done.slashes < MaxSlashes
        /\ app' = IF infraction = Nil THEN begun ELSE Slash(begun, infraction)
        /\ done' = [done EXCEPT !.slashes = IF infraction = Nil THEN @ ELSE @ + 1]
        /\ UNCHANGED <<charged, moved>>

\* A module pays several accounts, as the keeper offers it.
PayMany ==
    LET paid == SendCoinsFromModuleToManyAccounts(app, FeeCollector, Payout)
    IN  /\ done.payouts < MaxPayouts
        /\ paid.panic = ""
        /\ app' = paid
        /\ done' = [done EXCEPT !.payouts = @ + 1]
        /\ UNCHANGED <<charged, moved>>

-----------------------------------------------------------------------------
(* Genesis *)

NoState(time) ==
    [accounts |-> <<>>, nextNumber |-> 0, balances |-> <<>>, supply |-> 0, sendEnabled |-> TRUE,
     val |-> <<>>, del |-> <<>>, ubd |-> <<>>, allowances |-> <<>>, grants |-> <<>>,
     time |-> time, panic |-> ""]

\* The modules in the order of the application. Mint makes its module account.
InitGenesis(g) ==
    LET auth    == AuthInitGenesis(NoState(g.time), g.accounts, FeeCollector)
        bank    == [BankInitGenesis(auth, g.balances, g.supply) EXCEPT !.sendEnabled = g.sendEnabled]
        mint    == GetModuleAccount(StakingInitGenesis(bank, g), Minter)
    IN  FeeGrantInitGenesis(AuthzInitGenesis(mint, g.grants), g.allowances)

\* The state is exported and a new chain goes on from it. What the modules
\* export is all they store.
ExportImport ==
    /\ app' = InitGenesis(app)
    /\ UNCHANGED <<charged, moved, done>>

Init ==
    /\ \E g \in Geneses :
          /\ charged = [k \in DOMAIN g.allowances |-> Uncharged(g.allowances[k])]
          /\ app = InitGenesis(g @@ [supply |-> 0, ubd |-> <<>>, grants |-> <<>>, time |-> 0])
    /\ moved = <<>>
    /\ done = [txs |-> 0, slashes |-> 0, payouts |-> 0]

Next ==
    \/ \E msg \in Messages, granter \in {None} \cup {k[1] : k \in DOMAIN app.allowances} :
            DeliverTx(msg, granter)
    \/ \E dt \in TimeSteps, infraction \in {Nil} \cup 0 .. MaxTime : NextBlock(dt, infraction)
    \/ PayMany
    \/ ExportImport

Spec == Init /\ [][Next]_vars

-----------------------------------------------------------------------------
(* Properties *)

(* The books of x/bank and x/auth agree after every step, failed messages  *)
(* included: the supply is the sum of the balances, no balance of zero is  *)
(* stored, every holder of coins has an account, and the account numbers   *)
(* are those below the next one, once each, so that an export, which       *)
(* numbers the accounts anew, gives each the number that its owner signs.  *)
(* The pools hold the tokens of the validator and what is unbonding, to    *)
(* the last token that rounding leaves. Neither minting, slashing, paying  *)
(* out what has unbonded nor the import of an exported state panics.       *)
BooksExact ==
    /\ app.panic = ""
    /\ app.supply = MapThenSumSet(LAMBDA a : app.balances[a], DOMAIN app.balances)
    /\ \A a \in DOMAIN app.balances : app.balances[a] > 0 /\ Has(app.accounts, a)
    /\ {app.accounts[a].number : a \in DOMAIN app.accounts} = 0 .. app.nextNumber - 1
    /\ Cardinality(DOMAIN app.accounts) = app.nextNumber
    /\ GetBalance(app, BondedPool) = app.val.tokens
    /\ GetBalance(app, NotBondedPool) = Unbonding(app.ubd, LAMBDA e : e.balance)

(* What is still vesting and not tracked as delegated lies in the balance, *)
(* however delegations, refunds, with what rounding adds to them, and      *)
(* slashes came in turn with the vesting of the coins: an account never    *)
(* spends a coin before it vests, and subUnlockedCoins never panics on a   *)
(* negative amount. The amounts tracked as vesting are never negative and  *)
(* never exceed the original ones (BaseVestingAccount.Validate).           *)
VestingHeld ==
    \A a \in {b \in DOMAIN app.accounts : IsVesting(app.accounts[b])} :
        LET acc == app.accounts[a]
        IN  /\ GetBalance(app, a) >= GetVestingCoins(acc, app.time) - acc.delegatedVesting
            /\ acc.delegatedVesting \in 0 .. acc.original /\ acc.delegatedFree >= 0

Spending(c) == MapThenSumSet(LAMBDA t : c.at[t], DOMAIN c.at)

SpendingInPeriod(c, a) ==
    MapThenSumSet(LAMBDA t : c.at[t], DOMAIN c.at \cap a.reset - a.period .. a.reset - 1)

(* Fees paid by a granter stay within the allowance, through resets of the *)
(* period, exhaustion, revocation and a new grant: what is left of the     *)
(* limit is the limit less what was charged, nothing is charged after the  *)
(* expiration, a period after the first never has more to spend than the   *)
(* limit has left, and never more than its own limit is charged in it. The *)
(* one exception to that is in PeriodLimitKept: a period that begins at    *)
(* the very time at which the one before was charged and over already is   *)
(* charged twice its limit. Filtered allowances are in SpendLimitUpdated.  *)
AllowanceExact ==
    \A k \in {j \in DOMAIN charged : ~charged[j].granted.filtered} :
        LET c == charged[k]
            g == c.granted
            a == app.allowances[k]
        IN  /\ g.limit # Nil => Spending(c) <= g.limit
            /\ \A t \in DOMAIN c.at : ~Expired(g.expiration, t)
            /\ Has(app.allowances, k) =>
                  /\ g.limit # Nil => a.limit = g.limit - Spending(c)
                  /\ g.period # Nil /\ a.reset = g.reset => Spending(c) <= g.canSpend
                  /\ g.period # Nil /\ a.reset # g.reset =>
                        /\ g.limit # Nil => a.canSpend <= a.limit
                        /\ SpendingInPeriod(c, a) <=
                              g.periodLimit * (IF a.reset - a.period \in c.ends THEN 2 ELSE 1)

(* "period_spend_limit specifies the maximum number of coins that can be   *)
(* spent in the period", of every periodic allowance that is not filtered, *)
(* in a period after the first.                                            *)
PeriodLimitKept ==
    \A k \in DOMAIN charged \cap DOMAIN app.allowances :
        LET g == charged[k].granted
            a == app.allowances[k]
        IN  ~g.filtered /\ g.period # Nil /\ a.reset # g.reset
                => SpendingInPeriod(charged[k], a) <= g.periodLimit

(* "spend_limit specifies the maximum amount of tokens that can be spent   *)
(* by this allowance and will be updated as tokens are spent", of every    *)
(* allowance, the filtered ones included.                                  *)
SpendLimitUpdated ==
    \A k \in DOMAIN charged :
        charged[k].granted.limit # Nil => Spending(charged[k]) <= charged[k].granted.limit

(* What a grantee did in the name of a granter stays within the            *)
(* authorization: a limit has left what it had less what was executed,     *)
(* over several messages of one MsgExec, failed ones that are undone, and  *)
(* a grant that overwrites another; nothing is executed after the          *)
(* expiration; and an authorization that is used up is gone.               *)
AuthorizationExact ==
    \A k \in DOMAIN moved :
        LET m       == moved[k]
            limited == m.granted.kind # "generic" /\ m.granted.limit # Nil
        IN  /\ m.last <= m.expiration \/ m.amt = 0
            /\ limited => m.amt <= m.granted.limit
            /\ limited /\ Has(app.grants, k) =>
                  /\ app.grants[k].auth.limit = m.granted.limit - m.amt
                  /\ app.grants[k].auth.limit > 0
=============================================================================
