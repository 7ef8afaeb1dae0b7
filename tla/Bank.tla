-------------------------------- MODULE Bank --------------------------------
(***************************************************************************)
(* The keepers of x/auth and x/bank: accounts and their numbers, balances, *)
(* and the supply, one denomination. Each method takes the state to the    *)
(* state it leaves; an error or a panic makes the message fail.            *)
(***************************************************************************)
EXTENDS Vesting, Stores

CONSTANTS Modules,      \* the module accounts; their addresses are the blocked ones
          Minter,       \* the module account with permission to mint
          Stakers       \* those that hold delegated coins and may burn

(* x/auth/keeper *)

\* The account is stored under the next account number.
NewAccount(s, addr, acc) ==
    [s EXCEPT !.accounts = Set(@, addr, [acc EXCEPT !.number = s.nextNumber]), !.nextNumber = @ + 1]

NewAccountWithAddress(s, addr) == NewAccount(s, addr, BaseAccount(0))

\* What every receiver of coins does: create the account if there is none.
EnsureAccount(s, addr) == IF Has(s.accounts, addr) THEN s ELSE NewAccountWithAddress(s, addr)

GetModuleAccount(s, name) == EnsureAccount(s, name)

\* NewAccount for each account, in the order of the numbers they had.
AuthInitGenesis(s, accounts, feeCollector) ==
    LET rank(a) == Cardinality({b \in DOMAIN accounts : accounts[b].number < accounts[a].number})
        stored  == [s EXCEPT
            !.accounts = [a \in DOMAIN accounts |-> [accounts[a] EXCEPT !.number = s.nextNumber + rank(a)]],
            !.nextNumber = @ + Cardinality(DOMAIN accounts)]
    IN  GetModuleAccount(stored, feeCollector)

-----------------------------------------------------------------------------
(* x/bank/keeper: balances *)

GetBalance(s, addr) == IF Has(s.balances, addr) THEN s.balances[addr] ELSE 0

\* A balance of zero is not stored.
setBalance(s, addr, amt) ==
    [s EXCEPT !.balances = IF amt = 0 THEN Delete(@, addr) ELSE Set(@, addr, amt)]

LockedCoins(s, addr) ==
    IF Has(s.accounts, addr) /\ IsVesting(s.accounts[addr])
    THEN LET acc == s.accounts[addr] IN LockedCoinsFromVesting(acc, GetVestingCoins(acc, s.time))
    ELSE 0

\* Taking the locked coins off the balance panics when they exceed it.
subUnlockedCoins(s, addr, amt) ==
    LET spendable == GetBalance(s, addr) - LockedCoins(s, addr)
    IN  setBalance(Require(Require(s, spendable >= 0, "negative coin amount"),
                           spendable >= amt, "insufficient funds"),
                   addr, GetBalance(s, addr) - amt)

addCoins(s, addr, amt) == setBalance(s, addr, GetBalance(s, addr) + amt)

\* coins arrive, and make the account
Received(s, addr, amt) == EnsureAccount(addCoins(s, addr, amt), addr)

SendCoins(s, from, to, amt) == Received(subUnlockedCoins(s, from, amt), to, amt)

Total(coins) == FoldLeft(LAMBDA n, c : n + c.amt, 0, coins)

InputOutputCoins(s, inputs, outputs) ==
    LET sub == FoldLeft(LAMBDA r, in : subUnlockedCoins(r, in.addr, in.amt),
                        Require(s, Total(inputs) = Total(outputs), "sum of inputs"), inputs)
    IN  FoldLeft(LAMBDA r, out : Received(r, out.addr, out.amt), sub, outputs)

SendManyCoins(s, from, outputs) ==
    FoldLeft(LAMBDA r, out : Received(r, out.addr, out.amt),
             subUnlockedCoins(s, from, Total(outputs)), outputs)

BlockedAddr(addr) == addr \in Modules

-----------------------------------------------------------------------------
(* x/bank/keeper: delegation, supply and modules *)

\* The balance as a whole may be delegated, the locked coins with it.
DelegateCoins(s, from, pool, amt) ==
    LET ready   == Require(Require(s, GetBalance(s, from) >= amt, "insufficient funds"),
                           Has(s.accounts, from) /\ Has(s.accounts, pool), "account does not exist")
        sub     == setBalance(ready, from, GetBalance(s, from) - amt)
        tracked == IF ready.panic = "" /\ IsVesting(s.accounts[from])
                   THEN [sub EXCEPT !.accounts[from] = TrackDelegation(@, s.time, amt)] ELSE sub
    IN  addCoins(tracked, pool, amt)

UndelegateCoins(s, pool, to, amt) ==
    LET ready   == Require(s, Has(s.accounts, to) /\ Has(s.accounts, pool), "account does not exist")
        sub     == subUnlockedCoins(ready, pool, amt)
        tracked == IF ready.panic = "" /\ IsVesting(s.accounts[to])
                   THEN [sub EXCEPT !.accounts[to] = TrackUndelegation(@, amt)] ELSE sub
    IN  addCoins(tracked, to, amt)

MintCoins(s, name, amt) ==
    LET r == addCoins(Require(GetModuleAccount(s, name), name = Minter, "no permission"), name, amt)
    IN  [r EXCEPT !.supply = @ + amt]

\* As a bug: the balance is burned and the supply keeps counting it.
BurnBalance(s, name, amt) ==
    subUnlockedCoins(Require(GetModuleAccount(s, name), name \in Stakers, "no permission"), name, amt)

BurnCoins(s, name, amt) ==
    LET r == subUnlockedCoins(Require(GetModuleAccount(s, name), name \in Stakers, "no permission"),
                              name, amt)
    IN  [r EXCEPT !.supply = @ - amt]

SendCoinsFromModuleToManyAccounts(s, name, outputs) ==
    SendManyCoins(Require(s, \A i \in DOMAIN outputs : ~BlockedAddr(outputs[i].addr), "unauthorized"),
                  name, outputs)

SendCoinsToModule(s, from, name, amt) == SendCoins(GetModuleAccount(s, name), from, name, amt)

DelegateCoinsFromAccountToModule(s, from, name, amt) ==
    DelegateCoins(Require(GetModuleAccount(s, name), name \in Stakers, "no permission"), from, name, amt)

UndelegateCoinsFromModuleToAccount(s, name, to, amt) ==
    UndelegateCoins(Require(GetModuleAccount(s, name), name \in Stakers, "no permission"), name, to, amt)

\* A supply that is given must be the sum of the balances.
BankInitGenesis(s, balances, supply) ==
    LET total == MapThenSumSet(LAMBDA a : balances[a], DOMAIN balances)
    IN  [Require(s, supply \in {0, total}, "genesis supply is incorrect")
            EXCEPT !.balances = Restrict(balances, {a \in DOMAIN balances : balances[a] # 0}),
                   !.supply = total]

-----------------------------------------------------------------------------
(* Messages of x/bank and x/auth/vesting *)

\* A parameter of x/bank, which x/gov may change.
IsSendEnabledCoins(s) == s.sendEnabled

Send(s, msg) ==
    SendCoins(Require(s, IsSendEnabledCoins(s) /\ ~BlockedAddr(msg.to), "send disabled or unauthorized"),
              msg.signer, msg.to, msg.amt)

MultiSend(s, msg) ==
    InputOutputCoins(Require(s, /\ IsSendEnabledCoins(s)
                                /\ \A i \in DOMAIN msg.outputs : ~BlockedAddr(msg.outputs[i].addr),
                             "send disabled or unauthorized"),
                     msg.inputs, msg.outputs)

\* The account is a vesting one before the coins arrive. A continuous one
\* starts now, even when its end has passed.
CreateVestingAccount(s, msg) ==
    LET ready == Require(s, IsSendEnabledCoins(s) /\ ~BlockedAddr(msg.to) /\ ~Has(s.accounts, msg.to),
                         "send disabled, unauthorized or already exists")
        made  == NewAccountWithAddress(ready, msg.to)
        acc   == VestingAccount(IF msg.delayed THEN "delayed" ELSE "continuous",
                                made.accounts[msg.to].number, msg.amt,
                                IF msg.delayed THEN 0 ELSE s.time, msg.end, <<>>)
    IN  SendCoins([made EXCEPT !.accounts[msg.to] = acc], msg.signer, msg.to, msg.amt)
=============================================================================
