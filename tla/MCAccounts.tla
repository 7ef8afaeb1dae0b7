----------------------------- MODULE MCAccounts -----------------------------
(***************************************************************************)
(* A base account "a", which has delegated 2 coins to the validator and    *)
(* never takes them back, an account "v" that vests in one of four ways,   *)
(* and "n", which has no account yet and may be given a delayed or a       *)
(* continuous one. One allowance has more to spend at first than its       *)
(* limits, and one has a limit of zero, which ValidateBasic refuses.       *)
(***************************************************************************)
EXTENDS Accounts

TwoPeriods == << [length |-> 1, amount |-> 1], [length |-> 2, amount |-> 3] >>

OneAPeriod == PeriodicAllowance(BasicAllowance(4, Nil), 2, 1, 1, 1)

WithAccount(acc, allowances) ==
    [accounts    |-> ("a" :> BaseAccount(0)) @@ ("v" :> acc),
     balances    |-> ("a" :> 6) @@ ("v" :> 6) @@ (BondedPool :> 2),
     sendEnabled |-> TRUE,
     val         |-> [NewValidator(1, 0, 0) EXCEPT !.status = "bonded", !.tokens = 2, !.shares = 2 * One],
     del         |-> ("a" :> 2 * One),
     allowances  |-> allowances]

SmallGeneses ==
    { WithAccount(VestingAccount("continuous", 1, 4, 0, 3, <<>>), <<>>),
      WithAccount(VestingAccount("periodic", 1, 4, 0, 3, TwoPeriods), <<>>),
      WithAccount(VestingAccount("permanent", 1, 4, 0, 0, <<>>), <<"a", "v">> :> OneAPeriod),
      [WithAccount(VestingAccount("delayed", 1, 4, 0, 2, <<>>), <<>>) EXCEPT !.sendEnabled = FALSE] }

SmallPayout == << [addr |-> "v", amt |-> 1], [addr |-> "n", amt |-> 1] >>

SendMsg(from, to, amt) == [type |-> "Send", signer |-> from, to |-> to, amt |-> amt]
DelegateMsg(d, amt)    == [type |-> "Delegate", signer |-> d, val |-> "x", amt |-> amt]
UndelegateMsg(d, amt)  == [type |-> "Undelegate", signer |-> d, val |-> "x", amt |-> amt]
AllowMsg(g, e, a)      == [type |-> "GrantAllowance", signer |-> g, grantee |-> e, allowance |-> a]
GrantMsg(g, e, auth, t) == [type |-> "Grant", signer |-> g, grantee |-> e, auth |-> auth, expiration |-> t]
ExecMsg(e, msgs)       == [type |-> "Exec", signer |-> e, msgs |-> msgs]

SmallMessages ==
    { SendMsg("v", "a", 2), SendMsg("a", "n", 2),
      [type |-> "MultiSend", signer |-> "v", inputs |-> << [addr |-> "v", amt |-> 2] >>,
       outputs |-> << [addr |-> "a", amt |-> 1], [addr |-> "n", amt |-> 1] >>],
      [type |-> "CreateVestingAccount", signer |-> "a", to |-> "n", amt |-> 3, end |-> 2, delayed |-> TRUE],
      [type |-> "CreateVestingAccount", signer |-> "a", to |-> "n", amt |-> 3, end |-> 3, delayed |-> FALSE],
      DelegateMsg("v", 3), UndelegateMsg("v", 1), UndelegateMsg("v", 2), DelegateMsg("n", 2),
      AllowMsg("a", "v", BasicAllowance(2, 2)),
      AllowMsg("a", "v", BasicAllowance(0, Nil)),
      AllowMsg("a", "v", PeriodicAllowance(BasicAllowance(3, Nil), 2, 3, 4, 1)),
      AllowMsg("a", "v", AllowedMsgAllowance(BasicAllowance(2, Nil), {"Send", "Exec"})),
      [type |-> "RevokeAllowance", signer |-> "a", grantee |-> "v"],
      GrantMsg("a", "v", SendAuthorization(3), 2),
      GrantMsg("a", "v", GenericAuthorization("Send"), 1),
      GrantMsg("a", "v", StakeAuthorization("Delegate", {"x"}, {}, 2), 3),
      [type |-> "Revoke", signer |-> "a", grantee |-> "v", msgType |-> "Send"],
      ExecMsg("v", <<SendMsg("a", "v", 1), SendMsg("a", "n", 1)>>),
      ExecMsg("v", <<DelegateMsg("a", 2)>>) }
=============================================================================
