----------------------------- MODULE MCSlashing -----------------------------
(***************************************************************************)
(* Two validators, one of them bonded at genesis, and one more delegator.  *)
(* The self-delegations are 3 and 2 tokens, with 2 tokens to a unit of     *)
(* power: what a slash truncates shows in tokens and not always in power.  *)
(* The other genesis has a validator with power enough to stay the only    *)
(* one that is bonded.                                                     *)
(***************************************************************************)
EXTENDS Slashing

SmallGenesis ==
    [val     |-> [v \in {1, 2} |-> [minSelf |-> 1, rate |-> 0]],
     del     |-> (<<1, 1>> :> 3) @@ (<<2, 2>> :> 2) @@ (<<3, 1>> :> 2),
     balance |-> (1 :> 0) @@ (2 :> 2) @@ (3 :> 2)]

RedelegationGenesis ==
    [SmallGenesis EXCEPT !.del[<<1, 1>>] = 4, !.balance = [d \in Delegators |-> 0]]
=============================================================================
