------------------------------- MODULE MCGov -------------------------------
(***************************************************************************)
(* Two validator operators, of whom one also delegates to the other, and   *)
(* two proposals. The stakes have tokens that do not divide evenly among   *)
(* the shares and a validator that left the bonded set. The parameters     *)
(* that a proposal may set take effect on a proposal that is pending. The  *)
(* pool covers one spend of two.                                           *)
(***************************************************************************)
EXTENDS Gov

Operators == {"v1", "v2"}

Ballot(y, a, n, v) == [o \in Options |-> CASE o = "yes" -> y [] o = "abstain" -> a
                                           [] o = "no" -> n [] o = "veto" -> v]
ThreeBallots == {Ballot(One, 0, 0, 0), Ballot(0, 0, 0, One), Ballot(33, 67, 0, 0)}

Shares(v1, v2, v2to1) ==
    [x \in Operators \X Operators |->
        CASE x = <<"v1", "v1">> -> v1 [] x = <<"v2", "v2">> -> v2
          [] x = <<"v2", "v1">> -> v2to1 [] OTHER -> 0]

Bonded == [bonded |-> {"v1", "v2"}, tokens |-> [v1 |-> 2, v2 |-> 1],
           shares |-> Shares(100, 100, 200), pool |-> 3]
Left   == [bonded |-> {"v1"}, tokens |-> [v1 |-> 3, v2 |-> 1],
           shares |-> Shares(300, 100, 50), pool |-> 3]
TwoStakes == {Bonded, Left}

Lenient == [kind |-> "params", set |-> [depositPeriod |-> 1, minDeposit |-> 1, quorum |-> 0]]
Spend   == [kind |-> "spend", amount |-> 2, to |-> "v2"]
TwoContents == {Lenient, Spend}

SmallGenesis ==
    [params  |-> [minDeposit |-> 2, depositPeriod |-> 2, votingPeriod |-> 1,
                  quorum |-> 33, threshold |-> 50, veto |-> 33],
     balance |-> [v1 |-> 2, v2 |-> 1],
     pool    |-> 3]
=============================================================================
