--------------------------- MODULE MCDistribution ---------------------------
(***************************************************************************)
(* Two bonded validators of different commission, whose powers are 2 and 1,*)
(* and one more delegator of the first.                                    *)
(***************************************************************************)
EXTENDS Distribution

SmallGenesis ==
    [val     |-> (1 :> [minSelf |-> 1, rate |-> 10]) @@ (2 :> [minSelf |-> 1, rate |-> 0]),
     del     |-> (<<1, 1>> :> 3) @@ (<<2, 2>> :> 2) @@ (<<3, 1>> :> 2),
     balance |-> (1 :> 0) @@ (2 :> 0) @@ (3 :> 2)]
=============================================================================
