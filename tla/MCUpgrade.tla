----------------------------- MODULE MCUpgrade -----------------------------
(* Three upgrades. Each binary keeps the handlers of those before it.      *)
EXTENDS Upgrade, TLC

Cumulative == [b \in {0, 1, 2, 3} |-> 1 .. b]

\* "feegrant" comes with the first upgrade and "mint" goes with it. The second
\* binary can take "gov" from the version of the first only, the third binary from
\* any.
FourVersions ==
    [b \in {0, 1, 2, 3} |->
        CASE b = 0 -> ("bank" :> 1) @@ ("gov" :> 1) @@ ("mint" :> 1)
          [] b = 1 -> ("bank" :> 2) @@ ("gov" :> 2) @@ ("feegrant" :> 1)
          [] b = 2 -> ("bank" :> 3) @@ ("gov" :> 3) @@ ("feegrant" :> 2)
          [] b = 3 -> ("bank" :> 3) @@ ("gov" :> 4) @@ ("feegrant" :> 2)]
FourMigrations ==
    [b \in {0, 1, 2, 3} |->
        CASE b = 0 -> {}
          [] b = 1 -> {<<"bank", 1>>, <<"gov", 1>>}
          [] b = 2 -> {<<"bank", 1>>, <<"bank", 2>>, <<"gov", 2>>, <<"feegrant", 1>>}
          [] b = 3 -> {"bank", "gov", "feegrant"} \X (1 .. 3)]

\* What the proofs about Upgrade ask for holds here.
ASSUME InstanceInOrder == InOrder /\ Notice >= 2
=============================================================================
