----------------------------- MODULE MCBranches -----------------------------
(***************************************************************************)
(* Two ways state is branched and dropped: the cachekv store, with two     *)
(* keys, and the capability keeper, with two modules, whose map no branch  *)
(* covers. The two do not meet: a behaviour runs one of them.              *)
(***************************************************************************)
EXTENDS CacheKV, Capability, TLC

VARIABLE component      \* "cachekv" or "capability"

MCInit ==
    /\ CacheInit /\ Init /\ component \in {"cachekv", "capability"}
    /\ component = "capability" => parent = NoValue

MCNext ==
    /\ \/ component = "cachekv" /\ CacheNext /\ UNCHANGED vars
       \/ component = "capability" /\ Next /\ UNCHANGED cacheVars
    /\ UNCHANGED component

MCSpec == MCInit /\ [][MCNext]_<<cacheVars, vars, component>>

\* All domains but those with a start and no end.
BoundedDomains == {d \in (Keys \cup {0}) \X (Keys \cup {0}) : d[1] = 0 \/ d[2] # 0}

\* Once torn apart, map and store stay so, and the properties have nothing to say.
Whole == ~torn

\* Values, addresses and modules are not told apart.
Symmetry == Permutations(Values) \cup Permutations(Addresses) \cup Permutations(Modules)
=============================================================================
