---------------------------- MODULE MCMultiStore ----------------------------
(* Model-checking instance of MultiStore: two interchangeable sub-stores.  *)
EXTENDS MultiStore, TLC

CONSTANTS s1, s2

MCStores == {s1, s2}
Symmetry == Permutations(MCStores)
=============================================================================
