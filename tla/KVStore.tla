------------------------------ MODULE KVStore ------------------------------
(***************************************************************************)
(* What a branched key-value store promises: a private copy of its parent. *)
(* Reads see the writes made before them in the branch, the parent sees    *)
(* none of them until the branch is written, and then all of them.         *)
(***************************************************************************)
CONSTANTS
    Keys, Values,
    Nil             \* "no value"

VARIABLES
    base,           \* the contents of the parent
    view,           \* the contents of the branch
    reply           \* the answer to the last read

vars == <<base, view, reply>>

Init == base \in [Keys -> Values \cup {Nil}] /\ view = base /\ reply = Nil

Get(k)    == reply' = view[k] /\ UNCHANGED <<base, view>>
Set(k, v) == view' = [view EXCEPT ![k] = v] /\ UNCHANGED <<base, reply>>
Delete(k) == view' = [view EXCEPT ![k] = Nil] /\ UNCHANGED <<base, reply>>
Write     == base' = view /\ UNCHANGED <<view, reply>>
Discard   == view' = base /\ UNCHANGED <<base, reply>>

Next ==
    \/ \E k \in Keys : Get(k) \/ Delete(k) \/ \E v \in Values : Set(k, v)
    \/ Write
    \/ Discard

Spec == Init /\ [][Next]_vars
=============================================================================
