---------------------------- MODULE AtomicStore ----------------------------
(***************************************************************************)
(* What the commit multi-store promises the application: one durable       *)
(* version, whose content every sub-store agrees on.  A commit moves all   *)
(* the sub-stores to the next version in one step, a state-sync restore    *)
(* moves an empty store to the restored version in one step, and nothing   *)
(* else (no crash, no pruning, no restart) changes what is durable.        *)
(*                                                                         *)
(* The content of a sub-store is named by the last block applied to it: h  *)
(* is the content the blocks up to h produce, each applied once.           *)
(***************************************************************************)
EXTENDS Integers

CONSTANTS
    Stores,         \* the IAVL sub-stores
    FirstVersion,   \* the version of the first commit
    MaxVersion      \* bound: the last version a behaviour commits

VARIABLES version, content

vars == <<version, content>>

\* The version the commit after v gets.
NextVersion(v) == IF v = 0 THEN FirstVersion ELSE v + 1

Init ==
    /\ version = 0
    /\ content = [s \in Stores |-> 0]

\* All the sub-stores hold block h from now on.
MoveTo(h) ==
    /\ h <= MaxVersion
    /\ version' = h
    /\ content' = [s \in Stores |-> h]

Commit == MoveTo(NextVersion(version))

Restore == version = 0 /\ \E h \in FirstVersion .. MaxVersion : MoveTo(h)

Next == Commit \/ Restore

Spec == Init /\ [][Next]_vars
=============================================================================
