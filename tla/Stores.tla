------------------------------- MODULE Stores -------------------------------
(***************************************************************************)
(* What the keepers have in common. A store is a function whose domain is  *)
(* the keys it holds, and a keeper method takes the state of the           *)
(* application, a record, to the state it leaves. A panic, or an error     *)
(* that makes the message fail, is noted in the field panic of that state. *)
(***************************************************************************)
EXTENDS Integers, FiniteSets, SequencesExt

Nil == -1       \* a field that a message leaves out

Set(f, k, x) == (k :> x) @@ f
Delete(f, k) == Restrict(f, DOMAIN f \ {k})
Has(f, k)    == k \in DOMAIN f

\* The first panic is the one that counts; nothing runs after it.
Panic(s, msg)         == IF s.panic = "" THEN [s EXCEPT !.panic = msg] ELSE s
Require(s, cond, msg) == IF cond THEN s ELSE Panic(s, msg)

\* for x in the elements of S in their order { s = op(s, x) }
ForEach(op(_, _), s, S, before(_, _)) ==
    FoldLeft(LAMBDA r, x : IF r.panic = "" THEN op(r, x) ELSE r, s, SetToSortSeq(S, before))

Lexicographic(a, b) ==
    \E i \in DOMAIN a : a[i] < b[i] /\ \A j \in 1 .. i - 1 : a[j] = b[j]
=============================================================================
