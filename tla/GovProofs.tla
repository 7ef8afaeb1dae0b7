----------------------------- MODULE GovProofs -----------------------------
(***************************************************************************)
(* The coins and the queues of governance, for any accounts, proposals,    *)
(* deposits, votes and stakes, and any number of proposals and blocks.     *)
(***************************************************************************)
EXTENDS Gov, Sequences, WellFoundedInduction, TLAPS

Statuses == {"none", "deposit", "voting", "passed", "failed", "rejected"}

\* The proposals, with tallies in T.
Proposal(T) == [status : Statuses, content : Contents \cup {0}, total : Nat, depositEnd : Nat,
                votingEnd : Nat, tally : T]

\* The periods, which the end times in the queues are made of, are natural
\* numbers: a proposal sets parameters that are valid.
ParamsOK(p) == p \in [Parameters -> Int] /\ p.depositPeriod \in Nat /\ p.votingPeriod \in Nat

TypeOK ==
    /\ time \in Nat /\ ParamsOK(params) /\ nextID \in Nat
    /\ phase \in {"txs", "inactive", "active", "panic"}
    /\ \E T : proposals \in [IDs -> Proposal(T)]
    /\ deposits \in [IDs -> [Accounts -> Nat]]
    /\ votes \in [IDs -> [Accounts -> Ballots \cup {NoBallot}]]
    /\ balance \in [Accounts -> Nat] /\ module \in Nat /\ pool \in Nat /\ burned \in Nat

\* What there is of a proposal in the status it has.
KeptInv ==
    \A id \in IDs :
        /\ proposals[id].status # "none" => proposals[id].content \in Contents
        /\ id >= nextID => proposals[id].status = "none"
        /\ ~Pending(id) => deposits[id] = NoDeposits
        /\ proposals[id].status # "voting" => votes[id] = NoVotes

\* The queues that a set of proposals calls for.
InactiveOf(ps) ==
    {<<ps[id].depositEnd, id>> : id \in {i \in IDs : ps[i].status = "deposit"}}
ActiveOf(ps) ==
    {<<ps[id].votingEnd, id>> : id \in {i \in IDs : ps[i].status = "voting"}}

QueueInv == inactiveQ = InactiveOf(proposals) /\ activeQ = ActiveOf(proposals)

BaseInv == TypeOK /\ KeptInv /\ QueueInv

-----------------------------------------------------------------------------
(* Finite sets and sums                                                    *)

\* A set of numbers that is not empty has a least element.
LEMMA Least ==
    ASSUME NEW S, S \subseteq Nat, S # {}
    PROVE  \E m \in S : \A x \in S : m <= x
  <1> DEFINE R == OpToRel(<, Nat)
  <1>1. IsWellFoundedOn(R, Nat)
    BY NatLessThanWellFounded, Zenon
  <1>2. \A y, t \in Nat : y < t => <<y, t>> \in R
    BY Zenon DEF OpToRel
  <1> HIDE DEF R
  <1>3. PICK m \in S : \A y \in S : ~(<<y, m>> \in R)
    BY <1>1, WFMin, Zenon
  <1>4. \A y \in S : ~(y < m)
    BY <1>2, <1>3, Zenon
  <1> QED BY <1>3, <1>4

\* The elements of T are among n elements of S.
Covers(n, T, S) == \E s \in [1 .. n -> S] : \A x \in T : \E i \in 1 .. n : s[i] = x

LEMMA FiniteCovers ==
    ASSUME NEW S
    PROVE  IsFiniteSet(S) <=> \E n \in Nat : Covers(n, S, S)
  <1>1. ASSUME NEW s \in Seq(S) PROVE Len(s) \in Nat /\ s \in [1 .. Len(s) -> S]
    OBVIOUS
  <1>2. ASSUME NEW n \in Nat, NEW s \in [1 .. n -> S] PROVE s \in Seq(S) /\ Len(s) = n
    OBVIOUS
  <1> QED BY <1>1, <1>2, Zenon DEF IsFiniteSet, Covers

LEMMA CoversLess ==
    ASSUME NEW S, NEW n \in Nat, NEW T, Covers(n, T, S), NEW x \in T
    PROVE  n - 1 \in Nat /\ Covers(n - 1, T \ {x}, S)
  <1>1. PICK s \in [1 .. n -> S] : \A y \in T : \E i \in 1 .. n : s[i] = y
    BY Zenon DEF Covers
  <1>2. PICK j \in 1 .. n : s[j] = x
    BY <1>1, Zenon
  <1> DEFINE r == [i \in 1 .. n - 1 |-> IF i < j THEN s[i] ELSE s[i + 1]]
  <1>3. r \in [1 .. n - 1 -> S]
    OBVIOUS
  <1>4. ASSUME NEW y \in T \ {x} PROVE \E i \in 1 .. n - 1 : r[i] = y
    <2>1. PICK i \in 1 .. n : s[i] = y
      BY <1>1, Zenon
    <2>2. CASE i < j
      <3>1. i \in 1 .. n - 1 /\ r[i] = y
        BY <2>1, <2>2
      <3> QED BY <3>1, Zenon
    <2>3. CASE ~(i < j)
      <3>1. i # j
        BY <1>2, <2>1, Zenon
      <3>2. i - 1 \in 1 .. n - 1 /\ ~(i - 1 < j) /\ (i - 1) + 1 = i
        BY <2>3, <3>1
      <3>3. r[i - 1] = y
        BY <2>1, <3>2, Zenon
      <3> QED BY <3>2, <3>3, Zenon
    <2> QED BY <2>2, <2>3, Zenon
  <1>5. n - 1 \in Nat
    OBVIOUS
  <1> HIDE DEF r
  <1> QED BY <1>3, <1>4, <1>5, Zenon DEF Covers

\* Induction over the subsets of a finite set, with the property as a set: it
\* holds of a set when it holds of those with one element less.
LEMMA SubsetInduction ==
    ASSUME NEW S, IsFiniteSet(S), NEW Q,
           \A T \in SUBSET S : (\A x \in T : T \ {x} \in Q) => T \in Q
    PROVE  \A T \in SUBSET S : T \in Q
  <1> DEFINE N == {n \in Nat : \E T \in SUBSET S : T \notin Q /\ Covers(n, T, S)}
  <1>1. PICK n \in Nat : Covers(n, S, S)
    BY FiniteCovers, Zenon
  <1>2. \A T \in SUBSET S : Covers(n, T, S)
    BY <1>1, Zenon DEF Covers
  <1> SUFFICES ASSUME NEW U \in SUBSET S, U \notin Q PROVE FALSE
    BY Zenon
  <1>3. N \subseteq Nat /\ N # {}
    BY <1>2, Zenon
  <1>4. PICK m \in N : \A k \in N : m <= k
    <2> HIDE DEF N
    <2> QED BY <1>3, Least, Zenon
  <1>5. PICK T \in SUBSET S : T \notin Q /\ Covers(m, T, S)
    BY <1>4, Zenon
  <1>6. PICK x \in T : T \ {x} \notin Q
    BY <1>5, Zenon
  <1>7. m - 1 \in Nat /\ Covers(m - 1, T \ {x}, S)
    BY <1>3, <1>5, <1>6, CoversLess, Zenon
  <1>8. m - 1 \in N
    <2>1. T \ {x} \in SUBSET S
      BY Zenon
    <2> QED BY <1>6, <1>7, <2>1, Zenon
  <1>9. m <= m - 1 /\ m \in Nat
    BY <1>3, <1>4, <1>8, Zenon
  <1> QED BY <1>9

\* The same, one element added at a time.
LEMMA SetInduction ==
    ASSUME NEW S, IsFiniteSet(S), NEW Q, {} \in Q,
           \A T \in SUBSET S : \A x \in S \ T : T \in Q => T \cup {x} \in Q
    PROVE  S \in Q
  <1>1. ASSUME NEW T \in SUBSET S, \A x \in T : T \ {x} \in Q PROVE T \in Q
    <2>1. CASE T = {}
      BY <2>1, Zenon
    <2>2. CASE T # {}
      <3>1. PICK x \in T : TRUE
        BY <2>2, Zenon
      <3> DEFINE U == T \ {x}
      <3>2. U \in SUBSET S /\ x \in S \ U /\ U \cup {x} = T /\ U \in Q
        BY <1>1, Zenon
      <3> HIDE DEF U
      <3> QED BY <3>2, Zenon
    <2> QED BY <2>1, <2>2, Zenon
  <1>2. \A T \in SUBSET S : T \in Q
    BY <1>1, SubsetInduction, Zenon
  <1> QED BY <1>2, Zenon

LEMMA FiniteSubset ==
    ASSUME NEW S, IsFiniteSet(S), NEW T \in SUBSET S
    PROVE  IsFiniteSet(T)
  <1>1. CASE T = {}
    <2>1. <<>> \in Seq(T)
      OBVIOUS
    <2> QED BY <1>1, <2>1, Zenon DEF IsFiniteSet
  <1>2. CASE T # {}
    <2>1. PICK n \in Nat : Covers(n, S, S)
      BY FiniteCovers, Zenon
    <2>2. PICK s \in [1 .. n -> S] : \A x \in S : \E i \in 1 .. n : s[i] = x
      BY <2>1, Zenon DEF Covers
    <2>3. PICK t \in T : TRUE
      BY <1>2, Zenon
    <2> DEFINE r == [i \in 1 .. n |-> IF s[i] \in T THEN s[i] ELSE t]
    <2>4. r \in [1 .. n -> T]
      BY Zenon
    <2>5. \A x \in T : \E i \in 1 .. n : r[i] = x
      BY <2>2, Zenon
    <2> HIDE DEF r
    <2> QED BY <2>4, <2>5, FiniteCovers, Zenon DEF Covers
  <1> QED BY <1>1, <1>2, Zenon

LEMMA FiniteInterval == ASSUME NEW n \in Nat PROVE IsFiniteSet(1 .. n)
  <1> DEFINE r == [i \in 1 .. n |-> i]
  <1>1. r \in [1 .. n -> 1 .. n] /\ \A x \in 1 .. n : r[x] = x
    BY Zenon
  <1> HIDE DEF r
  <1> QED BY <1>1, FiniteCovers, Zenon DEF Covers

\* F gives the sums of f over the subsets of S.
Sums(F, f, S) ==
    /\ F \in [SUBSET S -> Int]
    /\ F[{}] = 0
    /\ \A s \in SUBSET S : \A x \in s : F[s] = f[x] + F[s \ {x}]

LEMMA SumsExist ==
    ASSUME NEW S, IsFiniteSet(S), NEW f \in [S -> Int]
    PROVE  \E F : Sums(F, f, S)
  <1> DEFINE Q == {T \in SUBSET S : \E F : Sums(F, f, T)}
  <1>1. {} \in Q
    <2> DEFINE F == [s \in SUBSET {} |-> 0]
    <2>1. F \in [SUBSET {} -> Int] /\ F[{}] = 0
      OBVIOUS
    <2>2. Sums(F, f, {})
      <3> HIDE DEF F
      <3> QED BY <2>1, Zenon DEF Sums
    <2> HIDE DEF F
    <2> QED BY <2>2, Zenon
  <1>2. ASSUME NEW T \in SUBSET S, NEW x \in S \ T, T \in Q PROVE T \cup {x} \in Q
    <2>1. PICK F : Sums(F, f, T)
      BY <1>2, Zenon
    <2> DEFINE V == T \cup {x}
               G == [s \in SUBSET V |-> IF x \in s THEN f[x] + F[s \ {x}] ELSE F[s]]
    <2>2. f[x] \in Int /\ \A y \in S : f[y] \in Int
      BY Zenon
    <2>3. F \in [SUBSET T -> Int] /\ F[{}] = 0
      BY <2>1, Zenon DEF Sums
    <2>4. \A s \in SUBSET T : \A y \in s : F[s] = f[y] + F[s \ {y}]
      BY <2>1, Zenon DEF Sums
    <2>5. \A s \in SUBSET V : /\ x \in s => s \ {x} \in SUBSET T
                              /\ x \notin s => s \in SUBSET T
      BY Zenon
    <2>6. \A s \in SUBSET V : G[s] \in Int
      BY <2>2, <2>3, <2>5
    <2>7. \A s \in SUBSET V : x \in s => G[s] = f[x] + F[s \ {x}]
      BY Zenon
    <2>8. \A s \in SUBSET V : x \notin s => G[s] = F[s]
      BY Zenon
    <2>9. G \in [SUBSET V -> Int]
      BY <2>6, Zenon
    <2>10. G[{}] = 0
      BY <2>3, <2>8, Zenon
    <2>11. ASSUME NEW s \in SUBSET V, NEW y \in s PROVE G[s] = f[y] + G[s \ {y}]
      <3> HIDE DEF G
      <3>0. s \ {y} \in SUBSET V
        BY Zenon
      <3>1. CASE y = x
        BY <2>7, <2>8, <3>0, <3>1, Zenon
      <3>2. CASE y # x /\ x \in s
        <4> DEFINE u == s \ {x}
                   w == u \ {y}
        <4>1. u \in SUBSET T /\ y \in u /\ w \in SUBSET T /\ y \in S /\ (s \ {y}) \ {x} = w
          BY <2>5, <3>2, Zenon
        <4>2. x \in s \ {y}
          BY <3>2, Zenon
        <4>3. G[s] = f[x] + F[u]
          BY <2>7, <3>2, Zenon
        <4>4. G[s \ {y}] = f[x] + F[w]
          BY <2>7, <3>0, <4>1, <4>2, Zenon
        <4> HIDE DEF u
        <4>5. F[u] = f[y] + F[w]
          BY <2>4, <4>1, Zenon
        <4> HIDE DEF w
        <4>6. F[w] \in Int /\ f[x] \in Int /\ f[y] \in Int
          BY <2>2, <2>3, <4>1, Zenon
        <4> QED BY <4>3, <4>4, <4>5, <4>6
      <3>3. CASE x \notin s
        <4>1. s \in SUBSET T /\ x \notin s \ {y}
          BY <2>5, <3>3, Zenon
        <4> QED BY <2>4, <2>8, <3>0, <3>3, <4>1, Zenon
      <3> QED BY <3>1, <3>2, <3>3, Zenon
    <2> HIDE DEF G, V
    <2>12. Sums(G, f, V)
      BY <2>9, <2>10, <2>11, Zenon DEF Sums
    <2>13. V \in SUBSET S
      BY Zenon DEF V
    <2> QED BY <2>12, <2>13, Zenon DEF V
  <1> HIDE DEF Q
  <1>3. S \in Q
    BY <1>1, <1>2, SetInduction, Zenon
  <1> QED BY <1>3, Zenon DEF Q

\* Sums of functions that agree on a set are the same.
LEMMA SumsCongruent ==
    ASSUME NEW S, IsFiniteSet(S), NEW f \in [S -> Int], NEW g \in [S -> Int],
           NEW F, Sums(F, f, S), NEW G, Sums(G, g, S),
           NEW T \in SUBSET S, \A x \in T : f[x] = g[x]
    PROVE  F[T] = G[T]
  <1> DEFINE Q == {U \in SUBSET T : F[U] = G[U]}
  <1>1. {} \in Q
    BY Zenon DEF Sums
  <1>2. ASSUME NEW U \in SUBSET T, NEW x \in T \ U, U \in Q PROVE U \cup {x} \in Q
    <2> DEFINE V == U \cup {x}
    <2>1. V \in SUBSET S /\ x \in V /\ V \ {x} = U /\ V \in SUBSET T
      BY Zenon
    <2> HIDE DEF V
    <2>2. F[V] = f[x] + F[U]
      BY <2>1, Zenon DEF Sums
    <2>3. G[V] = g[x] + G[U]
      BY <2>1, Zenon DEF Sums
    <2>4. F[U] = G[U] /\ f[x] = g[x]
      BY <1>2, Zenon
    <2>5. F[V] = G[V]
      BY <2>2, <2>3, <2>4, Zenon
    <2>6. V \in Q
      BY <2>1, <2>5, Zenon
    <2> QED BY <2>6, Zenon DEF V
  <1>3. IsFiniteSet(T)
    BY FiniteSubset, Zenon
  <1> HIDE DEF Q
  <1>4. T \in Q
    BY <1>1, <1>2, <1>3, SetInduction, Zenon
  <1> QED BY <1>4, Zenon DEF Q

\* SumFunction is the sum over the whole domain.
LEMMA SumIs ==
    ASSUME NEW S, IsFiniteSet(S), NEW f \in [S -> Int], NEW F, Sums(F, f, S)
    PROVE  SumFunction(f) = F[S]
  <1> DEFINE c(s) == CHOOSE x \in s : TRUE
             Body(h) == [s \in SUBSET S |-> IF s = {} THEN 0 ELSE f[c(s)] + h[s \ {c(s)}]]
             iter == CHOOSE h : h = Body(h)
  <1>1. DOMAIN f = S
    BY Zenon
  <1>2. SumFunction(f) = iter[S]
    BY <1>1, Zenon DEF SumFunction, SumFunctionOnSet, FoldFunctionOnSet, MapThenFoldSet
  <1>3. \A s \in SUBSET S : s # {} => c(s) \in s
    BY Zenon
  <1> HIDE DEF c
  <1>4. F = Body(F)
    <2>1. F \in [SUBSET S -> Int] /\ F[{}] = 0
      BY Zenon DEF Sums
    <2>2. \A s \in SUBSET S : s # {} => F[s] = f[c(s)] + F[s \ {c(s)}]
      BY <1>3, Zenon DEF Sums
    <2> QED BY <2>1, <2>2, Zenon
  <1>5. iter = Body(iter)
    <2> HIDE DEF Body
    <2> QED BY <1>4, Zenon
  <1> HIDE DEF iter
  <1>6. /\ iter[{}] = 0
        /\ \A s \in SUBSET S : s # {} => iter[s] = f[c(s)] + iter[s \ {c(s)}]
    BY <1>5, Zenon
  <1> HIDE DEF Body
  <1> DEFINE Q == {T \in SUBSET S : iter[T] = F[T]}
  <1>7. ASSUME NEW T \in SUBSET S, \A x \in T : T \ {x} \in Q PROVE T \in Q
    <2>1. CASE T = {}
      BY <1>6, <2>1, Zenon DEF Sums
    <2>2. CASE T # {}
      <3> DEFINE x == c(T)
      <3>1. x \in T
        BY <1>3, <2>2, Zenon
      <3>2. iter[T] = f[x] + iter[T \ {x}]
        BY <1>6, <2>2, Zenon
      <3> HIDE DEF x
      <3>3. iter[T \ {x}] = F[T \ {x}]
        BY <1>7, <3>1, Zenon
      <3>4. F[T] = f[x] + F[T \ {x}]
        BY <3>1, Zenon DEF Sums
      <3> QED BY <3>2, <3>3, <3>4, Zenon
    <2> QED BY <2>1, <2>2, Zenon
  <1>8. \A T \in SUBSET S : T \in Q
    <2> HIDE DEF Q
    <2> QED BY <1>7, SubsetInduction, Zenon
  <1> QED BY <1>2, <1>8, Zenon

LEMMA SumType ==
    ASSUME NEW S, IsFiniteSet(S), NEW f \in [S -> Int]
    PROVE  SumFunction(f) \in Int
  <1>1. PICK F : Sums(F, f, S)
    BY SumsExist, Zenon
  <1>2. SumFunction(f) = F[S]
    BY <1>1, SumIs, Zenon
  <1>3. F \in [SUBSET S -> Int]
    BY <1>1, Zenon DEF Sums
  <1>4. F[S] \in Int
    BY <1>3, Zenon
  <1> QED BY <1>2, <1>4, Zenon

\* A summand is replaced.
LEMMA SumExcept ==
    ASSUME NEW S, IsFiniteSet(S), NEW f \in [S -> Int], NEW x \in S, NEW v \in Int
    PROVE  SumFunction([f EXCEPT ![x] = v]) = SumFunction(f) - f[x] + v
  <1> DEFINE g == [f EXCEPT ![x] = v]
             U == S \ {x}
  <1>1. g \in [S -> Int] /\ g[x] = v /\ \A y \in U : f[y] = g[y]
    BY Zenon
  <1> HIDE DEF g
  <1>2. PICK F : Sums(F, f, S)
    BY SumsExist, Zenon
  <1>3. PICK G : Sums(G, g, S)
    BY <1>1, SumsExist, Zenon
  <1>4. SumFunction(f) = F[S] /\ SumFunction(g) = G[S]
    BY <1>1, <1>2, <1>3, SumIs, Zenon
  <1>5. F[S] = f[x] + F[U]
    BY <1>2, Zenon DEF Sums
  <1>6. G[S] = g[x] + G[U]
    BY <1>3, Zenon DEF Sums
  <1>7. U \in SUBSET S
    BY Zenon
  <1> HIDE DEF U
  <1>8. F[U] = G[U]
    BY <1>1, <1>2, <1>3, <1>7, SumsCongruent
  <1>9. F[U] \in Int /\ f[x] \in Int
    BY <1>2, <1>7, Zenon DEF Sums
  <1>10. SumFunction(g) = SumFunction(f) - f[x] + v
    BY <1>1, <1>4, <1>5, <1>6, <1>8, <1>9
  <1> QED BY <1>10, Zenon DEF g

LEMMA SumAdd ==
    ASSUME NEW S, IsFiniteSet(S), NEW f \in [S -> Int], NEW g \in [S -> Int]
    PROVE  SumFunction([x \in S |-> f[x] + g[x]]) = SumFunction(f) + SumFunction(g)
  <1> DEFINE h == [x \in S |-> f[x] + g[x]]
  <1>1. h \in [S -> Int] /\ \A x \in S : h[x] = f[x] + g[x] /\ f[x] \in Int /\ g[x] \in Int
    OBVIOUS
  <1> HIDE DEF h
  <1>2. PICK F : Sums(F, f, S)
    BY SumsExist, Zenon
  <1>3. PICK G : Sums(G, g, S)
    BY SumsExist, Zenon
  <1> DEFINE H == [s \in SUBSET S |-> F[s] + G[s]]
  <1>4. /\ F \in [SUBSET S -> Int] /\ F[{}] = 0
        /\ G \in [SUBSET S -> Int] /\ G[{}] = 0
    BY <1>2, <1>3, Zenon DEF Sums
  <1>5. H \in [SUBSET S -> Int] /\ H[{}] = 0 /\ \A s \in SUBSET S : H[s] = F[s] + G[s]
    BY <1>4
  <1> HIDE DEF H
  <1>6. ASSUME NEW s \in SUBSET S, NEW x \in s PROVE H[s] = h[x] + H[s \ {x}]
    <2> DEFINE t == s \ {x}
    <2>1. F[s] = f[x] + F[t]
      BY <1>2, Zenon DEF Sums
    <2>2. G[s] = g[x] + G[t]
      BY <1>3, Zenon DEF Sums
    <2>3. t \in SUBSET S /\ x \in S
      BY Zenon
    <2> HIDE DEF t
    <2>4. H[s] = F[s] + G[s] /\ H[t] = F[t] + G[t] /\ F[t] \in Int /\ G[t] \in Int
      BY <1>4, <1>5, <2>3, Zenon
    <2>5. H[s] = h[x] + H[t]
      BY <1>1, <2>1, <2>2, <2>3, <2>4
    <2> QED BY <2>5, Zenon DEF t
  <1>7. Sums(H, h, S)
    BY <1>5, <1>6, Zenon DEF Sums
  <1>8. SumFunction(f) = F[S] /\ SumFunction(g) = G[S] /\ SumFunction(h) = H[S]
    BY <1>1, <1>2, <1>3, <1>7, SumIs, Zenon
  <1>9. SumFunction(h) = SumFunction(f) + SumFunction(g)
    BY <1>5, <1>8, Zenon
  <1> QED BY <1>9, Zenon DEF h

LEMMA SumZero ==
    ASSUME NEW S, IsFiniteSet(S)
    PROVE  SumFunction([x \in S |-> 0]) = 0
  <1> DEFINE f == [x \in S |-> 0]
             F == [s \in SUBSET S |-> 0]
  <1>1. f \in [S -> Int] /\ \A x \in S : f[x] = 0
    OBVIOUS
  <1>2. F \in [SUBSET S -> Int] /\ \A s \in SUBSET S : F[s] = 0
    OBVIOUS
  <1> HIDE DEF f, F
  <1>3. Sums(F, f, S)
    BY <1>1, <1>2 DEF Sums
  <1>4. SumFunction(f) = F[S]
    BY <1>1, <1>3, SumIs, Zenon
  <1> QED BY <1>2, <1>4, Zenon DEF f

\* Summands that are not negative are at most the sum.
LEMMA SumNat ==
    ASSUME NEW S, IsFiniteSet(S), NEW f \in [S -> Nat]
    PROVE  SumFunction(f) \in Nat /\ \A x \in S : f[x] <= SumFunction(f)
  <1>1. f \in [S -> Int]
    OBVIOUS
  <1>2. PICK F : Sums(F, f, S)
    BY <1>1, SumsExist, Zenon
  <1>3. SumFunction(f) = F[S]
    BY <1>1, <1>2, SumIs, Zenon
  <1> DEFINE Q == {T \in SUBSET S : F[T] \in Nat}
  <1>4. ASSUME NEW T \in SUBSET S, \A x \in T : T \ {x} \in Q PROVE T \in Q
    <2>1. CASE T = {}
      BY <1>2, <2>1 DEF Sums
    <2>2. CASE T # {}
      <3>1. PICK x \in T : TRUE
        BY <2>2, Zenon
      <3>2. F[T] = f[x] + F[T \ {x}]
        BY <1>2, <3>1, Zenon DEF Sums
      <3>3. F[T \ {x}] \in Nat /\ f[x] \in Nat
        BY <1>4, Zenon
      <3> QED BY <3>2, <3>3
    <2> QED BY <2>1, <2>2, Zenon
  <1>5. \A T \in SUBSET S : T \in Q
    <2> HIDE DEF Q
    <2> QED BY <1>4, SubsetInduction, Zenon
  <1>6. \A T \in SUBSET S : F[T] \in Nat
    BY <1>5, Zenon
  <1>7. ASSUME NEW x \in S PROVE f[x] <= F[S]
    <2>1. F[S] = f[x] + F[S \ {x}]
      BY <1>2, Zenon DEF Sums
    <2>2. F[S \ {x}] \in Nat /\ f[x] \in Nat
      BY <1>6, Zenon
    <2> QED BY <2>1, <2>2
  <1> QED BY <1>3, <1>6, <1>7, Zenon

-----------------------------------------------------------------------------
(* Facts about the constants and the operators                             *)

LEMMA ConstantFacts ==
    /\ IsFiniteSet(Accounts) /\ IsFiniteSet(IDs) /\ IDs \subseteq Nat
    /\ Genesis.balance \in [Accounts -> Nat] /\ Genesis.pool \in Nat
    /\ \A n \in Amounts : n \in Nat
  <1>1. IsFiniteSet(1 .. MaxProposals)
    BY GovAssumption, FiniteInterval, Zenon
  <1> QED BY <1>1, GovAssumption DEF IDs

LEMMA NoneFacts ==
    /\ NoDeposits \in [Accounts -> Nat] /\ SumFunction(NoDeposits) = 0
    /\ NoVotes \in [Accounts -> Ballots \cup {NoBallot}]
    /\ \A a \in Accounts : NoVotes[a] = NoBallot
    /\ NoProposal \in Proposal({NoTally}) /\ NoProposal.status = "none"
  <1>1. SumFunction(NoDeposits) = 0
    BY ConstantFacts, SumZero, Zenon DEF NoDeposits
  <1>2. NoProposal \in Proposal({NoTally}) /\ NoProposal.status = "none"
    BY Zenon DEF NoProposal, Proposal, Statuses
  <1> QED BY <1>1, <1>2, Zenon DEF NoDeposits, NoVotes

\* There is a first entry among those due.
LEMMA FirstDueFacts ==
    ASSUME NEW queue, queue \subseteq Nat \X IDs, Due(queue) # {}
    PROVE  FirstDue(queue) \in queue
  <1> DEFINE D == Due(queue)
             Times == {e[1] : e \in D}
  <1>1. D \subseteq queue /\ \A e \in D : e[1] \in Nat /\ e[2] \in Nat
    BY ConstantFacts, Zenon DEF Due
  <1>2. Times \subseteq Nat /\ Times # {}
    BY <1>1, Zenon
  <1>3. PICK t \in Times : \A u \in Times : t <= u
    <2> HIDE DEF Times
    <2> QED BY <1>2, Least, Zenon
  <1> DEFINE Ids == {e[2] : e \in {f \in D : f[1] = t}}
  <1>4. Ids \subseteq Nat /\ Ids # {}
    BY <1>1, <1>3, Zenon
  <1>5. PICK i \in Ids : \A j \in Ids : i <= j
    <2> HIDE DEF Ids
    <2> QED BY <1>4, Least, Zenon
  <1>6. PICK e \in D : e[1] = t /\ e[2] = i
    BY <1>5, Zenon
  <1>7. \A f \in D : e[1] < f[1] \/ (e[1] = f[1] /\ e[2] <= f[2])
    <2> TAKE f \in D
    <2>1. f[1] \in Nat /\ t \in Nat /\ t <= f[1]
      BY <1>1, <1>2, <1>3, Zenon
    <2>2. f[1] = t => i <= f[2]
      BY <1>5, Zenon
    <2> QED BY <1>6, <2>1, <2>2
  <1> HIDE DEF D
  <1>8. FirstDue(queue) \in D
    BY <1>6, <1>7, Zenon DEF FirstDue, D
  <1> QED BY <1>1, <1>8, Zenon

\* The queues when one proposal changes.
QueuesMove(ps, qs, id) ==
    /\ InactiveOf(qs) = (InactiveOf(ps) \ {<<ps[id].depositEnd, id>>})
         \cup (IF qs[id].status = "deposit" THEN {<<qs[id].depositEnd, id>>} ELSE {})
    /\ ActiveOf(qs) = (ActiveOf(ps) \ {<<ps[id].votingEnd, id>>})
         \cup (IF qs[id].status = "voting" THEN {<<qs[id].votingEnd, id>>} ELSE {})

LEMMA QueuesExcept ==
    ASSUME NEW ps, NEW qs, NEW id \in IDs, \A i \in IDs : i # id => qs[i] = ps[i]
    PROVE  QueuesMove(ps, qs, id)
  BY DEF InactiveOf, ActiveOf, QueuesMove

\* All deposits, when those on one proposal change.
LEMMA TotalExcept ==
    ASSUME NEW ds \in [IDs -> [Accounts -> Nat]], NEW id \in IDs, NEW d \in [Accounts -> Nat]
    PROVE  /\ Total([ds EXCEPT ![id] = d]) = Total(ds) - SumFunction(ds[id]) + SumFunction(d)
           /\ Total(ds) \in Nat /\ SumFunction(ds[id]) \in Nat /\ SumFunction(d) \in Nat
           /\ SumFunction(ds[id]) <= Total(ds)
  <1> DEFINE es == [ds EXCEPT ![id] = d]
             f == [i \in IDs |-> SumFunction(ds[i])]
             g == [i \in IDs |-> SumFunction(es[i])]
  <1>1. \A e \in [Accounts -> Nat] : SumFunction(e) \in Nat
    BY ConstantFacts, SumNat, Zenon
  <1>2. f \in [IDs -> Nat] /\ f[id] = SumFunction(ds[id]) /\ SumFunction(d) \in Nat
    BY <1>1, Zenon
  <1>3. g = [f EXCEPT ![id] = SumFunction(d)]
    <2>1. \A i \in IDs : es[i] = IF i = id THEN d ELSE ds[i]
      BY Zenon
    <2>2. \A i \in IDs : g[i] = IF i = id THEN SumFunction(d) ELSE f[i]
      BY <2>1, Zenon
    <2> QED BY <2>2, Zenon
  <1>4. Total(ds) = SumFunction(f) /\ Total(es) = SumFunction(g)
    BY Zenon DEF Total
  <1> HIDE DEF f, g, es
  <1>5. f \in [IDs -> Int] /\ SumFunction(d) \in Int
    BY <1>2
  <1>6. SumFunction(g) = SumFunction(f) - f[id] + SumFunction(d)
    <2>1. IsFiniteSet(IDs)
      BY ConstantFacts, Zenon
    <2> DEFINE v == SumFunction(d)
    <2>2. v \in Int
      BY <1>5, Zenon
    <2> HIDE DEF v
    <2>3. SumFunction([f EXCEPT ![id] = v]) = SumFunction(f) - f[id] + v
      BY <1>5, <2>1, <2>2, SumExcept, Zenon
    <2> QED BY <1>3, <2>3, Zenon DEF v
  <1>7. SumFunction(f) \in Nat /\ f[id] <= SumFunction(f)
    BY <1>2, ConstantFacts, SumNat, Zenon
  <1>8. Total(es) = Total(ds) - SumFunction(ds[id]) + SumFunction(d)
    BY <1>2, <1>4, <1>6, Zenon
  <1> QED BY <1>2, <1>4, <1>7, <1>8, Zenon DEF es

\* What a handler leaves: the coins that leave the pool are those of a spend.
LEMMA ExecuteFacts ==
    ASSUME ParamsOK(params), pool \in Nat, NEW passes \in BOOLEAN, NEW c \in Contents,
           NEW bal \in [Accounts -> Nat]
    PROVE  /\ ParamsOK(Execute(passes, c, bal).params)
           /\ Execute(passes, c, bal).status \in {"passed", "failed", "rejected"}
           /\ Execute(passes, c, bal).balance \in [Accounts -> Nat]
           /\ Execute(passes, c, bal).pool \in Nat
           /\ SumFunction(Execute(passes, c, bal).balance) + Execute(passes, c, bal).pool
                = SumFunction(bal) + pool
           /\ Execute(passes, c, bal).pool
                = pool - (IF Execute(passes, c, bal).status = "passed" /\ c.kind = "spend"
                          THEN c.amount ELSE 0)
  <1> DEFINE h == Handler(c, bal)
             x == Execute(passes, c, bal)
  <1>1. SumFunction(bal) \in Nat
    BY ConstantFacts, SumNat, Zenon
  <1>2. CASE ~ (passes /\ h.ok)
    <2>1. /\ x.params = params /\ x.pool = pool /\ x.balance = bal
          /\ x.status \in {"failed", "rejected"}
      BY <1>2, Zenon DEF Execute
    <2> HIDE DEF x
    <2>2. x.pool = pool - 0
      BY <2>1
    <2> QED BY <2>1, <2>2, Zenon DEF x
  <1>3. CASE passes /\ h.ok /\ c.kind = "params"
    <2>1. h = handleParameterChangeProposal(c, bal)
      BY <1>3, Zenon DEF Handler
    <2>2. /\ x.params = Updated(c.set) /\ x.pool = pool /\ x.balance = bal
          /\ x.status = "passed" /\ validParams(Updated(c.set))
      BY <1>3, <2>1 DEF Execute, handleParameterChangeProposal
    <2>3. ParamsOK(Updated(c.set))
      <3>1. \A k \in DOMAIN c.set : c.set[k] \in Int
        BY <1>3, ContentsAssumption, Zenon
      <3>2. Updated(c.set) \in [Parameters -> Int]
        BY <3>1, Zenon DEF Updated, ParamsOK
      <3>3. Updated(c.set).depositPeriod \in Int /\ Updated(c.set).votingPeriod \in Int
        BY <3>2, Zenon DEF Parameters
      <3> QED BY <2>2, <3>2, <3>3 DEF ParamsOK, validParams
    <2> HIDE DEF x
    <2>4. x.pool = pool - 0
      BY <2>2
    <2> QED BY <1>3, <2>2, <2>3, <2>4, Zenon DEF x
  <1>4. CASE passes /\ h.ok /\ c.kind # "params"
    <2>1. h = DistributeFromFeePool(c, bal)
      BY <1>4, Zenon DEF Handler
    <2>2. c.kind = "spend" /\ c.amount \in Nat /\ c.to \in Accounts
      BY <1>4, ContentsAssumption, Zenon
    <2>3. /\ x.params = params /\ x.pool = pool - c.amount /\ c.amount <= pool
          /\ x.balance = [bal EXCEPT ![c.to] = bal[c.to] + c.amount]
          /\ x.status = "passed"
      <3>1. x = [status |-> "passed", params |-> h.params, pool |-> h.pool, balance |-> h.balance]
        BY <1>4, Zenon DEF Execute
      <3>2. /\ h.params = params /\ h.pool = pool - c.amount
            /\ h.balance = [bal EXCEPT ![c.to] = bal[c.to] + c.amount]
        BY <2>1 DEF DistributeFromFeePool
      <3>3. h.ok => c.amount <= pool
        <4>1. DistributeFromFeePool(c, bal).ok => c.amount <= pool
          BY <2>2, Zenon DEF DistributeFromFeePool
        <4> HIDE DEF h
        <4> QED BY <2>1, <4>1, Zenon
      <3> HIDE DEF h, x
      <3> QED BY <1>4, <3>1, <3>2, <3>3, Zenon
    <2> HIDE DEF x
    <2>4. x.balance \in [Accounts -> Nat] /\ x.pool \in Nat
      BY <2>2, <2>3
    <2>5. bal \in [Accounts -> Int] /\ bal[c.to] \in Nat /\ bal[c.to] + c.amount \in Int
      BY <2>2
    <2>6. SumFunction(x.balance) = SumFunction(bal) - bal[c.to] + (bal[c.to] + c.amount)
      <3> DEFINE v == bal[c.to] + c.amount
      <3>1. v \in Int /\ IsFiniteSet(Accounts)
        BY <2>5, ConstantFacts, Zenon
      <3> HIDE DEF v
      <3>2. SumFunction([bal EXCEPT ![c.to] = v]) = SumFunction(bal) - bal[c.to] + v
        BY <2>2, <2>5, <3>1, SumExcept, Zenon
      <3> QED BY <2>3, <3>2, Zenon DEF v
    <2>7. SumFunction(x.balance) + x.pool = SumFunction(bal) + pool
      BY <1>1, <2>2, <2>3, <2>5, <2>6
    <2> QED BY <2>2, <2>3, <2>4, <2>7, Zenon DEF x
  <1> QED BY <1>2, <1>3, <1>4, Zenon

-----------------------------------------------------------------------------
(* The types, the queues and what is kept of a proposal                    *)

LEMMA InitBase == Init => BaseInv
  <1> SUFFICES ASSUME Init PROVE BaseInv
    BY Zenon
  <1>1. ParamsOK(params)
    BY GovAssumption DEF Init, ParamsOK, Parameters
  <1>2. /\ proposals \in [IDs -> Proposal({NoTally})]
        /\ \A id \in IDs : proposals[id].status = "none"
    BY NoneFacts, Zenon DEF Init
  <1>3. /\ deposits \in [IDs -> [Accounts -> Nat]]
        /\ votes \in [IDs -> [Accounts -> Ballots \cup {NoBallot}]]
    BY NoneFacts, Zenon DEF Init
  <1>4. TypeOK
    BY <1>1, <1>2, <1>3, ConstantFacts, Zenon DEF Init, TypeOK
  <1>5. KeptInv
    BY <1>2, Zenon DEF Init, KeptInv
  <1>6. QueueInv
    BY <1>2, Zenon DEF Init, QueueInv, InactiveOf, ActiveOf
  <1> QED BY <1>4, <1>5, <1>6, Zenon DEF BaseInv

\* What AddDeposit may be called with: a new proposal, or one that is pending.
Submitted(id, p, queue) ==
    /\ proposals[id].status = "none" /\ p.status = "deposit" /\ p.total = 0
    /\ queue = inactiveQ \cup {<<p.depositEnd, id>>}
Open(id, p, queue) == Pending(id) /\ p = proposals[id] /\ queue = inactiveQ
CanDeposit(id, p, queue) == p.content \in Contents /\ (Submitted(id, p, queue) \/ Open(id, p, queue))

\* The proposal that a deposit leaves.
Funded(p, amount) ==
    IF p.status = "deposit" /\ p.total + amount >= params.minDeposit
    THEN [p EXCEPT !.total = p.total + amount, !.status = "voting",
                   !.votingEnd = time + params.votingPeriod]
    ELSE [p EXCEPT !.total = p.total + amount]

LEMMA FundedFacts ==
    ASSUME TypeOK, NEW T, NEW p \in Proposal(T), p.status \in {"deposit", "voting"},
           NEW amount \in Nat
    PROVE  /\ Funded(p, amount) \in Proposal(T)
           /\ Funded(p, amount).status \in {"deposit", "voting"}
           /\ Funded(p, amount).content = p.content
           /\ Funded(p, amount).total = p.total + amount
           /\ Funded(p, amount).depositEnd = p.depositEnd
           /\ IF p.status = "deposit" /\ p.total + amount >= params.minDeposit
              THEN /\ Funded(p, amount).status = "voting"
                   /\ Funded(p, amount).votingEnd = time + params.votingPeriod
              ELSE /\ Funded(p, amount).status = p.status
                   /\ Funded(p, amount).votingEnd = p.votingEnd
  <1> DEFINE n == p.total + amount
             v == time + params.votingPeriod
             a == [p EXCEPT !.total = n, !.status = "voting", !.votingEnd = v]
             b == [p EXCEPT !.total = n]
  <1>1. n \in Nat /\ v \in Nat
    BY DEF TypeOK, ParamsOK, Proposal
  <1> HIDE DEF n, v
  <1>2. /\ a \in Proposal(T) /\ a.status = "voting" /\ a.content = p.content /\ a.total = n
        /\ a.depositEnd = p.depositEnd /\ a.votingEnd = v
    BY <1>1, Zenon DEF Proposal, Statuses
  <1>3. /\ b \in Proposal(T) /\ b.status = p.status /\ b.content = p.content /\ b.total = n
        /\ b.depositEnd = p.depositEnd /\ b.votingEnd = p.votingEnd
    BY <1>1, Zenon DEF Proposal
  <1>4. CASE p.status = "deposit" /\ p.total + amount >= params.minDeposit
    <2>1. Funded(p, amount) = a
      BY <1>4, Zenon DEF Funded, n, v
    <2> HIDE DEF a
    <2> QED BY <1>2, <1>4, <2>1, Zenon DEF n, v
  <1>5. CASE ~ (p.status = "deposit" /\ p.total + amount >= params.minDeposit)
    <2>1. Funded(p, amount) = b
      BY <1>5, Zenon DEF Funded, n
    <2> HIDE DEF b
    <2> QED BY <1>3, <1>5, <2>1, Zenon DEF n
  <1> QED BY <1>4, <1>5, Zenon

\* The parts of a deposit.
LEMMA DepositStep ==
    ASSUME TypeOK, NEW T, proposals \in [IDs -> Proposal(T)],
           NEW id \in IDs, NEW p \in Proposal(T), NEW queue, NEW who \in Accounts,
           NEW amount \in Nat, CanDeposit(id, p, queue), Deposit(id, p, queue, who, amount)
    PROVE  /\ p.status \in {"deposit", "voting"}
           /\ proposals' = [proposals EXCEPT ![id] = Funded(p, amount)]
           /\ proposals' \in [IDs -> Proposal(T)]
           /\ balance' = [balance EXCEPT ![who] = balance[who] - amount]
           /\ balance' \in [Accounts -> Nat]
           /\ module' = module + amount
           /\ deposits' = [deposits EXCEPT ![id] =
                             [deposits[id] EXCEPT ![who] = deposits[id][who] + amount]]
           /\ deposits' \in [IDs -> [Accounts -> Nat]]
           /\ UNCHANGED <<time, phase, params, votes, pool, burned>>
  <1>1. p.status \in {"deposit", "voting"}
    BY Zenon DEF CanDeposit, Submitted, Open, Pending
  <1>2. proposals' = [proposals EXCEPT ![id] = Funded(p, amount)]
    BY Zenon DEF Deposit, Funded
  <1>3. proposals' \in [IDs -> Proposal(T)]
    BY <1>1, <1>2, FundedFacts, Zenon
  <1>4. /\ balance' = [balance EXCEPT ![who] = balance[who] - amount] /\ amount <= balance[who]
        /\ module' = module + amount
        /\ UNCHANGED <<time, phase, params, votes, pool, burned>>
    BY Zenon DEF Deposit
  <1>5. balance' \in [Accounts -> Nat]
    BY <1>4 DEF TypeOK
  <1>6. deposits' = [deposits EXCEPT ![id] =
                       [deposits[id] EXCEPT ![who] = deposits[id][who] + amount]]
    BY Zenon DEF Deposit, TypeOK
  <1>7. deposits' \in [IDs -> [Accounts -> Nat]]
    BY <1>6 DEF TypeOK
  <1> QED BY <1>1, <1>2, <1>3, <1>4, <1>5, <1>6, <1>7, Zenon

\* The entry of a proposal in the queues, and what entries look like.
LEMMA QueueEntries ==
    ASSUME NEW ps
    PROVE  /\ \A id \in IDs : \A t :
                <<t, id>> \in InactiveOf(ps) <=> ps[id].status = "deposit" /\ t = ps[id].depositEnd
           /\ \A id \in IDs : \A t :
                <<t, id>> \in ActiveOf(ps) <=> ps[id].status = "voting" /\ t = ps[id].votingEnd
           /\ \A e \in InactiveOf(ps) : e[2] \in IDs /\ ps[e[2]].status = "deposit"
           /\ \A e \in ActiveOf(ps) : e[2] \in IDs /\ ps[e[2]].status = "voting"
  BY DEF InactiveOf, ActiveOf

LEMMA DepositQueues ==
    ASSUME BaseInv, NEW T, proposals \in [IDs -> Proposal(T)],
           NEW id \in IDs, NEW p \in Proposal(T), NEW queue, NEW who \in Accounts,
           NEW amount \in Nat, CanDeposit(id, p, queue), Deposit(id, p, queue, who, amount)
    PROVE  QueueInv'
  <1> DEFINE r == Funded(p, amount)
             activates == p.status = "deposit" /\ p.total + amount >= params.minDeposit
             e == <<p.depositEnd, id>>
  <1>1. TypeOK /\ inactiveQ = InactiveOf(proposals) /\ activeQ = ActiveOf(proposals)
    BY Zenon DEF BaseInv, QueueInv
  <1>2. /\ p.status \in {"deposit", "voting"}
        /\ proposals' = [proposals EXCEPT ![id] = r]
    BY <1>1, DepositStep
  <1>3. /\ r.depositEnd = p.depositEnd
        /\ activates => r.status = "voting" /\ r.votingEnd = time + params.votingPeriod
        /\ ~activates => r.status = p.status /\ r.votingEnd = p.votingEnd
    BY <1>1, <1>2, FundedFacts
  <1>4. /\ inactiveQ' = IF activates THEN queue \ {e} ELSE queue
        /\ activeQ' = IF activates THEN activeQ \cup {<<time + params.votingPeriod, id>>} ELSE activeQ
    BY Zenon DEF Deposit
  <1> HIDE DEF r
  <1>5. proposals'[id] = r /\ \A i \in IDs : i # id => proposals'[i] = proposals[i]
    BY <1>2, Zenon
  <1>6. /\ InactiveOf(proposals') = (InactiveOf(proposals) \ {<<proposals[id].depositEnd, id>>})
                 \cup (IF r.status = "deposit" THEN {<<r.depositEnd, id>>} ELSE {})
        /\ ActiveOf(proposals') = (ActiveOf(proposals) \ {<<proposals[id].votingEnd, id>>})
                 \cup (IF r.status = "voting" THEN {<<r.votingEnd, id>>} ELSE {})
    <2> DEFINE qs == proposals'
    <2>1. \A i \in IDs : i # id => qs[i] = proposals[i]
      BY <1>5, Zenon
    <2> HIDE DEF qs
    <2>2. QueuesMove(proposals, qs, id)
      BY <2>1, QueuesExcept, Zenon
    <2> QED BY <1>5, <2>2, Zenon DEF QueuesMove, qs
  <1>7. activates => p.status = "deposit"
    BY Zenon
  <1> HIDE DEF activates
  <1>8. CASE Submitted(id, p, queue)
    <2>1. /\ proposals[id].status = "none" /\ p.status = "deposit"
          /\ queue = inactiveQ \cup {e}
      BY <1>8, Zenon DEF Submitted
    <2>2. \A t : <<t, id>> \notin inactiveQ /\ <<t, id>> \notin activeQ
      BY <1>1, <2>1, QueueEntries, Zenon
    <2>3. inactiveQ' = InactiveOf(proposals')
      BY <1>1, <1>3, <1>4, <1>6, <2>1, <2>2
    <2>4. activeQ' = ActiveOf(proposals')
      BY <1>1, <1>3, <1>4, <1>6, <2>1, <2>2
    <2> QED BY <2>3, <2>4, Zenon DEF QueueInv
  <1>9. CASE Open(id, p, queue)
    <2>1. p = proposals[id] /\ queue = inactiveQ
      BY <1>9, Zenon DEF Open
    <2>2. /\ p.status = "deposit" => e \in inactiveQ /\ <<p.votingEnd, id>> \notin activeQ
          /\ p.status = "voting" => e \notin inactiveQ /\ <<p.votingEnd, id>> \in activeQ
      BY <1>1, <2>1, QueueEntries, Zenon
    <2>3. inactiveQ' = InactiveOf(proposals')
      BY <1>1, <1>2, <1>3, <1>4, <1>6, <1>7, <2>1, <2>2, ZenonT(30)
    <2>4. activeQ' = ActiveOf(proposals')
      BY <1>1, <1>2, <1>3, <1>4, <1>6, <1>7, <2>1, <2>2, ZenonT(30)
    <2> QED BY <2>3, <2>4, Zenon DEF QueueInv
  <1> QED BY <1>8, <1>9, Zenon DEF CanDeposit

\* Nothing is kept of the proposals to come.
LEMMA DepositKept ==
    ASSUME BaseInv, NEW T, proposals \in [IDs -> Proposal(T)],
           NEW id \in IDs, NEW p \in Proposal(T), NEW queue, NEW who \in Accounts,
           NEW amount \in Nat, CanDeposit(id, p, queue), Deposit(id, p, queue, who, amount),
           nextID' \in Nat, nextID <= nextID', id < nextID'
    PROVE  KeptInv'
  <1> DEFINE r == Funded(p, amount)
  <1>1. TypeOK /\ KeptInv /\ p.content \in Contents /\ id \in Nat
    BY ConstantFacts, Zenon DEF BaseInv, CanDeposit
  <1>2. /\ p.status \in {"deposit", "voting"}
        /\ proposals' = [proposals EXCEPT ![id] = r]
        /\ deposits' = [deposits EXCEPT ![id] =
                          [deposits[id] EXCEPT ![who] = deposits[id][who] + amount]]
        /\ votes' = votes
    BY <1>1, DepositStep
  <1>3. /\ r.status \in {"deposit", "voting"} /\ r.content = p.content
        /\ p.status = "voting" => r.status = "voting"
    BY <1>1, <1>2, FundedFacts
  <1> HIDE DEF r
  <1>4. proposals'[id] = r /\ \A i \in IDs : i # id => proposals'[i] = proposals[i]
    BY <1>2, Zenon
  <1>5. \A i \in IDs : i # id => deposits'[i] = deposits[i]
    BY <1>1, <1>2, Zenon DEF TypeOK
  <1>6. ASSUME NEW i \in IDs
        PROVE  /\ proposals'[i].status # "none" => proposals'[i].content \in Contents
               /\ i >= nextID' => proposals'[i].status = "none"
               /\ ~(proposals'[i].status \in {"deposit", "voting"}) => deposits'[i] = NoDeposits
               /\ proposals'[i].status # "voting" => votes'[i] = NoVotes
    <2>1. CASE i = id
      <3>1. ~ (id >= nextID')
        BY <1>1
      <3>2. proposals[id].status = "voting" => p.status = "voting"
        BY Zenon DEF CanDeposit, Submitted, Open
      <3>3. r.status # "voting" => votes[id] = NoVotes
        BY <1>1, <1>3, <3>2, Zenon DEF KeptInv
      <3> QED BY <1>1, <1>2, <1>3, <1>4, <2>1, <3>1, <3>3, Zenon
    <2>2. CASE i # id
      <3>1. i \in Nat /\ (i >= nextID' => i >= nextID)
        <4>1. nextID \in Nat
          BY Zenon DEF BaseInv, TypeOK
        <4>2. i \in Nat
          BY ConstantFacts, Zenon
        <4> QED BY <4>1, <4>2
      <3> QED BY <1>1, <1>2, <1>4, <1>5, <2>2, <3>1 DEF KeptInv, Pending
    <2> QED BY <2>1, <2>2, Zenon
  <1> QED BY <1>6, Zenon DEF KeptInv, Pending

LEMMA DepositBase ==
    ASSUME BaseInv, NEW T, proposals \in [IDs -> Proposal(T)],
           NEW id \in IDs, NEW p \in Proposal(T), NEW queue, NEW who \in Accounts,
           NEW amount \in Nat, CanDeposit(id, p, queue), Deposit(id, p, queue, who, amount),
           nextID' \in Nat, nextID <= nextID', id < nextID'
    PROVE  BaseInv'
  <1>1. TypeOK'
    <2>1. TypeOK
      BY Zenon DEF BaseInv
    <2>2. /\ proposals' \in [IDs -> Proposal(T)] /\ deposits' \in [IDs -> [Accounts -> Nat]]
          /\ balance' \in [Accounts -> Nat] /\ module' = module + amount
          /\ UNCHANGED <<time, phase, params, votes, pool, burned>>
      BY <2>1, DepositStep
    <2>3. module' \in Nat
      BY <2>1, <2>2 DEF TypeOK
    <2> QED BY <2>1, <2>2, <2>3, Zenon DEF TypeOK
  <1> QED BY <1>1, DepositQueues, DepositKept, Zenon DEF BaseInv

LEMMA ProposalGrows == ASSUME NEW T, NEW U, T \subseteq U PROVE Proposal(T) \subseteq Proposal(U)
  BY Zenon DEF Proposal

\* Both messages that deposit are deposits on a proposal that can take one.
LEMMA SubmitFacts ==
    ASSUME BaseInv, NEW c \in Contents, NEW who \in Accounts, NEW amount \in Amounts,
           SubmitProposal(c, who, amount)
    PROVE  \E T, p, queue :
             /\ proposals \in [IDs -> Proposal(T)] /\ p \in Proposal(T) /\ nextID \in IDs
             /\ CanDeposit(nextID, p, queue) /\ Submitted(nextID, p, queue)
             /\ Deposit(nextID, p, queue, who, amount)
             /\ nextID' = nextID + 1
  <1> DEFINE d == time + params.depositPeriod
             p == [status |-> "deposit", content |-> c, total |-> 0, depositEnd |-> d,
                   votingEnd |-> 0, tally |-> NoTally]
             queue == inactiveQ \cup {<<d, nextID>>}
  <1>1. PICK S : proposals \in [IDs -> Proposal(S)]
    BY Zenon DEF BaseInv, TypeOK
  <1> DEFINE T == S \cup {NoTally}
  <1>2. Proposal(S) \subseteq Proposal(T)
    BY ProposalGrows, Zenon
  <1>3. proposals \in [IDs -> Proposal(T)]
    BY <1>1, <1>2, Zenon
  <1>4. d \in Nat
    BY DEF BaseInv, TypeOK, ParamsOK
  <1> HIDE DEF d
  <1>5. p \in Proposal(T)
    BY <1>4, Zenon DEF Proposal, Statuses
  <1>6. nextID \in IDs /\ nextID' = nextID + 1 /\ Deposit(nextID, p, queue, who, amount)
    BY Zenon DEF SubmitProposal, d
  <1>7. proposals[nextID].status = "none"
    <2>1. nextID \in Nat
      BY Zenon DEF BaseInv, TypeOK
    <2>2. nextID >= nextID
      BY <2>1
    <2> QED BY <1>6, <2>2, Zenon DEF BaseInv, KeptInv
  <1>8. /\ p.status = "deposit" /\ p.total = 0 /\ p.content = c /\ p.depositEnd = d
    BY Zenon
  <1>9. Submitted(nextID, p, queue) /\ CanDeposit(nextID, p, queue)
    BY <1>7, <1>8, Zenon DEF CanDeposit, Submitted
  <1> HIDE DEF T, p, queue
  <1> QED BY <1>3, <1>5, <1>6, <1>9, Zenon

LEMMA AddDepositFacts ==
    ASSUME BaseInv, NEW id \in IDs, NEW who \in Accounts, NEW amount \in Amounts,
           AddDeposit(id, who, amount)
    PROVE  \E T :
             /\ proposals \in [IDs -> Proposal(T)] /\ proposals[id] \in Proposal(T)
             /\ CanDeposit(id, proposals[id], inactiveQ) /\ Open(id, proposals[id], inactiveQ)
             /\ Deposit(id, proposals[id], inactiveQ, who, amount)
             /\ nextID' = nextID /\ id < nextID
  <1>1. PICK T : proposals \in [IDs -> Proposal(T)]
    BY Zenon DEF BaseInv, TypeOK
  <1>2. /\ Pending(id) /\ nextID' = nextID
        /\ Deposit(id, proposals[id], inactiveQ, who, amount)
    BY Zenon DEF AddDeposit
  <1>3. proposals[id].status # "none"
    BY <1>2, Zenon DEF Pending
  <1>4. proposals[id].content \in Contents /\ ~ (id >= nextID)
    BY <1>3, Zenon DEF BaseInv, KeptInv
  <1>5. id \in Nat /\ nextID \in Nat
    BY ConstantFacts, Zenon DEF BaseInv, TypeOK
  <1>6. id < nextID
    BY <1>4, <1>5
  <1> QED BY <1>1, <1>2, <1>4, <1>6, Zenon DEF CanDeposit, Open

LEMMA SubmitBase ==
    ASSUME BaseInv, NEW c \in Contents, NEW who \in Accounts, NEW amount \in Amounts,
           SubmitProposal(c, who, amount)
    PROVE  BaseInv'
  <1>1. PICK T, p, queue :
             /\ proposals \in [IDs -> Proposal(T)] /\ p \in Proposal(T) /\ nextID \in IDs
             /\ CanDeposit(nextID, p, queue)
             /\ Deposit(nextID, p, queue, who, amount)
             /\ nextID' = nextID + 1
    BY SubmitFacts, Zenon
  <1>2. nextID \in Nat /\ amount \in Nat
    BY ConstantFacts, Zenon DEF BaseInv, TypeOK
  <1>3. nextID' \in Nat /\ nextID <= nextID' /\ nextID < nextID'
    BY <1>1, <1>2
  <1> QED BY <1>1, <1>2, <1>3, DepositBase, Zenon

LEMMA AddDepositBase ==
    ASSUME BaseInv, NEW id \in IDs, NEW who \in Accounts, NEW amount \in Amounts,
           AddDeposit(id, who, amount)
    PROVE  BaseInv'
  <1>1. PICK T :
             /\ proposals \in [IDs -> Proposal(T)] /\ proposals[id] \in Proposal(T)
             /\ CanDeposit(id, proposals[id], inactiveQ)
             /\ Deposit(id, proposals[id], inactiveQ, who, amount)
             /\ nextID' = nextID /\ id < nextID
    BY AddDepositFacts, Zenon
  <1>2. nextID \in Nat /\ amount \in Nat
    BY ConstantFacts, Zenon DEF BaseInv, TypeOK
  <1>3. nextID' \in Nat /\ nextID <= nextID' /\ id < nextID'
    BY <1>1, <1>2
  <1> QED BY <1>1, <1>2, <1>3, DepositBase, Zenon

LEMMA AddVoteBase ==
    ASSUME BaseInv, NEW id \in IDs, NEW who \in Accounts, NEW ballot \in Ballots,
           AddVote(id, who, ballot)
    PROVE  BaseInv'
  <1>1. /\ proposals[id].status = "voting" /\ votes' = [votes EXCEPT ![id][who] = ballot]
        /\ UNCHANGED <<time, phase, params, proposals, nextID, deposits, inactiveQ, activeQ, balance,
                       module, pool, burned>>
    BY Zenon DEF AddVote, coins
  <1>2. /\ votes' \in [IDs -> [Accounts -> Ballots \cup {NoBallot}]]
        /\ \A i \in IDs : i # id => votes'[i] = votes[i]
    BY <1>1, Zenon DEF BaseInv, TypeOK
  <1>3. TypeOK'
    BY <1>1, <1>2, Zenon DEF BaseInv, TypeOK
  <1>4. KeptInv'
    BY <1>1, <1>2, Zenon DEF BaseInv, KeptInv, Pending
  <1>5. QueueInv'
    BY <1>1, Zenon DEF BaseInv, QueueInv
  <1> QED BY <1>3, <1>4, <1>5, Zenon DEF BaseInv

\* The actions that leave proposals, deposits, votes, queues and coins alone.
LEMMA QuietBase ==
    ASSUME BaseInv, time' \in Nat, phase' \in {"txs", "inactive", "active", "panic"},
           UNCHANGED <<store, coins>>
    PROVE  BaseInv'
  <1>1. UNCHANGED <<params, proposals, nextID, deposits, votes, inactiveQ, activeQ, balance, module,
                    pool, burned>>
    BY Zenon DEF store, coins
  <1>2. TypeOK'
    BY <1>1, Zenon DEF BaseInv, TypeOK
  <1>3. KeptInv'
    BY <1>1, Zenon DEF BaseInv, KeptInv, Pending
  <1>4. QueueInv'
    BY <1>1, Zenon DEF BaseInv, QueueInv
  <1> QED BY <1>2, <1>3, <1>4, Zenon DEF BaseInv

\* The proposals the EndBlocker takes from the queues are there, in the status
\* the queue is for.
LEMMA QueueTypes ==
    ASSUME BaseInv
    PROVE  inactiveQ \subseteq Nat \X IDs /\ activeQ \subseteq Nat \X IDs
  <1>1. PICK T : proposals \in [IDs -> Proposal(T)]
    BY Zenon DEF BaseInv, TypeOK
  <1>2. \A id \in IDs : proposals[id].depositEnd \in Nat /\ proposals[id].votingEnd \in Nat
    BY <1>1, Zenon DEF Proposal
  <1> QED BY <1>2 DEF BaseInv, QueueInv, InactiveOf, ActiveOf

LEMMA FirstInactive ==
    ASSUME BaseInv, Due(inactiveQ) # {}
    PROVE  /\ FirstDue(inactiveQ)[2] \in IDs
           /\ proposals[FirstDue(inactiveQ)[2]].status = "deposit"
  <1>1. FirstDue(inactiveQ) \in inactiveQ
    BY QueueTypes, FirstDueFacts, Zenon
  <1>2. FirstDue(inactiveQ) \in InactiveOf(proposals)
    BY <1>1, Zenon DEF BaseInv, QueueInv
  <1> QED BY <1>2, QueueEntries, Zenon

LEMMA FirstActive ==
    ASSUME BaseInv, Due(activeQ) # {}
    PROVE  /\ FirstDue(activeQ)[2] \in IDs
           /\ proposals[FirstDue(activeQ)[2]].status = "voting"
  <1>1. FirstDue(activeQ) \in activeQ
    BY QueueTypes, FirstDueFacts, Zenon
  <1>2. FirstDue(activeQ) \in ActiveOf(proposals)
    BY <1>1, Zenon DEF BaseInv, QueueInv
  <1> QED BY <1>2, QueueEntries, Zenon

\* The EndBlocker is done with proposal id, which becomes r: its deposits and
\* votes are gone, and so are its entries in the queues.
Decides(id, r) ==
    /\ r.status \notin {"deposit", "voting"}
    /\ r.status # "none" => r.content = proposals[id].content
    /\ \E T : proposals' = [proposals EXCEPT ![id] = r] /\ proposals' \in [IDs -> Proposal(T)]
    /\ deposits' = [deposits EXCEPT ![id] = NoDeposits]
    /\ votes' \in [IDs -> [Accounts -> Ballots \cup {NoBallot}]]
    /\ votes'[id] = NoVotes /\ \A i \in IDs : i # id => votes'[i] = votes[i]
    /\ inactiveQ' = inactiveQ \ {<<proposals[id].depositEnd, id>>}
    /\ activeQ' = activeQ \ {<<proposals[id].votingEnd, id>>}
    /\ UNCHANGED <<time, phase, nextID>> /\ ParamsOK(params')
    /\ balance' \in [Accounts -> Nat] /\ module' \in Nat /\ pool' \in Nat /\ burned' \in Nat

LEMMA DecidedBase ==
    ASSUME BaseInv, NEW id \in IDs, Pending(id), NEW r, Decides(id, r)
    PROVE  BaseInv'
  <1>1. PICK S : proposals \in [IDs -> Proposal(S)]
    BY Zenon DEF BaseInv, TypeOK
  <1>2. PICK T : proposals' = [proposals EXCEPT ![id] = r] /\ proposals' \in [IDs -> Proposal(T)]
    BY Zenon DEF Decides
  <1>3. proposals'[id] = r /\ \A i \in IDs : i # id => proposals'[i] = proposals[i]
    BY <1>1, <1>2, Zenon
  <1>4. deposits \in [IDs -> [Accounts -> Nat]]
    BY Zenon DEF BaseInv, TypeOK
  <1>5. /\ deposits' \in [IDs -> [Accounts -> Nat]] /\ deposits'[id] = NoDeposits
        /\ \A i \in IDs : i # id => deposits'[i] = deposits[i]
    BY <1>4, NoneFacts, Zenon DEF Decides
  <1>6. TypeOK'
    BY <1>2, <1>5, Zenon DEF BaseInv, TypeOK, Decides
  <1>7. KeptInv'
    <2>1. proposals[id].content \in Contents /\ ~ (id >= nextID)
      BY Zenon DEF BaseInv, KeptInv, Pending
    <2>2. ASSUME NEW i \in IDs
          PROVE  /\ proposals'[i].status # "none" => proposals'[i].content \in Contents
                 /\ i >= nextID' => proposals'[i].status = "none"
                 /\ ~(proposals'[i].status \in {"deposit", "voting"}) => deposits'[i] = NoDeposits
                 /\ proposals'[i].status # "voting" => votes'[i] = NoVotes
      <3>1. CASE i = id
        BY <1>3, <1>5, <2>1, <3>1, ZenonT(30) DEF Decides
      <3>2. CASE i # id
        BY <1>3, <1>5, <3>2 DEF BaseInv, KeptInv, Pending, Decides
      <3> QED BY <3>1, <3>2, Zenon
    <2> QED BY <2>2, Zenon DEF KeptInv, Pending
  <1>8. QueueInv'
    <2> DEFINE qs == proposals'
    <2>1. \A i \in IDs : i # id => qs[i] = proposals[i]
      BY <1>3, Zenon
    <2>2. qs[id] = r
      BY <1>3, Zenon
    <2> HIDE DEF qs
    <2>3. QueuesMove(proposals, qs, id)
      BY <2>1, QueuesExcept, Zenon
    <2>4. /\ InactiveOf(qs) = InactiveOf(proposals) \ {<<proposals[id].depositEnd, id>>}
          /\ ActiveOf(qs) = ActiveOf(proposals) \ {<<proposals[id].votingEnd, id>>}
      BY <2>2, <2>3, Zenon DEF Decides, QueuesMove
    <2> QED BY <2>4, ZenonT(30) DEF BaseInv, QueueInv, Decides, qs
  <1> QED BY <1>6, <1>7, <1>8, Zenon DEF BaseInv

\* DropInactive panics, or takes the first proposal that is due away.
LEMMA DropFacts ==
    ASSUME BaseInv, DropInactive
    PROVE  \E id \in IDs :
             /\ proposals[id].status = "deposit" /\ UNCHANGED time
             /\ \/ Held(id) > module /\ phase' = "panic" /\ UNCHANGED <<store, coins>>
                \/ /\ ~(Held(id) > module) /\ Decides(id, NoProposal)
                   /\ deposits' = [deposits EXCEPT ![id] = NoDeposits]
                   /\ module' = module - Held(id) /\ burned' = burned + Held(id)
                   /\ UNCHANGED <<phase, params, balance, pool>>
  <1> DEFINE id == FirstDue(inactiveQ)[2]
  <1>1. id \in IDs /\ proposals[id].status = "deposit" /\ proposals[id] # NoProposal
    BY FirstInactive, NoneFacts, Zenon DEF DropInactive
  <1>2. time' = time
    BY Zenon DEF DropInactive
  <1>3. CASE Held(id) > module
    BY <1>1, <1>2, <1>3, Zenon DEF DropInactive
  <1>4. CASE ~(Held(id) > module)
    <2>1. /\ proposals' = [proposals EXCEPT ![id] = NoProposal]
          /\ inactiveQ' = inactiveQ \ {<<proposals[id].depositEnd, id>>}
          /\ activeQ' = activeQ \ {<<proposals[id].votingEnd, id>>}
          /\ deposits' = [deposits EXCEPT ![id] = NoDeposits]
          /\ module' = module - Held(id) /\ burned' = burned + Held(id)
          /\ UNCHANGED <<phase, params, nextID, votes, balance, pool>>
      BY <1>1, <1>4, Zenon DEF DropInactive
    <2> HIDE DEF id
    <2>2. PICK S : proposals \in [IDs -> Proposal(S)]
      BY Zenon DEF BaseInv, TypeOK
    <2>3. proposals' \in [IDs -> Proposal(S \cup {NoTally})]
      <3>1. Proposal(S) \subseteq Proposal(S \cup {NoTally})
        BY ProposalGrows, Zenon
      <3>2. Proposal({NoTally}) \subseteq Proposal(S \cup {NoTally})
        BY ProposalGrows, Zenon
      <3> QED BY <2>1, <2>2, <3>1, <3>2, NoneFacts, ZenonT(30)
    <2>4. Held(id) \in Nat /\ module \in Nat /\ burned \in Nat
      BY <1>1, ConstantFacts, SumNat, Zenon DEF Held, BaseInv, TypeOK
    <2>5. module' \in Nat /\ burned' \in Nat
      BY <1>4, <2>1, <2>4
    <2>6. votes[id] = NoVotes /\ votes \in [IDs -> [Accounts -> Ballots \cup {NoBallot}]]
      BY <1>1, Zenon DEF BaseInv, KeptInv, TypeOK
    <2>7. Decides(id, NoProposal)
      BY <1>2, <2>1, <2>3, <2>5, <2>6, NoneFacts, Zenon DEF Decides, BaseInv, TypeOK
    <2> QED BY <1>1, <1>2, <1>4, <2>1, <2>7, ZenonT(30)
  <1> QED BY <1>3, <1>4, Zenon

LEMMA DropInactiveBase == ASSUME BaseInv, DropInactive PROVE BaseInv'
  <1>1. PICK id \in IDs :
             /\ proposals[id].status = "deposit" /\ UNCHANGED time
             /\ \/ phase' = "panic" /\ UNCHANGED <<store, coins>>
                \/ Decides(id, NoProposal)
    BY DropFacts, Zenon
  <1>2. CASE phase' = "panic" /\ UNCHANGED <<store, coins>>
    <2>1. time' \in Nat
      BY <1>1, Zenon DEF BaseInv, TypeOK
    <2> QED BY <1>2, <2>1, QuietBase, Zenon
  <1>3. CASE Decides(id, NoProposal)
    BY <1>1, <1>3, DecidedBase, Zenon DEF Pending
  <1> QED BY <1>1, <1>2, <1>3, Zenon

LEMMA TallyFacts == ASSUME NEW id PROVE Tally(id).passes \in BOOLEAN /\ Tally(id).burns \in BOOLEAN
  BY Zenon DEF Tally

\* The deposits given back, and the proposal that a tally leaves.
Refunded(id, burns) ==
    [a \in Accounts |-> balance[a] + (IF burns THEN 0 ELSE deposits[id][a])]
Tallied(id, status) == [proposals[id] EXCEPT !.status = status, !.tally = FinalTally(id)]

LEMMA RefundedFacts ==
    ASSUME BaseInv, NEW id \in IDs, NEW burns \in BOOLEAN
    PROVE  /\ Refunded(id, burns) \in [Accounts -> Nat] /\ Held(id) \in Nat
           /\ SumFunction(Refunded(id, burns))
                = SumFunction(balance) + (IF burns THEN 0 ELSE Held(id))
  <1> DEFINE d == [a \in Accounts |-> IF burns THEN 0 ELSE deposits[id][a]]
  <1>1. balance \in [Accounts -> Nat] /\ deposits[id] \in [Accounts -> Nat]
    BY Zenon DEF BaseInv, TypeOK
  <1>2. d \in [Accounts -> Nat] /\ Refunded(id, burns) = [a \in Accounts |-> balance[a] + d[a]]
    BY <1>1, Zenon DEF Refunded
  <1>3. SumFunction(d) = IF burns THEN 0 ELSE Held(id)
    <2>1. CASE burns
      <3>1. d = [a \in Accounts |-> 0]
        BY <2>1, Zenon
      <3> QED BY <2>1, <3>1, ConstantFacts, SumZero, Zenon
    <2>2. CASE ~burns
      <3>1. d = deposits[id]
        BY <1>1, <2>2, Zenon
      <3> QED BY <2>2, <3>1, Zenon DEF Held
    <2> QED BY <2>1, <2>2, Zenon
  <1> HIDE DEF d
  <1>4. balance \in [Accounts -> Int] /\ d \in [Accounts -> Int] /\ IsFiniteSet(Accounts)
    BY <1>1, <1>2, ConstantFacts
  <1>5. SumFunction([a \in Accounts |-> balance[a] + d[a]]) = SumFunction(balance) + SumFunction(d)
    BY <1>4, SumAdd, Zenon
  <1>6. Refunded(id, burns) \in [Accounts -> Nat]
    BY <1>1, <1>2
  <1>7. Held(id) \in Nat
    BY <1>1, ConstantFacts, SumNat, Zenon DEF Held
  <1>8. SumFunction(Refunded(id, burns)) = SumFunction(balance) + (IF burns THEN 0 ELSE Held(id))
    BY <1>2, <1>3, <1>5, Zenon
  <1> QED BY <1>6, <1>7, <1>8, Zenon

\* TallyActive panics, or decides the first proposal that is due.
TallyEnds(id, burns, done) ==
    /\ proposals[id].status = "voting" /\ proposals[id].content \in Contents
    /\ UNCHANGED time
    /\ \/ Held(id) > module /\ phase' = "panic" /\ UNCHANGED <<store, coins>>
       \/ /\ ~(Held(id) > module) /\ Decides(id, Tallied(id, done.status))
          /\ Tallied(id, done.status).status = done.status
          /\ Tallied(id, done.status).content = proposals[id].content
          /\ deposits' = [deposits EXCEPT ![id] = NoDeposits]
          /\ module' = module - Held(id)
          /\ burned' = burned + (IF burns THEN Held(id) ELSE 0)
          /\ balance' = done.balance /\ pool' = done.pool
          /\ UNCHANGED phase

LEMMA TallyActiveFacts ==
    ASSUME BaseInv, TallyActive
    PROVE  \E id \in IDs, passes \in BOOLEAN, burns \in BOOLEAN :
             TallyEnds(id, burns, Execute(passes, proposals[id].content, Refunded(id, burns)))
  <1> DEFINE id == FirstDue(activeQ)[2]
             passes == Tally(id).passes
             burns == Tally(id).burns
             done == Execute(passes, proposals[id].content, Refunded(id, burns))
             r == Tallied(id, done.status)
  <1>1. id \in IDs /\ proposals[id].status = "voting" /\ proposals[id] # NoProposal
    BY FirstActive, NoneFacts, Zenon DEF TallyActive
  <1>2. passes \in BOOLEAN /\ burns \in BOOLEAN
    BY TallyFacts, Zenon
  <1>3. time' = time
    BY Zenon DEF TallyActive
  <1>4. proposals[id].content \in Contents
    BY <1>1, Zenon DEF BaseInv, KeptInv
  <1>5. CASE Held(id) > module
    <2>1. phase' = "panic" /\ UNCHANGED <<store, coins>>
      BY <1>1, <1>5, Zenon DEF TallyActive
    <2>2. TallyEnds(id, burns, done)
      BY <1>1, <1>3, <1>4, <1>5, <2>1, Zenon DEF TallyEnds
    <2> HIDE DEF id, passes, burns
    <2> QED BY <1>1, <1>2, <2>2, Zenon DEF done
  <1>6. CASE ~(Held(id) > module)
    <2>1. /\ proposals' = [proposals EXCEPT ![id].status = done.status,
                                            ![id].tally = FinalTally(id)]
          /\ activeQ' = activeQ \ {<<proposals[id].votingEnd, id>>}
          /\ votes' = [votes EXCEPT ![id] = NoVotes]
          /\ deposits' = [deposits EXCEPT ![id] = NoDeposits]
          /\ module' = module - Held(id)
          /\ burned' = burned + (IF burns THEN Held(id) ELSE 0)
          /\ balance' = done.balance /\ params' = done.params /\ pool' = done.pool
          /\ UNCHANGED <<phase, nextID, inactiveQ>>
      BY <1>1, <1>6, Zenon DEF TallyActive, Refunded
    <2> HIDE DEF id, passes, burns
    <2>2. Refunded(id, burns) \in [Accounts -> Nat] /\ Held(id) \in Nat
      BY <1>1, <1>2, RefundedFacts, Zenon
    <2>3. /\ ParamsOK(done.params) /\ done.status \in {"passed", "failed", "rejected"}
          /\ done.balance \in [Accounts -> Nat] /\ done.pool \in Nat
      BY <1>2, <1>4, <2>2, ExecuteFacts, Zenon DEF BaseInv, TypeOK
    <2> HIDE DEF done
    <2>4. PICK S : proposals \in [IDs -> Proposal(S)]
      BY Zenon DEF BaseInv, TypeOK
    <2> DEFINE T == S \cup {FinalTally(id)}
    <2>5. proposals \in [IDs -> Proposal(T)]
      <3>1. Proposal(S) \subseteq Proposal(T)
        BY ProposalGrows, Zenon
      <3> QED BY <2>4, <3>1, Zenon
    <2>6. proposals' = [proposals EXCEPT ![id] = r]
      BY <1>1, <2>1, <2>5, Zenon DEF Tallied
    <2>7. FinalTally(id) \in T
      BY Zenon
    <2> HIDE DEF T
    <2>8. /\ r \in Proposal(T) /\ r.status = done.status
          /\ r.content = proposals[id].content
      <3> DEFINE y == FinalTally(id)
                 p == proposals[id]
      <3>1. p \in Proposal(T) /\ y \in T
        BY <1>1, <2>5, <2>7, Zenon
      <3> HIDE DEF y, p
      <3>2. /\ [p EXCEPT !.status = done.status, !.tally = y] \in Proposal(T)
            /\ [p EXCEPT !.status = done.status, !.tally = y].status = done.status
            /\ [p EXCEPT !.status = done.status, !.tally = y].content = p.content
        BY <2>3, <3>1, Zenon DEF Proposal, Statuses
      <3> QED BY <3>2, Zenon DEF Tallied, y, p
    <2> HIDE DEF r
    <2>9. proposals' \in [IDs -> Proposal(T)]
      BY <2>5, <2>6, <2>8, ZenonT(30)
    <2>10. module \in Nat /\ burned \in Nat
      BY Zenon DEF BaseInv, TypeOK
    <2>11. module' \in Nat /\ burned' \in Nat
      BY <1>6, <2>1, <2>2, <2>10
    <2>12. inactiveQ' = inactiveQ \ {<<proposals[id].depositEnd, id>>}
      <3>1. <<proposals[id].depositEnd, id>> \notin InactiveOf(proposals)
        BY <1>1, QueueEntries, Zenon
      <3> QED BY <2>1, <3>1, Zenon DEF BaseInv, QueueInv
    <2>13. /\ votes' \in [IDs -> [Accounts -> Ballots \cup {NoBallot}]]
           /\ votes'[id] = NoVotes /\ \A i \in IDs : i # id => votes'[i] = votes[i]
      BY <1>1, <2>1, NoneFacts, Zenon DEF BaseInv, TypeOK
    <2>14. Decides(id, r)
      BY <1>3, <2>1, <2>3, <2>6, <2>8, <2>9, <2>11, <2>12, <2>13, ZenonT(30) DEF Decides
    <2>15. TallyEnds(id, burns, done)
      BY <1>1, <1>3, <1>4, <1>6, <2>1, <2>8, <2>14, Zenon DEF TallyEnds, r
    <2> QED BY <1>1, <1>2, <2>15, Zenon DEF done
  <1> QED BY <1>5, <1>6, Zenon

LEMMA TallyActiveBase == ASSUME BaseInv, TallyActive PROVE BaseInv'
  <1>1. PICK id \in IDs :
             /\ proposals[id].status = "voting" /\ UNCHANGED time
             /\ \/ phase' = "panic" /\ UNCHANGED <<store, coins>>
                \/ \E r : Decides(id, r)
    <2>1. PICK id \in IDs, passes \in BOOLEAN, burns \in BOOLEAN :
             TallyEnds(id, burns, Execute(passes, proposals[id].content, Refunded(id, burns)))
      BY TallyActiveFacts, Zenon
    <2> QED BY <2>1, Zenon DEF TallyEnds
  <1>2. CASE phase' = "panic" /\ UNCHANGED <<store, coins>>
    <2>1. time' \in Nat
      BY <1>1, Zenon DEF BaseInv, TypeOK
    <2> QED BY <1>2, <2>1, QuietBase, Zenon
  <1>3. CASE \E r : Decides(id, r)
    BY <1>1, <1>3, DecidedBase, Zenon DEF Pending
  <1> QED BY <1>1, <1>2, <1>3, Zenon

\* An export and an import restore the very deposits, votes and queues.
LEMMA ExportImportFacts ==
    ASSUME BaseInv, ExportImport
    PROVE  /\ UNCHANGED <<time, store, coins>>
           /\ phase' = IF module = Total(deposits) THEN phase ELSE "panic"
  <1> DEFINE exported == {id \in IDs : proposals[id] # NoProposal}
             In(status) == {id \in exported : proposals[id].status = status}
  <1>1. /\ deposits' = [id \in IDs |-> IF id \in exported THEN deposits[id] ELSE NoDeposits]
        /\ votes' = [id \in IDs |-> IF id \in exported THEN votes[id] ELSE NoVotes]
        /\ inactiveQ' = {<<proposals[id].depositEnd, id>> : id \in In("deposit")}
        /\ activeQ' = {<<proposals[id].votingEnd, id>> : id \in In("voting")}
        /\ phase' = IF module = Total(deposits') THEN phase ELSE "panic"
        /\ UNCHANGED <<time, params, proposals, nextID, coins>>
    BY Zenon DEF ExportImport
  <1>2. /\ deposits \in [IDs -> [Accounts -> Nat]]
        /\ votes \in [IDs -> [Accounts -> Ballots \cup {NoBallot}]]
    BY Zenon DEF BaseInv, TypeOK
  <1>3. \A id \in IDs : id \notin exported => proposals[id].status = "none"
    BY NoneFacts, Zenon
  <1>4. \A id \in IDs : id \notin exported => deposits[id] = NoDeposits /\ votes[id] = NoVotes
    BY <1>3, Zenon DEF BaseInv, KeptInv, Pending
  <1>5. deposits' = deposits
    BY <1>1, <1>2, <1>4, ZenonT(30)
  <1>6. votes' = votes
    BY <1>1, <1>2, <1>4, Zenon
  <1>7. /\ In("deposit") = {i \in IDs : proposals[i].status = "deposit"}
        /\ In("voting") = {i \in IDs : proposals[i].status = "voting"}
    BY NoneFacts, Zenon
  <1>8. inactiveQ' = inactiveQ /\ activeQ' = activeQ
    BY <1>1, <1>7, Zenon DEF BaseInv, QueueInv, InactiveOf, ActiveOf
  <1> QED BY <1>1, <1>5, <1>6, <1>8, Zenon DEF store

LEMMA ExportImportBase == ASSUME BaseInv, ExportImport PROVE BaseInv'
  <1>1. time' \in Nat /\ phase' \in {"txs", "inactive", "active", "panic"}
    BY ExportImportFacts, Zenon DEF BaseInv, TypeOK
  <1> QED BY <1>1, ExportImportFacts, QuietBase, Zenon

\* The actions that change the time, the phase or the stake only.
Passing ==
    \/ StakeChanges \/ EndBlocker \/ InactiveDone \/ NextBlock \/ UNCHANGED vars

LEMMA PassingFacts ==
    ASSUME BaseInv, Passing
    PROVE  /\ time' \in Nat /\ UNCHANGED <<store, coins>>
           /\ phase' = phase \/ phase' \in {"txs", "inactive", "active"}
  <1>1. time \in Nat
    BY Zenon DEF BaseInv, TypeOK
  <1>2. CASE NextBlock
    <2>1. PICK n \in 1 .. MaxStep : time' = time + n
      BY <1>2, Zenon DEF NextBlock
    <2>2. time' \in Nat
      BY <1>1, <2>1
    <2> QED BY <1>2, <2>2, Zenon DEF NextBlock
  <1>3. CASE ~NextBlock
    BY <1>1, <1>3, Zenon DEF Passing, StakeChanges, EndBlocker, InactiveDone, vars
  <1> QED BY <1>2, <1>3, Zenon

LEMMA NextBase == ASSUME BaseInv, [Next]_vars PROVE BaseInv'
  <1>1. ASSUME Passing PROVE BaseInv'
    <2>1. phase' \in {"txs", "inactive", "active", "panic"}
      BY <1>1, PassingFacts, Zenon DEF BaseInv, TypeOK
    <2> QED BY <1>1, <2>1, PassingFacts, QuietBase
  <1> QED BY <1>1, SubmitBase, AddDepositBase, AddVoteBase, DropInactiveBase, TallyActiveBase,
             ExportImportBase
      DEF Next, AtBound, Passing

LEMMA BaseInvariance == Spec => []BaseInv
  BY InitBase, NextBase, PTL DEF Spec

\* The queues hold the pending proposals and nothing else, each once and under
\* its own end time, through deposits, decisions, changes of the periods and
\* exports, and votes are kept only while a proposal is voted on.
THEOREM QueuesAreExact == Spec => []QueuesExact
  <1>1. BaseInv => QueuesExact
    <2> SUFFICES ASSUME BaseInv PROVE QueuesExact
      BY Zenon
    <2>1. \A id \in IDs : Voters(id) # {} => proposals[id].status = "voting"
      BY NoneFacts, Zenon DEF BaseInv, KeptInv, Voters
    <2> QED BY <2>1, Zenon DEF BaseInv, QueueInv, InactiveOf, ActiveOf, QueuesExact
  <1> QED BY <1>1, BaseInvariance, PTL

-----------------------------------------------------------------------------
(* The coins                                                               *)

\* What each proposal has taken from the community pool.
SpentBy == [id \in IDs |-> Spent(id)]

Books ==
    /\ module = Total(deposits)
    /\ \A id \in IDs : Held(id) = IF Pending(id) THEN proposals[id].total ELSE 0
    /\ SumFunction(balance) + module + pool + burned
         = SumFunction(Genesis.balance) + Genesis.pool
    /\ pool = Genesis.pool - SumFunction(SpentBy)

LEMMA BooksAre == CoinsExact <=> phase # "panic" /\ Books
  BY Zenon DEF CoinsExact, Books, SpentBy

LEMMA InitBooks == Init => Books
  <1> SUFFICES ASSUME Init PROVE Books
    BY Zenon
  <1>1. \A id \in IDs : deposits[id] = NoDeposits /\ proposals[id].status = "none"
    BY NoneFacts, Zenon DEF Init
  <1>2. \A id \in IDs : Held(id) = 0 /\ ~Pending(id) /\ Spent(id) = 0
    BY <1>1, NoneFacts, Zenon DEF Held, Pending, Spent
  <1>3. Total(deposits) = SumFunction([id \in IDs |-> 0])
    <2>1. [id \in IDs |-> SumFunction(deposits[id])] = [id \in IDs |-> 0]
      BY <1>2, Zenon DEF Held
    <2> QED BY <2>1, Zenon DEF Total
  <1>4. SpentBy = [id \in IDs |-> 0]
    BY <1>2, Zenon DEF SpentBy
  <1>5. SumFunction([id \in IDs |-> 0]) = 0
    BY ConstantFacts, SumZero, ZenonT(30)
  <1>6. SumFunction(Genesis.balance) \in Nat /\ Genesis.pool \in Nat
    BY ConstantFacts, SumNat, Zenon
  <1>7. balance = Genesis.balance /\ module = 0 /\ pool = Genesis.pool /\ burned = 0
    BY Zenon DEF Init
  <1>8. SumFunction(balance) + module + pool + burned = SumFunction(Genesis.balance) + Genesis.pool
    BY <1>6, <1>7
  <1>9. pool = Genesis.pool - SumFunction(SpentBy)
    BY <1>4, <1>5, <1>6, <1>7
  <1> QED BY <1>2, <1>3, <1>5, <1>7, <1>8, <1>9 DEF Books

\* The sums that occur in the books are numbers.
LEMMA Numbers ==
    ASSUME BaseInv
    PROVE  /\ SumFunction(balance) \in Nat /\ module \in Nat /\ pool \in Nat /\ burned \in Nat
           /\ SumFunction(Genesis.balance) \in Nat /\ Genesis.pool \in Nat
           /\ SpentBy \in [IDs -> Int] /\ SumFunction(SpentBy) \in Int
           /\ \A id \in IDs : Held(id) \in Nat
  <1>1. SumFunction(balance) \in Nat
    BY ConstantFacts, SumNat, Zenon DEF BaseInv, TypeOK
  <1>2. SumFunction(Genesis.balance) \in Nat
    BY ConstantFacts, SumNat, Zenon
  <1>3. \A id \in IDs : Spent(id) \in Int
    <2> TAKE id \in IDs
    <2>1. CASE proposals[id].status = "passed" /\ proposals[id].content.kind = "spend"
      <3>1. proposals[id].content \in Contents
        BY <2>1, Zenon DEF BaseInv, KeptInv
      <3>2. proposals[id].content.amount \in Nat
        BY <2>1, <3>1, ContentsAssumption, Zenon
      <3> QED BY <2>1, <3>2 DEF Spent
    <2>2. CASE ~(proposals[id].status = "passed" /\ proposals[id].content.kind = "spend")
      BY <2>2 DEF Spent
    <2> QED BY <2>1, <2>2, Zenon
  <1>4. SpentBy \in [IDs -> Int]
    BY <1>3, Zenon DEF SpentBy
  <1>5. SumFunction(SpentBy) \in Int
    BY <1>4, ConstantFacts, SumType, ZenonT(30)
  <1>6. \A id \in IDs : Held(id) \in Nat
    BY ConstantFacts, SumNat, ZenonT(30) DEF Held, BaseInv, TypeOK
  <1> QED BY <1>1, <1>2, <1>4, <1>5, <1>6, ConstantFacts DEF BaseInv, TypeOK

LEMMA DepositBooks ==
    ASSUME BaseInv, Books, NEW T, proposals \in [IDs -> Proposal(T)],
           NEW id \in IDs, NEW p \in Proposal(T), NEW queue, NEW who \in Accounts,
           NEW amount \in Nat, CanDeposit(id, p, queue), Deposit(id, p, queue, who, amount)
    PROVE  Books'
  <1> DEFINE r == Funded(p, amount)
             d == [deposits[id] EXCEPT ![who] = deposits[id][who] + amount]
  <1>1. TypeOK
    BY Zenon DEF BaseInv
  <1>2. /\ p.status \in {"deposit", "voting"}
        /\ proposals' = [proposals EXCEPT ![id] = r]
        /\ balance' = [balance EXCEPT ![who] = balance[who] - amount]
        /\ module' = module + amount
        /\ deposits' = [deposits EXCEPT ![id] = d]
        /\ UNCHANGED <<pool, burned>>
    BY <1>1, DepositStep
  <1>3. /\ r.status \in {"deposit", "voting"} /\ r.total = p.total + amount
    BY <1>1, <1>2, FundedFacts, Zenon
  <1> HIDE DEF r
  <1>4. /\ deposits \in [IDs -> [Accounts -> Nat]] /\ deposits[id] \in [Accounts -> Nat]
        /\ deposits[id][who] \in Nat /\ balance \in [Accounts -> Nat] /\ balance[who] \in Nat
    BY <1>1, Zenon DEF TypeOK
  <1>5. d \in [Accounts -> Nat] /\ deposits'[id] = d /\ \A i \in IDs : i # id => deposits'[i] = deposits[i]
    <2>1. d \in [Accounts -> Nat]
      BY <1>4
    <2> HIDE DEF d
    <2> QED BY <1>2, <1>4, <2>1, Zenon
  <1>6. SumFunction(d) = SumFunction(deposits[id]) - deposits[id][who] + (deposits[id][who] + amount)
    <2> DEFINE f == deposits[id]
               v == deposits[id][who] + amount
    <2>1. f \in [Accounts -> Int] /\ v \in Int /\ IsFiniteSet(Accounts)
      BY <1>4, ConstantFacts
    <2> HIDE DEF f, v
    <2>2. SumFunction([f EXCEPT ![who] = v]) = SumFunction(f) - f[who] + v
      BY <2>1, SumExcept, ZenonT(30)
    <2> QED BY <2>2, Zenon DEF f, v
  <1> HIDE DEF d
  <1>7. /\ Held(id) \in Nat /\ Held(id) = SumFunction(deposits[id])
        /\ SumFunction(d) = Held(id) + amount
    <2>1. Held(id) \in Nat /\ Held(id) = SumFunction(deposits[id])
      BY Numbers, Zenon DEF Held
    <2> QED BY <1>4, <1>6, <2>1
  <1>8. module' = Total(deposits')
    <2>1. Total([deposits EXCEPT ![id] = d]) = Total(deposits) - SumFunction(deposits[id]) + SumFunction(d)
      BY <1>4, <1>5, TotalExcept, ZenonT(30)
    <2>2. Total(deposits') = module - Held(id) + (Held(id) + amount)
      BY <1>2, <1>7, <2>1, ZenonT(30) DEF Books
    <2>3. module' = module + amount
      BY <1>2, ZenonT(30)
    <2>4. module \in Int /\ Held(id) \in Int
      BY <1>7, Numbers
    <2> QED BY <2>2, <2>3, <2>4
  <1>9. Held(id) = p.total
    BY NoneFacts, Zenon DEF CanDeposit, Submitted, Open, Pending, Books
  <1>10. proposals'[id] = r /\ \A i \in IDs : i # id => proposals'[i] = proposals[i]
    BY <1>2, Zenon
  <1>11. ASSUME NEW i \in IDs
         PROVE  SumFunction(deposits'[i]) = IF proposals'[i].status \in {"deposit", "voting"}
                                            THEN proposals'[i].total ELSE 0
    <2>1. CASE i = id
      BY <1>3, <1>5, <1>7, <1>9, <1>10, <2>1, Zenon
    <2>2. CASE i # id
      BY <1>5, <1>10, <2>2, ZenonT(30) DEF Books, Held, Pending
    <2> QED BY <2>1, <2>2, Zenon
  <1>12. SumFunction(balance') = SumFunction(balance) - amount
    <2> DEFINE v == balance[who] - amount
    <2>1. balance \in [Accounts -> Int] /\ v \in Int /\ IsFiniteSet(Accounts)
      BY <1>4, ConstantFacts
    <2> HIDE DEF v
    <2>2. SumFunction([balance EXCEPT ![who] = v]) = SumFunction(balance) - balance[who] + v
      BY <2>1, SumExcept, ZenonT(30)
    <2>3. SumFunction(balance') = SumFunction(balance) - balance[who] + (balance[who] - amount)
      BY <1>2, <2>2, ZenonT(30) DEF v
    <2> QED BY <1>4, <2>3, Numbers
  <1>13. SumFunction(balance') + module' + pool' + burned'
           = SumFunction(Genesis.balance) + Genesis.pool
    <2>1. SumFunction(balance) + module + pool + burned
            = SumFunction(Genesis.balance) + Genesis.pool
      BY Zenon DEF Books
    <2> QED BY <1>2, <1>12, <2>1, Numbers
  <1>14. SpentBy' = SpentBy
    <2>1. proposals[id].status # "passed"
      BY <1>2, ZenonT(30) DEF CanDeposit, Submitted, Open
    <2>2. \A i \in IDs : Spent(i)' = Spent(i)
      BY <1>3, <1>10, <2>1, ZenonT(30) DEF Spent
    <2> QED BY <2>2, Zenon DEF SpentBy
  <1>15. pool' = Genesis.pool - SumFunction(SpentBy')
    BY <1>2, <1>14, ZenonT(30) DEF Books
  <1> QED BY <1>8, <1>11, <1>13, <1>15, Zenon DEF Books, Held, Pending

\* The account can always give back or burn the deposits of one proposal.
LEMMA HeldFits ==
    ASSUME BaseInv, Books, NEW id \in IDs
    PROVE  ~(Held(id) > module)
  <1>1. deposits \in [IDs -> [Accounts -> Nat]] /\ deposits[id] \in [Accounts -> Nat]
    BY Zenon DEF BaseInv, TypeOK
  <1>2. SumFunction(deposits[id]) <= Total(deposits) /\ SumFunction(deposits[id]) \in Nat
        /\ Total(deposits) \in Nat
    BY <1>1, TotalExcept, Zenon
  <1> QED BY <1>2 DEF Held, Books

LEMMA Conserved ==
    \A b, m, p, u, b2, m2, p2, u2, h, g \in Int :
      b + m + p + u = g /\ m2 = m - h /\ b2 + p2 = b + p + (h - (u2 - u))
        => b2 + m2 + p2 + u2 = g
  OBVIOUS

\* What the pool has paid out when one proposal's part of it changes.
LEMMA SpentExcept ==
    ASSUME SpentBy \in [IDs -> Int], NEW id \in IDs, NEW paid \in Int
    PROVE  SumFunction([SpentBy EXCEPT ![id] = paid]) = SumFunction(SpentBy) - SpentBy[id] + paid
  BY ConstantFacts, SumExcept, ZenonT(30)

\* Closing a proposal: its deposits leave the account, to their owners or to
\* the fire, and the pool pays what the proposal asked for when it passed.
LEMMA ClosedBooks ==
    ASSUME BaseInv, Books, NEW id \in IDs, Pending(id), NEW r, Decides(id, r),
           module' = module - Held(id),
           SumFunction(balance') + pool' = SumFunction(balance) + pool + (Held(id) - (burned' - burned)),
           NEW paid \in Int, pool' = pool - paid,
           paid = IF r.status = "passed" /\ r.content.kind = "spend" THEN r.content.amount ELSE 0
    PROVE  Books'
  <1>1. /\ deposits \in [IDs -> [Accounts -> Nat]] /\ deposits[id] \in [Accounts -> Nat]
        /\ proposals' = [proposals EXCEPT ![id] = r] /\ DOMAIN proposals = IDs
        /\ deposits' = [deposits EXCEPT ![id] = NoDeposits]
        /\ r.status \notin {"deposit", "voting"}
        /\ balance' \in [Accounts -> Nat] /\ module' \in Nat /\ pool' \in Nat /\ burned' \in Nat
    BY ZenonT(30) DEF BaseInv, TypeOK, Decides
  <1>2. /\ deposits'[id] = NoDeposits /\ \A i \in IDs : i # id => deposits'[i] = deposits[i]
        /\ proposals'[id] = r /\ \A i \in IDs : i # id => proposals'[i] = proposals[i]
    BY <1>1, ZenonT(30)
  <1>3. SumFunction(NoDeposits) = 0 /\ NoDeposits \in [Accounts -> Nat]
    BY NoneFacts, Zenon
  <1>4. module' = Total(deposits')
    <2>1. Total([deposits EXCEPT ![id] = NoDeposits])
            = Total(deposits) - SumFunction(deposits[id]) + SumFunction(NoDeposits)
      BY <1>1, <1>3, TotalExcept, ZenonT(30)
    <2>2. Total(deposits') = module - Held(id) + 0
      BY <1>1, <1>3, <2>1, ZenonT(30) DEF Books, Held
    <2> QED BY <2>2, Numbers
  <1>5. ASSUME NEW i \in IDs
        PROVE  SumFunction(deposits'[i]) = IF proposals'[i].status \in {"deposit", "voting"}
                                           THEN proposals'[i].total ELSE 0
    <2>1. CASE i = id
      BY <1>1, <1>2, <1>3, <2>1, ZenonT(30)
    <2>2. CASE i # id
      BY <1>2, <2>2, Zenon DEF Books, Held, Pending
    <2> QED BY <2>1, <2>2, Zenon
  <1>6. SumFunction(balance') + module' + pool' + burned'
          = SumFunction(Genesis.balance) + Genesis.pool
    <2>1. SumFunction(balance') \in Nat
      BY <1>1, ConstantFacts, SumNat, Zenon
    <2>2. SumFunction(balance) + module + pool + burned
            = SumFunction(Genesis.balance) + Genesis.pool
      BY Zenon DEF Books
    <2> DEFINE b == SumFunction(balance)
               h == Held(id)
               g == SumFunction(Genesis.balance) + Genesis.pool
               b2 == SumFunction(balance')
    <2>3. /\ b \in Int /\ module \in Int /\ pool \in Int /\ burned \in Int
          /\ h \in Int /\ g \in Int
      BY Numbers
    <2>4. b2 \in Int /\ module' \in Int /\ pool' \in Int /\ burned' \in Int
      BY <1>1, <2>1
    <2>5. b + module + pool + burned = g /\ module' = module - h
          /\ b2 + pool' = b + pool + (h - (burned' - burned))
      BY <2>2, Zenon
    <2> HIDE DEF b, h, g, b2
    <2>6. b2 + module' + pool' + burned' = g
      BY <2>3, <2>4, <2>5, Conserved
    <2> QED BY <2>6, Zenon DEF b2, g
  <1>7. SpentBy' = [SpentBy EXCEPT ![id] = paid] /\ SpentBy[id] = 0
    <2>1. proposals[id].status # "passed"
      BY Zenon DEF Pending
    <2>2. Spent(id)' = paid /\ Spent(id) = 0 /\ \A i \in IDs : i # id => Spent(i)' = Spent(i)
      BY <1>2, <2>1, ZenonT(30) DEF Spent
    <2> QED BY <2>2, ZenonT(30) DEF SpentBy
  <1>8. SumFunction(SpentBy') = SumFunction(SpentBy) + paid
    <2>1. SpentBy \in [IDs -> Int] /\ SumFunction(SpentBy) \in Int /\ IsFiniteSet(IDs)
      BY Numbers, ConstantFacts, Zenon
    <2>2. SumFunction([SpentBy EXCEPT ![id] = paid]) = SumFunction(SpentBy) - SpentBy[id] + paid
      BY <2>1, SpentExcept, Zenon
    <2> QED BY <1>7, <2>1, <2>2
  <1>9. pool' = Genesis.pool - SumFunction(SpentBy')
    <2>1. pool = Genesis.pool - SumFunction(SpentBy)
      BY Zenon DEF Books
    <2> QED BY <1>8, <2>1, Numbers
  <1> QED BY <1>4, <1>5, <1>6, <1>9, Zenon DEF Books, Held, Pending

LEMMA DropInactiveBooks ==
    ASSUME BaseInv, Books, DropInactive
    PROVE  Books' /\ phase' = phase
  <1>1. PICK id \in IDs :
          /\ proposals[id].status = "deposit" /\ ~(Held(id) > module) /\ Decides(id, NoProposal)
          /\ module' = module - Held(id) /\ burned' = burned + Held(id)
          /\ UNCHANGED <<phase, balance, pool>>
    BY DropFacts, HeldFits, Zenon
  <1>2. NoProposal.status # "passed"
    BY NoneFacts, Zenon
  <1>3. Held(id) \in Nat
    BY Numbers, Zenon
  <1>4. SumFunction(balance') + pool' = SumFunction(balance) + pool + (Held(id) - (burned' - burned))
    BY <1>1, <1>3, Numbers
  <1>5. pool' = pool - 0
    BY <1>1, Numbers
  <1>6. Pending(id)
    BY <1>1, Zenon DEF Pending
  <1>7. Books'
    BY <1>1, <1>2, <1>4, <1>5, <1>6, ClosedBooks
  <1> QED BY <1>1, <1>7, Zenon

LEMMA TallyActiveBooks ==
    ASSUME BaseInv, Books, TallyActive
    PROVE  Books' /\ phase' = phase
  <1>1. PICK id \in IDs, passes \in BOOLEAN, burns \in BOOLEAN :
          LET done == Execute(passes, proposals[id].content, Refunded(id, burns))
          IN  /\ proposals[id].status = "voting" /\ proposals[id].content \in Contents
              /\ Decides(id, Tallied(id, done.status))
              /\ Tallied(id, done.status).status = done.status
              /\ Tallied(id, done.status).content = proposals[id].content
              /\ module' = module - Held(id)
              /\ burned' = burned + (IF burns THEN Held(id) ELSE 0)
              /\ balance' = done.balance /\ pool' = done.pool
              /\ UNCHANGED phase
    <2>1. PICK id \in IDs, passes \in BOOLEAN, burns \in BOOLEAN :
             TallyEnds(id, burns, Execute(passes, proposals[id].content, Refunded(id, burns)))
      BY TallyActiveFacts, Zenon
    <2>2. ~(Held(id) > module)
      BY HeldFits, Zenon
    <2> QED BY <2>1, <2>2, Zenon DEF TallyEnds
  <1> DEFINE c    == proposals[id].content
             bal  == Refunded(id, burns)
             done == Execute(passes, c, bal)
             r    == Tallied(id, done.status)
             paid == IF done.status = "passed" /\ c.kind = "spend" THEN c.amount ELSE 0
  <1>2. /\ proposals[id].status = "voting" /\ c \in Contents /\ Decides(id, r)
        /\ r.status = done.status /\ r.content = c /\ module' = module - Held(id)
        /\ burned' = burned + (IF burns THEN Held(id) ELSE 0)
        /\ balance' = done.balance /\ pool' = done.pool /\ phase' = phase
    BY <1>1, ZenonT(30)
  <1>3. /\ bal \in [Accounts -> Nat] /\ Held(id) \in Nat
        /\ SumFunction(bal) = SumFunction(balance) + (IF burns THEN 0 ELSE Held(id))
    BY RefundedFacts, Zenon
  <1>4. SumFunction(done.balance) + done.pool = SumFunction(bal) + pool /\ done.pool = pool - paid
    <2>1. ParamsOK(params) /\ pool \in Nat
      BY Zenon DEF BaseInv, TypeOK
    <2> HIDE DEF bal
    <2> QED BY <1>2, <1>3, <2>1, ExecuteFacts, ZenonT(30)
  <1>5. paid \in Int
    <2> HIDE DEF done
    <2>1. c \in Contents
      BY <1>2, Zenon
    <2> HIDE DEF c
    <2>2. c.kind = "spend" => c.amount \in Int
      BY <2>1, ContentsAssumption
    <2> QED BY <2>2
  <1>6. paid = IF r.status = "passed" /\ r.content.kind = "spend" THEN r.content.amount ELSE 0
    BY <1>2, ZenonT(30)
  <1> HIDE DEF c, bal, done, r, paid
  <1>7. SumFunction(balance') + pool' = SumFunction(balance) + pool + (Held(id) - (burned' - burned))
    BY <1>2, <1>3, <1>4, Numbers
  <1>8. Pending(id)
    BY <1>2, Zenon DEF Pending
  <1>9. Books'
    BY <1>2, <1>4, <1>5, <1>6, <1>7, <1>8, ClosedBooks, ZenonT(30)
  <1> QED BY <1>2, <1>9, Zenon

\* Steps that leave proposals, deposits and coins alone leave the books alone.
LEMMA QuietBooks ==
    ASSUME Books, UNCHANGED <<proposals, deposits, coins>>
    PROVE  Books'
  <1>1. /\ proposals' = proposals /\ deposits' = deposits /\ balance' = balance
        /\ module' = module /\ pool' = pool /\ burned' = burned
    BY Zenon DEF coins
  <1>2. SpentBy' = SpentBy
    BY <1>1, Zenon DEF SpentBy, Spent
  <1> QED BY <1>1, <1>2, Zenon DEF Books, Held, Pending

LEMMA NextBooks ==
    ASSUME BaseInv, CoinsExact, [Next]_vars
    PROVE  CoinsExact'
  <1>1. Books /\ phase # "panic"
    BY BooksAre, Zenon
  <1>2. ASSUME NEW c \in Contents, NEW who \in Accounts, NEW amount \in Amounts,
               SubmitProposal(c, who, amount)
        PROVE  Books' /\ phase' = phase
    <2>1. amount \in Nat
      BY GovAssumption, Zenon
    <2>2. PICK T, p, queue :
             /\ proposals \in [IDs -> Proposal(T)] /\ p \in Proposal(T) /\ nextID \in IDs
             /\ CanDeposit(nextID, p, queue) /\ Deposit(nextID, p, queue, who, amount)
      BY <1>2, SubmitFacts, Zenon
    <2> DEFINE id == nextID
    <2>3. id \in IDs /\ CanDeposit(id, p, queue) /\ Deposit(id, p, queue, who, amount)
      BY <2>2, Zenon
    <2> HIDE DEF id
    <2>4. Books'
      BY <1>1, <2>1, <2>2, <2>3, DepositBooks, Zenon
    <2> QED BY <2>3, <2>4, Zenon DEF Deposit
  <1>3. ASSUME NEW id \in IDs, NEW who \in Accounts, NEW amount \in Amounts,
               AddDeposit(id, who, amount)
        PROVE  Books' /\ phase' = phase
    <2>1. amount \in Nat
      BY GovAssumption, Zenon
    <2>2. PICK T :
             /\ proposals \in [IDs -> Proposal(T)] /\ proposals[id] \in Proposal(T)
             /\ CanDeposit(id, proposals[id], inactiveQ)
             /\ Deposit(id, proposals[id], inactiveQ, who, amount)
      BY <1>3, AddDepositFacts, Zenon
    <2>3. Books'
      BY <1>1, <2>1, <2>2, DepositBooks, Zenon
    <2> QED BY <2>2, <2>3, Zenon DEF Deposit
  <1>4. ASSUME NEW id \in IDs, NEW who \in Accounts, NEW ballot \in Ballots, AddVote(id, who, ballot)
        PROVE  Books' /\ phase' = phase
    BY <1>1, <1>4, QuietBooks, ZenonT(30) DEF AddVote
  <1>5. ASSUME ExportImport PROVE Books' /\ phase' = phase
    BY <1>1, <1>5, ExportImportFacts, QuietBooks, Zenon DEF Books, store
  <1>6. ASSUME Passing PROVE Books' /\ phase' # "panic"
    BY <1>1, <1>6, PassingFacts, QuietBooks, Zenon DEF store
  <1>7. Books' /\ phase' # "panic"
    BY <1>1, <1>2, <1>3, <1>4, <1>5, <1>6, DropInactiveBooks, TallyActiveBooks, Zenon
       DEF Next, AtBound, Passing
  <1>8. CoinsExact' <=> (phase # "panic" /\ Books)'
    BY BooksAre, PTL
  <1> QED BY <1>7, <1>8, Zenon

\* The governance account holds exactly the deposits of the pending proposals,
\* every coin of genesis is in a balance, in the account, in the pool or burned,
\* and the pool has paid each passed spend proposal exactly once: so EndBlocker
\* never panics for want of coins, nor InitGenesis for a total that differs.
THEOREM CoinsAreExact == Spec => []CoinsExact
  <1>1. Init => CoinsExact
    <2>1. Init => phase # "panic"
      BY Zenon DEF Init
    <2> QED BY <2>1, InitBooks, BooksAre, Zenon
  <1>2. BaseInv /\ CoinsExact /\ [Next]_vars => CoinsExact'
    BY NextBooks, Zenon
  <1> QED BY <1>1, <1>2, BaseInvariance, PTL DEF Spec
=============================================================================
