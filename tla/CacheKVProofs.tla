--------------------------- MODULE CacheKVProofs ---------------------------
(***************************************************************************)
(* A cachekv store is a branch of its parent, whatever the keys, the       *)
(* values, the domains of its iterators and the threshold from which all   *)
(* keys are sorted: the refinement of KVStore that TLC checks for two keys.*)
(* And its iterators return what the store has, though it is written to.   *)
(***************************************************************************)
EXTENDS CacheKV, FiniteSetTheorems, WellFoundedInduction, TLAPS

\* What the flags of a cached key say. A key that is not dirty was read from
\* the parent, which has not changed since; and of the dirty ones exactly those
\* without a value are deleted, so that Write skips none and resurrects none.
FlagsInv ==
    /\ parent \in [Keys -> Maybe] /\ value \in [Keys -> Maybe]
    /\ cached \subseteq Keys /\ dirty \subseteq cached
    /\ \A k \in cached \ dirty : value[k] = parent[k]
    /\ \A k \in dirty : k \in deleted <=> value[k] = Nil

USE DEF Maybe

LEMMA InitFlags == CacheInit => FlagsInv
  BY Zenon DEF CacheInit, FlagsInv, NoValue

\* Steps of the iterator, and those that do not touch the cache.
LEMMA KeepsFlags ==
    ASSUME FlagsInv, UNCHANGED <<parent, value, cached, dirty, deleted>>
    PROVE  FlagsInv'
  BY Zenon DEF FlagsInv

LEMMA SetFlags ==
    ASSUME FlagsInv, NEW k \in Keys, NEW v \in Maybe, NEW gone \in BOOLEAN, NEW wrote \in BOOLEAN,
           setCacheValue(k, v, gone, wrote),
           wrote => (gone <=> v = Nil),
           ~wrote => v = parent[k]
    PROVE  FlagsInv'
  BY DEF FlagsInv, setCacheValue

\* Write and Discard leave an empty cache.
LEMMA ClearFlags ==
    ASSUME FlagsInv, Clear, parent' \in [Keys -> Maybe]
    PROVE  FlagsInv'
  BY Zenon DEF FlagsInv, Clear, NoValue

LEMMA WriteIsView ==
    ASSUME FlagsInv, Write
    PROVE  parent' = view /\ parent' \in [Keys -> Maybe]
  <1>1. \A k \in Keys : parent'[k] = view[k]
    BY Zenon DEF FlagsInv, Write, view
  <1> QED BY <1>1, Zenon DEF FlagsInv, Write, view

\* Everything an iterator does leaves the store as it was.
LEMMA IteratorKeepsStore ==
    ASSUME Iterate \/ (\E d \in Domains, ascending \in BOOLEAN : OpenIterator(d, ascending))
    PROVE  UNCHANGED <<parent, value, cached, dirty, deleted, reply>>
  BY Zenon DEF Iterate, Skip, Valid, Item, CallNext, Advance, Close, OpenIterator, store

LEMMA NextFlags == FlagsInv /\ [CacheNext]_cacheVars => FlagsInv'
  <1> SUFFICES ASSUME FlagsInv, [CacheNext]_cacheVars PROVE FlagsInv'
    BY Zenon
  <1>1. ASSUME NEW k \in Keys, Get(k) PROVE FlagsInv'
    <2>1. CASE k \in cached
      BY <1>1, <2>1, KeepsFlags, Zenon DEF Get, store
    <2>2. CASE k \notin cached
      <3>1. setCacheValue(k, parent[k], FALSE, FALSE)
        BY <1>1, <2>2, Zenon DEF Get
      <3>2. parent[k] \in Maybe
        BY Zenon DEF FlagsInv
      <3> QED BY <3>1, <3>2, SetFlags, Zenon
    <2> QED BY <2>1, <2>2, Zenon
  <1>2. ASSUME NEW k \in Keys, NEW v \in Values, Set(k, v) PROVE FlagsInv'
    <2>1. setCacheValue(k, v, FALSE, TRUE) /\ v \in Maybe /\ v # Nil
      BY ValuesAssumption, <1>2, Zenon DEF Set
    <2> QED BY <2>1, SetFlags, Zenon
  <1>3. ASSUME NEW k \in Keys, Delete(k) PROVE FlagsInv'
    <2>1. setCacheValue(k, Nil, TRUE, TRUE)
      BY <1>3, Zenon DEF Delete
    <2> QED BY <2>1, SetFlags, Zenon
  <1>4. CASE Write
    BY <1>4, WriteIsView, ClearFlags, Zenon DEF Write
  <1>5. CASE Discard
    BY <1>5, ClearFlags, Zenon DEF Discard, FlagsInv
  <1>6. CASE Iterate \/ (\E d \in Domains, ascending \in BOOLEAN : OpenIterator(d, ascending))
    BY <1>6, IteratorKeepsStore, KeepsFlags, Zenon
  <1>7. CASE UNCHANGED cacheVars
    BY <1>7, KeepsFlags, Zenon DEF cacheVars, store
  <1> QED BY <1>1, <1>2, <1>3, <1>4, <1>5, <1>6, <1>7, Zenon DEF CacheNext

-----------------------------------------------------------------------------
\* A write to the cache is a write to the contents of the branch.
LEMMA SetIsView ==
    ASSUME FlagsInv, NEW k \in Keys, NEW v \in Maybe, NEW gone, NEW wrote,
           setCacheValue(k, v, gone, wrote)
    PROVE  view' = [view EXCEPT ![k] = v]
  BY Zenon DEF FlagsInv, setCacheValue, view

LEMMA StepIsBranch ==
    ASSUME FlagsInv, [CacheNext]_cacheVars
    PROVE  [Map!Next]_(Map!vars)
  <1> USE DEF Map!Next, Map!vars
  <1>1. ASSUME NEW k \in Keys, Get(k) PROVE Map!Get(k)
    <2>1. reply' = view[k] /\ parent' = parent
      BY <1>1, Zenon DEF Get, view, setCacheValue, store
    <2>2. view' = view
      <3>1. CASE k \in cached
        BY <1>1, <3>1, Zenon DEF Get, view, store
      <3>2. CASE k \notin cached
        <4>1. setCacheValue(k, parent[k], FALSE, FALSE) /\ parent[k] \in Maybe /\ view[k] = parent[k]
          BY <1>1, <3>2, Zenon DEF Get, FlagsInv, view
        <4>2. view' = [view EXCEPT ![k] = parent[k]]
          BY <4>1, SetIsView, Zenon
        <4> QED BY <4>1, <4>2, Zenon DEF view
      <3> QED BY <3>1, <3>2, Zenon
    <2> QED BY <2>1, <2>2, Zenon DEF Map!Get
  <1>2. ASSUME NEW k \in Keys, NEW v \in Values, Set(k, v) PROVE Map!Set(k, v)
    <2>1. setCacheValue(k, v, FALSE, TRUE) /\ v \in Maybe
      BY <1>2, Zenon DEF Set
    <2>2. view' = [view EXCEPT ![k] = v]
      BY <2>1, SetIsView, Zenon
    <2> QED BY <1>2, <2>1, <2>2, Zenon DEF Map!Set, Set, Wrote, setCacheValue
  <1>3. ASSUME NEW k \in Keys, Delete(k) PROVE Map!Delete(k)
    <2>1. setCacheValue(k, Nil, TRUE, TRUE)
      BY <1>3, Zenon DEF Delete
    <2>2. view' = [view EXCEPT ![k] = Nil]
      BY <2>1, SetIsView, Zenon
    <2> QED BY <1>3, <2>1, <2>2, Zenon DEF Map!Delete, Delete, Wrote, setCacheValue
  <1>4. ASSUME Write PROVE Map!Write
    <2>1. parent' = view /\ parent' \in [Keys -> Maybe]
      BY <1>4, WriteIsView, Zenon
    <2>2. view' = parent' /\ reply' = reply
      BY <1>4, <2>1, Zenon DEF Write, Clear, view
    <2> QED BY <2>1, <2>2, Zenon DEF Map!Write
  <1>5. ASSUME Discard PROVE Map!Discard
    BY <1>5, Zenon DEF Map!Discard, Discard, Clear, view, FlagsInv
  <1>6. CASE Iterate \/ (\E d \in Domains, ascending \in BOOLEAN : OpenIterator(d, ascending))
    BY <1>6, IteratorKeepsStore, Zenon DEF view
  <1>7. CASE UNCHANGED cacheVars
    BY <1>7, Zenon DEF cacheVars, store, view
  <1> QED BY <1>1, <1>2, <1>3, <1>4, <1>5, <1>6, <1>7, Zenon DEF CacheNext

\* The cachekv store implements a branch of a plain map (Branch, which the run
\* checks for two keys): reads, writes, deletes, Write and dropping the branch
\* do what they do there, and iterating, which moves keys between the unsorted
\* and the sorted copy, changes nothing.
THEOREM CacheIsBranch == CacheSpec => Branch
  <1>1. CacheInit => Map!Init
    BY Zenon DEF CacheInit, Map!Init, view, Maybe
  <1>2. FlagsInv /\ [CacheNext]_cacheVars => [Map!Next]_(Map!vars)
    BY StepIsBranch, Zenon
  <1> QED BY <1>1, <1>2, InitFlags, NextFlags, PTL DEF CacheSpec, Branch, Map!Spec

-----------------------------------------------------------------------------
(* The iterator                                                            *)

\* A store has finitely many keys, and no iterator has a start and no end:
\* dirtyItems takes that end for one below the start.
SafeIterators == IsFiniteSet(Keys) /\ \A d \in Domains : d[1] = 0 \/ d[2] # 0

\* How a value is kept in the sorted copy.
Shown(v) == IF v = Nil THEN Blank ELSE v

\* Each dirty key is still to be sorted or in the sorted copy, as it is now.
SortedInv ==
    /\ dirty = unsorted \cup sorted /\ deleted \subseteq dirty
    /\ \A k \in sorted \ unsorted : sortedValue[k] = Shown(value[k])

\* A key whose value nobody changed while the iterator was open.
Steady(k) == since[k] = {view[k]}

\* What the two iterators have left. A steady key of the cache's iterator has
\* its value there; one that only the parent's has is not in the cache.
MergeInv ==
    /\ domain \subseteq Keys /\ p \subseteq domain /\ c \subseteq domain \cap dirty
    /\ \A k \in p : parent[k] # Nil
    /\ since \in [Keys -> SUBSET Maybe]
    /\ \A k \in Keys : view[k] \in since[k] /\ IsFiniteSet(since[k])
    /\ \A k \in Keys : Steady(k) =>
         /\ k \in c => snap[k] = Shown(view[k])
         /\ k \in p \ c => view[k] = parent[k]

\* What was read comes before what is left, but for the key the iterator is on.
OrderInv ==
    /\ Read \subseteq Keys
    /\ \A i \in Read, j \in p \cup c : Before(i, j) \/ (current /\ i = j /\ i = Key)
    /\ current => p \cup c # {} /\ Key \in Read /\ (CacheFirst => lastKey = First(c))
    /\ lastKey = 0 \/ lastKey \in Read

\* A steady key was read with its value, or is left.
ReadInv ==
    \A k \in Keys : Steady(k) =>
        /\ \A v \in Maybe \cup {Blank} : <<k, v>> \in out => k \in domain /\ v = view[k] /\ v # Nil
        /\ k \in domain /\ view[k] # Nil => k \in Read \/ k \in p \cup c

IterInv ==
    /\ pc \in {"closed", "open", "valid", "next"}
    /\ pc = "valid" => ~current
    /\ pc = "next" => current
    /\ pc # "closed" => MergeInv /\ OrderInv /\ ReadInv

IInv == FlagsInv /\ SortedInv /\ IterInv

\* The keys are in order, in both directions.
LEMMA Ordered ==
    /\ \A i, j \in Keys : i = j \/ Before(i, j) \/ Before(j, i)
    /\ \A i, j \in Keys : Before(i, j) => i # j /\ ~Before(j, i)
    /\ \A i, j, k \in Keys : Before(i, j) /\ Before(j, k) => Before(i, k)
  <1>1. \A i \in Keys : i \in Nat
    BY KeysAssumption, Zenon
  <1>2. CASE up
    BY <1>1, <1>2 DEF Before
  <1>3. CASE ~up
    BY <1>1, <1>3 DEF Before
  <1> QED BY <1>2, <1>3, Zenon

\* A set of keys that is finite and not empty has a first one, in both orders.
LEMMA FirstFacts ==
    ASSUME IsFiniteSet(Keys), NEW S, S \subseteq Keys, S # {}
    PROVE  First(S) \in S /\ \A j \in S : j = First(S) \/ Before(First(S), j)
  <1> DEFINE R == StrictSubsetOrdering(Keys)
             F == FiniteSubsetsOf(Keys)
             T(x) == {y \in S : Before(y, x)}
             Lower == {T(x) : x \in S}
  <1>1. IsWellFoundedOn(R, F)
    BY FS_StrictSubsetOrderingWellFounded, Zenon
  <1>2. Lower \subseteq F
    BY FS_Subset, Zenon DEF FiniteSubsetsOf
  <1>3. \A x, y \in S : y \in T(x) => <<T(y), T(x)>> \in R
    <2> TAKE x, y \in S
    <2> HAVE y \in T(x)
    <2>1. T(y) \subseteq T(x) /\ y \notin T(y)
      BY Ordered, Zenon
    <2>2. T(y) \in SUBSET Keys /\ T(x) \in SUBSET Keys /\ T(y) # T(x)
      BY <2>1, Zenon
    <2> QED BY <2>1, <2>2, Zenon DEF StrictSubsetOrdering
  <1> HIDE DEF R, F
  <1>4. PICK U \in Lower : \A V \in Lower : ~(<<V, U>> \in R)
    <2>1. Lower # {}
      BY Zenon
    <2> HIDE DEF Lower
    <2> QED BY <1>1, <1>2, <2>1, WFMin, Zenon
  <1>5. PICK x \in S : U = T(x)
    BY Zenon
  <1>6. \A y \in S : ~Before(y, x)
    BY <1>3, <1>4, <1>5, ZenonT(30)
  <1>7. \A j \in S : x = j \/ Before(x, j)
    BY <1>6, Ordered, Zenon
  <1>8. /\ First(S) \in S
        /\ \A j \in S : First(S) = j \/ Before(First(S), j)
    BY <1>7, Zenon DEF First
  <1> QED BY <1>8, Zenon

LEMMA KeyFacts ==
    ASSUME IsFiniteSet(Keys), p \subseteq Keys, c \subseteq Keys, p \cup c # {}
    PROVE  /\ Key \in p \cup c /\ \A j \in p \cup c : j = Key \/ Before(Key, j)
           /\ CacheFirst => Key \in c /\ Key = First(c)
           /\ ~CacheFirst => Key \in p \ c
  <1>1. c # {} => First(c) \in c /\ \A j \in c : j = First(c) \/ Before(First(c), j)
    BY FirstFacts, Zenon
  <1>2. p # {} => First(p) \in p /\ \A j \in p : j = First(p) \/ Before(First(p), j)
    BY FirstFacts, Zenon
  <1>3. CASE CacheFirst
    <2>1. c # {} /\ (\A i \in p : ~Before(i, First(c))) /\ Key = First(c)
      BY <1>3, Zenon DEF CacheFirst, Key
    <2>2. \A i \in p : i = First(c) \/ Before(First(c), i)
      BY <1>1, <2>1, Ordered, Zenon
    <2> QED BY <1>1, <1>3, <2>1, <2>2, Zenon
  <1>4. CASE ~CacheFirst
    <2>1. Key = First(p) /\ p # {}
      BY <1>4, Zenon DEF CacheFirst, Key
    <2>2. c # {} => Before(First(p), First(c))
      <3> SUFFICES ASSUME c # {} PROVE Before(First(p), First(c))
        BY Zenon
      <3>1. PICK i \in p : Before(i, First(c))
        BY <1>4, Zenon DEF CacheFirst
      <3> QED BY <1>1, <1>2, <2>1, <3>1, Ordered, Zenon
    <2>3. \A j \in c : Before(First(p), j)
      BY <1>1, <1>2, <2>1, <2>2, Ordered, Zenon
    <2>4. First(p) \notin c
      BY <1>2, <2>1, <2>3, Ordered, Zenon
    <2> QED BY <1>2, <1>4, <2>1, <2>3, <2>4, Zenon
  <1> QED BY <1>3, <1>4, Zenon

LEMMA InitIter == CacheInit => SortedInv /\ IterInv
  BY Zenon DEF CacheInit, SortedInv, IterInv

LEMMA SameBefore == ASSUME UNCHANGED up PROVE \A i, j : Before(i, j)' <=> Before(i, j)
  <1>1. CASE up
    BY <1>1, Zenon DEF Before
  <1>2. CASE ~up
    BY <1>2, Zenon DEF Before
  <1> QED BY <1>1, <1>2, Zenon

LEMMA SameKey ==
    ASSUME UNCHANGED <<up, p, c>>
    PROVE  First(c)' = First(c) /\ (CacheFirst' <=> CacheFirst) /\ Key' = Key
  <1> DEFINE FirstOf(S, u) == CHOOSE i \in S : \A j \in S : i = j \/ (IF u THEN i < j ELSE j < i)
  <1>1. First(p) = FirstOf(p, up) /\ First(c) = FirstOf(c, up)
    BY Zenon DEF First, Before
  <1>2. First(p)' = FirstOf(p', up') /\ First(c)' = FirstOf(c', up')
    BY Zenon DEF First, Before
  <1> HIDE DEF FirstOf
  <1>3. First(p)' = First(p) /\ First(c)' = First(c)
    BY <1>1, <1>2, Zenon
  <1> QED BY <1>3, SameBefore, Zenon DEF CacheFirst, Key

LEMMA SameOrder ==
    ASSUME OrderInv, UNCHANGED <<up, p, c, lastKey, current, out>>
    PROVE  OrderInv'
  <1>1. p' = p /\ c' = c /\ lastKey' = lastKey /\ current' = current /\ Read' = Read
    BY Zenon DEF Read
  <1> QED BY <1>1, SameBefore, SameKey DEF OrderInv

\* What is left and what was read, when neither moves and the steady keys were
\* steady before and have the value they had.
LEMMA SameRead ==
    ASSUME MergeInv, ReadInv, UNCHANGED <<p, c, snap, out, domain, parent>>,
           \A k \in Keys : Steady(k)' => Steady(k) /\ view'[k] = view[k],
           dirty \subseteq dirty',
           since' \in [Keys -> SUBSET Maybe],
           \A k \in Keys : view'[k] \in since'[k] /\ IsFiniteSet(since'[k])
    PROVE  MergeInv' /\ ReadInv'
  <1>1. MergeInv'
    BY Zenon DEF MergeInv, Shown
  <1>2. ReadInv'
    BY Zenon DEF ReadInv, Read
  <1> QED BY <1>1, <1>2, Zenon

LEMMA ViewType == FlagsInv => view \in [Keys -> Maybe]
  BY Zenon DEF FlagsInv, view

\* Reading through the cache, and writing to it, under an open iterator.
LEMMA SetIter ==
    ASSUME IInv, NEW k \in Keys, NEW v \in Maybe, NEW gone \in BOOLEAN, NEW wrote \in BOOLEAN,
           setCacheValue(k, v, gone, wrote), UNCHANGED iter,
           \/ wrote /\ since' = IF pc = "closed" THEN since ELSE [since EXCEPT ![k] = @ \cup {v}]
           \/ ~wrote /\ ~gone /\ k \notin cached /\ v = parent[k] /\ since' = since
    PROVE  SortedInv' /\ IterInv'
  <1>1. FlagsInv /\ SortedInv /\ IterInv
    BY Zenon DEF IInv
  <1>2. /\ value' = [value EXCEPT ![k] = v]
        /\ dirty' = (IF wrote THEN dirty \cup {k} ELSE dirty \ {k})
        /\ deleted' = (IF gone THEN deleted \cup {k} ELSE deleted \ {k})
        /\ unsorted' = (IF wrote THEN unsorted \cup {k} ELSE unsorted)
        /\ UNCHANGED <<parent, sorted, sortedValue>>
    BY Zenon DEF setCacheValue
  <1>3. value \in [Keys -> Maybe] /\ dirty \subseteq Keys /\ (~wrote => k \notin dirty)
    BY <1>1, Zenon DEF FlagsInv
  <1>4. SortedInv' /\ dirty \subseteq dirty'
    <2>1. CASE wrote
      BY <1>1, <1>2, <1>3, <2>1, Zenon DEF SortedInv, Shown
    <2>2. CASE ~wrote
      BY <1>1, <1>2, <1>3, <2>2 DEF SortedInv, Shown
    <2> QED BY <2>1, <2>2, Zenon
  <1>5. view' = [view EXCEPT ![k] = v] /\ view \in [Keys -> Maybe]
    BY <1>1, SetIsView, ViewType, Zenon
  <1>6. ASSUME pc # "closed" PROVE MergeInv' /\ OrderInv' /\ ReadInv'
    <2>1. MergeInv /\ OrderInv /\ ReadInv
      BY <1>1, <1>6, Zenon DEF IterInv
    <2>2. /\ since \in [Keys -> SUBSET Maybe]
          /\ \A i \in Keys : view[i] \in since[i] /\ IsFiniteSet(since[i])
      BY <2>1, Zenon DEF MergeInv
    <2>3. CASE wrote
      <3>1. since' = [since EXCEPT ![k] = since[k] \cup {v}]
        BY <1>6, <2>3, Zenon
      <3>2. IsFiniteSet(since[k] \cup {v})
        BY <2>2, FS_Singleton, FS_Union, Zenon
      <3>3. /\ since' \in [Keys -> SUBSET Maybe]
            /\ \A i \in Keys : view'[i] \in since'[i] /\ IsFiniteSet(since'[i])
        BY <1>5, <2>2, <3>1, <3>2
      <3>4. \A i \in Keys : Steady(i)' => Steady(i) /\ view'[i] = view[i]
        <4> TAKE i \in Keys
        <4> HAVE Steady(i)'
        <4>1. since'[i] = {view'[i]}
          BY Zenon DEF Steady
        <4>2. CASE i = k
          <5>1. since[k] \cup {v} = {v} /\ view[k] \in since[k] /\ view'[k] = v
            BY <1>5, <2>2, <3>1, <4>1, <4>2, Zenon
          <5> QED BY <4>2, <5>1, Zenon DEF Steady
        <4>3. CASE i # k
          BY <1>5, <2>2, <3>1, <4>1, <4>3, Zenon DEF Steady
        <4> QED BY <4>2, <4>3, Zenon
      <3> QED BY <1>2, <1>4, <2>1, <3>3, <3>4, SameRead, SameOrder, Zenon DEF iter
    <2>4. CASE ~wrote
      <3>1. view' = view
        BY <1>5, <2>4, Zenon DEF view
      <3>2. since' = since
        BY <2>4, Zenon
      <3>3. \A i \in Keys : Steady(i)' => Steady(i) /\ view'[i] = view[i]
        BY <3>1, <3>2, Zenon DEF Steady
      <3> QED BY <1>2, <1>4, <2>1, <2>2, <3>1, <3>2, <3>3, SameRead, SameOrder, Zenon DEF iter
    <2> QED BY <2>3, <2>4, Zenon
  <1>7. IterInv'
    BY <1>1, <1>6, Zenon DEF IterInv, iter
  <1> QED BY <1>4, <1>7, Zenon

\* An iterator starts with the dirty keys of its domain sorted.
LEMMA DirtyItems ==
    ASSUME SafeIterators, IInv, NEW d \in Domains, dirtyItems(d),
           UNCHANGED <<value, cached, dirty, deleted>>
    PROVE  SortedInv' /\ Domain(d) \cap sorted' = Domain(d) \cap dirty /\ Domain(d) \cap unsorted' = {}
  <1> DEFINE moved == IF d[1] > d[2] THEN {}
                      ELSE IF Cardinality(unsorted) >= Threshold THEN unsorted
                      ELSE {k \in unsorted : KeyInDomain(k, d)}
  <1>1. FlagsInv /\ SortedInv
    BY Zenon DEF IInv
  <1>2. unsorted \subseteq Keys /\ sorted \subseteq Keys /\ moved \subseteq unsorted
    BY <1>1, Zenon DEF FlagsInv, SortedInv
  <1>3. /\ unsorted' = unsorted \ moved /\ sorted' = sorted \cup moved
        /\ \A k \in Keys : sortedValue'[k] = IF k \notin moved THEN sortedValue[k] ELSE Shown(value[k])
    BY Zenon DEF dirtyItems, Shown
  <1>4. \A k \in Domain(d) : k \in unsorted => k \in moved
    <2>1. d[1] \in Nat /\ d[2] \in Nat /\ (d[1] = 0 \/ d[2] # 0)
      <3>1. d[1] \in Keys \cup {0} /\ d[2] \in Keys \cup {0}
        BY DomainsAssumption, Zenon
      <3>2. d[1] = 0 \/ d[2] # 0
        BY Zenon DEF SafeIterators
      <3>3. \A x \in Keys \cup {0} : x \in Nat
        BY KeysAssumption
      <3> QED BY <3>1, <3>2, <3>3, Zenon
    <2>2. d[1] > d[2] => Domain(d) = {}
      <3> SUFFICES ASSUME d[1] > d[2], NEW k \in Domain(d) PROVE FALSE
        BY Zenon
      <3>1. k \in Nat /\ k >= d[1] /\ (d[2] = 0 \/ k < d[2])
        BY KeysAssumption, Zenon DEF Domain, KeyInDomain
      <3> QED BY <2>1, <3>1
    <2> QED BY <2>2, Zenon DEF Domain
  <1> HIDE DEF moved
  <1>5. SortedInv'
    BY <1>1, <1>2, <1>3 DEF SortedInv, Shown
  <1> QED BY <1>1, <1>2, <1>3, <1>4, <1>5, Zenon DEF SortedInv

LEMMA OpenIter ==
    ASSUME SafeIterators, IInv, NEW d \in Domains, NEW ascending, OpenIterator(d, ascending)
    PROVE  SortedInv' /\ IterInv'
  <1>1. /\ dirtyItems(d) /\ pc' = "open" /\ current' = FALSE /\ out' = {} /\ lastKey' = 0
        /\ p' = {k \in Domain(d) : parent[k] # Nil} /\ c' = Domain(d) \cap sorted'
        /\ snap' = sortedValue' /\ domain' = Domain(d) /\ since' = [k \in Keys |-> {view[k]}]
        /\ UNCHANGED <<parent, value, cached, dirty, deleted>>
    BY Zenon DEF OpenIterator
  <1>2. SortedInv' /\ c' = Domain(d) \cap dirty /\ Domain(d) \cap unsorted' = {}
    BY <1>1, DirtyItems, Zenon
  <1>3. FlagsInv /\ Domain(d) \subseteq Keys /\ view \in [Keys -> Maybe] /\ view' = view
    BY <1>1, ViewType, Zenon DEF IInv, Domain, view
  <1>4. \A k \in c' : snap'[k] = Shown(view[k])
    <2>1. \A k \in c' : k \in sorted' /\ k \notin unsorted' /\ k \in cached /\ k \in Keys
      BY <1>1, <1>2, <1>3, Zenon DEF FlagsInv
    <2>2. \A k \in c' : view[k] = value[k]
      BY <2>1, Zenon DEF view
    <2> QED BY <1>1, <1>2, <2>1, <2>2, Zenon DEF SortedInv, Shown
  <1>5. \A k \in Domain(d) : k \notin c' => view[k] = parent[k]
    BY <1>2, <1>3, Zenon DEF FlagsInv, view
  <1>6. MergeInv'
    <2>1. \A k \in Keys : view'[k] \in since'[k] /\ IsFiniteSet(since'[k])
      BY <1>1, <1>3, FS_Singleton, ZenonT(30)
    <2>2. since' \in [Keys -> SUBSET Maybe]
      BY <1>1, <1>3, Zenon
    <2>3. domain' \subseteq Keys /\ p' \subseteq domain' /\ c' \subseteq domain' \cap dirty'
          /\ \A k \in p' : parent'[k] # Nil
      BY <1>1, <1>2, <1>3, Zenon
    <2>4. \A k \in Keys : (k \in c' => snap'[k] = Shown(view'[k]))
                          /\ (k \in p' \ c' => view'[k] = parent'[k])
      BY <1>1, <1>3, <1>4, <1>5, Zenon
    <2> QED BY <2>1, <2>2, <2>3, <2>4, Zenon DEF MergeInv, Shown
  <1>7. OrderInv'
    BY <1>1, Zenon DEF OrderInv, Read
  <1>8. ReadInv'
    <2>1. \A k \in domain' : view'[k] # Nil => k \in p' \cup c'
      BY <1>1, <1>3, <1>5, Zenon
    <2> QED BY <1>1, <2>1, Zenon DEF ReadInv
  <1> QED BY <1>1, <1>2, <1>6, <1>7, <1>8, Zenon DEF IterInv

\* Steps that leave the store, and the time the iterator has been open, alone.
LEMMA SameStore ==
    ASSUME SortedInv, UNCHANGED <<store, since>>
    PROVE  SortedInv' /\ view' = view /\ \A k : Steady(k)' <=> Steady(k)
  BY DEF store, SortedInv, Shown, view, Steady

\* A key that is skipped is deleted, so it is not the one the iterator is on.
LEMMA SkipIter ==
    ASSUME SafeIterators, IInv, Skip
    PROVE  SortedInv' /\ IterInv'
  <1> DEFINE k0 == First(c)
  <1>1. FlagsInv /\ SortedInv /\ MergeInv /\ OrderInv /\ ReadInv
    BY Zenon DEF IInv, IterInv, Skip
  <1>2. /\ pc \in {"valid", "next"} /\ CacheFirst /\ k0 \in deleted /\ k0 # lastKey
        /\ c' = c \ {k0} /\ p' = p \ {k0}
        /\ UNCHANGED <<store, pc, up, snap, lastKey, current, out, domain, since>>
    BY Zenon DEF Skip, Skips
  <1>3. pc = "valid" /\ ~current
    BY <1>1, <1>2, Zenon DEF IInv, IterInv, OrderInv
  <1>4. k0 \in c /\ k0 \in Keys /\ view[k0] = Nil
    <2>1. k0 \in c
      BY <1>1, <1>2, FirstFacts, Zenon DEF CacheFirst, MergeInv, SafeIterators
    <2>2. k0 \in dirty /\ value[k0] = Nil /\ k0 \in cached /\ k0 \in Keys
      BY <1>1, <1>2, <2>1, Zenon DEF FlagsInv, SortedInv, MergeInv
    <2> QED BY <2>1, <2>2, Zenon DEF view
  <1> HIDE DEF k0
  <1>5. SortedInv' /\ view' = view /\ \A k : Steady(k)' <=> Steady(k)
    BY <1>1, <1>2, SameStore, Zenon
  <1>6. parent' = parent /\ dirty' = dirty
    BY <1>2, Zenon DEF store
  <1>7. MergeInv'
    BY <1>1, <1>2, <1>4, <1>5, <1>6, Zenon DEF MergeInv, Shown
  <1>8. Read' = Read
    BY <1>2, Zenon DEF Read
  <1>9. OrderInv'
    BY <1>1, <1>2, <1>3, <1>8, SameBefore, Zenon DEF OrderInv
  <1>10. ReadInv'
    BY <1>1, <1>2, <1>4, <1>5, <1>8, Zenon DEF ReadInv
  <1> QED BY <1>2, <1>3, <1>5, <1>7, <1>9, <1>10, Zenon DEF IterInv

\* Valid and CallNext.
LEMMA CallIter ==
    ASSUME IInv, Valid \/ CallNext
    PROVE  SortedInv' /\ IterInv'
  <1>1. FlagsInv /\ SortedInv /\ MergeInv /\ OrderInv /\ ReadInv
    BY Zenon DEF IInv, IterInv, Valid, CallNext
  <1>2. UNCHANGED <<store, up, p, c, snap, lastKey, current, out, domain, since>>
    BY Zenon DEF Valid, CallNext
  <1>3. SortedInv' /\ view' = view /\ \A k : Steady(k)' <=> Steady(k)
    BY <1>1, <1>2, SameStore, Zenon
  <1>4. parent' = parent /\ dirty' = dirty
    BY <1>2, Zenon DEF store
  <1>5. OrderInv'
    BY <1>1, <1>2, SameOrder, Zenon
  <1>6. MergeInv' /\ ReadInv'
    BY <1>1, <1>2, <1>3, <1>4, SameRead, Zenon DEF MergeInv
  <1> QED BY <1>2, <1>3, <1>5, <1>6, Zenon DEF IterInv, Valid, CallNext

\* The item that is read: a key beyond all read before, with its value.
LEMMA ItemFacts ==
    ASSUME SafeIterators, IInv, Item
    PROVE  /\ Key \in Keys /\ Key \in domain /\ Key \in p \cup c
           /\ \A i \in Read : Before(i, Key)
           /\ Steady(Key) =>
                view[Key] # Nil /\ view[Key] = IF CacheFirst THEN snap[Key] ELSE parent[Key]
  <1>1. FlagsInv /\ SortedInv /\ MergeInv /\ OrderInv /\ ~current
    BY Zenon DEF IInv, IterInv, Item
  <1>2. p \subseteq Keys /\ c \subseteq Keys /\ p \cup c # {} /\ IsFiniteSet(Keys)
    BY <1>1, Zenon DEF MergeInv, Item, SafeIterators
  <1>3. /\ Key \in p \cup c
        /\ CacheFirst => Key \in c /\ Key = First(c)
        /\ ~CacheFirst => Key \in p \ c
    BY <1>2, KeyFacts, Zenon
  <1>4. Key \in Keys /\ Key \in domain
    BY <1>1, <1>3, Zenon DEF MergeInv
  <1>5. \A i \in Read : Before(i, Key)
    BY <1>1, <1>3, Zenon DEF OrderInv
  <1>6. ASSUME Steady(Key), CacheFirst PROVE view[Key] # Nil /\ view[Key] = snap[Key]
    <2>1. Key # lastKey
      <3>1. lastKey \in Read => lastKey \in Keys /\ Before(lastKey, Key)
        BY <1>1, <1>5, Zenon DEF OrderInv
      <3>2. Key # 0
        BY <1>4, KeysAssumption, Zenon
      <3> QED BY <1>1, <1>4, <3>1, <3>2, Ordered, Zenon DEF OrderInv
    <2>2. Key \notin deleted
      BY <1>3, <1>6, <2>1, Zenon DEF Item, Skips
    <2>3. Key \in dirty /\ Key \in cached /\ value[Key] # Nil
      BY <1>1, <1>3, <1>6, <2>2, Zenon DEF MergeInv, FlagsInv
    <2>4. view[Key] = value[Key]
      BY <1>4, <2>3, Zenon DEF view
    <2>5. snap[Key] = Shown(view[Key])
      BY <1>1, <1>3, <1>4, <1>6, Zenon DEF MergeInv
    <2> QED BY <2>3, <2>4, <2>5, Zenon DEF Shown
  <1>7. ASSUME Steady(Key), ~CacheFirst PROVE view[Key] # Nil /\ view[Key] = parent[Key]
    BY <1>1, <1>3, <1>4, <1>7, Zenon DEF MergeInv
  <1> QED BY <1>3, <1>4, <1>5, <1>6, <1>7, Zenon

LEMMA ItemIter ==
    ASSUME SafeIterators, IInv, Item
    PROVE  SortedInv' /\ IterInv'
  <1> DEFINE k0 == Key
             v0 == IF CacheFirst THEN snap[Key] ELSE parent[Key]
  <1>1. FlagsInv /\ SortedInv /\ MergeInv /\ OrderInv /\ ReadInv /\ ~current
    BY Zenon DEF IInv, IterInv, Item
  <1>2. /\ out' = out \cup {<<k0, v0>>} /\ pc' = "open" /\ current' = TRUE
        /\ lastKey' = IF CacheFirst THEN First(c) ELSE lastKey
        /\ UNCHANGED <<store, up, p, c, snap, domain, since>>
    BY Zenon DEF Item
  <1>3. /\ k0 \in Keys /\ k0 \in domain /\ k0 \in p \cup c
        /\ \A i \in Read : Before(i, k0)
        /\ Steady(k0) => view[k0] # Nil /\ view[k0] = v0
    BY ItemFacts, Zenon
  <1>4. (\A j \in p \cup c : j = k0 \/ Before(k0, j)) /\ (CacheFirst => k0 = First(c))
    <2>1. p \subseteq Keys /\ c \subseteq Keys /\ p \cup c # {} /\ IsFiniteSet(Keys)
      BY <1>1, <1>3, Zenon DEF MergeInv, SafeIterators
    <2> QED BY <2>1, KeyFacts, Zenon
  <1>5. First(c)' = First(c) /\ (CacheFirst' <=> CacheFirst) /\ Key' = k0
    BY <1>2, SameKey, Zenon
  <1> HIDE DEF k0, v0
  <1>6. Read' = Read \cup {k0}
    <2> DEFINE x0 == <<k0, v0>>
    <2>1. x0[1] = k0 /\ out' = out \cup {x0}
      BY <1>2, Zenon
    <2> HIDE DEF x0
    <2> QED BY <2>1, Zenon DEF Read
  <1>7. SortedInv' /\ view' = view /\ \A k : Steady(k)' <=> Steady(k)
    BY <1>1, <1>2, SameStore, Zenon
  <1>8. parent' = parent /\ dirty' = dirty
    BY <1>2, Zenon DEF store
  <1>9. MergeInv'
    BY <1>1, <1>2, <1>7, <1>8, Zenon DEF MergeInv, Shown
  <1>10. OrderInv'
    <2>1. Read' \subseteq Keys /\ (lastKey' = 0 \/ lastKey' \in Read')
      BY <1>1, <1>2, <1>3, <1>4, <1>6, Zenon DEF OrderInv
    <2>2. \A i \in Read', j \in p \cup c : Before(i, j) \/ (i = j /\ i = k0)
      BY <1>1, <1>3, <1>4, <1>6, Zenon DEF OrderInv
    <2>3. p' \cup c' = p \cup c /\ p \cup c # {} /\ k0 \in Read'
      BY <1>2, <1>3, <1>6, ZenonT(30)
    <2> QED BY <1>2, <1>5, <2>1, <2>2, <2>3, SameBefore, Zenon DEF OrderInv
  <1>11. ReadInv'
    <2>1. \A k, v : <<k, v>> \in out' => <<k, v>> \in out \/ (k = k0 /\ v = v0)
      BY <1>2, Zenon
    <2> QED BY <1>1, <1>2, <1>3, <1>6, <1>7, <2>1 DEF ReadInv
  <1> QED BY <1>2, <1>7, <1>9, <1>10, <1>11, Zenon DEF IterInv

\* Next finds the iterator on the key that was read, and does not panic.
LEMMA AdvanceIter ==
    ASSUME SafeIterators, IInv, Advance
    PROVE  SortedInv' /\ IterInv'
  <1> DEFINE k0 == Key
  <1>1. FlagsInv /\ SortedInv /\ MergeInv /\ OrderInv /\ ReadInv /\ current
    BY Zenon DEF IInv, IterInv, Advance
  <1>2. p \cup c # {} /\ k0 \in Read
    BY <1>1, Zenon DEF OrderInv
  <1>3. /\ p' = p \ {k0} /\ c' = c \ {k0} /\ pc' = "open" /\ current' = FALSE
        /\ UNCHANGED <<store, up, snap, lastKey, out, domain, since>>
    BY <1>2, Zenon DEF Advance
  <1>4. \A i \in Read, j \in p \cup c : Before(i, j) \/ j = k0
    BY <1>1, Zenon DEF OrderInv
  <1> HIDE DEF k0
  <1>5. Read' = Read
    BY <1>3, Zenon DEF Read
  <1>6. SortedInv' /\ view' = view /\ \A k : Steady(k)' <=> Steady(k)
    BY <1>1, <1>3, SameStore, Zenon
  <1>7. parent' = parent /\ dirty' = dirty
    BY <1>3, Zenon DEF store
  <1>8. MergeInv'
    BY <1>1, <1>3, <1>6, <1>7, Zenon DEF MergeInv, Shown
  <1>9. OrderInv'
    BY <1>1, <1>3, <1>4, <1>5, SameBefore, Zenon DEF OrderInv
  <1>10. ReadInv'
    BY <1>1, <1>2, <1>3, <1>5, <1>6, Zenon DEF ReadInv
  <1> QED BY <1>3, <1>6, <1>8, <1>9, <1>10, Zenon DEF IterInv

LEMMA NextIter ==
    ASSUME SafeIterators, IInv, [CacheNext]_cacheVars
    PROVE  SortedInv' /\ IterInv'
  <1>0. FlagsInv /\ SortedInv /\ IterInv
    BY Zenon DEF IInv
  <1>1. ASSUME NEW k \in Keys, Get(k) PROVE SortedInv' /\ IterInv'
    <2>1. CASE k \in cached
      <3>1. UNCHANGED <<store, iter, since>>
        BY <1>1, <2>1, Zenon DEF Get
      <3>2. SortedInv' /\ view' = view /\ \A i : Steady(i)' <=> Steady(i)
        BY <1>0, <3>1, SameStore, Zenon
      <3>3. parent' = parent /\ dirty' = dirty
        BY <3>1, ZenonT(30) DEF store
      <3>4. ASSUME pc # "closed" PROVE MergeInv' /\ OrderInv' /\ ReadInv'
        <4>1. MergeInv /\ OrderInv /\ ReadInv
          BY <1>0, <3>4, Zenon DEF IterInv
        <4> QED BY <3>1, <3>2, <3>3, <4>1, SameRead, SameOrder, Zenon DEF MergeInv, iter
      <3> QED BY <1>0, <3>1, <3>2, <3>4, Zenon DEF IterInv, iter
    <2>2. CASE k \notin cached
      <3>1. setCacheValue(k, parent[k], FALSE, FALSE) /\ UNCHANGED <<iter, since>>
        BY <1>1, <2>2, Zenon DEF Get
      <3>2. parent[k] \in Maybe
        BY <1>0, Zenon DEF FlagsInv
      <3> QED BY <2>2, <3>1, <3>2, SetIter, Zenon
    <2> QED BY <2>1, <2>2, Zenon
  <1>2. ASSUME NEW k \in Keys, NEW v \in Values, Set(k, v) PROVE SortedInv' /\ IterInv'
    <2>1. /\ setCacheValue(k, v, FALSE, TRUE) /\ v \in Maybe /\ UNCHANGED iter
          /\ since' = IF pc = "closed" THEN since ELSE [since EXCEPT ![k] = @ \cup {v}]
      BY <1>2, Zenon DEF Set, Wrote
    <2> QED BY <2>1, SetIter, Zenon
  <1>3. ASSUME NEW k \in Keys, Delete(k) PROVE SortedInv' /\ IterInv'
    <2>1. /\ setCacheValue(k, Nil, TRUE, TRUE) /\ UNCHANGED iter
          /\ since' = IF pc = "closed" THEN since ELSE [since EXCEPT ![k] = @ \cup {Nil}]
      BY <1>3, Zenon DEF Delete, Wrote
    <2> QED BY <2>1, SetIter, Zenon
  <1>4. CASE Write \/ Discard
    <2>1. pc = "closed" /\ Clear
      BY <1>4, Zenon DEF Write, Discard
    <2> QED BY <2>1, Zenon DEF Clear, SortedInv, IterInv, iter
  <1>5. ASSUME NEW d \in Domains, NEW ascending \in BOOLEAN, OpenIterator(d, ascending)
        PROVE  SortedInv' /\ IterInv'
    BY <1>5, OpenIter, Zenon
  <1>6. CASE Close
    <2>1. pc' = "closed" /\ UNCHANGED store
      BY <1>6, Zenon DEF Close
    <2> QED BY <1>0, <2>1, Zenon DEF SortedInv, IterInv, store, Shown
  <1>7. CASE UNCHANGED cacheVars
    <2>1. UNCHANGED <<store, iter, since>>
      BY <1>7, Zenon DEF cacheVars
    <2>2. SortedInv' /\ view' = view /\ \A i : Steady(i)' <=> Steady(i)
      BY <1>0, <2>1, SameStore, Zenon
    <2>3. parent' = parent /\ dirty' = dirty
      BY <2>1, Zenon DEF store
    <2>4. ASSUME pc # "closed" PROVE MergeInv' /\ OrderInv' /\ ReadInv'
      <3>1. MergeInv /\ OrderInv /\ ReadInv
        BY <1>0, <2>4, Zenon DEF IterInv
      <3> QED BY <2>1, <2>2, <2>3, <3>1, SameRead, SameOrder, Zenon DEF MergeInv, iter
    <2> QED BY <1>0, <2>1, <2>2, <2>4, Zenon DEF IterInv, iter
  <1> QED BY <1>1, <1>2, <1>3, <1>4, <1>5, <1>6, <1>7, SkipIter, CallIter, ItemIter, AdvanceIter
      DEF CacheNext, Iterate

\* The invariant says what the property does: a key with one value since the
\* iterator was opened is steady, and what is left was not passed.
LEMMA IterIsExact ==
    ASSUME IInv, pc \in {"open", "valid", "next"}, NEW k \in Keys, Cardinality(since[k]) = 1
    PROVE  /\ \A v \in Maybe \cup {Blank} :
                  <<k, v>> \in out => k \in domain /\ v = view[k] /\ v # Nil
           /\ k \in domain /\ view[k] # Nil =>
                  k \in Read \/ (~Passed(k) /\ (k \in p \/ k \in c))
  <1>1. MergeInv /\ OrderInv /\ ReadInv
    BY Zenon DEF IInv, IterInv
  <1>2. Steady(k)
    <2>1. IsFiniteSet(since[k]) /\ view[k] \in since[k]
      BY <1>1, Zenon DEF MergeInv
    <2>2. PICK x : since[k] = {x}
      BY <2>1, FS_Singleton, Zenon
    <2> QED BY <2>1, <2>2, Zenon DEF Steady
  <1>3. ASSUME k \in p \cup c, k \notin Read PROVE ~Passed(k)
    <2> SUFFICES ASSUME NEW i \in Read, Before(k, i) PROVE FALSE
      BY <1>3, Zenon DEF Passed
    <2>1. Before(i, k) /\ i \in Keys
      BY <1>1, <1>3, Zenon DEF OrderInv
    <2> QED BY <2>1, Ordered, Zenon
  <1> QED BY <1>1, <1>2, <1>3, Zenon DEF ReadInv

\* An iterator reports every key of its domain whose value nobody changes while
\* it is open, with that value, and no other such key; and the items come in the
\* order of the keys, whatever is written meanwhile: dirtyItems sorts what the
\* merge of cacheMergeIterator needs, and skipUntilExistsOrInvalid passes over
\* deleted keys and nothing else.
THEOREM IteratorIsExact == ASSUME SafeIterators PROVE CacheSpec => IteratorExact
  <1>1. CacheInit => IInv
    BY InitFlags, InitIter, Zenon DEF IInv
  <1>2. IInv /\ [CacheNext]_cacheVars => IInv'
    BY NextFlags, NextIter, Zenon DEF IInv
  <1>3. IInv => (pc \in {"open", "valid", "next"} =>
                   \A k \in Keys : Cardinality(since[k]) = 1 =>
                       /\ \A v \in Maybe \cup {Blank} :
                              <<k, v>> \in out => k \in domain /\ v = view[k] /\ v # Nil
                       /\ k \in domain /\ view[k] # Nil =>
                              \/ k \in Read
                              \/ ~Passed(k) /\ (k \in p \/ k \in c))
    BY IterIsExact, Zenon
  <1>4. IInv /\ [CacheNext]_cacheVars => [~current /\ current' => \A i \in Read : Before(i, Key)]_cacheVars
    <2> SUFFICES ASSUME IInv, [CacheNext]_cacheVars, ~current, current', NEW i \in Read
                 PROVE  Before(i, Key)
      BY Zenon
    <2>1. Item
      BY Zenon DEF CacheNext, Get, Set, Delete, Wrote, Write, Discard, Clear, OpenIterator, Iterate, Skip,
             Valid, CallNext, Advance, Close, iter, cacheVars
    <2> QED BY <2>1, ItemFacts, Zenon
  <1> QED BY <1>1, <1>2, <1>3, <1>4, PTL DEF CacheSpec, IteratorExact
=============================================================================
