------------------------------ MODULE CacheKV ------------------------------
(***************************************************************************)
(* The cachekv store that branches a key-value store: every transaction,   *)
(* the check state and the deliver state run on one. Its contents are      *)
(* spread over a map, the set of deleted keys, the keys not sorted yet and *)
(* a sorted copy that only iterators use and refresh. An iterator merges   *)
(* the parent with the sorted copy; modules may write while it is open.    *)
(*                                                                         *)
(* Keys are positive numbers in their order; 0 is a nil bound of a domain, *)
(* whose string is empty and smaller than any key.                         *)
(***************************************************************************)
EXTENDS Integers, FiniteSets

CONSTANTS
    Keys, Values,
    Nil,            \* no value
    Blank,          \* the empty value that stands for a deleted key in sortedCache
    Domains,        \* the <<start, end>> that iterators are opened with
    Threshold,      \* unsorted keys from which on all of them are sorted (256)
    MaxWrites       \* bound: Set and Delete calls in one branch

ASSUME KeysAssumption == Keys \subseteq Nat \ {0}
ASSUME ValuesAssumption == Nil \notin Values /\ Blank \notin Values /\ Nil # Blank
ASSUME DomainsAssumption == Domains \subseteq (Keys \cup {0}) \X (Keys \cup {0})
ASSUME CacheBoundsAssumption == Threshold \in Nat \ {0} /\ MaxWrites \in Nat

VARIABLES
    parent,         \* the parent store
    value,          \* cache[k].value, Nil too when the key is not in the cache
    cached,         \* the keys in the cache
    dirty,          \* the keys in the cache with the dirty flag
    deleted,        \* store.deleted
    unsorted,       \* store.unsortedCache
    sorted,         \* the keys in store.sortedCache
    sortedValue,    \* their values
    reply,          \* the answer to the last Get
    \* the iterator
    pc,             \* "closed", "open", or inside "valid" or "next"
    up,             \* ascending
    p, c,           \* the keys the parent's and the cache's iterator have left
    snap,           \* the values the cache's iterator has
    lastKey,        \* memIterator.lastKey, 0 for nil
    current,        \* is the iterator on an item that was read
    out,            \* the items read, as <<key, value>>
    \* what the properties compare with
    domain,         \* the keys of the iterator's domain
    since,          \* the values each key had since the iterator was opened
    writes

store == <<parent, value, cached, dirty, deleted, unsorted, sorted, sortedValue>>
iter  == <<pc, up, p, c, snap, lastKey, current, out, domain>>
cacheVars == <<store, reply, iter, since, writes>>

-----------------------------------------------------------------------------
\* What the store contains: the cache, and the parent where it has nothing.
view == [k \in Keys |-> IF k \in cached THEN value[k] ELSE parent[k]]

KeyInDomain(k, d) == k >= d[1] /\ (d[2] = 0 \/ k < d[2])
Domain(d) == {k \in Keys : KeyInDomain(k, d)}

NoValue == [k \in Keys |-> Nil]

CacheInit ==
    /\ parent \in [Keys -> Values \cup {Nil}]
    /\ value = NoValue /\ cached = {} /\ dirty = {} /\ deleted = {}
    /\ unsorted = {} /\ sorted = {} /\ sortedValue = NoValue
    /\ reply = Nil
    /\ pc = "closed" /\ up = TRUE /\ p = {} /\ c = {} /\ snap = NoValue /\ lastKey = 0
    /\ current = FALSE /\ out = {} /\ domain = {} /\ since = [k \in Keys |-> {}]
    /\ writes = 0

Idle == pc \in {"closed", "open"}

\* Mutant of setCacheValue: a key that is set again stays deleted.
setCacheValueKeepsDeleted(k, v, isDeleted, isDirty) ==
    /\ value' = [value EXCEPT ![k] = v] /\ cached' = cached \cup {k}
    /\ dirty' = IF isDirty THEN dirty \cup {k} ELSE dirty \ {k}
    /\ deleted' = IF isDeleted THEN deleted \cup {k} ELSE deleted
    /\ unsorted' = IF isDirty THEN unsorted \cup {k} ELSE unsorted
    /\ UNCHANGED <<parent, sorted, sortedValue>>

setCacheValue(k, v, isDeleted, isDirty) ==
    /\ value' = [value EXCEPT ![k] = v] /\ cached' = cached \cup {k}
    /\ dirty' = IF isDirty THEN dirty \cup {k} ELSE dirty \ {k}
    /\ deleted' = IF isDeleted THEN deleted \cup {k} ELSE deleted \ {k}
    /\ unsorted' = IF isDirty THEN unsorted \cup {k} ELSE unsorted
    /\ UNCHANGED <<parent, sorted, sortedValue>>

Get(k) ==
    /\ Idle
    /\ IF k \in cached
         THEN reply' = value[k] /\ UNCHANGED store
         ELSE reply' = parent[k] /\ setCacheValue(k, parent[k], FALSE, FALSE)
    /\ UNCHANGED <<iter, since, writes>>

Wrote(k, v) ==
    /\ writes < MaxWrites /\ writes' = writes + 1
    /\ since' = IF pc = "closed" THEN since ELSE [since EXCEPT ![k] = @ \cup {v}]
    /\ UNCHANGED <<reply, iter>>

Set(k, v) == Idle /\ setCacheValue(k, v, FALSE, TRUE) /\ Wrote(k, v)

Delete(k) == Idle /\ setCacheValue(k, Nil, TRUE, TRUE) /\ Wrote(k, Nil)

Clear ==
    /\ value' = NoValue /\ cached' = {} /\ dirty' = {} /\ deleted' = {}
    /\ unsorted' = {} /\ sorted' = {} /\ sortedValue' = NoValue
    /\ writes' = 0
    /\ UNCHANGED <<reply, iter, since>>

\* The dirty keys go to the parent and the cache is cleared. A dirty key has a
\* value or is deleted; one that is neither would be skipped.
Write ==
    /\ pc = "closed"
    /\ parent' = [k \in Keys |->
                    IF k \notin dirty THEN parent[k]
                    ELSE IF k \in deleted THEN Nil
                    ELSE IF value[k] = Nil THEN parent[k]
                    ELSE value[k]]
    /\ Clear

\* The branch is dropped without Write and a new one is taken.
Discard == pc = "closed" /\ UNCHANGED parent /\ Clear

-----------------------------------------------------------------------------
(* The iterator                                                            *)

\* Mutant of dirtyItems: the keys leave the unsorted set all at once.
dirtyItemsForgets(d) ==
    LET moved == {k \in unsorted : KeyInDomain(k, d)}
    IN  /\ unsorted' = {}
        /\ sorted' = sorted \cup moved
        /\ sortedValue' = [k \in Keys |-> IF k \notin moved THEN sortedValue[k]
                                          ELSE IF value[k] = Nil THEN Blank ELSE value[k]]

\* dirtyItems and clearUnsortedCacheSubset: unsorted keys go to the sorted
\* copy, those in the domain or, when there are many, all. Nothing is done
\* when the string of start is greater than that of end, which is empty for a
\* nil end. A deleted key is stored with an empty value.
dirtyItems(d) ==
    LET moved == IF d[1] > d[2] THEN {}
                 ELSE IF Cardinality(unsorted) >= Threshold THEN unsorted
                 ELSE {k \in unsorted : KeyInDomain(k, d)}
    IN  /\ unsorted' = unsorted \ moved
        /\ sorted' = sorted \cup moved
        /\ sortedValue' = [k \in Keys |-> IF k \notin moved THEN sortedValue[k]
                                          ELSE IF value[k] = Nil THEN Blank ELSE value[k]]

\* iterator: the iterators of the parent and of the sorted copy.
OpenIterator(d, ascending) ==
    /\ pc = "closed"
    /\ dirtyItems(d)
    /\ pc' = "open" /\ up' = ascending
    /\ p' = {k \in Domain(d) : parent[k] # Nil}
    /\ c' = Domain(d) \cap sorted'
    /\ snap' = sortedValue' /\ lastKey' = 0 /\ current' = FALSE /\ out' = {}
    /\ domain' = Domain(d)
    /\ since' = [k \in Keys |-> {view[k]}]
    /\ UNCHANGED <<parent, value, cached, dirty, deleted, reply, writes>>

Before(i, j) == IF up THEN i < j ELSE j < i
First(S) == CHOOSE i \in S : \A j \in S : i = j \/ Before(i, j)

\* The cache's iterator is the one to read: its key comes first, or the two
\* are equal and the cache shadows the parent.
CacheFirst == c # {} /\ \A i \in p : ~Before(i, First(c))
Key == IF CacheFirst THEN First(c) ELSE First(p)

\* memIterator.Value is nil for a key that is deleted by now, unless it is the
\* key whose value was read before.
Skips == CacheFirst /\ First(c) \in deleted /\ First(c) # lastKey

\* One round of skipUntilExistsOrInvalid.
Skip ==
    /\ pc \in {"valid", "next"} /\ Skips
    /\ c' = c \ {First(c)} /\ p' = p \ {First(c)}
    /\ UNCHANGED <<store, reply, pc, up, snap, lastKey, current, out, domain, since, writes>>

\* The loop of the caller: Valid, Key and Value, then Next.
Valid == pc = "open" /\ ~current /\ pc' = "valid"
         /\ UNCHANGED <<store, reply, up, p, c, snap, lastKey, current, out, domain, since, writes>>

Item ==
    /\ pc = "valid" /\ ~Skips /\ p \cup c # {}
    /\ out' = out \cup {<<Key, IF CacheFirst THEN snap[Key] ELSE parent[Key]>>}
    /\ lastKey' = IF CacheFirst THEN First(c) ELSE lastKey
    /\ pc' = "open" /\ current' = TRUE
    /\ UNCHANGED <<store, reply, up, p, c, snap, domain, since, writes>>

CallNext == pc = "open" /\ current /\ pc' = "next"
            /\ UNCHANGED <<store, reply, up, p, c, snap, lastKey, current, out, domain, since, writes>>

\* Next moves the parent's iterator, the cache's or both. assertValid panics
\* when nothing is left.
Advance ==
    /\ pc = "next" /\ ~Skips
    /\ IF p \cup c = {} THEN pc' = "panic" /\ UNCHANGED <<p, c, current>>
       ELSE p' = p \ {Key} /\ c' = c \ {Key} /\ pc' = "open" /\ current' = FALSE
    /\ UNCHANGED <<store, reply, up, snap, lastKey, out, domain, since, writes>>

\* The iterator is exhausted, or the caller has seen enough.
Close ==
    /\ \/ pc = "open"
       \/ pc = "valid" /\ ~Skips /\ p \cup c = {}
    /\ pc' = "closed" /\ up' = TRUE /\ p' = {} /\ c' = {} /\ snap' = NoValue /\ lastKey' = 0
    /\ current' = FALSE /\ out' = {} /\ domain' = {} /\ since' = [k \in Keys |-> {}]
    /\ UNCHANGED <<store, reply, writes>>

Iterate == Skip \/ Valid \/ Item \/ CallNext \/ Advance \/ Close

CacheNext ==
    \/ \E k \in Keys : Get(k) \/ Delete(k) \/ \E v \in Values : Set(k, v)
    \/ Write
    \/ Discard
    \/ \E d \in Domains, ascending \in BOOLEAN : OpenIterator(d, ascending)
    \/ Iterate

CacheSpec == CacheInit /\ [][CacheNext]_cacheVars

-----------------------------------------------------------------------------
(* Properties                                                              *)

Maybe == Values \cup {Nil}

\* The branch is a private copy of its parent: Get, Set, Delete, Write and
\* dropping it do what they do on a plain map, and reading through the cache
\* and iterating change nothing.
Map == INSTANCE KVStore WITH base <- parent, view <- view
Branch == Map!Spec

\* The keys read so far, and whether the iterator is past a key.
Read == {x[1] : x \in out}
Passed(k) == k \in Read \/ \E i \in Read : Before(k, i)

\* An iterator reports every key of its domain that nobody writes while it is
\* open, with the value the store has for it, and no other such key. The key
\* written by the caller may be the one the iterator stands on. Iteration is in
\* order and reports no key twice, whatever is written meanwhile: the next item
\* lies beyond all those read before.
IteratorExact ==
    /\ [](pc \in {"open", "valid", "next"} =>
            \A k \in Keys : Cardinality(since[k]) = 1 =>
                /\ \A v \in Maybe \cup {Blank} :
                       <<k, v>> \in out => k \in domain /\ v = view[k] /\ v # Nil
                /\ k \in domain /\ view[k] # Nil =>
                       \/ k \in Read
                       \/ ~Passed(k) /\ (k \in p \/ k \in c))
    /\ [][~current /\ current' => \A i \in Read : Before(i, Key)]_cacheVars
=============================================================================
