-------------------------- MODULE CapabilityProofs --------------------------
(***************************************************************************)
(* The persisted owners, the two indexes of the memory store and the Go    *)
(* map agree, for any modules, names, addresses and number of blocks and   *)
(* crashes, with transactions that fail and simulations that leave the map *)
(* as they changed it, until one of them tears map and store apart.        *)
(***************************************************************************)
EXTENDS Capability, TLAPS

Forward == [Modules \X Addresses -> Names \cup {0}]
Reverse == [Owner -> Indices \cup {0}]
Owners  == [Indices -> SUBSET Owner]
Maps    == [Indices -> Addresses \cup {NoAddress}]
States  == [index : Nat \ {0}, owners : Owners, init : BOOLEAN, fwd : Forward, rev : Reverse]

TypeOK ==
    /\ committed \in States /\ deliver \in States /\ tx \in States /\ capMap \in Maps
    /\ mode \in {"down", "idle", "block", "tx", "simulate"}
    /\ held \subseteq Addresses \X Indices
    /\ touched \subseteq Indices

\* A name of a module stands for one capability, and a module owns a capability
\* under one name.
OwnersOnce(owners) ==
    /\ \A o \in Owner : \A i, j \in Indices : o \in owners[i] /\ o \in owners[j] => i = j
    /\ \A m \in Modules, k, n \in Names : \A i \in Indices :
          <<m, k>> \in owners[i] /\ <<m, n>> \in owners[i] => k = n

\* The persistent store: indices not given out have no owners.
Persisted(s) ==
    (\A i \in Indices : s.index <= i => s.owners[i] = {}) /\ OwnersOnce(s.owners)

\* An address is that of one capability.
Distinct(cm) == \A i, j \in Indices : cm[i] = cm[j] => i = j \/ cm[i] = NoAddress

\* The module m owns the capability at address a under the name n.
Owns(owners, cm, m, a, n) == \E i \in Indices : cm[i] = a /\ <<m, n>> \in owners[i]

\* The memory store and the map are those of the owners: the reverse index finds
\* what has the owner, a capability with owners is in the map, and the forward index
\* tells, for its address, the name each owner has for it, and nothing else.
Linked(owners, fwd, rev, cm) ==
    /\ Distinct(cm)
    /\ \A o \in Owner : \A i \in Indices : o \in owners[i] <=> rev[o] = i
    /\ \A i \in Indices : owners[i] # {} => cm[i] # NoAddress
    /\ \A m \in Modules, n \in Names : \A a \in Addresses :
          fwd[<<m, a>>] = n <=> Owns(owners, cm, m, a, n)

InMemory(s) == Linked(s.owners, s.fwd, s.rev, capMap)

\* What a module holds is older than the next index, and its address is not that of
\* another capability.
HeldInv ==
    \A h \in held : h[2] < tx.index /\ \A i \in Indices : capMap[i] = h[1] => i = h[2]

\* The map is that of the branch a transaction runs on. It is still that of the
\* state of the block, which a transaction or simulation that is dropped leaves,
\* unless dropping it now would tear the two apart.
Intact ==
    /\ TypeOK /\ Persisted(committed)
    /\ mode = "down" => ~committed.init
    /\ mode = "idle" /\ committed.init => InMemory(committed)
    /\ mode = "block" => Persisted(deliver) /\ InMemory(deliver)
    /\ Running => Persisted(deliver) /\ (Torn \/ InMemory(deliver))
    /\ mode = "tx" => Persisted(tx) /\ InMemory(tx) /\ HeldInv

IInv == torn \/ Intact

-----------------------------------------------------------------------------
(* The indexes of the owners                                               *)

LEMMA LargestFacts ==
    /\ Largest({}) = 0
    /\ \A x \in Nat : Largest({x}) = x
  BY DEF Largest

\* The map entry of a capability without owners, for an address that is free.
LEMMA MapLinked ==
    ASSUME NEW ow \in Owners, NEW fwd \in Forward, NEW rev \in Reverse, NEW cm \in Maps,
           Linked(ow, fwd, rev, cm), NEW i \in Indices, NEW a \in Addresses,
           ow[i] = {}, \A j \in Indices : cm[j] # a
    PROVE  Linked(ow, fwd, rev, [cm EXCEPT ![i] = a])
  <1> DEFINE cm2 == [cm EXCEPT ![i] = a]
  <1>1. \A j \in Indices : cm2[j] = IF j = i THEN a ELSE cm[j]
    BY Zenon DEF Maps
  <1> HIDE DEF cm2
  <1>2. Distinct(cm2) /\ \A j \in Indices : ow[j] # {} => cm2[j] # NoAddress
    BY <1>1 DEF Linked, Distinct
  <1>3. ASSUME NEW x \in Modules, NEW k \in Names, NEW b \in Addresses
        PROVE  fwd[<<x, b>>] = k <=> Owns(ow, cm2, x, b, k)
    <2>1. fwd[<<x, b>>] = k <=> Owns(ow, cm, x, b, k)
      BY Zenon DEF Linked
    <2>2. Owns(ow, cm, x, b, k) <=> Owns(ow, cm2, x, b, k)
      BY <1>1, Zenon DEF Owns
    <2> QED BY <2>1, <2>2, Zenon
  <1>4. Linked(ow, fwd, rev, cm2)
    BY <1>2, <1>3, Zenon DEF Linked
  <1> QED BY <1>4, Zenon DEF cm2

\* No map entry for a capability without owners.
LEMMA UnmapLinked ==
    ASSUME NEW ow \in Owners, NEW fwd \in Forward, NEW rev \in Reverse, NEW cm \in Maps,
           Linked(ow, fwd, rev, cm), NEW i \in Indices, ow[i] = {}
    PROVE  Linked(ow, fwd, rev, [cm EXCEPT ![i] = NoAddress])
  <1> DEFINE cm2 == [cm EXCEPT ![i] = NoAddress]
  <1>1. \A j \in Indices : cm2[j] = IF j = i THEN NoAddress ELSE cm[j]
    BY Zenon DEF Maps
  <1> HIDE DEF cm2
  <1>2. Distinct(cm2) /\ \A j \in Indices : ow[j] # {} => cm2[j] # NoAddress
    BY <1>1 DEF Linked, Distinct
  <1>3. ASSUME NEW x \in Modules, NEW k \in Names, NEW b \in Addresses
        PROVE  fwd[<<x, b>>] = k <=> Owns(ow, cm2, x, b, k)
    <2>1. fwd[<<x, b>>] = k <=> Owns(ow, cm, x, b, k)
      BY Zenon DEF Linked
    <2>2. Owns(ow, cm, x, b, k) <=> Owns(ow, cm2, x, b, k)
      BY CapabilityAssumption, <1>1, Zenon DEF Owns
    <2> QED BY <2>1, <2>2, Zenon
  <1>4. Linked(ow, fwd, rev, cm2)
    BY <1>2, <1>3, Zenon DEF Linked
  <1> QED BY <1>4, Zenon DEF cm2

\* Another owner of a capability in the map, under a name that is free.
LEMMA ClaimLinked ==
    ASSUME NEW ow \in Owners, NEW fwd \in Forward, NEW rev \in Reverse, NEW cm \in Maps,
           Linked(ow, fwd, rev, cm),
           NEW m \in Modules, NEW n \in Names, NEW i \in Indices, NEW a \in Addresses,
           rev[<<m, n>>] = 0, fwd[<<m, a>>] = 0, cm[i] = a
    PROVE  Linked([ow EXCEPT ![i] = @ \cup {<<m, n>>}], [fwd EXCEPT ![<<m, a>>] = n],
                  [rev EXCEPT ![<<m, n>>] = i], cm)
  <1> DEFINE ow2 == [ow EXCEPT ![i] = @ \cup {<<m, n>>}]
             fwd2 == [fwd EXCEPT ![<<m, a>>] = n]
             rev2 == [rev EXCEPT ![<<m, n>>] = i]
  <1>1. /\ \A j \in Indices : ow2[j] = IF j = i THEN ow[i] \cup {<<m, n>>} ELSE ow[j]
        /\ \A x \in Modules, b \in Addresses :
              fwd2[<<x, b>>] = IF x = m /\ b = a THEN n ELSE fwd[<<x, b>>]
        /\ \A o \in Owner : rev2[o] = IF o = <<m, n>> THEN i ELSE rev[o]
    BY Zenon DEF Owners, Forward, Reverse, Owner
  <1> HIDE DEF ow2, fwd2, rev2
  <1>2. \A j \in Indices : cm[j] = a => j = i
    BY CapabilityAssumption DEF Linked, Distinct
  <1>3. \A j \in Indices : ow2[j] # {} => cm[j] # NoAddress
    BY CapabilityAssumption, <1>1 DEF Linked
  <1>4. \A o \in Owner : \A j \in Indices : o \in ow2[j] <=> rev2[o] = j
    BY <1>1 DEF Linked, Indices
  <1>5. ASSUME NEW x \in Modules, NEW k \in Names, NEW b \in Addresses
        PROVE  fwd2[<<x, b>>] = k <=> Owns(ow2, cm, x, b, k)
    <2>1. fwd[<<x, b>>] = k <=> Owns(ow, cm, x, b, k)
      BY Zenon DEF Linked
    <2>2. CASE x = m /\ b = a
      <3>1. \A j \in Indices : cm[j] = a => <<m, k>> \notin ow[j]
        BY CapabilityAssumption, <2>1, <2>2, Zenon DEF Owns
      <3> QED BY <1>1, <1>2, <2>2, <3>1 DEF Owns
    <2>3. CASE ~(x = m /\ b = a)
      BY <1>1, <1>2, <2>1, <2>3 DEF Owns
    <2> QED BY <2>2, <2>3, Zenon
  <1>6. Linked(ow2, fwd2, rev2, cm)
    BY <1>3, <1>4, <1>5, Zenon DEF Linked
  <1> QED BY <1>6, Zenon DEF ow2, fwd2, rev2

\* A new capability, with the first owner, under a free name and at a free address.
LEMMA NewLinked ==
    ASSUME NEW ow \in Owners, NEW fwd \in Forward, NEW rev \in Reverse, NEW cm \in Maps,
           Linked(ow, fwd, rev, cm),
           NEW m \in Modules, NEW n \in Names, NEW i \in Indices, NEW a \in Addresses,
           rev[<<m, n>>] = 0, ow[i] = {}, \A j \in Indices : cm[j] # a
    PROVE  Linked([ow EXCEPT ![i] = @ \cup {<<m, n>>}], [fwd EXCEPT ![<<m, a>>] = n],
                  [rev EXCEPT ![<<m, n>>] = i], [cm EXCEPT ![i] = a])
  <1> DEFINE cm2 == [cm EXCEPT ![i] = a]
  <1>1. cm2 \in Maps /\ cm2[i] = a
    BY Zenon DEF Maps
  <1>2. Linked(ow, fwd, rev, cm2)
    BY MapLinked, Zenon
  <1>3. fwd[<<m, a>>] = 0
    <2>1. \A k \in Names : fwd[<<m, a>>] = k <=> Owns(ow, cm, m, a, k)
      BY Zenon DEF Linked
    <2> QED BY <2>1, Zenon DEF Owns, Forward
  <1> HIDE DEF cm2
  <1>4. Linked([ow EXCEPT ![i] = @ \cup {<<m, n>>}], [fwd EXCEPT ![<<m, a>>] = n],
               [rev EXCEPT ![<<m, n>>] = i], cm2)
    BY <1>1, <1>2, <1>3, ClaimLinked, Zenon
  <1> QED BY <1>4, Zenon DEF cm2

\* An owner less, and the capability out of the map with the last one.
LEMMA ReleaseLinked ==
    ASSUME NEW ow \in Owners, NEW fwd \in Forward, NEW rev \in Reverse, NEW cm \in Maps,
           Linked(ow, fwd, rev, cm),
           NEW m \in Modules, NEW n \in Names, NEW i \in Indices, NEW a \in Addresses,
           fwd[<<m, a>>] = n, cm[i] = a
    PROVE  /\ ow[i] = {<<m, n>>} =>
                Linked([ow EXCEPT ![i] = @ \ {<<m, n>>}], [fwd EXCEPT ![<<m, a>>] = 0],
                       [rev EXCEPT ![<<m, n>>] = 0], [cm EXCEPT ![i] = NoAddress])
           /\ Linked([ow EXCEPT ![i] = @ \ {<<m, n>>}], [fwd EXCEPT ![<<m, a>>] = 0],
                     [rev EXCEPT ![<<m, n>>] = 0], cm)
  <1> DEFINE ow2 == [ow EXCEPT ![i] = @ \ {<<m, n>>}]
             fwd2 == [fwd EXCEPT ![<<m, a>>] = 0]
             rev2 == [rev EXCEPT ![<<m, n>>] = 0]
             cm2 == [cm EXCEPT ![i] = NoAddress]
  <1>1. /\ \A j \in Indices : ow2[j] = IF j = i THEN ow[i] \ {<<m, n>>} ELSE ow[j]
        /\ \A x \in Modules, b \in Addresses :
              fwd2[<<x, b>>] = IF x = m /\ b = a THEN 0 ELSE fwd[<<x, b>>]
        /\ \A o \in Owner : rev2[o] = IF o = <<m, n>> THEN 0 ELSE rev[o]
        /\ \A j \in Indices : cm2[j] = IF j = i THEN NoAddress ELSE cm[j]
    BY Zenon DEF Owners, Forward, Reverse, Maps, Owner
  <1> HIDE DEF ow2, fwd2, rev2, cm2
  <1>2. \A j \in Indices : cm[j] = a => j = i
    BY CapabilityAssumption, Zenon DEF Linked, Distinct
  <1>3. <<m, n>> \in ow[i] /\ rev[<<m, n>>] = i
    BY <1>2 DEF Linked, Owner, Owns
  <1>4. Distinct(cm2) /\ \A j \in Indices : ow2[j] # {} => cm[j] # NoAddress
    BY <1>1 DEF Linked, Distinct
  <1>5. \A o \in Owner : \A j \in Indices : o \in ow2[j] <=> rev2[o] = j
    BY <1>1, <1>3 DEF Linked, Indices
  <1>6. ASSUME NEW x \in Modules, NEW k \in Names, NEW b \in Addresses
        PROVE  fwd2[<<x, b>>] = k <=> Owns(ow2, cm, x, b, k)
    <2>1. fwd[<<x, b>>] = k <=> Owns(ow, cm, x, b, k)
      BY Zenon DEF Linked
    <2>2. CASE x = m /\ b = a
      <3>1. k # n => <<m, k>> \notin ow[i]
        BY <2>1, <2>2, Zenon DEF Owns
      <3> QED BY CapabilityAssumption, <1>1, <1>2, <2>2, <3>1 DEF Owns
    <2>3. CASE ~(x = m /\ b = a)
      BY <1>1, <1>2, <2>1, <2>3 DEF Owns
    <2> QED BY <2>2, <2>3, Zenon
  <1>7. Linked(ow2, fwd2, rev2, cm)
    BY <1>4, <1>5, <1>6, Zenon DEF Linked
  <1>8. ASSUME ow[i] = {<<m, n>>} PROVE Linked(ow2, fwd2, rev2, cm2)
    <2>1. ow2[i] = {} /\ \A j \in Indices : j # i => cm2[j] = cm[j]
      BY <1>1, <1>8, Zenon
    <2>2. cm2[i] = NoAddress
      BY <1>1, Zenon
    <2>3. ASSUME NEW x \in Modules, NEW k \in Names, NEW b \in Addresses
          PROVE  fwd2[<<x, b>>] = k <=> Owns(ow2, cm2, x, b, k)
      <3>1. fwd2[<<x, b>>] = k <=> Owns(ow2, cm, x, b, k)
        BY <1>6, Zenon
      <3> QED BY <2>1, <2>2, <3>1, Zenon DEF Owns
    <2> QED BY <1>4, <1>5, <2>1, <2>3 DEF Linked
  <1> QED BY <1>7, <1>8, Zenon DEF ow2, fwd2, rev2, cm2

\* The entries the calls write.
LEMMA Entries ==
    ASSUME NEW ow \in Owners, NEW fwd \in Forward, NEW rev \in Reverse, NEW cm \in Maps,
           NEW m \in Modules, NEW n \in Names, NEW i \in Indices, NEW a \in Addresses
    PROVE  /\ [ow EXCEPT ![i] = @ \cup {<<m, n>>}] \in Owners
           /\ [ow EXCEPT ![i] = @ \ {<<m, n>>}] \in Owners
           /\ [fwd EXCEPT ![<<m, a>>] = n] \in Forward /\ [fwd EXCEPT ![<<m, a>>] = 0] \in Forward
           /\ [rev EXCEPT ![<<m, n>>] = i] \in Reverse /\ [rev EXCEPT ![<<m, n>>] = 0] \in Reverse
           /\ [cm EXCEPT ![i] = a] \in Maps /\ [cm EXCEPT ![i] = NoAddress] \in Maps
  <1>1. <<m, n>> \in Owner
    BY Zenon DEF Owner
  <1> QED BY <1>1, Zenon DEF Owners, Forward, Reverse, Maps

LEMMA LinkedOnce ==
    ASSUME NEW ow \in Owners, NEW fwd \in Forward, NEW rev \in Reverse, NEW cm \in Maps,
           Linked(ow, fwd, rev, cm)
    PROVE  OwnersOnce(ow)
  <1>1. \A o \in Owner : \A i, j \in Indices : o \in ow[i] /\ o \in ow[j] => i = j
    BY DEF Linked
  <1>2. ASSUME NEW m \in Modules, NEW k \in Names, NEW n \in Names, NEW i \in Indices,
               <<m, k>> \in ow[i], <<m, n>> \in ow[i]
        PROVE  k = n
    <2>1. cm[i] \in Addresses
      BY <1>2 DEF Linked, Maps
    <2>2. Owns(ow, cm, m, cm[i], k) /\ Owns(ow, cm, m, cm[i], n)
      BY <1>2, Zenon DEF Owns
    <2>3. fwd[<<m, cm[i]>>] = k /\ fwd[<<m, cm[i]>>] = n
      BY <2>1, <2>2, ZenonT(30) DEF Linked
    <2> QED BY <2>3, Zenon
  <1> QED BY <1>1, <1>2, Zenon DEF OwnersOnce

\* What InitMemStore puts in the reverse index, and the name it leaves for a
\* capability of a module.
LEMMA RevOfExact ==
    ASSUME NEW ow \in Owners, OwnersOnce(ow)
    PROVE  /\ RevOf(ow) \in Reverse
           /\ \A o \in Owner : \A i \in Indices : o \in ow[i] <=> RevOf(ow)[o] = i
  <1>1. ASSUME NEW o \in Owner
        PROVE  /\ RevOf(ow)[o] \in Indices \cup {0}
               /\ \A i \in Indices : o \in ow[i] <=> RevOf(ow)[o] = i
    <2> DEFINE S == {i \in Indices : o \in ow[i]}
    <2>1. RevOf(ow)[o] = Largest(S)
      BY Zenon DEF RevOf
    <2>2. CASE S = {}
      <3>1. RevOf(ow)[o] = 0 /\ \A i \in Indices : o \notin ow[i]
        BY <2>1, <2>2, LargestFacts, Zenon
      <3> QED BY <3>1 DEF Indices
    <2>3. ASSUME NEW i \in S PROVE S = {i}
      BY <2>3, Zenon DEF OwnersOnce
    <2>4. ASSUME NEW i \in S PROVE Largest(S) = i
      BY <2>3, <2>4, LargestFacts DEF Indices
    <2>5. CASE S # {}
      BY <2>1, <2>3, <2>4, <2>5, Zenon
    <2> QED BY <2>2, <2>5, Zenon
  <1>2. RevOf(ow) \in Reverse
    BY <1>1, Zenon DEF Reverse, RevOf
  <1> QED BY <1>1, <1>2, Zenon

LEMMA NameOfExact ==
    ASSUME NEW ow \in Owners, OwnersOnce(ow), NEW m \in Modules, NEW i \in Indices
    PROVE  /\ NameOf(ow, m, i) \in Names \cup {0}
           /\ \A n \in Names : <<m, n>> \in ow[i] <=> NameOf(ow, m, i) = n
  <1> DEFINE S == {n \in Names : <<m, n>> \in ow[i]}
  <1>1. NameOf(ow, m, i) = Largest(S)
    BY Zenon DEF NameOf
  <1>2. CASE S = {}
    BY CapabilityAssumption, <1>1, <1>2, LargestFacts, Zenon
  <1>3. ASSUME NEW n \in S PROVE S = {n}
    BY <1>3, ZenonT(30) DEF OwnersOnce
  <1>4. ASSUME NEW n \in S PROVE Largest(S) = n
    BY CapabilityAssumption, <1>3, <1>4, LargestFacts, Zenon
  <1>5. CASE S # {}
    BY <1>1, <1>3, <1>4, <1>5, Zenon
  <1> QED BY <1>2, <1>5, Zenon

\* InitMemStore makes the indexes of the owners.
LEMMA RebuildLinked ==
    ASSUME NEW s \in States, OwnersOnce(s.owners), NEW at \in Allocations(s.owners)
    PROVE  LET r == InitMemStore(s, at)
           IN  /\ at \in Maps /\ r \in States /\ r.index = s.index /\ r.owners = s.owners
               /\ r.init /\ Linked(r.owners, r.fwd, r.rev, at)
  <1> DEFINE ow == s.owners
             fwd == [x \in Modules \X Addresses |->
                       Largest({NameOf(ow, x[1], i) : i \in {j \in Indices : at[j] = x[2]}})]
             r == InitMemStore(s, at)
  <1>1. ow \in Owners /\ at \in Maps /\ Distinct(at)
        /\ \A i \in Indices : ow[i] # {} => at[i] # NoAddress
    BY Zenon DEF States, Allocations, Maps, Distinct
  <1>2. ASSUME NEW m \in Modules, NEW a \in Addresses
        PROVE  /\ fwd[<<m, a>>] \in Names \cup {0}
               /\ \A n \in Names : fwd[<<m, a>>] = n <=> Owns(ow, at, m, a, n)
    <2> DEFINE S == {NameOf(ow, m, i) : i \in {j \in Indices : at[j] = a}}
    <2>1. fwd[<<m, a>>] = Largest(S)
      BY Zenon
    <2> HIDE DEF fwd, ow
    <2>2. CASE \A j \in Indices : at[j] # a
      <3>1. S = {}
        BY <2>2, Zenon
      <3>2. fwd[<<m, a>>] = 0
        BY <2>1, <3>1, LargestFacts, Zenon
      <3> QED BY CapabilityAssumption, <2>2, <3>2, Zenon DEF Owns
    <2>3. ASSUME NEW i \in Indices, at[i] = a
          PROVE  /\ fwd[<<m, a>>] \in Names \cup {0}
                 /\ \A n \in Names : fwd[<<m, a>>] = n <=> Owns(ow, at, m, a, n)
      <3>1. \A j \in Indices : at[j] = a <=> j = i
        BY CapabilityAssumption, <1>1, <2>3, Zenon DEF Distinct
      <3>2. S = {NameOf(ow, m, i)}
        BY <3>1, Zenon
      <3>3. NameOf(ow, m, i) \in Names \cup {0}
            /\ \A n \in Names : <<m, n>> \in ow[i] <=> NameOf(ow, m, i) = n
        BY <1>1, NameOfExact, Zenon DEF ow
      <3>4. fwd[<<m, a>>] = NameOf(ow, m, i)
        BY CapabilityAssumption, <2>1, <3>2, <3>3, LargestFacts
      <3> QED BY <3>1, <3>3, <3>4, Zenon DEF Owns
    <2> QED BY <2>2, <2>3, Zenon
  <1>3. fwd \in Forward
    <2> HIDE DEF ow
    <2>1. \A x \in Modules \X Addresses : fwd[x] \in Names \cup {0}
      <3> SUFFICES ASSUME NEW x \in Modules \X Addresses PROVE fwd[x] \in Names \cup {0}
        BY Zenon
      <3>1. PICK m \in Modules, a \in Addresses : x = <<m, a>>
        OBVIOUS
      <3> HIDE DEF fwd
      <3> QED BY <1>2, <3>1, Zenon
    <2>2. fwd = [x \in Modules \X Addresses |-> fwd[x]]
      BY Zenon
    <2> HIDE DEF fwd
    <2> QED BY <2>1, <2>2, Zenon DEF Forward
  <1>4. r.index = s.index /\ r.owners = ow /\ r.init /\ r.fwd = fwd /\ r.rev = RevOf(ow)
    BY Zenon DEF InitMemStore, States
  <1> HIDE DEF fwd
  <1>5. RevOf(ow) \in Reverse /\ \A o \in Owner : \A i \in Indices : o \in ow[i] <=> RevOf(ow)[o] = i
    BY <1>1, RevOfExact, Zenon
  <1>6. r \in States
    BY <1>3, <1>5, Zenon DEF InitMemStore, States, fwd
  <1>7. Linked(ow, fwd, RevOf(ow), at)
    BY <1>1, <1>2, <1>5, Zenon DEF Linked
  <1> QED BY <1>1, <1>4, <1>6, <1>7, Zenon

\* The indexes are what InitMemStore would make.
LEMMA LinkedRebuilt ==
    ASSUME NEW ow \in Owners, NEW fwd \in Forward, NEW rev \in Reverse, NEW cm \in Maps,
           Linked(ow, fwd, rev, cm)
    PROVE  /\ rev = RevOf(ow)
           /\ \A m \in Modules, i \in Indices :
                 cm[i] # NoAddress => fwd[<<m, cm[i]>>] = NameOf(ow, m, i)
  <1>1. OwnersOnce(ow)
    BY LinkedOnce, Zenon
  <1>2. \A o \in Owner : rev[o] = RevOf(ow)[o]
    BY <1>1, RevOfExact DEF Linked, Reverse
  <1>3. rev = RevOf(ow)
    BY <1>1, <1>2, RevOfExact DEF Reverse
  <1>4. ASSUME NEW m \in Modules, NEW i \in Indices, cm[i] # NoAddress
        PROVE  fwd[<<m, cm[i]>>] = NameOf(ow, m, i)
    <2>1. cm[i] \in Addresses /\ fwd[<<m, cm[i]>>] \in Names \cup {0}
      BY <1>4, Zenon DEF Maps, Forward
    <2>2. \A n \in Names : fwd[<<m, cm[i]>>] = n <=> Owns(ow, cm, m, cm[i], n)
      BY <2>1, Zenon DEF Linked
    <2>3. \A n \in Names : Owns(ow, cm, m, cm[i], n) <=> <<m, n>> \in ow[i]
      BY <1>4 DEF Owns, Linked, Distinct
    <2>4. /\ NameOf(ow, m, i) \in Names \cup {0}
          /\ \A n \in Names : <<m, n>> \in ow[i] <=> NameOf(ow, m, i) = n
      BY <1>1, NameOfExact, Zenon
    <2> QED BY <2>1, <2>2, <2>3, <2>4, Zenon
  <1> QED BY <1>3, <1>4, Zenon

-----------------------------------------------------------------------------
(* Blocks and processes                                                    *)

LEMMA GenesisFacts ==
    /\ Genesis \in States /\ ~Genesis.init /\ Persisted(Genesis)
    /\ [i \in Indices |-> NoAddress] \in Maps
  <1>1. Genesis \in States /\ ~Genesis.init
    BY DEF Genesis, States, Owners, Forward, Reverse
  <1>2. \A i \in Indices : Genesis.owners[i] = {}
    BY Zenon DEF Genesis
  <1>3. Persisted(Genesis)
    BY <1>2, Zenon DEF Persisted, OwnersOnce
  <1> QED BY <1>1, <1>3, Zenon DEF Maps

LEMMA StateFacts ==
    ASSUME NEW s \in States
    PROVE  /\ s.index \in Nat \ {0} /\ s.owners \in Owners /\ s.fwd \in Forward
           /\ s.rev \in Reverse
  BY Zenon DEF States

\* BeginBlock allocates the capabilities again in a process that has not yet.
LEMMA BeginBlockInv ==
    ASSUME Intact, BeginBlock
    PROVE  Intact'
  <1>1. /\ UNCHANGED <<committed, tx, held, touched>> /\ mode = "idle"
        /\ mode' = "block" /\ committed \in States /\ Persisted(committed)
    BY Zenon DEF BeginBlock, Intact, TypeOK
  <1>2. deliver' \in States /\ capMap' \in Maps /\ Persisted(deliver)' /\ InMemory(deliver)'
    <2>1. CASE committed.init
      BY <1>1, <2>1, Zenon DEF BeginBlock, Intact, TypeOK, InMemory
    <2>2. CASE ~committed.init
      <3>1. PICK at \in Allocations(committed.owners) :
              capMap' = at /\ deliver' = InitMemStore(committed, at)
        BY <2>2, Zenon DEF BeginBlock
      <3>2. OwnersOnce(committed.owners)
        BY <1>1, Zenon DEF Persisted
      <3>3. /\ at \in Maps /\ deliver' \in States /\ deliver'.index = committed.index
            /\ deliver'.owners = committed.owners
            /\ Linked(deliver'.owners, deliver'.fwd, deliver'.rev, at)
        BY <1>1, <3>1, <3>2, RebuildLinked, Zenon
      <3> QED BY <1>1, <3>1, <3>3, Zenon DEF Persisted, InMemory
    <2> QED BY <2>1, <2>2, Zenon
  <1> QED BY <1>1, <1>2, Zenon DEF Intact, TypeOK, Running

LEMMA ExportImportInv ==
    ASSUME Intact, ExportImport
    PROVE  Intact'
  <1> DEFINE g == [Genesis EXCEPT !.index = committed.index, !.owners = committed.owners]
  <1>1. /\ UNCHANGED <<deliver, tx, mode, held, touched>> /\ mode = "idle"
        /\ committed \in States /\ Persisted(committed)
    BY Zenon DEF ExportImport, Intact, TypeOK
  <1>2. PICK at \in Allocations(committed.owners) : capMap' = at /\ committed' = InitMemStore(g, at)
    BY Zenon DEF ExportImport
  <1>3. g \in States /\ g.owners = committed.owners /\ g.index = committed.index
    BY <1>1, GenesisFacts, Zenon DEF States
  <1> HIDE DEF g
  <1>4. OwnersOnce(g.owners)
    BY <1>1, <1>3, Zenon DEF Persisted
  <1>5. /\ at \in Maps /\ committed' \in States /\ committed'.index = g.index
        /\ committed'.owners = g.owners
        /\ Linked(committed'.owners, committed'.fwd, committed'.rev, at)
    BY <1>2, <1>3, <1>4, RebuildLinked, Zenon
  <1>6. Persisted(committed)' /\ InMemory(committed)'
    BY <1>1, <1>2, <1>3, <1>5, Zenon DEF Persisted, InMemory
  <1> QED BY <1>1, <1>2, <1>5, <1>6, Zenon DEF Intact, TypeOK, Running

LEMMA BlockInv ==
    ASSUME Intact, Start \/ Commit \/ Crash \/ UNCHANGED vars
    PROVE  Intact'
  <1>1. CASE Start
    BY <1>1, Zenon DEF Start, Intact, TypeOK, Running
  <1>2. CASE Commit
    <2>1. /\ UNCHANGED <<deliver, tx, capMap, held, touched>> /\ committed' = deliver
          /\ mode' = "idle" /\ Persisted(deliver) /\ InMemory(deliver)
      BY <1>2, Zenon DEF Commit, Intact
    <2> QED BY <2>1, Zenon DEF Intact, TypeOK, InMemory, Running
  <1>3. CASE Crash
    <2>1. /\ committed' \in States /\ ~committed'.init
          /\ committed'.index = committed.index /\ committed'.owners = committed.owners
      BY <1>3, GenesisFacts, Zenon DEF Crash, Intact, TypeOK, States
    <2>2. /\ deliver' = Genesis /\ tx' = Genesis /\ capMap' = [i \in Indices |-> NoAddress]
          /\ held' = {} /\ touched' = {} /\ mode' = "down"
      BY <1>3, Zenon DEF Crash
    <2>3. Persisted(committed)'
      BY <2>1, Zenon DEF Intact, Persisted
    <2> QED BY <2>1, <2>2, <2>3, GenesisFacts, Zenon DEF Intact, TypeOK, Running
  <1>4. CASE UNCHANGED vars
    BY <1>4, Zenon DEF vars, Intact, TypeOK, InMemory, HeldInv, Running, Torn
  <1> QED BY <1>1, <1>2, <1>3, <1>4, Zenon

-----------------------------------------------------------------------------
(* Transactions                                                            *)

LEMMA BeginInv ==
    ASSUME Intact, NEW m \in {"tx", "simulate"}, Begin(m)
    PROVE  Intact'
  <1>1. /\ UNCHANGED <<committed, deliver, capMap>> /\ mode = "block" /\ mode' = m
        /\ tx' = IF m = "tx" THEN deliver ELSE committed
        /\ held' = {} /\ touched' = {}
    BY Zenon DEF Begin
  <1>2. TypeOK' /\ Persisted(deliver) /\ InMemory(deliver) /\ Persisted(committed)
    BY <1>1, Zenon DEF Intact, TypeOK
  <1> QED BY <1>1, <1>2, Zenon DEF Intact, InMemory, HeldInv

\* A branch that is dropped leaves the state of the block, which still has the map
\* unless this is where the two are torn apart.
LEMMA DropBranchInv ==
    ASSUME Intact, Running, DropBranch, ~torn'
    PROVE  Intact'
  <1>1. /\ UNCHANGED <<committed, deliver, capMap>> /\ mode' = "block" /\ tx' = Genesis
        /\ held' = {} /\ touched' = {} /\ ~Torn
    BY Zenon DEF DropBranch
  <1>2. Persisted(deliver)' /\ InMemory(deliver)'
    BY <1>1, Zenon DEF Intact, InMemory
  <1> QED BY <1>1, <1>2, GenesisFacts, Zenon DEF Intact, TypeOK, Running

\* The branch that is written has the map.
LEMMA EndTxInv ==
    ASSUME Intact, NEW ok \in BOOLEAN, EndTx(ok), ~torn'
    PROVE  Intact'
  <1>1. CASE DropBranch
    BY <1>1, DropBranchInv, Zenon DEF EndTx
  <1>2. CASE ~DropBranch
    <2>1. /\ UNCHANGED <<committed, capMap>> /\ mode = "tx" /\ mode' = "block"
          /\ tx' = Genesis /\ held' = {} /\ touched' = {} /\ deliver' = tx
      BY <1>2, Zenon DEF EndTx
    <2>2. Persisted(deliver)' /\ InMemory(deliver)' /\ deliver' \in States
      BY <2>1, Zenon DEF Intact, TypeOK, InMemory
    <2> QED BY <2>1, <2>2, GenesisFacts, Zenon DEF Intact, TypeOK, Running
  <1> QED BY <1>1, <1>2, Zenon

\* The invariant in a transaction or a simulation, and what shows that it is kept.
LEMMA InRun ==
    ASSUME Intact, Running
    PROVE  /\ tx \in States /\ deliver \in States /\ capMap \in Maps
           /\ held \subseteq Addresses \X Indices /\ touched \subseteq Indices
           /\ Persisted(deliver) /\ (Torn \/ InMemory(deliver))
  BY Zenon DEF Intact, TypeOK

LEMMA InTx ==
    ASSUME Intact, mode = "tx"
    PROVE  Persisted(tx) /\ InMemory(tx) /\ HeldInv
  BY Zenon DEF Intact

LEMMA StillInTx ==
    ASSUME Intact, Running, UNCHANGED <<committed, deliver, mode>>,
           (tx \in States)', (capMap \in Maps)', (held \subseteq Addresses \X Indices)',
           (touched \subseteq Indices)', Torn' \/ InMemory(deliver)',
           mode = "tx" => Persisted(tx)' /\ InMemory(tx)' /\ HeldInv'
    PROVE  Intact'
  BY Zenon DEF Intact, TypeOK, Running, Persisted

\* A map entry that is written, at a free address, or removed: the state of the block
\* has the capability, or does not miss the entry.
LEMMA TouchedLinked ==
    ASSUME Intact, Running, deliver' = deliver, NEW i \in Indices,
           NEW b \in Addresses \cup {NoAddress},
           b \in Addresses => \A j \in Indices : capMap[j] # b,
           capMap' = [capMap EXCEPT ![i] = b], touched' = touched \cup {i}
    PROVE  Torn' \/ InMemory(deliver)'
  <1>1. Torn => Torn'
    BY Zenon DEF Torn
  <1>2. CASE InMemory(deliver) /\ deliver.owners[i] = {}
    <2>1. /\ Linked(deliver.owners, deliver.fwd, deliver.rev, capMap) /\ capMap \in Maps
          /\ deliver.owners \in Owners /\ deliver.fwd \in Forward /\ deliver.rev \in Reverse
      BY <1>2, InRun, StateFacts, Zenon DEF InMemory
    <2>2. CASE b \in Addresses
      BY <1>2, <2>1, <2>2, MapLinked, Zenon DEF InMemory
    <2>3. CASE b = NoAddress
      BY <1>2, <2>1, <2>3, UnmapLinked, Zenon DEF InMemory
    <2> QED BY <2>2, <2>3, Zenon
  <1>3. CASE deliver.owners[i] # {}
    BY <1>3, Zenon DEF Torn
  <1> QED BY <1>1, <1>2, <1>3, InRun, Zenon

\* The panic is not reached in a transaction.
LEMMA GetCapabilityInv ==
    ASSUME Intact, NEW m \in Modules, NEW n \in Names, GetCapability(m, n), ~torn'
    PROVE  Intact'
  <1> DEFINE i == tx.rev[<<m, n>>]
  <1>1. Running /\ i # 0
    BY Zenon DEF GetCapability
  <1>2. CASE capMap[i] = NoAddress
    BY <1>1, <1>2, DropBranchInv, Zenon DEF GetCapability
  <1>3. CASE capMap[i] # NoAddress
    <2>1. /\ held' = held \cup {<<capMap[i], i>>}
          /\ UNCHANGED <<committed, deliver, tx, mode, capMap, touched>>
      BY <1>3, Zenon DEF GetCapability
    <2>2. <<m, n>> \in Owner
      BY Zenon DEF Owner
    <2>3. i \in Indices
      BY <1>1, <2>2, InRun, StateFacts, Zenon DEF Reverse
    <2>4. ASSUME mode = "tx" PROVE HeldInv'
      <3>1. <<m, n>> \in tx.owners[i]
        BY <2>2, <2>3, <2>4, InTx DEF InMemory, Linked
      <3>2. i < tx.index
        BY <1>1, <2>3, <2>4, <3>1, InTx, InRun, StateFacts DEF Persisted, Indices
      <3> HIDE DEF i
      <3>3. \A j \in Indices : capMap[j] = capMap[i] => j = i
        BY <1>3, <2>3, <2>4, InTx, Zenon DEF InMemory, Linked, Distinct
      <3> QED BY <2>1, <2>4, <3>2, <3>3, InTx DEF HeldInv
    <2> HIDE DEF i
    <2>5. (held \subseteq Addresses \X Indices)'
      BY <1>1, <1>3, <2>1, <2>3, InRun DEF Maps
    <2> QED BY <1>1, <2>1, <2>4, <2>5, Zenon DEF Intact, TypeOK, InMemory, Running, Torn
  <1> QED BY <1>2, <1>3, Zenon

\* A new index has no owners in the branch.
LEMMA NewCapabilityInv ==
    ASSUME Intact, NEW m \in Modules, NEW n \in Names, NewCapability(m, n)
    PROVE  Intact'
  <1> DEFINE i == tx.index
  <1>1. /\ Running /\ tx.rev[<<m, n>>] = 0 /\ i < MaxIndex
        /\ UNCHANGED <<committed, deliver, mode>>
    BY Zenon DEF NewCapability
  <1>2. PICK a \in Free :
          /\ tx' = [tx EXCEPT !.owners[tx.index] = @ \cup {<<m, n>>}, !.index = @ + 1,
                              !.fwd[<<m, a>>] = n, !.rev[<<m, n>>] = tx.index]
          /\ capMap' = [capMap EXCEPT ![tx.index] = a]
          /\ held' = held \cup {<<a, tx.index>>} /\ touched' = touched \cup {tx.index}
    BY Zenon DEF NewCapability
  <1>3. /\ i \in Indices /\ a \in Addresses /\ \A j \in Indices : capMap[j] # a
        /\ \A h \in held : h[1] # a
    BY CapabilityAssumption, <1>1, <1>2, InRun, StateFacts DEF Free, Indices
  <1>4. /\ tx' \in States /\ tx'.index = i + 1
        /\ tx'.owners = [tx.owners EXCEPT ![i] = @ \cup {<<m, n>>}]
        /\ tx'.fwd = [tx.fwd EXCEPT ![<<m, a>>] = n] /\ tx'.rev = [tx.rev EXCEPT ![<<m, n>>] = i]
    <2>1. /\ tx'.index = i + 1
      BY <1>1, <1>2, InRun, Zenon DEF States
    <2>2. tx'.owners = [tx.owners EXCEPT ![i] = @ \cup {<<m, n>>}]
      BY <1>1, <1>2, InRun, Zenon DEF States
    <2>3. tx'.fwd = [tx.fwd EXCEPT ![<<m, a>>] = n] /\ tx'.rev = [tx.rev EXCEPT ![<<m, n>>] = i]
      BY <1>1, <1>2, InRun, Zenon DEF States
    <2>4. tx' = [index |-> tx'.index, owners |-> tx'.owners, init |-> tx.init,
                 fwd |-> tx'.fwd, rev |-> tx'.rev]
      BY <1>1, <1>2, InRun, Zenon DEF States
    <2>5. tx'.owners \in Owners /\ tx'.fwd \in Forward /\ tx'.rev \in Reverse
      <3> HIDE DEF i
      <3>1. tx.owners \in Owners /\ tx.fwd \in Forward /\ tx.rev \in Reverse /\ capMap \in Maps
        BY <1>1, InRun, StateFacts, Zenon
      <3>2. /\ [tx.owners EXCEPT ![i] = @ \cup {<<m, n>>}] \in Owners
            /\ [tx.fwd EXCEPT ![<<m, a>>] = n] \in Forward
            /\ [tx.rev EXCEPT ![<<m, n>>] = i] \in Reverse
        BY <1>3, <3>1, Entries, Zenon
      <3> QED BY <2>2, <2>3, <3>2, Zenon
    <2>6. tx'.index \in Nat \ {0} /\ tx.init \in BOOLEAN
      BY <1>1, <2>1, InRun DEF States
    <2>7. tx' \in States
      BY <2>4, <2>5, <2>6 DEF States
    <2> QED BY <2>1, <2>2, <2>3, <2>7, Zenon
  <1>5. /\ capMap' = [capMap EXCEPT ![i] = a] /\ held' = held \cup {<<a, i>>}
        /\ touched' = touched \cup {i}
    BY <1>2, Zenon
  <1>6. tx.index \in Nat /\ (mode = "tx" => tx.owners[i] = {})
    BY <1>1, <1>3, InRun, InTx, StateFacts DEF Persisted
  <1>7. capMap' \in Maps
    BY <1>1, <1>3, <1>5, InRun, Zenon DEF Maps
  <1> HIDE DEF i
  <1>8. ASSUME mode = "tx" PROVE InMemory(tx)'
    <2>1. /\ Linked(tx.owners, tx.fwd, tx.rev, capMap) /\ capMap \in Maps
          /\ tx.owners \in Owners /\ tx.fwd \in Forward /\ tx.rev \in Reverse
      BY <1>8, InTx, InRun, <1>1, StateFacts, Zenon DEF InMemory
    <2>2. Linked([tx.owners EXCEPT ![i] = @ \cup {<<m, n>>}], [tx.fwd EXCEPT ![<<m, a>>] = n],
                 [tx.rev EXCEPT ![<<m, n>>] = i], [capMap EXCEPT ![i] = a])
      BY <1>1, <1>3, <1>6, <1>8, <2>1, NewLinked, Zenon
    <2> QED BY <1>5, <1>4, <2>2, Zenon DEF InMemory
  <1>9. Torn' \/ InMemory(deliver)'
    BY <1>1, <1>3, <1>5, TouchedLinked, Zenon
  <1>10. ASSUME mode = "tx" PROVE Persisted(tx)'
    <2>1. OwnersOnce(tx'.owners)
      BY <1>4, <1>7, <1>8, <1>10, StateFacts, LinkedOnce, Zenon DEF InMemory
    <2>2. \A j \in Indices : i + 1 <= j => tx'.owners[j] = tx.owners[j] /\ i <= j
      BY <1>1, <1>4, <1>6, InRun, StateFacts DEF Indices, Owners, i
    <2>3. i = tx.index /\ tx'.index = i + 1
      BY <1>4, Zenon DEF i
    <2>4. \A j \in Indices : tx.index <= j => tx.owners[j] = {}
      BY <1>10, InTx, Zenon DEF Persisted
    <2>5. \A j \in Indices : tx'.index <= j => tx'.owners[j] = {}
      BY <2>2, <2>3, <2>4, Zenon
    <2> QED BY <2>1, <2>5, Zenon DEF Persisted
  <1>11. ASSUME mode = "tx" PROVE HeldInv'
    <2>1. \A j \in Indices : capMap'[j] = IF j = i THEN a ELSE capMap[j]
      BY <1>1, <1>5, InRun, Zenon DEF Maps
    <2>2. \A h \in held : h[2] < i /\ h[2] \in Nat /\ h[1] # a
          /\ \A j \in Indices : capMap[j] = h[1] => j = h[2]
      BY <1>1, <1>3, <1>11, InTx, InRun DEF HeldInv, i, Indices
    <2>3. i \in Nat
      BY <1>6, Zenon DEF i
    <2>4. \A h \in held : h[2] < i + 1 /\ \A j \in Indices : capMap'[j] = h[1] => j = h[2]
      BY <2>1, <2>2, <2>3
    <2>5. i < i + 1 /\ \A j \in Indices : capMap'[j] = a => j = i
      BY <1>3, <2>1, <2>3
    <2> QED BY <1>4, <1>5, <2>4, <2>5 DEF HeldInv
  <1>12. (held \subseteq Addresses \X Indices)' /\ (touched \subseteq Indices)'
    BY <1>1, <1>3, <1>5, InRun
  <1> QED BY <1>1, <1>4, <1>7, <1>8, <1>9, <1>10, <1>11, <1>12, StillInTx, Zenon

\* A claim that is not out of turn: a name that stands for nothing, for a capability
\* that is in the map.
LEMMA ClaimCapabilityInv ==
    ASSUME Intact, NEW m \in Modules, NEW n \in Names, NEW h \in held,
           ClaimCapability(m, n, h), ~torn'
    PROVE  Intact'
  <1> DEFINE i == h[2]
             a == h[1]
  <1>1. /\ Running /\ UNCHANGED <<committed, deliver, mode, capMap, held, touched>>
        /\ tx' = [tx EXCEPT !.owners[h[2]] = @ \cup {<<m, n>>},
                            !.fwd[<<m, h[1]>>] = n, !.rev[<<m, n>>] = h[2]]
        /\ tx.rev[<<m, n>>] = 0 /\ tx.fwd[<<m, a>>] = 0 /\ capMap[i] = a
    BY Zenon DEF ClaimCapability, OutOfTurn
  <1>2. i \in Indices /\ a \in Addresses /\ tx.index \in Nat /\ (mode = "tx" => i < tx.index)
    BY <1>1, InRun, InTx, StateFacts, Zenon DEF HeldInv
  <1>3. /\ tx' \in States /\ tx'.index = tx.index
        /\ tx'.owners = [tx.owners EXCEPT ![i] = @ \cup {<<m, n>>}]
        /\ tx'.fwd = [tx.fwd EXCEPT ![<<m, a>>] = n] /\ tx'.rev = [tx.rev EXCEPT ![<<m, n>>] = i]
    <2>1. tx'.index = tx.index
      BY <1>1, InRun, Zenon DEF States
    <2>2. tx'.owners = [tx.owners EXCEPT ![i] = @ \cup {<<m, n>>}]
      BY <1>1, InRun, Zenon DEF States
    <2>3. tx'.fwd = [tx.fwd EXCEPT ![<<m, a>>] = n] /\ tx'.rev = [tx.rev EXCEPT ![<<m, n>>] = i]
      BY <1>1, InRun, Zenon DEF States
    <2>4. tx' = [index |-> tx'.index, owners |-> tx'.owners, init |-> tx.init,
                 fwd |-> tx'.fwd, rev |-> tx'.rev]
      BY <1>1, InRun, Zenon DEF States
    <2>5. tx'.owners \in Owners /\ tx'.fwd \in Forward /\ tx'.rev \in Reverse
      <3> HIDE DEF i, a
      <3>1. tx.owners \in Owners /\ tx.fwd \in Forward /\ tx.rev \in Reverse /\ capMap \in Maps
        BY <1>1, InRun, StateFacts, Zenon
      <3>2. /\ [tx.owners EXCEPT ![i] = @ \cup {<<m, n>>}] \in Owners
            /\ [tx.fwd EXCEPT ![<<m, a>>] = n] \in Forward
            /\ [tx.rev EXCEPT ![<<m, n>>] = i] \in Reverse
        BY <1>2, <3>1, Entries, Zenon
      <3> QED BY <2>2, <2>3, <3>2, Zenon
    <2>6. tx'.index \in Nat \ {0} /\ tx.init \in BOOLEAN
      BY <1>1, <2>1, InRun, Zenon DEF States
    <2>7. tx' \in States
      BY <2>4, <2>5, <2>6 DEF States
    <2> QED BY <2>1, <2>2, <2>3, <2>7, Zenon
  <1>4. UNCHANGED <<committed, deliver, mode, capMap, held, touched>> /\ Running
        /\ tx.rev[<<m, n>>] = 0 /\ tx.fwd[<<m, a>>] = 0 /\ capMap[i] = a
    BY <1>1, Zenon
  <1> HIDE DEF i, a
  <1>5. ASSUME mode = "tx" PROVE InMemory(tx)'
    <2>1. /\ Linked(tx.owners, tx.fwd, tx.rev, capMap) /\ capMap \in Maps
          /\ tx.owners \in Owners /\ tx.fwd \in Forward /\ tx.rev \in Reverse
      BY <1>4, <1>5, InRun, InTx, StateFacts, Zenon DEF InMemory
    <2>2. Linked([tx.owners EXCEPT ![i] = @ \cup {<<m, n>>}], [tx.fwd EXCEPT ![<<m, a>>] = n],
                 [tx.rev EXCEPT ![<<m, n>>] = i], capMap)
      BY <1>2, <1>4, <2>1, ClaimLinked, Zenon
    <2> QED BY <1>3, <1>4, <2>2, Zenon DEF InMemory
  <1>6. Torn' \/ InMemory(deliver)'
    BY <1>4, InRun, Zenon DEF InMemory, Torn
  <1>7. ASSUME mode = "tx" PROVE Persisted(tx)'
    <2>1. OwnersOnce(tx'.owners)
      BY <1>3, <1>4, <1>5, <1>7, InRun, StateFacts, LinkedOnce, Zenon DEF InMemory
    <2>2. \A j \in Indices : tx.index <= j => tx'.owners[j] = tx.owners[j]
      BY <1>2, <1>3, <1>4, <1>7, InRun, StateFacts DEF Indices, Owners
    <2> QED BY <1>3, <1>7, <2>1, <2>2, InTx, Zenon DEF Persisted
  <1>8. mode = "tx" => HeldInv'
    BY <1>3, <1>4, InTx DEF HeldInv
  <1>9. capMap' \in Maps /\ (held \subseteq Addresses \X Indices)' /\ (touched \subseteq Indices)'
    BY <1>4, InRun, Zenon
  <1> QED BY <1>3, <1>4, <1>5, <1>6, <1>7, <1>8, <1>9, StillInTx, Zenon

\* The capability leaves the map with its last owner.
LEMMA ReleaseCapabilityInv ==
    ASSUME Intact, NEW m \in Modules, NEW h \in held, ReleaseCapability(m, h)
    PROVE  Intact'
  <1> DEFINE i == h[2]
             a == h[1]
             n == tx.fwd[<<m, a>>]
             last == tx'.owners[i] = {}
  <1>1. /\ Running /\ UNCHANGED <<committed, deliver, mode, held>>
        /\ tx' = [tx EXCEPT !.fwd[<<m, h[1]>>] = 0, !.rev[<<m, n>>] = 0,
                            !.owners[h[2]] = @ \ {<<m, n>>}]
        /\ n # 0
    BY Zenon DEF ReleaseCapability, Released
  <1>2. /\ capMap' = IF last THEN [capMap EXCEPT ![i] = NoAddress] ELSE capMap
        /\ touched' = IF last THEN touched \cup {i} ELSE touched
    BY Zenon DEF ReleaseCapability
  <1>3. i \in Indices /\ a \in Addresses /\ tx.index \in Nat
    BY <1>1, InRun, StateFacts, Zenon
  <1>4. n \in Names
    BY <1>1, <1>3, InRun, StateFacts DEF Forward
  <1>5. ASSUME mode = "tx"
        PROVE  i < tx.index /\ capMap[i] = a /\ <<m, n>> \in tx.owners[i]
    <2>1. i < tx.index /\ \A j \in Indices : capMap[j] = a => j = i
      BY <1>5, InTx, Zenon DEF HeldInv
    <2>2. Linked(tx.owners, tx.fwd, tx.rev, capMap)
      BY <1>5, InTx, Zenon DEF InMemory
    <2> HIDE DEF a
    <2>3. Owns(tx.owners, capMap, m, a, n)
      BY <1>3, <1>4, <2>2, Zenon DEF Linked
    <2> QED BY <2>1, <2>3, Zenon DEF Owns
  <1>6. /\ tx' \in States /\ tx'.index = tx.index
        /\ tx'.owners = [tx.owners EXCEPT ![i] = @ \ {<<m, n>>}]
        /\ tx'.fwd = [tx.fwd EXCEPT ![<<m, a>>] = 0] /\ tx'.rev = [tx.rev EXCEPT ![<<m, n>>] = 0]
    <2> HIDE DEF n
    <2>1. tx'.index = tx.index
      BY <1>1, InRun, Zenon DEF States
    <2>2. tx'.owners = [tx.owners EXCEPT ![i] = @ \ {<<m, n>>}]
      BY <1>1, InRun, Zenon DEF States
    <2>3. tx'.fwd = [tx.fwd EXCEPT ![<<m, a>>] = 0] /\ tx'.rev = [tx.rev EXCEPT ![<<m, n>>] = 0]
      BY <1>1, InRun, Zenon DEF States
    <2>4. tx' = [index |-> tx'.index, owners |-> tx'.owners, init |-> tx.init,
                 fwd |-> tx'.fwd, rev |-> tx'.rev]
      BY <1>1, InRun, Zenon DEF States
    <2>5. tx'.owners \in Owners /\ tx'.fwd \in Forward /\ tx'.rev \in Reverse
      <3> HIDE DEF i, a
      <3>1. tx.owners \in Owners /\ tx.fwd \in Forward /\ tx.rev \in Reverse /\ capMap \in Maps
        BY <1>1, InRun, StateFacts, Zenon
      <3>2. /\ [tx.owners EXCEPT ![i] = @ \ {<<m, n>>}] \in Owners
            /\ [tx.fwd EXCEPT ![<<m, a>>] = 0] \in Forward
            /\ [tx.rev EXCEPT ![<<m, n>>] = 0] \in Reverse
        BY <1>3, <1>4, <3>1, Entries, Zenon
      <3> QED BY <2>2, <2>3, <3>2, Zenon
    <2>6. tx'.index \in Nat \ {0} /\ tx.init \in BOOLEAN
      BY <1>1, <2>1, InRun, Zenon DEF States
    <2>7. tx' \in States
      BY <2>4, <2>5, <2>6 DEF States
    <2> QED BY <2>1, <2>2, <2>3, <2>7, Zenon
  <1>7. /\ UNCHANGED <<committed, deliver, mode, held>> /\ Running
        /\ tx.fwd[<<m, a>>] = n
    BY <1>1, Zenon
  <1>8. mode = "tx" /\ last => tx.owners[i] = {<<m, n>>}
    BY <1>3, <1>5, <1>6, <1>7, InRun, StateFacts DEF Owners
  <1> HIDE DEF i, a, n, last
  <1>9. ASSUME mode = "tx" PROVE InMemory(tx)'
    <2>1. /\ Linked(tx.owners, tx.fwd, tx.rev, capMap) /\ capMap \in Maps
          /\ tx.owners \in Owners /\ tx.fwd \in Forward /\ tx.rev \in Reverse
      BY <1>7, <1>9, InRun, InTx, StateFacts, Zenon DEF InMemory
    <2> capMap[i] = a
      BY <1>5, <1>9, Zenon
    <2>2. /\ tx.owners[i] = {<<m, n>>} =>
               Linked([tx.owners EXCEPT ![i] = @ \ {<<m, n>>}], [tx.fwd EXCEPT ![<<m, a>>] = 0],
                      [tx.rev EXCEPT ![<<m, n>>] = 0], [capMap EXCEPT ![i] = NoAddress])
          /\ Linked([tx.owners EXCEPT ![i] = @ \ {<<m, n>>}], [tx.fwd EXCEPT ![<<m, a>>] = 0],
                    [tx.rev EXCEPT ![<<m, n>>] = 0], capMap)
      BY <1>3, <1>4, <1>7, <2>1, ReleaseLinked, Zenon
    <2> QED BY <1>2, <1>6, <1>8, <1>9, <2>2, Zenon DEF InMemory
  <1>10. capMap' \in Maps /\ (touched \subseteq Indices)'
    BY <1>2, <1>3, <1>7, InRun, Zenon DEF Maps
  <1>11. Torn' \/ InMemory(deliver)'
    <2>1. CASE last
      BY <1>2, <1>3, <1>7, <2>1, CapabilityAssumption, TouchedLinked, Zenon
    <2>2. CASE ~last
      BY <1>2, <1>7, <2>2, InRun, Zenon DEF InMemory, Torn
    <2> QED BY <2>1, <2>2, Zenon
  <1>12. ASSUME mode = "tx" PROVE Persisted(tx)'
    <2>1. OwnersOnce(tx'.owners)
      BY <1>6, <1>9, <1>10, <1>12, StateFacts, LinkedOnce, Zenon DEF InMemory
    <2>2. \A j \in Indices : tx.index <= j => tx'.owners[j] = tx.owners[j]
      BY <1>3, <1>5, <1>6, <1>7, <1>12, InRun, StateFacts DEF Indices, Owners
    <2> QED BY <1>6, <1>12, <2>1, <2>2, InTx, Zenon DEF Persisted
  <1>13. ASSUME mode = "tx" PROVE HeldInv'
    <2>1. \A j \in Indices : capMap'[j] = capMap[j] \/ capMap'[j] = NoAddress
      BY <1>2, <1>3, <1>7, InRun, Zenon DEF Maps
    <2>2. \A x \in held : x[1] \in Addresses
      BY <1>7, InRun, Zenon
    <2> QED BY CapabilityAssumption, <1>6, <1>7, <1>13, <2>1, <2>2, InTx DEF HeldInv
  <1>14. (held \subseteq Addresses \X Indices)'
    BY <1>7, InRun, Zenon
  <1> QED BY <1>6, <1>7, <1>9, <1>10, <1>11, <1>12, <1>13, <1>14, StillInTx, Zenon

-----------------------------------------------------------------------------
(* The invariants                                                          *)

LEMMA TornStays ==
    ASSUME torn, [Next]_vars
    PROVE  torn'
  <1>1. CASE UNCHANGED vars
    BY <1>1, Zenon DEF vars
  <1>2. ASSUME Start \/ BeginBlock \/ Commit \/ Crash \/ ExportImport PROVE torn'
    BY <1>2, Zenon DEF Start, BeginBlock, Commit, Crash, ExportImport
  <1>3. ASSUME NEW m, Begin(m) PROVE torn'
    BY <1>3, Zenon DEF Begin
  <1>4. ASSUME NEW ok, EndTx(ok) PROVE torn'
    BY <1>4, Zenon DEF EndTx, DropBranch
  <1>5. ASSUME NEW m, NEW n, GetCapability(m, n) \/ NewCapability(m, n) PROVE torn'
    BY <1>5, Zenon DEF GetCapability, NewCapability, DropBranch
  <1>6. ASSUME NEW m, NEW n, NEW h, ClaimCapability(m, n, h) PROVE torn'
    BY <1>6, Zenon DEF ClaimCapability
  <1>7. ASSUME NEW m, NEW h, ReleaseCapability(m, h) PROVE torn'
    BY <1>7, Zenon DEF ReleaseCapability
  <1> QED BY <1>1, <1>2, <1>3, <1>4, <1>5, <1>6, <1>7, Zenon DEF Next

LEMMA Invariance == Spec => []IInv
  <1>1. Init => IInv
    BY GenesisFacts, Zenon DEF Init, IInv, Intact, TypeOK, Running
  <1>2. IInv /\ [Next]_vars => IInv'
    <2> SUFFICES ASSUME Intact, [Next]_vars, ~torn' PROVE Intact'
      BY TornStays, Zenon DEF IInv
    <2> QED BY BlockInv, BeginBlockInv, ExportImportInv, BeginInv, EndTxInv, GetCapabilityInv,
         NewCapabilityInv, ClaimCapabilityInv, ReleaseCapabilityInv, Zenon DEF Next
  <1> QED BY <1>1, <1>2, PTL DEF Spec

\* The assertion of GetCapability: a capability that a transaction finds in the
\* memory store is never missing from the map, whatever transactions failed and were
\* simulated before, until map and store are torn apart.
THEOREM NoCapabilityMissing == Spec => []NeverMissing
  <1>1. ASSUME Intact, NEW s \in States, InMemory(s), NEW o \in Owner, s.rev[o] # 0
        PROVE  capMap[s.rev[o]] # NoAddress
    <2> DEFINE i == s.rev[o]
    <2>1. i \in Indices
      BY <1>1, StateFacts, Zenon DEF Reverse
    <2> HIDE DEF i
    <2>2. o \in s.owners[i]
      BY <1>1, <2>1, Zenon DEF InMemory, Linked, i
    <2>3. capMap[i] # NoAddress
      BY <1>1, <2>1, <2>2, Zenon DEF InMemory, Linked
    <2> QED BY <2>3, Zenon DEF i
  <1>2. ASSUME Intact, mode = "block" PROVE deliver \in States /\ InMemory(deliver)
    BY <1>2, Zenon DEF Intact, TypeOK
  <1>3. ASSUME Intact, mode = "tx" PROVE tx \in States /\ InMemory(tx)
    BY <1>3, Zenon DEF Intact, TypeOK
  <1>4. IInv => NeverMissing
    BY <1>1, <1>2, <1>3, Zenon DEF IInv, NeverMissing
  <1> QED BY <1>4, Invariance, PTL

\* AuthenticateCapability is right about what GetCapability returns: what a module
\* gets by name between transactions authenticates under that name, until map and
\* store are torn apart.
THEOREM OwnersAuthenticate == Spec => []OwnerAuthenticates
  <1>1. ASSUME Intact, mode = "block", NEW o \in Owner, deliver.rev[o] # 0
        PROVE  deliver.fwd[<<o[1], capMap[deliver.rev[o]]>>] = o[2]
    <2> DEFINE i == deliver.rev[o]
               a == capMap[i]
               m == o[1]
               n == o[2]
    <2>1. /\ deliver.owners \in Owners /\ deliver.fwd \in Forward /\ deliver.rev \in Reverse
          /\ capMap \in Maps /\ Linked(deliver.owners, deliver.fwd, deliver.rev, capMap)
      BY <1>1, StateFacts, Zenon DEF Intact, TypeOK, InMemory
    <2>2. i \in Indices /\ o \in deliver.owners[i]
      BY <1>1, <2>1 DEF Linked, Reverse
    <2>3. m \in Modules /\ n \in Names /\ <<m, n>> \in deliver.owners[i]
      BY <1>1, <2>2 DEF Owner
    <2>4. a \in Addresses
      BY <2>1, <2>2 DEF Linked, Maps
    <2>5. Owns(deliver.owners, capMap, m, a, n)
      BY <2>2, <2>3, Zenon DEF Owns
    <2> HIDE DEF i, a, m, n
    <2>6. deliver.fwd[<<m, a>>] = n <=> Owns(deliver.owners, capMap, m, a, n)
      BY <2>1, <2>3, <2>4, Zenon DEF Linked
    <2> QED BY <2>5, <2>6, Zenon DEF i, a, m, n
  <1>2. IInv => OwnerAuthenticates
    BY <1>1, Zenon DEF IInv, OwnerAuthenticates
  <1> QED BY <1>2, Invariance, PTL

\* A restart cannot be told from the results of later transactions: the memory
\* store has what InitMemStore would rebuild from the persisted owners, until map and
\* store are torn apart.
THEOREM RestartIsInvisible == Spec => []RestartInvisible
  <1>1. ASSUME Intact, mode = "block"
        PROVE  /\ deliver.rev = RevOf(deliver.owners)
               /\ \A m \in Modules, i \in Indices :
                     capMap[i] # NoAddress =>
                        deliver.fwd[<<m, capMap[i]>>] = NameOf(deliver.owners, m, i)
    <2>1. /\ deliver.owners \in Owners /\ deliver.fwd \in Forward /\ deliver.rev \in Reverse
          /\ capMap \in Maps /\ Linked(deliver.owners, deliver.fwd, deliver.rev, capMap)
      BY <1>1, StateFacts, Zenon DEF Intact, TypeOK, InMemory
    <2> QED BY <2>1, LinkedRebuilt, ZenonT(30)
  <1>2. IInv => RestartInvisible
    BY <1>1, Zenon DEF IInv, RestartInvisible
  <1> QED BY <1>2, Invariance, PTL

=============================================================================
