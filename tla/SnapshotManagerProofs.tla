----------------------- MODULE SnapshotManagerProofs -----------------------
(***************************************************************************)
(* What a peer can rely on when it fetches a snapshot, and a node when it  *)
(* restores one, for any number of chunks, heights, crashes and failures   *)
(* and any size of the channel.                                            *)
(***************************************************************************)
EXTENDS SnapshotManager, WellFoundedInduction, TLAPS

Creating == {"latest", "save", "copy", "drain"}
Pruning  == {"delete", "removeall"}

TypeOK ==
    /\ meta \in [Heights -> Absent .. Chunks]
    /\ files \in [Heights -> [Indices -> {"none", "partial", "full"}]]
    /\ operation \in {"none", "snapshot", "prune", "restore"}
    /\ height \in 0 .. MaxHeight
    /\ pc \in [Heights -> {"none", "create", "prune"} \cup Creating \cup Pruning]
    /\ index \in 0 .. Chunks /\ toDelete \in SUBSET Heights
    /\ exporter \in {"none", "open", "closed", "failed"}

\* One goroutine at a time is between begin and end, for the operation in
\* progress; m.mtx is only held for a restore.
OneOperation ==
    /\ \A h \in Heights : /\ pc[h] \in Creating => operation = "snapshot"
                          /\ pc[h] \in Pruning => operation = "prune"
                          /\ pc[h] = "prune" => KeepRecent > 0
    /\ \A h, k \in Heights :
          pc[h] \in Creating \cup Pruning /\ pc[k] \in Creating \cup Pruning => h = k

\* Save works on a height above all that are listed, and the chunks before the
\* one it is at are whole.
SaveInv ==
    /\ exporter = "open" => index < Chunks
    /\ \A h \in Heights : pc[h] \in {"save", "copy"} =>
          /\ \A l \in Listed : l < h
          /\ \A i \in Indices : i < index => files[h][i] = "full"
    /\ \A h \in Heights : pc[h] = "copy" => index < Chunks

\* Prune leaves a snapshot newer than all it has still to delete, and removes
\* only the chunks of one whose metadata it has deleted.
PruneInv ==
    \A h \in Heights :
        /\ pc[h] \in Pruning => \A d \in toDelete : \E l \in Listed : d < l
        /\ pc[h] = "removeall" => toDelete # {} /\ meta[Max(toDelete)] = Absent

DiskInv == SaveInv /\ PruneInv /\ ListedComplete

ChannelTypeOK ==
    /\ chRestore \in Seq(Nat) /\ restoreChunkIndex \in 0 .. Chunks
    /\ badChunk \in 0 .. Chunks /\ endChunk \in 0 .. Chunks /\ applied \in 0 .. Chunks
    /\ restorer \in {"none", "read", "drain", "returned"}
    /\ caller \in {"none", "send", "wait"}

\* The channel is open while chunks are to come, and with it the operation.
ChannelInv ==
    /\ caller # "none" => operation = "restore"
    /\ caller = "send" => chOpen
    /\ chOpen => restorer \in {"read", "drain"}
    /\ operation = "restore" => restorer # "none"
    /\ restorer \in {"read", "drain"} =>
          operation = "restore" /\ (chOpen <=> restoreChunkIndex < Chunks)

\* The chunks from a on, in their order.
Run(chunks, a) == \A i \in 1 .. Len(chunks) : chunks[i] = a + i - 1

\* The channel holds the chunks from the next one to read to the last one sent.
\* A restore that stops reading without an error is past the end of the stream,
\* and has met no bad chunk before it.
RestoreInv ==
    /\ restorer = "read" =>
          /\ ~restoreErr /\ applied <= badChunk /\ applied <= endChunk
          /\ applied + Len(chRestore) = restoreChunkIndex
          /\ Run(chRestore, applied)
    /\ restorer \in {"drain", "returned"} /\ ~restoreErr =>
          endChunk < badChunk /\ applied = endChunk + 1
    /\ restorer = "returned" => chRestore = <<>>

IInv == /\ TypeOK /\ OneOperation /\ DiskInv
        /\ ChannelTypeOK /\ ChannelInv /\ RestoreInv

-----------------------------------------------------------------------------
(* Sets of heights                                                         *)

\* Max is the largest element, for the heights that are listed or deleted.
LEMMA MaxIsLargest ==
    ASSUME NEW S, S \subseteq Heights, S # {}
    PROVE  Max(S) \in S /\ \A x \in S : x <= Max(S)
  <1> DEFINE T == {MaxHeight - x : x \in S}
  <1>1. T \subseteq Nat /\ T # {}
    <2>1. \A x \in S : MaxHeight - x \in Nat
      BY ManagerAssumption DEF Heights
    <2>2. PICK x \in S : TRUE
      BY Zenon
    <2>3. MaxHeight - x \in T
      BY Zenon
    <2> QED BY <2>1, <2>3, Zenon
  <1> DEFINE R == OpToRel(<, Nat)
  <1>2. IsWellFoundedOn(R, Nat)
    BY NatLessThanWellFounded, Zenon
  <1>3. \A y, t \in Nat : y < t => <<y, t>> \in R
    BY Zenon DEF OpToRel
  <1> HIDE DEF R
  <1>4. PICK t \in T : \A y \in T : ~(<<y, t>> \in R)
    <2> HIDE DEF T
    <2> QED BY <1>1, <1>2, WFMin, Zenon
  <1>5. \A y \in T : ~(y < t)
    BY <1>1, <1>3, <1>4, Zenon
  <1>6. PICK m \in S : t = MaxHeight - m
    BY <1>4, Zenon
  <1>7. \A x \in S : m >= x
    BY ManagerAssumption, <1>5, <1>6 DEF Heights
  <1>8. Max(S) \in S /\ \A x \in S : Max(S) >= x
    BY <1>7, Zenon DEF Max
  <1> QED BY <1>8, Zenon DEF Heights

LEMMA NoElements == Cardinality({}) = 0
  <1> DEFINE Body(f) == [T \in SUBSET {} |->
                           IF T = {} THEN 0 ELSE 1 + f[T \ {CHOOSE x : x \in T}]]
             c == CHOOSE f : f = Body(f)
             z == [T \in SUBSET {} |-> 0]
  <1>1. z = Body(z)
    BY Zenon
  <1>2. c = Body(c)
    <2> HIDE DEF Body, z
    <2> QED BY <1>1, Zenon
  <1>3. c[{}] = 0
    <2> HIDE DEF c
    <2> QED BY <1>2, Zenon
  <1> QED BY <1>3, Zenon DEF Cardinality

\* Prune keeps the newest snapshot, when it is to keep any.
LEMMA NewestRetained ==
    ASSUME meta \in [Heights -> Int], KeepRecent > 0, NEW d \in Listed \ Retained
    PROVE  \E l \in Listed : d < l
  <1> SUFFICES ASSUME \A l \in Listed : ~(d < l) PROVE d \in Retained
    BY Zenon
  <1>1. {l \in Listed : l > d} = {}
    BY Zenon DEF Listed, Heights
  <1>2. Cardinality({l \in Listed : l > d}) = 0
    BY <1>1, NoElements, Zenon
  <1> QED BY <1>2, Zenon DEF Retained

-----------------------------------------------------------------------------
(* The chunks in the channel                                               *)

LEMMA RunAppend ==
    ASSUME NEW s \in Seq(Nat), NEW a \in Nat, Run(s, a)
    PROVE  LET t == Append(s, a + Len(s))
           IN  t \in Seq(Nat) /\ Len(t) = Len(s) + 1 /\ Run(t, a)
  <1> DEFINE n == Len(s)
             t == Append(s, a + n)
  <1>1. n \in Nat /\ a + n \in Nat
    OBVIOUS
  <1>2. /\ t \in Seq(Nat) /\ Len(t) = n + 1 /\ t[n + 1] = a + n
        /\ \A i \in 1 .. n : t[i] = s[i]
    BY <1>1
  <1>3. \A i \in 1 .. n : s[i] = a + i - 1
    BY Zenon DEF Run
  <1> HIDE DEF n, t
  <1>4. ASSUME NEW i \in 1 .. n + 1 PROVE t[i] = a + i - 1
    <2>1. CASE i = n + 1
      BY <1>1, <1>2, <2>1
    <2>2. CASE i \in 1 .. n
      BY <1>2, <1>3, <2>2, Zenon
    <2> QED BY <1>1, <2>1, <2>2
  <1>5. Run(t, a)
    BY <1>2, <1>4, Zenon DEF Run
  <1> QED BY <1>2, <1>5, Zenon DEF n, t

LEMMA TailFacts ==
    ASSUME NEW S, NEW s \in Seq(S), s # <<>>
    PROVE  /\ Tail(s) \in Seq(S) /\ Len(Tail(s)) = Len(s) - 1
           /\ \A i \in 1 .. Len(Tail(s)) : Tail(s)[i] = s[i + 1]
  OBVIOUS

LEMMA RunTail ==
    ASSUME NEW s \in Seq(Nat), s # <<>>, NEW a \in Nat, Run(s, a)
    PROVE  /\ Head(s) = a /\ Len(s) \in Nat \ {0}
           /\ Tail(s) \in Seq(Nat) /\ Len(Tail(s)) = Len(s) - 1 /\ Run(Tail(s), a + 1)
  <1> DEFINE n == Len(s)
             t == Tail(s)
  <1>1. n \in Nat \ {0} /\ Head(s) = s[1]
    OBVIOUS
  <1>2. \A i \in 1 .. n : s[i] = a + i - 1
    BY Zenon DEF Run
  <1>3. t \in Seq(Nat) /\ Len(t) = n - 1 /\ \A i \in 1 .. Len(t) : t[i] = s[i + 1]
    BY TailFacts, Zenon
  <1> HIDE DEF n, t
  <1>4. ASSUME NEW i \in 1 .. Len(t) PROVE t[i] = (a + 1) + i - 1
    <2>1. i + 1 \in 1 .. n
      BY <1>1, <1>3
    <2>2. s[i + 1] = a + (i + 1) - 1
      BY <1>2, <2>1, Zenon
    <2> QED BY <1>3, <2>2
  <1>5. Run(t, a + 1)
    BY <1>4, Zenon DEF Run
  <1> QED BY <1>1, <1>2, <1>3, <1>5 DEF n, t

-----------------------------------------------------------------------------
(* Steps that leave a part of the state alone                              *)

\* A step of a goroutine that takes snapshots, as the restore sees it.
LEMMA RestoreUntouched ==
    ASSUME IInv, UNCHANGED <<channel, restore>>,
           operation' = operation \/ (operation # "restore" /\ operation' # "restore")
    PROVE  ChannelTypeOK' /\ ChannelInv' /\ RestoreInv'
  BY Zenon DEF IInv, ChannelTypeOK, ChannelInv, RestoreInv, channel, restore

\* A step of the restore, as the goroutines that take snapshots see it.
LEMMA TakingUntouched ==
    ASSUME IInv, UNCHANGED <<store, height, taking>>,
           operation' \in {"none", "snapshot", "prune", "restore"},
           operation' = operation \/ operation \in {"none", "restore"}
    PROVE  TypeOK' /\ OneOperation' /\ DiskInv'
  <1>1. TypeOK' /\ OneOperation'
    BY DEF IInv, TypeOK, OneOperation, store, taking, Creating, Pruning
  <1>2. DiskInv'
    BY Zenon DEF IInv, DiskInv, SaveInv, PruneInv, ListedComplete, Listed, store, taking
  <1> QED BY <1>1, <1>2, Zenon

\* A goroutine that moves on, when no other one is in an operation and the
\* operation is the one of its new place.
LEMMA Moves ==
    ASSUME IInv, NEW h \in Heights, NEW l, Goto(h, l),
           l \in {"none", "create", "prune"} \cup Creating \cup Pruning,
           operation' \in {"none", "snapshot", "prune", "restore"},
           l = "prune" => KeepRecent > 0,
           l \in Creating => operation' = "snapshot",
           l \in Pruning => operation' = "prune",
           l \in Creating \cup Pruning \/ operation' # operation =>
               \A k \in Heights : k # h => pc[k] \notin Creating \cup Pruning
    PROVE  /\ OneOperation'
           /\ pc' \in [Heights -> {"none", "create", "prune"} \cup Creating \cup Pruning]
           /\ pc'[h] = l /\ \A k \in Heights : k # h => pc'[k] = pc[k]
  <1>1. /\ pc' \in [Heights -> {"none", "create", "prune"} \cup Creating \cup Pruning]
        /\ pc'[h] = l /\ \A k \in Heights : k # h => pc'[k] = pc[k]
    BY Zenon DEF IInv, TypeOK, Goto
  <1>2. \A k \in Heights : /\ pc'[k] \in Creating => operation' = "snapshot"
                           /\ pc'[k] \in Pruning => operation' = "prune"
                           /\ pc'[k] = "prune" => KeepRecent > 0
    BY <1>1, Zenon DEF IInv, OneOperation
  <1>3. ASSUME NEW g \in Heights, NEW k \in Heights,
               pc'[g] \in Creating \cup Pruning, pc'[k] \in Creating \cup Pruning
        PROVE  g = k
    BY <1>1, <1>3 DEF IInv, OneOperation, Creating, Pruning
  <1> QED BY <1>1, <1>2, <1>3, Zenon DEF OneOperation

\* An operation that is in progress keeps the other goroutines out.
LEMMA Alone ==
    ASSUME IInv, NEW h \in Heights,
           pc[h] \in Creating \cup Pruning \/ operation \in {"none", "restore"}
    PROVE  \A k \in Heights : k # h => pc[k] \notin Creating \cup Pruning
  BY Zenon DEF IInv, OneOperation, Creating, Pruning

-----------------------------------------------------------------------------
(* BaseApp.snapshot                                                        *)

LEMMA CommitStep ==
    ASSUME IInv, Commit
    PROVE  IInv'
  <1>1. height + 1 \in Heights
    BY ManagerAssumption DEF Commit, IInv, TypeOK, Heights
  <1>2. ChannelTypeOK' /\ ChannelInv' /\ RestoreInv'
    BY RestoreUntouched, Zenon DEF Commit
  <1>3. /\ OneOperation'
        /\ pc' \in [Heights -> {"none", "create", "prune"} \cup Creating \cup Pruning]
        /\ pc'[height + 1] = "create" /\ \A k \in Heights : k # height + 1 => pc'[k] = pc[k]
    <2>1. /\ Goto(height + 1, "create") /\ operation' = operation
          /\ operation \in {"none", "snapshot", "prune", "restore"}
          /\ "create" \notin Creating \cup Pruning
      BY Zenon DEF Commit, IInv, TypeOK, Creating, Pruning
    <2> QED BY <1>1, <2>1, Moves, Zenon
  <1>4. TypeOK'
    BY <1>1, <1>3 DEF Commit, IInv, TypeOK, store, Heights
  <1>5. DiskInv'
    BY <1>1, <1>3 DEF Commit, IInv, DiskInv, SaveInv, PruneInv, ListedComplete, Listed, store,
                      Pruning
  <1> QED BY <1>2, <1>3, <1>4, <1>5, Zenon DEF IInv

LEMMA BeginCreateStep ==
    ASSUME IInv, NEW h \in Heights, BeginCreate(h)
    PROVE  IInv'
  <1> DEFINE l == IF operation = "none" THEN "latest" ELSE "none"
  <1>1. /\ Goto(h, l) /\ (operation # "none" => operation' = operation)
        /\ operation = "none" => operation' = "snapshot"
        /\ operation \in {"none", "snapshot", "prune", "restore"}
    BY Zenon DEF BeginCreate, beginLocked, IInv, TypeOK
  <1>2. ChannelTypeOK' /\ ChannelInv' /\ RestoreInv'
    BY <1>1, RestoreUntouched, Zenon DEF BeginCreate
  <1>3. /\ OneOperation'
        /\ pc' \in [Heights -> {"none", "create", "prune"} \cup Creating \cup Pruning]
        /\ pc'[h] = l /\ \A k \in Heights : k # h => pc'[k] = pc[k]
    BY <1>1, Alone, Moves DEF Creating, Pruning
  <1>4. TypeOK'
    BY <1>1, <1>3, Zenon DEF BeginCreate, IInv, TypeOK, store
  <1>5. DiskInv'
    BY <1>3 DEF BeginCreate, IInv, DiskInv, SaveInv, PruneInv, ListedComplete, Listed, store,
                Pruning
  <1> QED BY <1>2, <1>3, <1>4, <1>5, Zenon DEF IInv

\* The height Save will work on is above all that are listed.
LEMMA CheckLatestStep ==
    ASSUME IInv, NEW h \in Heights, CheckLatest(h)
    PROVE  IInv'
  <1> DEFINE newer == \E l \in Listed : l >= h
             l == IF newer THEN "none" ELSE "save"
  <1>1. /\ Goto(h, l) /\ pc[h] = "latest" /\ operation = "snapshot"
        /\ newer => operation' = "none"
        /\ ~newer => operation' = "snapshot"
    BY Zenon DEF CheckLatest, end, IInv, OneOperation, Creating
  <1>2. ChannelTypeOK' /\ ChannelInv' /\ RestoreInv'
    BY <1>1, RestoreUntouched, Zenon DEF CheckLatest
  <1>3. /\ OneOperation'
        /\ pc' \in [Heights -> {"none", "create", "prune"} \cup Creating \cup Pruning]
        /\ pc'[h] = l /\ \A k \in Heights : k # h => pc'[k] = pc[k]
    BY <1>1, Alone, Moves DEF Creating, Pruning
  <1>4. TypeOK'
    BY ManagerAssumption, <1>1, <1>3 DEF CheckLatest, IInv, TypeOK, store
  <1>5. SaveInv'
    <2>1. \A k \in Heights : k # h => pc'[k] \notin Creating
      BY <1>1, <1>3, Alone, Zenon DEF Creating
    <2>2. ~newer => \A k \in Listed : k < h
      BY DEF Listed, Heights
    <2> QED BY ManagerAssumption, <1>1, <1>3, <2>1, <2>2
               DEF CheckLatest, IInv, DiskInv, SaveInv, Listed, store, Creating, Indices
  <1>6. PruneInv' /\ ListedComplete'
    BY <1>3 DEF CheckLatest, IInv, DiskInv, PruneInv, ListedComplete, Listed, store, Pruning
  <1> QED BY <1>2, <1>3, <1>4, <1>5, <1>6, Zenon DEF IInv, DiskInv

\* The file written belongs to a height that is not listed.
LEMMA CreateChunkStep ==
    ASSUME IInv, NEW h \in Heights, CreateChunk(h)
    PROVE  IInv'
  <1>1. /\ Goto(h, "copy") /\ pc[h] = "save" /\ operation = "snapshot" /\ operation' = operation
        /\ index \in Indices /\ index' = index
    BY ManagerAssumption DEF CreateChunk, IInv, OneOperation, Creating, TypeOK, DiskInv, SaveInv, Indices
  <1>2. ChannelTypeOK' /\ ChannelInv' /\ RestoreInv'
    BY <1>1, RestoreUntouched, Zenon DEF CreateChunk
  <1>3. /\ OneOperation'
        /\ pc' \in [Heights -> {"none", "create", "prune"} \cup Creating \cup Pruning]
        /\ pc'[h] = "copy" /\ \A k \in Heights : k # h => pc'[k] = pc[k]
    BY <1>1, Alone, Moves, Zenon DEF Creating, Pruning
  <1>4. /\ files' \in [Heights -> [Indices -> {"none", "partial", "full"}]]
        /\ \A k \in Heights : k # h => files'[k] = files[k]
        /\ \A i \in Indices : i # index => files'[h][i] = files[h][i]
    BY <1>1, Zenon DEF CreateChunk, IInv, TypeOK
  <1>5. TypeOK'
    BY <1>1, <1>3, <1>4, Zenon DEF CreateChunk, IInv, TypeOK
  <1>6. h \notin Listed
    BY <1>1 DEF IInv, DiskInv, SaveInv, Heights
  <1>7. SaveInv'
    <2>1. \A k \in Heights : k # h => pc'[k] \notin Creating
      BY <1>1, <1>3, Alone, Zenon DEF Creating
    <2>2. \A i \in Indices : i < index => files'[h][i] = "full"
      BY <1>1, <1>4 DEF IInv, DiskInv, SaveInv, Indices
    <2>3. (\A l \in Listed : l < h) /\ Listed' = Listed
      BY <1>1, Zenon DEF CreateChunk, IInv, DiskInv, SaveInv, Listed
    <2> QED BY <1>1, <1>3, <2>1, <2>2, <2>3
               DEF CreateChunk, IInv, DiskInv, SaveInv, Creating, Indices
  <1>8. PruneInv'
    BY <1>3, Zenon DEF CreateChunk, IInv, DiskInv, PruneInv, Listed, Pruning
  <1>9. ListedComplete'
    BY <1>4, <1>6 DEF CreateChunk, IInv, DiskInv, ListedComplete, Listed
  <1> QED BY <1>2, <1>3, <1>5, <1>7, <1>8, <1>9, Zenon DEF IInv, DiskInv

\* The exporting goroutine touches neither the disk nor the manager.
LEMMA ExporterStep ==
    ASSUME IInv, NEW h \in Heights, Close(h) \/ CloseWithError(h)
    PROVE  IInv'
  <1>1. /\ UNCHANGED <<store, operation, channel, height, pc, index, toDelete, restore>>
        /\ exporter' \in {"closed", "failed"}
    BY Zenon DEF Close, CloseWithError
  <1>2. ChannelTypeOK' /\ ChannelInv' /\ RestoreInv'
    BY <1>1, RestoreUntouched, Zenon
  <1>3. TypeOK' /\ OneOperation'
    BY <1>1, Zenon DEF IInv, TypeOK, OneOperation, store
  <1>4. DiskInv'
    BY <1>1, Zenon DEF IInv, DiskInv, SaveInv, PruneInv, ListedComplete, Listed, store
  <1> QED BY <1>2, <1>3, <1>4, Zenon DEF IInv

LEMMA CopyChunkStep ==
    ASSUME IInv, NEW h \in Heights, CopyChunk(h)
    PROVE  IInv'
  <1>1. /\ Goto(h, "save") /\ pc[h] = "copy" /\ operation = "snapshot" /\ operation' = operation
        /\ index \in Indices /\ index' = index + 1 /\ index' \in 0 .. Chunks
    BY ManagerAssumption DEF CopyChunk, IInv, OneOperation, Creating, TypeOK, DiskInv, SaveInv, Indices
  <1>2. ChannelTypeOK' /\ ChannelInv' /\ RestoreInv'
    BY <1>1, RestoreUntouched, Zenon DEF CopyChunk
  <1>3. /\ OneOperation'
        /\ pc' \in [Heights -> {"none", "create", "prune"} \cup Creating \cup Pruning]
        /\ pc'[h] = "save" /\ \A k \in Heights : k # h => pc'[k] = pc[k]
    BY <1>1, Alone, Moves, Zenon DEF Creating, Pruning
  <1>4. /\ files' \in [Heights -> [Indices -> {"none", "partial", "full"}]]
        /\ \A k \in Heights : k # h => files'[k] = files[k]
        /\ \A i \in Indices : i # index => files'[h][i] = files[h][i]
        /\ files'[h][index] = "full"
    BY <1>1, Zenon DEF CopyChunk, IInv, TypeOK
  <1>5. TypeOK'
    BY <1>1, <1>3, <1>4, Zenon DEF CopyChunk, IInv, TypeOK
  <1>6. h \notin Listed
    BY <1>1 DEF IInv, DiskInv, SaveInv, Heights
  <1>7. SaveInv'
    <2>1. \A k \in Heights : k # h => pc'[k] \notin Creating
      BY <1>1, <1>3, Alone, Zenon DEF Creating
    <2>2. \A i \in Indices : i < index' => files'[h][i] = "full"
      BY <1>1, <1>4 DEF IInv, DiskInv, SaveInv, Indices
    <2>3. (\A l \in Listed : l < h) /\ Listed' = Listed
      BY <1>1, Zenon DEF CopyChunk, IInv, DiskInv, SaveInv, Listed
    <2>4. exporter' = "open" => index' < Chunks
      BY ManagerAssumption, <1>1 DEF CopyChunk, Indices
    <2> QED BY <1>1, <1>3, <2>1, <2>2, <2>3, <2>4, Zenon DEF SaveInv, Creating
  <1>8. PruneInv'
    BY <1>3, Zenon DEF CopyChunk, IInv, DiskInv, PruneInv, Listed, Pruning
  <1>9. ListedComplete'
    BY <1>4, <1>6 DEF CopyChunk, IInv, DiskInv, ListedComplete, Listed
  <1> QED BY <1>2, <1>3, <1>5, <1>7, <1>8, <1>9, Zenon DEF IInv, DiskInv

\* What Save has written stays, and is not listed.
LEMMA SaveFailsStep ==
    ASSUME IInv, NEW h \in Heights, SaveFails(h) \/ DrainChunks(h)
    PROVE  IInv'
  <1> DEFINE l == IF pc[h] = "copy" THEN "drain" ELSE "none"
  <1>1. /\ Goto(h, l) /\ pc[h] \in {"copy", "drain"} /\ operation = "snapshot"
        /\ operation' = IF pc[h] = "copy" THEN "snapshot" ELSE "none"
        /\ UNCHANGED <<store, channel, height, index, toDelete, restore>>
        /\ exporter' \in {exporter, "none"}
    BY Zenon DEF SaveFails, DrainChunks, end, IInv, OneOperation, Creating
  <1>2. ChannelTypeOK' /\ ChannelInv' /\ RestoreInv'
    BY <1>1, RestoreUntouched, Zenon
  <1>3. /\ OneOperation'
        /\ pc' \in [Heights -> {"none", "create", "prune"} \cup Creating \cup Pruning]
        /\ pc'[h] = l /\ \A k \in Heights : k # h => pc'[k] = pc[k]
    BY <1>1, Alone, Moves DEF Creating, Pruning
  <1>4. TypeOK'
    BY <1>1, <1>3, Zenon DEF IInv, TypeOK, store
  <1>5. DiskInv'
    BY <1>1, <1>3 DEF IInv, DiskInv, SaveInv, PruneInv, ListedComplete, Listed, store, Pruning
  <1> QED BY <1>2, <1>3, <1>4, <1>5, Zenon DEF IInv

\* Every chunk recorded is whole, and the new snapshot is the newest.
LEMMA saveSnapshotStep ==
    ASSUME IInv, NEW h \in Heights, saveSnapshot(h)
    PROVE  IInv' /\ Listed' = Listed \cup {h} /\ \A l \in Listed : l < h
  <1> DEFINE l == IF KeepRecent > 0 THEN "prune" ELSE "none"
  <1>1. /\ Goto(h, l) /\ pc[h] = "save" /\ operation = "snapshot" /\ operation' = "none"
        /\ index \in 0 .. Chunks /\ index' = index
    BY Zenon DEF saveSnapshot, end, IInv, OneOperation, Creating, TypeOK
  <1>2. ChannelTypeOK' /\ ChannelInv' /\ RestoreInv'
    BY <1>1, RestoreUntouched, Zenon DEF saveSnapshot
  <1>3. /\ OneOperation'
        /\ pc' \in [Heights -> {"none", "create", "prune"} \cup Creating \cup Pruning]
        /\ pc'[h] = l /\ \A k \in Heights : k # h => pc'[k] = pc[k]
    BY <1>1, Alone, Moves DEF Creating, Pruning
  <1>4. /\ meta' \in [Heights -> Absent .. Chunks] /\ meta'[h] = index
        /\ \A k \in Heights : k # h => meta'[k] = meta[k]
    BY <1>1 DEF saveSnapshot, IInv, TypeOK, Absent
  <1>5. TypeOK'
    BY <1>1, <1>3, <1>4, Zenon DEF saveSnapshot, IInv, TypeOK
  <1>6. Listed' = Listed \cup {h} /\ \A k \in Listed : k < h
    BY <1>1, <1>4 DEF IInv, DiskInv, SaveInv, Listed, Absent
  <1>7. \A k \in Heights : pc'[k] \notin Creating \cup Pruning
    BY <1>1, <1>3, Alone, Zenon DEF Creating, Pruning
  <1>8. SaveInv' /\ PruneInv'
    BY <1>7, Zenon DEF saveSnapshot, SaveInv, PruneInv, Creating, Pruning
  <1>9. ListedComplete'
    BY <1>1, <1>4, <1>6 DEF saveSnapshot, IInv, DiskInv, SaveInv, ListedComplete, Listed, Indices
  <1> QED BY <1>2, <1>3, <1>5, <1>6, <1>8, <1>9, Zenon DEF IInv, DiskInv

LEMMA BeginPruneStep ==
    ASSUME IInv, NEW h \in Heights, BeginPrune(h)
    PROVE  IInv'
  <1> DEFINE l == IF operation = "none" THEN "delete" ELSE "none"
  <1>1. /\ Goto(h, l) /\ pc[h] = "prune" /\ (operation # "none" => operation' = operation)
        /\ operation = "none" => operation' = "prune" /\ toDelete' = Listed \ Retained
        /\ operation # "none" => toDelete' = toDelete
        /\ operation \in {"none", "snapshot", "prune", "restore"}
        /\ KeepRecent > 0 /\ Listed' = Listed
    BY Zenon DEF BeginPrune, beginLocked, IInv, TypeOK, OneOperation, Listed, store
  <1>2. ChannelTypeOK' /\ ChannelInv' /\ RestoreInv'
    BY <1>1, RestoreUntouched, Zenon DEF BeginPrune
  <1>3. /\ OneOperation'
        /\ pc' \in [Heights -> {"none", "create", "prune"} \cup Creating \cup Pruning]
        /\ pc'[h] = l /\ \A k \in Heights : k # h => pc'[k] = pc[k]
    BY <1>1, Alone, Moves DEF Creating, Pruning
  <1>4. TypeOK'
    BY <1>1, <1>3, Zenon DEF BeginPrune, IInv, TypeOK, store, Listed
  <1>5. SaveInv' /\ ListedComplete'
    BY <1>1, <1>3 DEF BeginPrune, IInv, DiskInv, SaveInv, ListedComplete, store
  <1>6. PruneInv'
    <2>1. CASE operation = "none"
      <3>1. \A d \in toDelete' : \E k \in Listed : d < k
        <4>1. meta \in [Heights -> Int]
          BY DEF IInv, TypeOK, Absent
        <4> QED BY <1>1, <2>1, <4>1, NewestRetained, Zenon
      <3>2. \A k \in Heights : k # h => pc'[k] \notin Pruning
        BY <1>3, <2>1, Alone, Zenon DEF Pruning
      <3> QED BY <1>1, <1>3, <2>1, <3>1, <3>2, Zenon DEF PruneInv, Pruning
    <2>2. CASE operation # "none"
      BY <1>1, <1>3, <2>2, Zenon DEF BeginPrune, IInv, DiskInv, PruneInv, Pruning, store
    <2> QED BY <2>1, <2>2, Zenon
  <1> QED BY <1>2, <1>3, <1>4, <1>5, <1>6, Zenon DEF IInv, DiskInv

\* The metadata of a snapshot that is not the newest goes.
LEMMA DeleteMetaStep ==
    ASSUME IInv, NEW h \in Heights, DeleteMeta(h)
    PROVE  /\ IInv'
           /\ Listed' = Listed \ {Max(toDelete)} /\ \E k \in Listed : Max(toDelete) < k
  <1> DEFINE m == Max(toDelete)
  <1>1. /\ Goto(h, "removeall") /\ pc[h] = "delete" /\ operation = "prune"
        /\ operation' = operation /\ toDelete' = toDelete
        /\ toDelete # {} /\ toDelete \subseteq Heights
    BY Zenon DEF DeleteMeta, IInv, OneOperation, Pruning, TypeOK
  <1>2. ChannelTypeOK' /\ ChannelInv' /\ RestoreInv'
    BY <1>1, RestoreUntouched, Zenon DEF DeleteMeta
  <1>3. /\ OneOperation'
        /\ pc' \in [Heights -> {"none", "create", "prune"} \cup Creating \cup Pruning]
        /\ pc'[h] = "removeall" /\ \A k \in Heights : k # h => pc'[k] = pc[k]
    BY <1>1, Alone, Moves, Zenon DEF Creating, Pruning
  <1>4. m \in toDelete /\ \A d \in toDelete : d <= m
    BY <1>1, MaxIsLargest, Zenon
  <1>5. /\ meta' \in [Heights -> Absent .. Chunks] /\ meta'[m] = Absent
        /\ \A k \in Heights : k # m => meta'[k] = meta[k]
    BY ManagerAssumption, <1>1, <1>4 DEF DeleteMeta, IInv, TypeOK, Absent
  <1> HIDE DEF m
  <1>6. Listed' = Listed \ {m}
    BY <1>5, Zenon DEF Listed
  <1>7. PICK l \in Listed : m < l
    BY <1>1, <1>4, Zenon DEF IInv, DiskInv, PruneInv, Pruning
  <1>8. TypeOK'
    BY <1>1, <1>3, <1>5, Zenon DEF DeleteMeta, IInv, TypeOK
  <1>9. \A k \in Heights : pc'[k] \notin Creating
    BY <1>1, <1>3, Alone, Zenon DEF Creating, Pruning
  <1>10. SaveInv'
    BY <1>9, Zenon DEF DeleteMeta, IInv, DiskInv, SaveInv, Creating
  <1>11. PruneInv'
    <2>1. \A d \in toDelete : d < l
      BY <1>1, <1>4, <1>7 DEF Heights, Listed
    <2>2. l \in Listed'
      BY <1>6, <1>7 DEF Listed, Heights
    <2> QED BY <1>1, <1>5, <2>1, <2>2, Zenon DEF PruneInv, m
  <1>12. ListedComplete'
    BY <1>5, <1>6 DEF DeleteMeta, IInv, DiskInv, ListedComplete, Listed
  <1> QED BY <1>2, <1>3, <1>6, <1>7, <1>8, <1>10, <1>11, <1>12, Zenon DEF IInv, DiskInv, m

\* The chunks that go are those of a snapshot that is not listed any more.
LEMMA RemoveAllStep ==
    ASSUME IInv, NEW h \in Heights, RemoveAll(h)
    PROVE  IInv'
  <1> DEFINE m == Max(toDelete)
  <1>1. /\ Goto(h, "delete") /\ pc[h] = "removeall" /\ operation = "prune"
        /\ operation' = operation /\ toDelete' = toDelete \ {m}
        /\ toDelete # {} /\ toDelete \subseteq Heights /\ meta[m] = Absent
    BY Zenon DEF RemoveAll, IInv, OneOperation, Pruning, TypeOK, DiskInv, PruneInv
  <1>2. ChannelTypeOK' /\ ChannelInv' /\ RestoreInv'
    BY <1>1, RestoreUntouched, Zenon DEF RemoveAll
  <1>3. /\ OneOperation'
        /\ pc' \in [Heights -> {"none", "create", "prune"} \cup Creating \cup Pruning]
        /\ pc'[h] = "delete" /\ \A k \in Heights : k # h => pc'[k] = pc[k]
    BY <1>1, Alone, Moves, Zenon DEF Creating, Pruning
  <1>4. m \in Heights
    BY <1>1, MaxIsLargest, Zenon
  <1>5. /\ files' \in [Heights -> [Indices -> {"none", "partial", "full"}]]
        /\ \A k \in Heights : k # m => files'[k] = files[k]
    <2>1. /\ files' = [files EXCEPT ![m] = NoFiles]
          /\ files \in [Heights -> [Indices -> {"none", "partial", "full"}]]
      BY Zenon DEF RemoveAll, IInv, TypeOK
    <2>2. NoFiles \in [Indices -> {"none", "partial", "full"}]
      BY Zenon DEF NoFiles
    <2> HIDE DEF m
    <2> QED BY <1>4, <2>1, <2>2, Zenon
  <1> HIDE DEF m
  <1>6. TypeOK'
    BY <1>1, <1>3, <1>5, Zenon DEF RemoveAll, IInv, TypeOK
  <1>7. \A k \in Heights : pc'[k] \notin Creating /\ (k # h => pc'[k] \notin Pruning)
    BY <1>1, <1>3, Alone, Zenon DEF Creating, Pruning
  <1>8. SaveInv'
    BY <1>7, Zenon DEF RemoveAll, IInv, DiskInv, SaveInv, Creating
  <1>9. PruneInv'
    <2>1. \A d \in toDelete' : \E l \in Listed' : d < l
      BY <1>1, Zenon DEF RemoveAll, IInv, DiskInv, PruneInv, Pruning, Listed
    <2> QED BY <1>3, <1>7, <2>1, Zenon DEF PruneInv, Pruning
  <1>10. ListedComplete'
    BY <1>1, <1>5 DEF RemoveAll, IInv, DiskInv, ListedComplete, Listed
  <1> QED BY <1>2, <1>3, <1>6, <1>8, <1>9, <1>10, Zenon DEF IInv, DiskInv

LEMMA RemoveDirStep ==
    ASSUME IInv, NEW h \in Heights, RemoveDir(h)
    PROVE  IInv'
  <1>1. /\ pc[h] = "delete" /\ operation = "prune"
        /\ UNCHANGED <<meta, files, channel, height, index, toDelete, exporter, restore>>
    BY Zenon DEF RemoveDir, IInv, OneOperation, Pruning
  <1>2. \/ UNCHANGED <<operation, pc>>
        \/ operation' = "none" /\ Goto(h, "none")
    BY Zenon DEF RemoveDir, end
  <1>3. ChannelTypeOK' /\ ChannelInv' /\ RestoreInv'
    BY <1>1, <1>2, RestoreUntouched, Zenon
  <1>4. /\ OneOperation'
        /\ pc' \in [Heights -> {"none", "create", "prune"} \cup Creating \cup Pruning]
        /\ \A k \in Heights : pc'[k] \in {pc[k], "none"}
    <2>1. CASE UNCHANGED <<operation, pc>>
      BY <2>1, Zenon DEF IInv, TypeOK, OneOperation
    <2>2. CASE operation' = "none" /\ Goto(h, "none")
      <3>1. \A k \in Heights : k # h => pc[k] \notin Creating \cup Pruning
        BY <1>1, Alone, Zenon DEF Pruning
      <3>2. "none" \notin Creating \cup Pruning
        BY Zenon DEF Creating, Pruning
      <3> QED BY <2>2, <3>1, <3>2, Moves, Zenon
    <2> QED BY <1>2, <2>1, <2>2, Zenon
  <1>5. TypeOK'
    BY <1>1, <1>2, <1>4, Zenon DEF IInv, TypeOK
  <1>6. DiskInv'
    BY <1>1, <1>4 DEF IInv, DiskInv, SaveInv, PruneInv, ListedComplete, Listed, Pruning
  <1> QED BY <1>3, <1>4, <1>5, <1>6, Zenon DEF IInv

-----------------------------------------------------------------------------
(* OfferSnapshot and ApplySnapshotChunk                                    *)

LEMMA OfferSnapshotStep ==
    ASSUME IInv, NEW kind, NEW bad \in 0 .. Chunks, NEW last \in 0 .. Chunks,
               OfferSnapshot(kind, bad, last)
    PROVE  IInv'
  <1>1. \/ UNCHANGED <<operation, channel, badChunk, endChunk, restorer, applied, restoreErr>>
        \/ /\ operation = "none" /\ operation' = "restore"
           /\ chRestore' = <<>> /\ chOpen' = TRUE /\ restoreChunkIndex' = 0
           /\ badChunk' = bad /\ endChunk' = last /\ restorer' = "read" /\ applied' = 0
           /\ restoreErr' = FALSE
    BY Zenon DEF OfferSnapshot, beginLocked
  <1>2. UNCHANGED <<store, height, taking, caller>> /\ caller = "none"
    BY Zenon DEF OfferSnapshot, Unlocked
  <1>3. TypeOK' /\ OneOperation' /\ DiskInv'
    BY <1>1, <1>2, TakingUntouched, Zenon DEF IInv, TypeOK
  <1>4. ChannelTypeOK' /\ ChannelInv'
    <2>1. CASE UNCHANGED <<operation, channel, badChunk, endChunk, restorer, applied, restoreErr>>
      BY <1>2, <2>1, Zenon DEF IInv, ChannelTypeOK, ChannelInv, channel
    <2>2. CASE ~UNCHANGED <<operation, channel, badChunk, endChunk, restorer, applied, restoreErr>>
      <3>1. /\ operation' = "restore" /\ chRestore' = <<>> /\ chOpen' = TRUE
            /\ restoreChunkIndex' = 0 /\ badChunk' = bad /\ endChunk' = last
            /\ restorer' = "read" /\ applied' = 0
            /\ restoreErr' = FALSE /\ caller' = "none"
        BY <1>1, <1>2, <2>2, Zenon
      <3>2. 0 < Chunks /\ <<>> \in Seq(Nat)
        BY ManagerAssumption
      <3>3. ChannelTypeOK'
        BY ManagerAssumption, <3>1, <3>2 DEF ChannelTypeOK
      <3> QED BY <3>1, <3>2, <3>3, Zenon DEF ChannelInv
    <2> QED BY <2>1, <2>2, Zenon
  <1>5. RestoreInv'
    <2>1. Len(<<>>) = 0
      BY Zenon
    <2> QED BY ManagerAssumption, <1>1, <1>2, <2>1 DEF IInv, RestoreInv, Run, channel
  <1> QED BY <1>3, <1>4, <1>5, Zenon DEF IInv

LEMMA RestoreChunkStep ==
    ASSUME IInv, NEW match \in BOOLEAN, RestoreChunk(match)
    PROVE  IInv'
  <1>1. /\ UNCHANGED <<store, height, taking, badChunk, endChunk, restorer, applied, restoreErr>>
        /\ caller = "none"
    BY Zenon DEF RestoreChunk, Unlocked
  <1>2. \/ UNCHANGED <<operation, channel, caller>>
        \/ /\ operation = "restore" /\ restorer = "returned" /\ operation' = "none"
           /\ chOpen' = FALSE /\ restoreChunkIndex' = 0 /\ UNCHANGED <<chRestore, caller>>
        \/ /\ operation = "restore" /\ restorer # "returned" /\ restoreChunkIndex < Chunks
           /\ caller' = "send" /\ UNCHANGED <<operation, channel>>
    BY ManagerAssumption DEF RestoreChunk, endLocked, end, IInv, ChannelTypeOK
  <1>3. TypeOK' /\ OneOperation' /\ DiskInv'
    BY <1>1, <1>2, TakingUntouched, Zenon DEF IInv, TypeOK
  <1>4. ChannelTypeOK' /\ ChannelInv'
    BY ManagerAssumption, <1>1, <1>2 DEF IInv, ChannelTypeOK, ChannelInv, channel
  <1>5. RestoreInv'
    BY <1>1, <1>2 DEF IInv, RestoreInv, channel
  <1> QED BY <1>3, <1>4, <1>5, Zenon DEF IInv

\* The chunk sent comes after those in the channel.
LEMMA SendChunkStep ==
    ASSUME IInv, SendChunk
    PROVE  IInv'
  <1>1. /\ UNCHANGED <<store, operation, height, taking, badChunk, endChunk, restorer, applied, restoreErr>>
        /\ caller = "send" /\ chOpen /\ restoreChunkIndex \in 0 .. Chunks - 1
        /\ restoreChunkIndex' = restoreChunkIndex + 1
        /\ restorer \in {"read", "drain"} /\ operation = "restore"
    BY ManagerAssumption DEF SendChunk, IInv, ChannelTypeOK, ChannelInv
  <1>2. \/ restoreChunkIndex' = Chunks /\ ~chOpen' /\ caller' = "wait"
        \/ restoreChunkIndex' < Chunks /\ chOpen' /\ caller' = "none"
    <2>1. CASE restoreChunkIndex + 1 >= Chunks
      BY ManagerAssumption, <1>1, <2>1 DEF SendChunk
    <2>2. CASE ~(restoreChunkIndex + 1 >= Chunks)
      BY ManagerAssumption, <1>1, <2>2 DEF SendChunk
    <2> QED BY <2>1, <2>2, Zenon
  <1>3. TypeOK' /\ OneOperation' /\ DiskInv'
    BY <1>1, TakingUntouched, Zenon DEF IInv, TypeOK
  <1>4. /\ chRestore \in Seq(Nat) /\ restoreChunkIndex \in Nat /\ applied \in Nat
        /\ chRestore' = Append(chRestore, restoreChunkIndex)
    BY <1>1 DEF SendChunk, IInv, ChannelTypeOK
  <1>5. chRestore' \in Seq(Nat)
    BY <1>4
  <1>6. ChannelTypeOK'
    BY ManagerAssumption, <1>1, <1>2, <1>5 DEF IInv, ChannelTypeOK
  <1>7. ChannelInv'
    BY <1>1, <1>2 DEF IInv, ChannelInv
  <1>8. RestoreInv'
    <2>1. CASE restorer = "read"
      <3>1. /\ applied + Len(chRestore) = restoreChunkIndex /\ Run(chRestore, applied)
            /\ ~restoreErr /\ applied <= badChunk /\ applied <= endChunk
        BY <2>1, Zenon DEF IInv, RestoreInv
      <3>2. Len(chRestore') = Len(chRestore) + 1 /\ Run(chRestore', applied)
        BY <1>4, <3>1, RunAppend, Zenon
      <3>3. Len(chRestore) \in Nat
        BY <1>4
      <3>4. applied + Len(chRestore') = restoreChunkIndex'
        <4> DEFINE l == Len(chRestore)
        <4>1. l \in Nat /\ applied + l = restoreChunkIndex
          BY <3>1, <3>3, Zenon
        <4> HIDE DEF l
        <4>2. applied + (l + 1) = restoreChunkIndex + 1
          BY <1>4, <4>1
        <4> QED BY <1>1, <3>2, <4>2, Zenon DEF l
      <3> QED BY <1>1, <2>1, <3>1, <3>2, <3>4, Zenon DEF RestoreInv
    <2>2. CASE restorer = "drain"
      BY <1>1, <2>2, Zenon DEF IInv, RestoreInv
    <2> QED BY <1>1, <2>1, <2>2, Zenon
  <1> QED BY <1>3, <1>6, <1>7, <1>8, Zenon DEF IInv

LEMMA RestoreDoneStep ==
    ASSUME IInv, RestoreDone
    PROVE  IInv'
  <1>1. /\ UNCHANGED <<store, chRestore, height, taking>>
        /\ badChunk' = Chunks /\ endChunk' = Chunks /\ restorer' = "none" /\ applied' = 0
        /\ operation = "restore" /\ operation' = "none" /\ ~chOpen' /\ restoreChunkIndex' = 0
        /\ caller' = "none" /\ restorer = "returned"
    BY Zenon DEF RestoreDone, endLocked, end, IInv, ChannelInv
  <1>2. TypeOK' /\ OneOperation' /\ DiskInv'
    BY <1>1, TakingUntouched, Zenon
  <1>3. ChannelTypeOK' /\ ChannelInv' /\ RestoreInv'
    BY ManagerAssumption, <1>1 DEF IInv, ChannelTypeOK, ChannelInv, RestoreInv
  <1> QED BY <1>2, <1>3, Zenon DEF IInv

\* The chunk read is the next one.
LEMMA ReadChunkStep ==
    ASSUME IInv, ReadChunk
    PROVE  IInv'
  <1>1. /\ UNCHANGED <<store, operation, chOpen, restoreChunkIndex, height, taking, badChunk,
                       endChunk, caller>>
        /\ restorer = "read" /\ restorer' \in {"read", "drain"}
    BY Zenon DEF ReadChunk
  <1>2. /\ ~restoreErr /\ applied <= badChunk /\ applied <= endChunk
        /\ applied + Len(chRestore) = restoreChunkIndex
        /\ Run(chRestore, applied) /\ chRestore \in Seq(Nat)
        /\ applied \in Nat /\ restoreChunkIndex \in 0 .. Chunks
        /\ badChunk \in 0 .. Chunks /\ endChunk \in 0 .. Chunks
    BY <1>1 DEF IInv, RestoreInv, ChannelTypeOK
  <1>3. TypeOK' /\ OneOperation' /\ DiskInv'
    BY <1>1, TakingUntouched, Zenon DEF IInv, TypeOK
  <1>4. ChannelInv'
    BY <1>1, Zenon DEF IInv, ChannelInv
  <1>5. CASE chRestore = <<>>
    <2>1. chRestore' = chRestore /\ applied' = applied /\ restoreErr' /\ restorer' = "drain"
      BY <1>5, Zenon DEF ReadChunk
    <2>2. ChannelTypeOK' /\ RestoreInv'
      BY <1>1, <2>1, Zenon DEF IInv, ChannelTypeOK, RestoreInv
    <2> QED BY <1>3, <1>4, <2>2, Zenon DEF IInv
  <1>6. CASE chRestore # <<>>
    <2>1. /\ chRestore' = Tail(chRestore) /\ applied' = applied + 1
          /\ restoreErr' = (Head(chRestore) = badChunk)
          /\ restorer' = IF Head(chRestore) \in {badChunk, endChunk} THEN "drain" ELSE "read"
      BY <1>6, Zenon DEF ReadChunk
    <2>2. /\ Head(chRestore) = applied /\ Len(chRestore) \in Nat \ {0}
          /\ chRestore' \in Seq(Nat) /\ Len(chRestore') = Len(chRestore) - 1
          /\ Run(chRestore', applied + 1)
      BY <1>2, <1>6, <2>1, RunTail, Zenon
    <2>3. applied' \in 0 .. Chunks
      BY ManagerAssumption, <1>2, <2>1, <2>2
    <2>4. ChannelTypeOK'
      BY <1>1, <2>2, <2>3, Zenon DEF IInv, ChannelTypeOK
    <2>5. ASSUME restorer' = "read" PROVE RestoreInv'
      <3>1. applied # badChunk /\ applied # endChunk /\ ~restoreErr'
        BY <2>1, <2>2, <2>5, Zenon
      <3>2. Run(chRestore', applied') /\ applied' + Len(chRestore') = restoreChunkIndex'
        <4> DEFINE l == Len(chRestore)
        <4>1. l \in Nat /\ applied + l = restoreChunkIndex
          BY <1>2, <2>2
        <4> HIDE DEF l
        <4>2. (applied + 1) + (l - 1) = restoreChunkIndex
          BY <1>2, <4>1
        <4> QED BY <1>1, <2>1, <2>2, <4>2, Zenon DEF l
      <3>3. applied' <= badChunk /\ applied' <= endChunk
        BY <1>2, <2>1, <3>1
      <3> QED BY <1>1, <2>5, <3>1, <3>2, <3>3, Zenon DEF RestoreInv
    <2>6. ASSUME restorer' = "drain" PROVE RestoreInv'
      <3>1. ASSUME ~restoreErr' PROVE endChunk < badChunk /\ applied' = endChunk + 1
        <4>1. applied # badChunk /\ applied = endChunk
          BY <2>1, <2>2, <2>6, <3>1, ZenonT(30)
        <4> QED BY <1>2, <2>1, <4>1
      <3> QED BY <1>1, <2>6, <3>1, Zenon DEF RestoreInv
    <2>7. RestoreInv'
      BY <1>1, <2>5, <2>6, Zenon
    <2> QED BY <1>3, <1>4, <2>4, <2>7, Zenon DEF IInv
  <1> QED BY <1>5, <1>6, Zenon

LEMMA CloseReaderStep ==
    ASSUME IInv, CloseReader
    PROVE  IInv'
  <1>1. /\ UNCHANGED <<store, operation, chOpen, restoreChunkIndex, height, taking, badChunk,
                       endChunk, applied, restoreErr, caller>>
        /\ restorer = "drain" /\ chRestore \in Seq(Nat)
        /\ \/ chRestore # <<>> /\ chRestore' = Tail(chRestore) /\ restorer' = restorer
           \/ chRestore = <<>> /\ ~chOpen /\ restorer' = "returned" /\ chRestore' = chRestore
    BY Zenon DEF CloseReader, IInv, ChannelTypeOK
  <1>2. chRestore' \in Seq(Nat)
    BY <1>1, TailFacts, ZenonT(30)
  <1>3. TypeOK' /\ OneOperation' /\ DiskInv'
    BY <1>1, TakingUntouched, Zenon DEF IInv, TypeOK
  <1>4. ChannelTypeOK' /\ ChannelInv' /\ RestoreInv'
    BY <1>1, <1>2, Zenon DEF IInv, ChannelTypeOK, ChannelInv, RestoreInv
  <1> QED BY <1>3, <1>4, Zenon DEF IInv

\* Only the disk is left, and on it what is listed is whole.
LEMMA CrashStep ==
    ASSUME IInv, Crash
    PROVE  IInv'
  <1>1. TypeOK' /\ OneOperation'
    BY ManagerAssumption DEF Crash, IInv, TypeOK, OneOperation, store, Creating, Pruning
  <1>2. DiskInv'
    BY Zenon DEF Crash, IInv, DiskInv, SaveInv, PruneInv, ListedComplete, Listed, store, Pruning
  <1>3. ChannelTypeOK' /\ ChannelInv' /\ RestoreInv'
    BY ManagerAssumption DEF Crash, ChannelTypeOK, ChannelInv, RestoreInv
  <1> QED BY <1>1, <1>2, <1>3, Zenon DEF IInv

LEMMA InitIInv ==
    Init => IInv
  <1> SUFFICES ASSUME Init PROVE IInv
    BY Zenon
  <1>1. TypeOK /\ OneOperation
    BY ManagerAssumption DEF Init, TypeOK, OneOperation, NoFiles, Absent, Creating, Pruning
  <1>2. DiskInv
    BY Zenon DEF Init, DiskInv, SaveInv, PruneInv, ListedComplete, Listed, Pruning
  <1>3. ChannelTypeOK /\ ChannelInv /\ RestoreInv
    BY ManagerAssumption DEF Init, ChannelTypeOK, ChannelInv, RestoreInv
  <1> QED BY <1>1, <1>2, <1>3, Zenon DEF IInv

-----------------------------------------------------------------------------
(* The theorems                                                            *)

LEMMA NextIInv ==
    ASSUME IInv, [Next]_vars
    PROVE  IInv'
  <1>1. CASE Commit
    BY <1>1, CommitStep, Zenon
  <1>2. ASSUME NEW h \in Heights, Taking(h) \/ CloseWithError(h)
        PROVE  IInv'
    BY <1>2, BeginCreateStep, CheckLatestStep, CreateChunkStep, ExporterStep, CopyChunkStep,
       SaveFailsStep, saveSnapshotStep, BeginPruneStep, DeleteMetaStep, RemoveAllStep,
       RemoveDirStep, ZenonT(30) DEF Taking
  <1>3. ASSUME NEW kind, NEW bad \in 0 .. Chunks, NEW last \in 0 .. Chunks,
               OfferSnapshot(kind, bad, last)
        PROVE  IInv'
    BY <1>3, OfferSnapshotStep, Zenon
  <1>4. ASSUME NEW match \in BOOLEAN, RestoreChunk(match)
        PROVE  IInv'
    BY <1>4, RestoreChunkStep, Zenon
  <1>5. CASE Restoring
    BY <1>5, SendChunkStep, RestoreDoneStep, ReadChunkStep, CloseReaderStep, Zenon DEF Restoring
  <1>6. CASE Crash
    BY <1>6, CrashStep, Zenon
  <1>7. CASE UNCHANGED vars
    <2>1. TypeOK' /\ OneOperation' /\ DiskInv'
      BY <1>7, TakingUntouched, Zenon DEF vars, IInv, TypeOK
    <2>2. ChannelTypeOK' /\ ChannelInv' /\ RestoreInv'
      BY <1>7, RestoreUntouched, Zenon DEF vars
    <2> QED BY <2>1, <2>2, Zenon DEF IInv
  <1> QED BY <1>1, <1>2, <1>3, <1>4, <1>5, <1>6, <1>7, Zenon DEF Next

LEMMA Invariance ==
    Spec => []IInv
  BY InitIInv, NextIInv, PTL DEF Spec

\* A snapshot that ListSnapshots reports has every chunk it promises on disk,
\* whole: Store.Save records a snapshot after its chunks, Store.Delete removes
\* the record first, and a crash or a failure falls where it will.
THEOREM ListedIsComplete ==
    Spec => []ListedComplete
  <1>1. IInv => ListedComplete
    BY Zenon DEF IInv, DiskInv
  <1> QED BY <1>1, Invariance, PTL

\* The newest snapshot, when it can be fetched, still can be, if a step leaves
\* the record of the largest height as it is.
LEMMA NewestStays ==
    ASSUME meta \in [Heights -> Absent .. Chunks],
           \A n \in Listed : (\A l \in Listed : l <= n) => meta'[n] = meta[n]
    PROVE  Listed # {} /\ Max(Listed) \in Fetchable
             => Fetchable' # {} /\ Max(Fetchable') >= Max(Listed)
  <1> SUFFICES ASSUME Listed # {}, Max(Listed) \in Fetchable
               PROVE  Fetchable' # {} /\ Max(Fetchable') >= Max(Listed)
    BY Zenon
  <1>1. Listed \subseteq Heights /\ Fetchable' \subseteq Heights
    BY Zenon DEF Listed, Fetchable
  <1>2. Max(Listed) \in Listed /\ \A l \in Listed : l <= Max(Listed)
    BY <1>1, MaxIsLargest, Zenon
  <1>3. Max(Listed) \in Fetchable'
    BY <1>2, Zenon DEF Fetchable, Listed
  <1>4. Max(Fetchable') \in Fetchable' /\ \A l \in Fetchable' : l <= Max(Fetchable')
    BY <1>1, <1>3, MaxIsLargest, Zenon
  <1> QED BY <1>1, <1>2, <1>3, <1>4, Zenon DEF Heights

\* A peer that can fetch the newest snapshot on record can fetch one at least as
\* new after any step: Manager.Create refuses a height that is not above all
\* listed, and Store.Prune never deletes the newest, whichever goroutine of
\* BaseApp.snapshot runs late or dies. Nothing is said of what lies below a
\* newest one that was recorded without chunks.
THEOREM NewestIsKept ==
    Spec => NewestKept
  <1>1. ASSUME IInv, [Next]_vars
        PROVE  \/ meta' = meta
               \/ \E h \in Heights : saveSnapshot(h) \/ DeleteMeta(h)
    <2>1. CASE Commit \/ Crash \/ Restoring \/ UNCHANGED vars
      BY <2>1, Zenon DEF Commit, Crash, Restoring, SendChunk, RestoreDone, ReadChunk, CloseReader, vars,
                  store
    <2>2. ASSUME NEW h \in Heights, Taking(h) \/ CloseWithError(h)
          PROVE  meta' = meta \/ saveSnapshot(h) \/ DeleteMeta(h)
      BY <2>2, Zenon DEF Taking, BeginCreate, CheckLatest, CreateChunk, Close, CloseWithError, CopyChunk,
                  SaveFails, DrainChunks, BeginPrune, RemoveAll, RemoveDir, store
    <2>3. ASSUME NEW kind, NEW bad, NEW last, OfferSnapshot(kind, bad, last)
          PROVE  meta' = meta
      BY <2>3, Zenon DEF OfferSnapshot, store
    <2>4. ASSUME NEW match, RestoreChunk(match)
          PROVE  meta' = meta
      BY <2>4, Zenon DEF RestoreChunk, store
    <2> QED BY <1>1, <2>1, <2>2, <2>3, <2>4, ZenonT(30) DEF Next
  <1>2. ASSUME IInv, [Next]_vars
        PROVE  \A n \in Listed : (\A l \in Listed : l <= n) => meta'[n] = meta[n]
    <2>1. ASSUME NEW h \in Heights, saveSnapshot(h)
          PROVE  \A n \in Listed : meta'[n] = meta[n]
      <3>1. h \notin Listed
        BY <1>2, <2>1 DEF saveSnapshot, IInv, DiskInv, SaveInv, Heights
      <3> QED BY <1>2, <2>1, <3>1, Zenon DEF saveSnapshot, IInv, TypeOK, Listed
    <2>2. ASSUME NEW h \in Heights, DeleteMeta(h)
          PROVE  \A n \in Listed : (\A l \in Listed : l <= n) => meta'[n] = meta[n]
      <3>1. /\ Listed' = Listed \ {Max(toDelete)}
            /\ \E k \in Listed : Max(toDelete) < k
        BY <1>2, <2>2, DeleteMetaStep, Zenon
      <3>2. \A n \in Listed : (\A l \in Listed : l <= n) => n # Max(toDelete)
        BY <3>1 DEF Listed, Heights
      <3> QED BY <1>2, <2>2, <3>2, Zenon DEF DeleteMeta, IInv, TypeOK, Listed
    <2> QED BY <1>1, <1>2, <2>1, <2>2, Zenon
  <1>3. ASSUME IInv, [Next]_vars
        PROVE  Listed # {} /\ Max(Listed) \in Fetchable
                 => Fetchable' # {} /\ Max(Fetchable') >= Max(Listed)
    BY <1>2, <1>3, NewestStays, Zenon DEF IInv, TypeOK
  <1> QED BY <1>3, Invariance, PTL DEF Spec, NewestKept

\* ApplySnapshotChunk reports a snapshot as restored only when the restore has
\* read the stream to its end and none of its chunks was bad: the last call waits
\* for the goroutine of rootmulti.Store.Restore, and the channel keeps the order
\* of the chunks. Chunks past the end of the stream are drained unread.
THEOREM CompleteIsRestored ==
    Spec => CompleteMeansRestored
  <1>1. ASSUME IInv, [Next]_vars, verdict' = "complete", verdict # "complete"
        PROVE  RestoreDone /\ ~restoreErr
    <2>1. ~(Commit \/ Crash \/ UNCHANGED vars)
      BY <1>1, Zenon DEF Commit, Crash, vars, restore
    <2>2. ASSUME NEW h \in Heights, Taking(h) \/ CloseWithError(h)
          PROVE  FALSE
      BY <1>1, <2>2, Zenon DEF Taking, BeginCreate, CheckLatest, CreateChunk, Close, CloseWithError,
                        CopyChunk, SaveFails, DrainChunks, saveSnapshot, BeginPrune, DeleteMeta,
                        RemoveAll, RemoveDir, restore
    <2>3. ASSUME NEW kind, NEW bad, NEW last, OfferSnapshot(kind, bad, last)
          PROVE  FALSE
      BY <1>1, <2>3, Zenon DEF OfferSnapshot
    <2>4. ASSUME NEW match \in BOOLEAN, RestoreChunk(match)
          PROVE  FALSE
      BY <1>1, <2>4, Zenon DEF RestoreChunk
    <2>5. CASE Restoring
      BY <1>1, <2>5, Zenon DEF Restoring, SendChunk, RestoreDone, ReadChunk, CloseReader
    <2> QED BY <1>1, <2>1, <2>2, <2>3, <2>4, <2>5, ZenonT(30) DEF Next
  <1>2. ASSUME IInv, [Next]_vars
        PROVE  verdict' = "complete" /\ verdict # "complete"
                 => endChunk < badChunk /\ applied = endChunk + 1 /\ chRestore = <<>>
    <2> SUFFICES ASSUME verdict' = "complete", verdict # "complete"
                 PROVE  endChunk < badChunk /\ applied = endChunk + 1 /\ chRestore = <<>>
      BY Zenon
    <2>1. restorer = "returned" /\ ~restoreErr
      BY <1>1, <1>2, Zenon DEF RestoreDone
    <2> QED BY <1>2, <2>1, Zenon DEF IInv, RestoreInv
  <1> QED BY <1>2, Invariance, PTL DEF Spec, CompleteMeansRestored

=============================================================================
