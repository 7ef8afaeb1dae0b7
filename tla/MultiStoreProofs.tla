-------------------------- MODULE MultiStoreProofs --------------------------
(***************************************************************************)
(* Proofs about MultiStore, for every set of sub-stores, every pruning     *)
(* strategy that keeps at least the previous version, every snapshot       *)
(* interval whose heights are never pruned, and any number of versions and *)
(* crashes. A crash of the first Commit or of a Restore ends what IInv     *)
(* says (cut stays TRUE from then on); LoadInv holds whatever crashes.     *)
(***************************************************************************)
EXTENDS MultiStore, WellFoundedInduction, TLAPS

\* The configurations the theorems are about: at least one recent version is
\* kept or nothing is pruned, and the heights snapshotted are heights kept.
\* PruneDefault and PruneNothing are among them, PruneEverything is not.
SafeOptions ==
    /\ KeepRecent >= 1 \/ KeepEvery = 1
    /\ \A h \in Versions : SnapshotDue(h) # {} => KeepEvery # 0 /\ h % KeepEvery = 0

Pair(v) == [version |-> v, root |-> v]

\* What is on disk: every version holds its own blocks, none is further than
\* one commit ahead of the latest version flushed, and the commit infos are
\* those of the versions flushed.
DiskInv ==
    /\ \A s \in Stores, v \in Versions : saved[s][v] \in {Absent, v}
    /\ latestVersion # 0 =>
         \A s \in Stores :
            /\ commitInfo[latestVersion][s] = Pair(latestVersion)
            /\ saved[s][latestVersion] = latestVersion
    /\ latestVersion # 0 =>
         \A s \in Stores, v \in Versions :
            saved[s][v] # Absent => v <= latestVersion + 1
    /\ latestVersion = 0 =>
         \A s \in Stores, v \in Versions : saved[s][v] # Absent =>
            \/ pc \in {"commit", "prune"} /\ v = FirstVersion
            \/ pc = "restore" /\ v = restoreHeight
    /\ \A s \in Stores, v \in Versions :
         commitInfo[v][s] # NoID => latestVersion # 0 /\ v <= latestVersion

\* Where each phase of the process leaves the trees.
MemInv ==
    /\ pc \in {"down", "idle", "commit", "prune", "restore"}
    /\ pc = "idle" =>
         lastVersion = latestVersion /\ \A s \in Stores : tree[s] = Pair(lastVersion)
    /\ pc = "commit" =>
         /\ lastVersion = latestVersion
         /\ NextVersion(lastVersion) \in Versions
         /\ \A s \in todo : tree[s] = [version |-> lastVersion,
                                       root |-> NextVersion(lastVersion)]
         /\ \A s \in Stores \ todo :
              /\ tree[s] = Pair(NextVersion(lastVersion))
              /\ saved[s][NextVersion(lastVersion)] = NextVersion(lastVersion)
    /\ pc = "prune" =>
         /\ lastVersion = NextVersion(latestVersion)
         /\ lastVersion \in Versions
         /\ \A s \in Stores :
              tree[s] = Pair(lastVersion) /\ saved[s][lastVersion] = lastVersion
    /\ pc = "restore" =>
         /\ latestVersion = 0
         /\ lastVersion = 0
         /\ restoreHeight \in Versions
         /\ pruneHeights = {}
         /\ \A s \in todo : tree[s] = ZeroID
         /\ \A s \in Stores \ todo :
              tree[s] = Pair(restoreHeight) /\ saved[s][restoreHeight] = restoreHeight

\* The heights scheduled are old enough, and none is a multiple of KeepEvery.
HeightInv ==
    /\ \A h \in pruneHeights \cup diskHeights :
         /\ latestVersion # 0
         /\ h <= latestVersion - KeepRecent
         /\ KeepEvery = 0 \/ h % KeepEvery # 0
    /\ \A s \in Stores, v \in Versions :
         /\ commitInfo[v][s] # NoID
         /\ v > latestVersion - KeepRecent \/ (KeepEvery # 0 /\ v % KeepEvery = 0)
         => saved[s][v] = v

\* The heights of snapshots are kept, and the exporter has seen them.
SnapInv ==
    /\ \A h \in snapPending \cup {snapHeight} : h # 0 =>
         /\ KeepEvery # 0 /\ h % KeepEvery = 0
         /\ latestVersion # 0
         /\ \A s \in Stores : saved[s][h] = h
    /\ snapOpen # {} => snapHeight # 0
    /\ snapTodo # {} => snapHeight # 0
    /\ snapHeight # 0 => \A s \in Stores : snapOut[s] \in {Absent, snapHeight}

IInv == TypeOK /\ DiskInv /\ MemInv /\ HeightInv /\ SnapInv

-----------------------------------------------------------------------------

\* The initial state, a database with nothing in it, satisfies IInv.
LEMMA InitIInv == Init => IInv
  <1> SUFFICES ASSUME Init PROVE IInv
    BY Zenon
  <1>1. TypeOK
    <2>1. tree \in [Stores -> CommitID]
      BY Zenon DEF Init, CommitID, ZeroID, Roots
    <2>2. crashes \in 0 .. MaxCrashes
      BY BoundsAssumption DEF Init
    <2> QED BY <2>1, <2>2, Zenon DEF Init, TypeOK
  <1>2. DiskInv /\ MemInv /\ HeightInv /\ SnapInv
    BY Zenon DEF Init, DiskInv, MemInv, HeightInv, SnapInv, Pair, ZeroID
  <1> QED BY <1>1, <1>2, Zenon DEF IInv

\* The versions are positive, and the first one follows 0.
LEMMA VersionFacts ==
    /\ FirstVersion \in Nat /\ FirstVersion >= 1
    /\ \A v \in Versions : v \in Nat /\ v >= 1 /\ v <= MaxVersion /\ v >= FirstVersion
    /\ \A v \in Versions \cup {0} : NextVersion(v) \in Nat /\ NextVersion(v) >= FirstVersion
                                    /\ NextVersion(v) > v
  BY OptionsAssumption DEF FirstVersion, Versions, NextVersion

\* LoadLatestVersion: what was flushed last is there to be loaded.
LEMMA LoadStep ==
    ASSUME SafeOptions, IInv, pc = "down"
    PROVE  /\ CanLoad(latestVersion)
           /\ \A s \in Stores :
                LoadTree(s, getCommitID(latestVersion, s).version) = Pair(latestVersion)
  <1>1. CASE latestVersion = 0
    <2>1. \A s \in Stores : SavedVersions(s) = {}
      BY <1>1, Zenon DEF IInv, DiskInv, SavedVersions
    <2> QED
      BY <1>1, <2>1 DEF CanLoad, LoadTree, Target, LatestSaved, getCommitID, ZeroID,
                        NoID, Pair, Absent
  <1>2. CASE latestVersion # 0
    <2>1. latestVersion \in Versions
      BY <1>2, Zenon DEF IInv, TypeOK
    <2>2. \A s \in Stores : /\ getCommitID(latestVersion, s) = Pair(latestVersion)
                           /\ saved[s][latestVersion] = latestVersion
      BY <1>2, Zenon DEF IInv, DiskInv, getCommitID
    <2> QED
      BY <1>2, <2>1, <2>2, VersionFacts
      DEF CanLoad, LoadTree, Target, VersionExists, Pair, NoID, Absent
  <1> QED BY <1>1, <1>2, Zenon

-----------------------------------------------------------------------------
(* Each action preserves the inductive invariant.                          *)

LEMMA LoadIInv == ASSUME SafeOptions, IInv, LoadLatestVersion PROVE IInv'
  <1>1. /\ pc' = "idle" /\ lastVersion' = latestVersion
        /\ tree' = [s \in Stores |-> Pair(latestVersion)]
        /\ pruneHeights' = IF diskHeights # {} THEN diskHeights ELSE pruneHeights
        /\ UNCHANGED <<disk, todo, restoreHeight, snap, cut, crashes>>
    BY LoadStep, Zenon DEF LoadLatestVersion, Loaded
  <1> USE <1>1 DEF disk, snap
  <1>2. TypeOK'
    BY VersionFacts, Zenon DEF IInv, TypeOK, Pair, CommitID, Roots
  <1>3. DiskInv'
    BY DEF IInv, DiskInv, LoadLatestVersion
  <1>4. MemInv'
    BY Zenon DEF IInv, MemInv
  <1>5. HeightInv'
    BY Zenon DEF IInv, HeightInv
  <1>6. SnapInv'
    BY Zenon DEF IInv, SnapInv
  <1> QED BY <1>2, <1>3, <1>4, <1>5, <1>6, Zenon DEF IInv

LEMMA BeginCommitIInv == ASSUME SafeOptions, IInv, BeginCommit PROVE IInv'
  <1> USE DEF BeginCommit, disk, snap
  <1> DEFINE version == NextVersion(lastVersion)
  <1>1. lastVersion \in Versions \cup {0} /\ lastVersion = latestVersion
    BY Zenon DEF IInv, TypeOK, MemInv
  <1>2. version \in Versions
    BY <1>1, VersionFacts DEF Versions
  <1>3. \A s \in Stores : tree'[s] = [version |-> lastVersion, root |-> version]
    BY <1>1, VersionFacts DEF IInv, MemInv, Pair, Apply
  <1>4. TypeOK'
    <2>1. tree' \in [Stores -> CommitID]
      BY <1>1, <1>2, <1>3, Zenon DEF CommitID, Roots
    <2> QED BY <2>1, Zenon DEF IInv, TypeOK
  <1>5. DiskInv'
    BY Zenon DEF IInv, DiskInv
  <1>6. MemInv'
    BY <1>1, <1>2, <1>3, Zenon DEF IInv, MemInv
  <1>7. HeightInv'
    BY Zenon DEF IInv, HeightInv
  <1>8. SnapInv'
    BY Zenon DEF IInv, SnapInv
  <1> QED BY <1>4, <1>5, <1>6, <1>7, <1>8, Zenon DEF IInv

LEMMA CommitStoreIInv ==
    ASSUME SafeOptions, IInv, NEW s \in Stores, CommitStore(s) PROVE IInv'
  <1> DEFINE v == NextVersion(lastVersion)
  <1>1. /\ pc = "commit" /\ s \in todo
        /\ tree[s] = [version |-> lastVersion, root |-> v]
        /\ v \in Versions
        /\ lastVersion = latestVersion
    BY Zenon DEF CommitStore, IInv, MemInv
  <1>2. ~ (VersionExists(s, v) /\ saved[s][v] # tree[s].root)
    BY <1>1 DEF IInv, DiskInv, VersionExists
  <1>3. /\ saved' = [saved EXCEPT ![s][v] = v]
        /\ tree' = [tree EXCEPT ![s] = Pair(v)]
        /\ todo' = todo \ {s}
        /\ pc' = pc
        /\ UNCHANGED <<latestVersion, commitInfo, diskHeights, lastVersion,
                       pruneHeights, restoreHeight, snap, cut, crashes>>
    BY <1>1, <1>2 DEF CommitStore, Pair
  <1>4. \A r \in Stores : tree'[r] = IF r = s THEN Pair(v) ELSE tree[r]
    BY <1>1, <1>3, Zenon DEF Pair, IInv, TypeOK, CommitID
  <1>5. \A r \in Stores, w \in Versions :
            saved'[r][w] = IF r = s /\ w = v THEN v ELSE saved[r][w]
    BY <1>1, <1>3, Zenon DEF IInv, TypeOK
  <1>6. TypeOK'
    <2>1. tree' \in [Stores -> CommitID]
      BY <1>1, <1>3, <1>4, Zenon DEF IInv, TypeOK, CommitID, Pair, Roots
    <2>2. saved' \in [Stores -> [Versions -> Roots \cup {Absent}]]
      BY <1>1, <1>3, Zenon DEF IInv, TypeOK, Roots
    <2> QED BY <1>3, <2>1, <2>2, Zenon DEF IInv, TypeOK, snap
  <1>7. DiskInv'
    <2>1. latestVersion # 0 => v = latestVersion + 1
      BY <1>1, Zenon DEF NextVersion
    <2>2. latestVersion = 0 => v = FirstVersion
      BY <1>1, Zenon DEF NextVersion
    <2>3. latestVersion \in Versions \cup {0}
      BY Zenon DEF IInv, TypeOK
    <2> QED BY <1>1, <1>3, <1>5, <2>1, <2>2, <2>3, VersionFacts DEF IInv, DiskInv
  <1>8. MemInv'
    BY <1>1, <1>3, <1>4, <1>5 DEF IInv, MemInv
  <1>9. HeightInv'
    BY <1>3, <1>5 DEF IInv, HeightInv
  <1>10. SnapInv'
    <2>1. \A h \in snapPending \cup {snapHeight} : h # 0 => h \in Versions
      BY Zenon DEF IInv, TypeOK
    <2> QED BY <1>3, <1>5, <2>1 DEF IInv, SnapInv, snap
  <1> QED BY <1>6, <1>7, <1>8, <1>9, <1>10, Zenon DEF IInv

\* The height Commit schedules lies KeepRecent below the version before it.
LEMMA HeightToPruneFacts ==
    ASSUME NEW p \in Versions \cup {0}, NEW h \in HeightToPrune(p)
    PROVE  /\ h \in 1 .. MaxVersion
           /\ p # 0
           /\ h <= p - KeepRecent
           /\ KeepEvery = 0 \/ h % KeepEvery # 0
  BY OptionsAssumption, BoundsAssumption, StoresAssumption, VersionFacts DEF HeightToPrune

LEMMA EndCommitStoresIInv ==
    ASSUME SafeOptions, IInv, EndCommitStores PROVE IInv'
  <1> USE DEF EndCommitStores, disk, snap
  <1>1. lastVersion = latestVersion /\ lastVersion \in Versions \cup {0}
    BY Zenon DEF IInv, MemInv, TypeOK
  <1>2. NextVersion(lastVersion) \in Versions
    BY Zenon DEF IInv, MemInv
  <1>3. TypeOK'
    BY <1>1, <1>2, HeightToPruneFacts, Zenon DEF IInv, TypeOK
  <1>4. DiskInv'
    BY Zenon DEF IInv, DiskInv
  <1>5. MemInv'
    BY <1>1, <1>2, Zenon DEF IInv, MemInv
  <1>6. HeightInv'
    BY <1>1, HeightToPruneFacts, Zenon DEF IInv, HeightInv
  <1>7. SnapInv'
    BY Zenon DEF IInv, SnapInv
  <1> QED BY <1>3, <1>4, <1>5, <1>6, <1>7, Zenon DEF IInv

\* While pruneStores runs, the latest version of every tree is the one just
\* committed, so no scheduled height is refused; nor does an exporter read one.
LEMMA PruneSucceeds ==
    ASSUME SafeOptions, IInv, NEW s \in Stores, pc = "prune"
    PROVE  ~ DeleteFails(s, pruneHeights)
  <1>1. /\ lastVersion \in Versions /\ saved[s][lastVersion] = lastVersion
        /\ lastVersion = NextVersion(latestVersion)
    BY Zenon DEF IInv, MemInv
  <1>2. lastVersion \in SavedVersions(s)
    BY <1>1, VersionFacts DEF SavedVersions, Absent
  <1>3. latestVersion \in Versions \cup {0}
    BY Zenon DEF IInv, TypeOK
  <1>4. \A w \in SavedVersions(s) : w <= lastVersion
    BY <1>1, <1>3, VersionFacts, Zenon DEF SavedVersions, IInv, DiskInv, NextVersion
  <1>5. LatestSaved(s) = lastVersion
    <2> DEFINE P(v) == \A w \in SavedVersions(s) : w <= v
    <2>1. \E v \in SavedVersions(s) : P(v)
      BY <1>2, <1>4, Zenon
    <2>2. LatestSaved(s) \in SavedVersions(s) /\ P(LatestSaved(s))
      BY <2>1, Zenon DEF LatestSaved
    <2> QED BY <1>2, <1>4, <2>2, VersionFacts DEF SavedVersions
  <1>6. \A h \in pruneHeights : h \in Nat /\ h < lastVersion
    BY OptionsAssumption, <1>1, <1>3, VersionFacts DEF IInv, HeightInv, TypeOK, SafeOptions, NextVersion
  <1>7. s \in snapOpen => snapHeight \notin pruneHeights
    BY Zenon DEF IInv, SnapInv, HeightInv
  <1> QED BY <1>5, <1>6, <1>7, VersionFacts, <1>1 DEF DeleteFails

LEMMA PruneStoreIInv ==
    ASSUME SafeOptions, IInv, NEW s \in Stores, PruneStore(s) PROVE IInv'
  <1>1. pc = "prune" /\ s \in todo
    BY Zenon DEF PruneStore
  <1>2. ~ DeleteFails(s, pruneHeights)
    BY <1>1, PruneSucceeds, Zenon
  <1>3. /\ \/ saved' = [saved EXCEPT ![s] = [v \in Versions |->
                 IF v \in pruneHeights THEN Absent ELSE saved[s][v]]]
           \/ saved' = saved
        /\ todo' = todo \ {s}
        /\ pc' = pc
        /\ UNCHANGED <<latestVersion, commitInfo, diskHeights, tree, lastVersion,
                       pruneHeights, restoreHeight, snap, cut, crashes>>
    BY <1>1, <1>2, Zenon DEF PruneStore
  <1>4. saved \in [Stores -> [Versions -> Roots \cup {Absent}]]
    BY Zenon DEF IInv, TypeOK
  <1>5. \A r \in Stores, v \in Versions :
          /\ saved'[r][v] \in {Absent, saved[r][v]}
          /\ v \notin pruneHeights => saved'[r][v] = saved[r][v]
    BY <1>3, <1>4
  <1>6. \A h \in pruneHeights :
          /\ latestVersion # 0 /\ h <= latestVersion - KeepRecent
          /\ KeepEvery = 0 \/ h % KeepEvery # 0
    BY Zenon DEF IInv, HeightInv
  <1>7. latestVersion \in Versions \cup {0} /\ pruneHeights \subseteq 1 .. MaxVersion
    BY Zenon DEF IInv, TypeOK
  <1>8. latestVersion \notin pruneHeights /\ lastVersion \notin pruneHeights
    BY OptionsAssumption, <1>1, <1>6, <1>7, VersionFacts DEF SafeOptions, IInv, MemInv, NextVersion
  <1>9. TypeOK'
    <2>1. saved' \in [Stores -> [Versions -> Roots \cup {Absent}]]
      BY <1>3, <1>4
    <2> QED BY <1>3, <2>1, Zenon DEF IInv, TypeOK, snap
  <1>10. DiskInv'
    BY <1>1, <1>3, <1>5, <1>7, <1>8, VersionFacts DEF IInv, DiskInv
  <1>11. MemInv'
    BY <1>1, <1>3, <1>5, <1>8, Zenon DEF IInv, MemInv
  <1>12. HeightInv'
    <2>1. \A v \in Versions :
            v > latestVersion - KeepRecent \/ (KeepEvery # 0 /\ v % KeepEvery = 0)
            => v \notin pruneHeights
      BY OptionsAssumption, <1>6, <1>7, VersionFacts
    <2> QED BY <1>3, <1>5, <2>1 DEF IInv, HeightInv
  <1>13. SnapInv'
    <2>1. \A h \in snapPending \cup {snapHeight} : h # 0 => h \in Versions
      BY Zenon DEF IInv, TypeOK
    <2>2. \A h \in snapPending \cup {snapHeight} : h # 0 => h \notin pruneHeights
      BY <1>6, Zenon DEF IInv, SnapInv
    <2> QED BY <1>3, <1>5, <2>1, <2>2 DEF IInv, SnapInv, snap
  <1> QED BY <1>9, <1>10, <1>11, <1>12, <1>13, Zenon DEF IInv

LEMMA FlushMetadataIInv == ASSUME SafeOptions, IInv, FlushMetadata PROVE IInv'
  <1> USE DEF FlushMetadata, Flush
  <1>1. /\ lastVersion \in Versions
        /\ lastVersion = NextVersion(latestVersion)
        /\ latestVersion \in Versions \cup {0}
        /\ \A s \in Stores : tree[s] = Pair(lastVersion) /\ saved[s][lastVersion] = lastVersion
    BY Zenon DEF IInv, MemInv, TypeOK
  <1>2. pruneHeights' \subseteq pruneHeights /\ diskHeights' \subseteq pruneHeights
    BY Zenon
  <1>3. \A v \in Versions, s \in Stores :
          commitInfo'[v][s] = IF v = lastVersion THEN Pair(lastVersion) ELSE commitInfo[v][s]
    BY <1>1, Zenon DEF IInv, TypeOK
  <1>4. lastVersion # 0 /\ lastVersion > latestVersion
    BY <1>1, VersionFacts
  <1>5. TypeOK'
    <2>1. commitInfo' \in [Versions -> [Stores -> CommitID \cup {NoID}]]
      BY Zenon DEF IInv, TypeOK
    <2>2. SnapshotDue(lastVersion) \subseteq Versions
      BY <1>1, Zenon DEF SnapshotDue
    <2> QED BY <1>1, <1>2, <2>1, <2>2, Zenon DEF IInv, TypeOK
  <1>6. DiskInv'
    BY <1>1, <1>3, <1>4, VersionFacts DEF IInv, DiskInv, NextVersion
  <1>7. MemInv'
    BY <1>1, Zenon DEF IInv, MemInv
  <1>8. HeightInv'
    <2>1. \A h \in (pruneHeights \cup diskHeights)' :
            /\ lastVersion # 0 /\ h <= lastVersion - KeepRecent
            /\ KeepEvery = 0 \/ h % KeepEvery # 0
      <3>1. \A h \in pruneHeights :
              /\ h \in Nat /\ h <= latestVersion - KeepRecent
              /\ KeepEvery = 0 \/ h % KeepEvery # 0
        BY DEF IInv, HeightInv, TypeOK
      <3>2. lastVersion \in Nat /\ latestVersion \in Nat
        BY <1>1, VersionFacts
      <3>3. \A h \in pruneHeights : h <= lastVersion - KeepRecent
        BY OptionsAssumption, <1>4, <3>1, <3>2
      <3> QED BY <1>2, <1>4, <3>1, <3>3, Zenon
    <2>2. \A s \in Stores, v \in Versions :
            /\ commitInfo'[v][s] # NoID
            /\ v > lastVersion - KeepRecent \/ (KeepEvery # 0 /\ v % KeepEvery = 0)
            => saved[s][v] = v
      BY OptionsAssumption, <1>1, <1>3, <1>4, VersionFacts DEF IInv, HeightInv
    <2> QED BY <2>1, <2>2, Zenon DEF HeightInv
  <1>9. SnapInv'
    <2>1. \A h \in SnapshotDue(lastVersion) :
            h = lastVersion /\ KeepEvery # 0 /\ h % KeepEvery = 0
      BY <1>1, Zenon DEF SafeOptions, SnapshotDue
    <2> QED BY <1>1, <1>4, <2>1, Zenon DEF IInv, SnapInv
  <1> QED BY <1>5, <1>6, <1>7, <1>8, <1>9, Zenon DEF IInv

LEMMA BeginRestoreIInv ==
    ASSUME SafeOptions, IInv, NEW h \in Versions, BeginRestore(h) PROVE IInv'
  <1> USE DEF BeginRestore, disk, snap
  <1>1. latestVersion = 0 /\ pc = "idle"
    BY Zenon DEF IInv, MemInv
  <1>2. pruneHeights = {}
    BY <1>1, Zenon DEF IInv, HeightInv
  <1>3. TypeOK'
    BY Zenon DEF IInv, TypeOK
  <1>4. DiskInv'
    BY <1>1, Zenon DEF IInv, DiskInv
  <1>5. MemInv'
    BY <1>1, <1>2, Zenon DEF IInv, MemInv, Pair, ZeroID
  <1>6. HeightInv'
    BY Zenon DEF IInv, HeightInv
  <1>7. SnapInv'
    BY Zenon DEF IInv, SnapInv
  <1> QED BY <1>3, <1>4, <1>5, <1>6, <1>7, Zenon DEF IInv

LEMMA ImportStoreIInv ==
    ASSUME SafeOptions, IInv, NEW s \in Stores, ImportStore(s) PROVE IInv'
  <1>1. /\ pc = "restore" /\ s \in todo
        /\ tree[s] = ZeroID
        /\ latestVersion = 0
        /\ restoreHeight \in Versions
    BY Zenon DEF ImportStore, IInv, MemInv
  <1>2. /\ saved' = [saved EXCEPT ![s][restoreHeight] = restoreHeight]
        /\ tree' = [tree EXCEPT ![s] = Pair(restoreHeight)]
        /\ todo' = todo \ {s}
        /\ pc' = pc
        /\ UNCHANGED <<latestVersion, commitInfo, diskHeights, lastVersion,
                       pruneHeights, restoreHeight, snap, cut, crashes>>
    BY <1>1 DEF ImportStore, ZeroID, Pair
  <1>3. \A r \in Stores, w \in Versions :
          saved'[r][w] = IF r = s /\ w = restoreHeight THEN w ELSE saved[r][w]
    BY <1>1, <1>2, Zenon DEF IInv, TypeOK
  <1>4. TypeOK'
    <2>1. tree' \in [Stores -> CommitID]
      BY <1>1, <1>2, Zenon DEF IInv, TypeOK, CommitID, Pair, Roots
    <2>2. saved' \in [Stores -> [Versions -> Roots \cup {Absent}]]
      BY <1>1, <1>2, Zenon DEF IInv, TypeOK, Roots
    <2> QED BY <1>2, <2>1, <2>2, Zenon DEF IInv, TypeOK, snap
  <1>5. DiskInv'
    BY <1>1, <1>2, <1>3 DEF IInv, DiskInv
  <1>6. MemInv'
    <2>1. \A r \in Stores : tree'[r] = IF r = s THEN Pair(restoreHeight) ELSE tree[r]
      BY <1>2, Zenon DEF IInv, TypeOK
    <2> QED BY <1>1, <1>2, <1>3, <2>1 DEF IInv, MemInv
  <1>7. HeightInv'
    BY <1>1, <1>2, <1>3 DEF IInv, HeightInv
  <1>8. SnapInv'
    BY <1>1, <1>2, Zenon DEF IInv, SnapInv, snap
  <1> QED BY <1>4, <1>5, <1>6, <1>7, <1>8, Zenon DEF IInv

LEMMA EndRestoreIInv == ASSUME SafeOptions, IInv, EndRestore PROVE IInv'
  <1> USE DEF EndRestore, Flush, snap
  <1>1. /\ restoreHeight \in Versions /\ restoreHeight # 0
        /\ latestVersion = 0
        /\ pruneHeights = {}
        /\ \A s \in Stores : /\ tree[s] = Pair(restoreHeight)
                             /\ saved[s][restoreHeight] = restoreHeight
    BY VersionFacts DEF IInv, MemInv
  <1>2. \A v \in Versions, s \in Stores :
          commitInfo'[v][s] = IF v = restoreHeight THEN Pair(restoreHeight) ELSE NoID
    BY <1>1, Zenon DEF IInv, TypeOK, DiskInv
  <1>3. TypeOK'
    BY <1>1, Zenon DEF IInv, TypeOK
  <1>4. DiskInv'
    BY <1>1, <1>2, VersionFacts DEF IInv, DiskInv
  <1>5. MemInv'
    BY <1>1, Zenon DEF IInv, MemInv
  <1>6. HeightInv'
    BY <1>1, <1>2 DEF IInv, HeightInv
  <1>7. SnapInv'
    BY <1>1, Zenon DEF IInv, SnapInv
  <1> QED BY <1>3, <1>4, <1>5, <1>6, <1>7, Zenon DEF IInv

\* The steps of the snapshot goroutine leave the store alone.
LEMMA ExporterIInv == ASSUME SafeOptions, IInv, Exporter PROVE IInv'
  <1>1. UNCHANGED <<disk, mem, cut, crashes>>
    BY Zenon DEF Exporter, Snapshot, ExportStore, CloseExporter, EndSnapshot
  <1>2. DiskInv' /\ MemInv' /\ HeightInv'
    BY <1>1 DEF IInv, DiskInv, MemInv, HeightInv, disk, mem
  <1>3. TypeOK' /\ SnapInv'
    <2>1. ASSUME NEW h \in Versions, Snapshot(h) PROVE TypeOK' /\ SnapInv'
      BY <1>1, <2>1, VersionFacts DEF Snapshot, IInv, TypeOK, SnapInv, disk, mem
    <2>2. ASSUME NEW s \in Stores, ExportStore(s) PROVE TypeOK' /\ SnapInv'
      <3>1. snapHeight # 0 /\ snapHeight \in Versions /\ saved[s][snapHeight] = snapHeight
        BY <2>2, Zenon DEF ExportStore, IInv, SnapInv, TypeOK
      <3>2. VersionExists(s, snapHeight)
        BY <3>1, VersionFacts DEF VersionExists, Absent
      <3>3. snapOut' = [snapOut EXCEPT ![s] = snapHeight] /\ snapOpen' = {s}
        BY <2>2, <3>1, <3>2, Zenon DEF ExportStore
      <3>4. TypeOK'
        <4>1. snapOut' \in [Stores -> Roots \cup {Absent}]
          BY <3>1, <3>3, Zenon DEF IInv, TypeOK, Roots
        <4> QED BY <1>1, <2>2, <3>3, <4>1, Zenon DEF ExportStore, IInv, TypeOK, disk, mem
      <3>5. SnapInv'
        <4>1. \A r \in Stores : snapOut'[r] \in {Absent, snapHeight}
          BY <3>1, <3>3, Zenon DEF IInv, TypeOK, SnapInv
        <4> QED BY <1>1, <2>2, <3>1, <4>1 DEF ExportStore, IInv, SnapInv, disk, mem
      <3> QED BY <3>4, <3>5, Zenon
    <2>3. ASSUME CloseExporter PROVE TypeOK' /\ SnapInv'
      BY <1>1, <2>3 DEF CloseExporter, IInv, TypeOK, SnapInv, disk, mem
    <2>4. ASSUME EndSnapshot PROVE TypeOK' /\ SnapInv'
      BY <1>1, <2>4, Zenon DEF EndSnapshot, IInv, TypeOK, SnapInv, disk, mem
    <2> QED BY <2>1, <2>2, <2>3, <2>4, Zenon DEF Exporter
  <1> QED BY <1>2, <1>3, Zenon DEF IInv

LEMMA CrashIInv == ASSUME SafeOptions, IInv, Crash, ~cut' PROVE IInv'
  <1> USE DEF Crash, disk
  <1>1. latestVersion = 0 => \A s \in Stores, v \in Versions : saved[s][v] = Absent
    BY Zenon DEF SavedVersions
  <1>2. TypeOK'
    <2>1. tree' \in [Stores -> CommitID]
      BY Zenon DEF CommitID, ZeroID, Roots
    <2>2. crashes' \in 0 .. MaxCrashes
      BY BoundsAssumption DEF IInv, TypeOK
    <2> QED BY <2>1, <2>2, Zenon DEF IInv, TypeOK
  <1>3. DiskInv'
    BY <1>1, Zenon DEF IInv, DiskInv
  <1>4. MemInv'
    BY Zenon DEF MemInv
  <1>5. HeightInv'
    BY Zenon DEF IInv, HeightInv
  <1>6. SnapInv'
    BY Zenon DEF SnapInv
  <1> QED BY <1>2, <1>3, <1>4, <1>5, <1>6, Zenon DEF IInv

LEMMA StutterIInv == ASSUME IInv, UNCHANGED vars PROVE IInv'
  BY DEF vars, disk, mem, snap, IInv, TypeOK, DiskInv, MemInv, HeightInv, SnapInv

\* Every step preserves IInv, until a first Commit or a Restore is cut short.
LEMMA NextIInv == ASSUME SafeOptions, IInv, [Next]_vars, ~cut' PROVE IInv'
  <1>1. ASSUME AtBound PROVE IInv'
    BY <1>1, StutterIInv, Zenon DEF AtBound
  <1> QED
    BY <1>1, LoadIInv, BeginCommitIInv, CommitStoreIInv, EndCommitStoresIInv,
       PruneStoreIInv, FlushMetadataIInv, BeginRestoreIInv, ImportStoreIInv,
       EndRestoreIInv, ExporterIInv, CrashIInv, StutterIInv, Zenon
    DEF Next, Process

\* Only a crash that writes nothing sets cut, and nothing resets it.
LEMMA CutSteps ==
    ASSUME [Next]_vars
    PROVE  /\ cut => cut'
           /\ ~cut /\ cut' => UNCHANGED disk
  <1>1. CASE Crash
    BY <1>1, Zenon DEF Crash
  <1>2. CASE UNCHANGED cut
    BY <1>2, Zenon
  <1>3. ASSUME Process PROVE UNCHANGED cut
    BY <1>3, Zenon
    DEF Process, LoadLatestVersion, BeginCommit, CommitStore, EndCommitStores,
        PruneStore, FlushMetadata, ImportStore, EndRestore
  <1>4. ASSUME Exporter PROVE UNCHANGED cut
    BY <1>4, Zenon DEF Exporter, Snapshot, ExportStore, CloseExporter, EndSnapshot
  <1> QED BY <1>1, <1>2, <1>3, <1>4, Zenon DEF Next, BeginRestore, AtBound, vars

-----------------------------------------------------------------------------
(* Theorems                                                                *)

\* The inductive invariant holds in every reachable state of a node whose first
\* Commit or Restore was not cut short.
THEOREM Invariance == ASSUME SafeOptions PROVE Spec => [](cut \/ IInv)
  <1>1. Init => IInv
    BY InitIInv, Zenon
  <1>2. (cut \/ IInv) /\ [Next]_vars => (cut \/ IInv)'
    BY NextIInv, CutSteps, Zenon
  <1> QED BY <1>1, <1>2, PTL DEF Spec

\* Commit, pruneStores, Restore and loadVersion never panic or fail, whatever
\* crashes fall between their durable writes and whatever snapshot is being
\* exported meanwhile.
THEOREM NeverPanics == ASSUME SafeOptions PROVE Spec => []NoPanic
  <1>1. (cut \/ IInv) => NoPanic
    BY Zenon DEF IInv, MemInv, NoPanic
  <1> QED BY <1>1, Invariance, PTL

\* The versions the pruning strategy promises to keep are kept.
THEOREM VersionsRetained == ASSUME SafeOptions PROVE Spec => []Retained
  <1>1. (cut \/ IInv) => Retained
    BY Zenon DEF IInv, HeightInv, Retained
  <1> QED BY <1>1, Invariance, PTL

\* A snapshot exports the content of its height in every sub-store.
THEOREM SnapshotsComplete == ASSUME SafeOptions PROVE Spec => []SnapshotComplete
  <1>1. (cut \/ IInv) => SnapshotComplete
    BY Zenon DEF IInv, SnapInv, SnapshotComplete
  <1> QED BY <1>1, Invariance, PTL

\* Only the flush of a version that has no commit info writes a commit info.
LEMMA CommitInfoStep ==
    ASSUME SafeOptions, IInv, [Next]_vars,
           NEW v \in Versions, commitInfo[v] # [s \in Stores |-> NoID]
    PROVE  commitInfo'[v] = commitInfo[v]
  <1>1. latestVersion # 0 /\ v <= latestVersion
    <2>1. \E s \in Stores : commitInfo[v][s] # NoID
      BY Zenon DEF IInv, TypeOK
    <2> QED BY <2>1, Zenon DEF IInv, DiskInv
  <1>2. CASE FlushMetadata
    <2>1. lastVersion > latestVersion /\ latestVersion \in Versions \cup {0}
      BY <1>2, VersionFacts, Zenon DEF FlushMetadata, IInv, MemInv, TypeOK
    <2> QED BY <1>1, <1>2, <2>1, VersionFacts DEF FlushMetadata, Flush, IInv, TypeOK
  <1>3. CASE EndRestore
    BY <1>1, <1>3, Zenon DEF EndRestore, IInv, MemInv
  <1>4. CASE UNCHANGED commitInfo
    BY <1>4, Zenon
  <1> QED
    BY <1>2, <1>3, <1>4, ZenonT(30)
    DEF Next, Process, LoadLatestVersion, Loaded, BeginCommit, CommitStore,
        EndCommitStores, PruneStore, BeginRestore, ImportStore, Exporter, Snapshot,
        ExportStore, CloseExporter, EndSnapshot, Crash, AtBound, vars, disk

\* The commit info of a height, hence its app hash, is final once flushed.
THEOREM AppHashFinal == ASSUME SafeOptions PROVE Spec => AppHashStable
  <1>1. (cut \/ IInv) /\ [Next]_vars =>
          [\A v \in Versions : commitInfo[v] # [s \in Stores |-> NoID] /\ ~cut =>
               commitInfo'[v] = commitInfo[v]]_vars
    BY CommitInfoStep, Zenon
  <1> QED BY <1>1, Invariance, PTL DEF Spec, AppHashStable

\* The content AtomicStore sees: the refinement mapping of Atomic.
Content == [s \in Stores |->
    IF latestVersion = 0 THEN 0
    ELSE saved[s][commitInfo[latestVersion][s].version]]

\* Every sub-store agrees with the latest version.
LEMMA ContentAgrees == IInv => Content = [s \in Stores |-> latestVersion]
  BY DEF IInv, DiskInv, Content, Pair

\* Every step of the multi-store is a step of AtomicStore or leaves what is
\* durable alone.
LEMMA RefinementStep ==
    ASSUME SafeOptions, IInv, IInv', [Next]_vars
    PROVE  [Atomic!Next]_(Atomic!vars)
  <1> USE DEF Atomic!Next, Atomic!vars, Atomic!Commit, Atomic!Restore, Atomic!MoveTo,
              Atomic!NextVersion
  <1>1. Content = [s \in Stores |-> latestVersion]
    BY ContentAgrees, Zenon
  <1>2. Content' = [s \in Stores |-> latestVersion']
    <2>1. (IInv => Content = [s \in Stores |-> latestVersion])'
      BY ContentAgrees, PTL
    <2> QED BY <2>1, Zenon
  <1>3. CASE FlushMetadata
    <2>1. /\ latestVersion' = NextVersion(latestVersion)
          /\ latestVersion' <= MaxVersion
      BY <1>3, VersionFacts, Zenon DEF FlushMetadata, Flush, IInv, MemInv
    <2> QED BY <1>2, <2>1, Zenon DEF Content, NextVersion
  <1>4. CASE EndRestore
    <2>1. /\ latestVersion = 0
          /\ latestVersion' \in FirstVersion .. MaxVersion
          /\ latestVersion' <= MaxVersion
      BY <1>4, VersionFacts, Zenon DEF EndRestore, Flush, IInv, MemInv, Versions
    <2> QED BY <1>2, <2>1, Zenon DEF Content
  <1>5. CASE UNCHANGED latestVersion
    BY <1>1, <1>2, <1>5, Zenon DEF Content
  <1> QED
    BY <1>3, <1>4, <1>5, Zenon
    DEF Next, Process, LoadLatestVersion, Loaded, BeginCommit, CommitStore,
        EndCommitStores, PruneStore, BeginRestore, ImportStore, Exporter, Snapshot,
        ExportStore, CloseExporter, EndSnapshot, Crash, AtBound, vars, disk

\* The multi-store implements AtomicStore: through its latest version the
\* sub-stores commit and restore together, and crashes are invisible.
THEOREM CommitIsAtomic == ASSUME SafeOptions PROVE Spec => AtomicCommit
  <1>1. Init => Atomic!Init
    BY Zenon DEF Init, Atomic!Init
  <1>2. (cut \/ IInv) /\ (cut \/ IInv)' /\ [Next]_vars =>
          [cut \/ Atomic!Next]_(Atomic!vars)
    <2>1. ASSUME UNCHANGED disk PROVE UNCHANGED Atomic!vars
      BY <2>1, Zenon DEF Atomic!vars, disk
    <2> QED BY <2>1, RefinementStep, CutSteps, Zenon
  <1> QED BY <1>1, <1>2, Invariance, PTL DEF Spec, AtomicCommit
-----------------------------------------------------------------------------
(* No version leaks: IInv is strengthened with what pruning has left.      *)

\* Sub-store s has committed height 1, so every later height exists or was
\* pruned.
Grown(s) == 1 \in Versions /\ commitInfo[1][s] # NoID

\* The heights the next pruneStores deletes, if none is added before: those of
\* the list on disk and the one the commit after the latest version schedules.
Scheduled == diskHeights \cup HeightToPrune(latestVersion)

AllThere(s) == \A h \in Scheduled : saved[s][h] # Absent
AllGone(s)  == \A h \in Scheduled : saved[s][h] = Absent

\* The list in memory is the one on disk, extended once commitStores is done.
ListInv ==
    /\ pc = "down" => pruneHeights = {}
    /\ pc \in {"idle", "commit", "restore"} => pruneHeights = diskHeights
    /\ pc = "prune" => /\ pruneHeights = Scheduled
                       /\ todo # {} => PruneNow(lastVersion)

\* What pruning has left in s: every version from 1 on was committed, a version
\* past its time is in the list, and the scheduled heights are all there or,
\* where a crash interrupted pruneStores, all gone (so that deleting nothing
\* because one is missing leaves nothing behind).
LeftInv(s) ==
    /\ \A v \in 1 .. latestVersion : commitInfo[v][s] # NoID
    /\ \A v \in Versions :
         /\ saved[s][v] # Absent
         /\ v < latestVersion - KeepRecent
         /\ KeepEvery = 0 \/ v % KeepEvery # 0
         => v \in diskHeights
    /\ AllThere(s) \/ (AllGone(s) /\ PruneNow(NextVersion(latestVersion)))
    /\ pc = "prune" /\ PruneNow(lastVersion) /\ s \notin todo => AllGone(s)

LeakInv == IInv /\ ListInv /\ \A s \in Stores : Grown(s) => LeftInv(s)
LEMMA InitLeakInv == Init => LeakInv
  <1> SUFFICES ASSUME Init PROVE LeakInv
    BY Zenon
  <1>1. ListInv
    BY Zenon DEF Init, ListInv
  <1>2. \A s \in Stores : ~ Grown(s)
    BY Zenon DEF Init, Grown
  <1> QED BY <1>1, <1>2, InitIInv, Zenon DEF LeakInv

\* A store that has committed height 1 is not empty.
LEMMA GrownFacts ==
    ASSUME IInv, NEW s \in Stores, Grown(s)
    PROVE  /\ latestVersion \in Nat /\ latestVersion >= 1 /\ latestVersion \in Versions
           /\ FirstVersion = 1
           /\ NextVersion(latestVersion) = latestVersion + 1
  BY VersionFacts DEF Grown, IInv, DiskInv, TypeOK, NextVersion, Versions

\* The scheduled heights are versions, KeepRecent or more below the latest.
LEMMA ScheduledFacts ==
    ASSUME SafeOptions, IInv, NEW h \in Scheduled
    PROVE  /\ h \in Nat /\ h >= 1 /\ h <= MaxVersion
           /\ h <= latestVersion - KeepRecent
           /\ h < latestVersion
           /\ FirstVersion = 1 => h \in Versions
  <1>1. /\ h \in 1 .. MaxVersion
        /\ latestVersion # 0
        /\ h <= latestVersion - KeepRecent
        /\ KeepEvery = 0 \/ h % KeepEvery # 0
    BY HeightToPruneFacts, Zenon DEF Scheduled, IInv, TypeOK, HeightInv
  <1>2. latestVersion \in Nat
    BY VersionFacts DEF IInv, TypeOK
  <1>3. KeepRecent >= 1
    BY <1>1 DEF SafeOptions
  <1> QED BY OptionsAssumption, <1>1, <1>2, <1>3 DEF Versions

\* What a step that writes nothing to disk leaves of the invariant of s.
LEMMA LeftUnchanged ==
    ASSUME NEW s \in Stores, Grown(s)' , UNCHANGED disk, Grown(s) => LeftInv(s),
           pc' = "prune" /\ PruneNow(lastVersion)' /\ s \notin todo' => AllGone(s)
    PROVE  LeftInv(s)'
  <1>1. Grown(s)
    BY Zenon DEF Grown, disk
  <1>2. Scheduled' = Scheduled
    BY Zenon DEF Scheduled, HeightToPrune, disk
  <1>3. AllThere(s)' = AllThere(s) /\ AllGone(s)' = AllGone(s)
    BY <1>2, Zenon DEF AllThere, AllGone, disk
  <1> QED BY <1>1, <1>3, Zenon DEF LeftInv, disk, PruneNow, NextVersion

\* Loading, the steps of a commit and of a restore that write nothing, the
\* exporter and a crash.
LEMMA MemoryLeak ==
    ASSUME SafeOptions, LeakInv, IInv',
           \/ LoadLatestVersion \/ BeginCommit \/ EndCommitStores
           \/ \E h \in Versions : BeginRestore(h)
           \/ Exporter \/ Crash \/ UNCHANGED vars
    PROVE  ListInv' /\ \A s \in Stores : Grown(s)' => LeftInv(s)'
  <1>1. UNCHANGED disk
    BY Zenon DEF LoadLatestVersion, BeginCommit, EndCommitStores, BeginRestore, Exporter,
           Snapshot, ExportStore, CloseExporter, EndSnapshot, Crash, vars
  <1>2. Scheduled' = Scheduled
    BY <1>1, Zenon DEF Scheduled, HeightToPrune, disk
  <1>3. ListInv'
    <2>1. CASE LoadLatestVersion
      <3>1. CanLoad(latestVersion)
        BY <2>1, LoadStep, Zenon DEF LeakInv, LoadLatestVersion
      <3> QED BY <1>1, <2>1, <3>1, Zenon DEF LeakInv, ListInv, LoadLatestVersion, Loaded, disk
    <2>2. CASE BeginCommit
      BY <1>1, <2>2, Zenon DEF BeginCommit, LeakInv, ListInv, disk
    <2>3. CASE EndCommitStores
      <3>1. lastVersion = latestVersion /\ pruneHeights = diskHeights
        BY <2>3, Zenon DEF EndCommitStores, LeakInv, IInv, MemInv, ListInv
      <3>2. pruneHeights' = Scheduled' /\ pc' = "prune"
        BY <1>2, <2>3, <3>1, Zenon DEF EndCommitStores, Scheduled
      <3>3. todo' # {} => PruneNow(lastVersion)'
        BY <2>3, Zenon DEF EndCommitStores, PruneNow
      <3> QED BY <3>2, <3>3, Zenon DEF ListInv
    <2>4. CASE \E h \in Versions : BeginRestore(h)
      BY <1>1, <2>4, Zenon DEF BeginRestore, LeakInv, ListInv, disk
    <2>5. CASE Exporter \/ UNCHANGED vars
      BY <1>1, <1>2, <2>5, Zenon
      DEF Exporter, Snapshot, ExportStore, CloseExporter, EndSnapshot, vars, mem, disk,
          LeakInv, ListInv, PruneNow
    <2>6. CASE Crash
      BY <2>6, Zenon DEF Crash, ListInv
    <2> QED BY <2>1, <2>2, <2>3, <2>4, <2>5, <2>6, Zenon
  <1>4. ASSUME NEW s \in Stores, Grown(s)' PROVE LeftInv(s)'
    <2>1. Grown(s) => LeftInv(s)
      BY Zenon DEF LeakInv
    <2>2. pc' = "prune" /\ PruneNow(lastVersion)' /\ s \notin todo' => AllGone(s)
      <3>1. CASE EndCommitStores
        <4>1. PruneNow(lastVersion)' /\ s \notin todo' => pruneHeights' = {}
          BY <3>1, Zenon DEF EndCommitStores, PruneNow
        <4>2. pruneHeights' = Scheduled
          BY <1>2, <1>3, <3>1, Zenon DEF ListInv, EndCommitStores
        <4> QED BY <4>1, <4>2, Zenon DEF AllGone
      <3>2. CASE pc' = "prune" /\ UNCHANGED mem
        <4>1. Grown(s)
          BY <1>1, <1>4, Zenon DEF Grown, disk
        <4> QED BY <2>1, <3>2, <4>1, Zenon DEF LeftInv, mem, PruneNow
      <3>3. pc' # "prune" \/ EndCommitStores \/ UNCHANGED mem
        BY Zenon DEF LoadLatestVersion, BeginCommit, BeginRestore, Exporter, Snapshot,
               ExportStore, CloseExporter, EndSnapshot, Crash, vars
      <3> QED BY <3>1, <3>2, <3>3, Zenon
    <2> QED BY <1>1, <1>4, <2>1, <2>2, LeftUnchanged, Zenon
  <1> QED BY <1>3, <1>4, Zenon

\* SaveVersion writes a version above every scheduled one.
LEMMA CommitStoreLeak ==
    ASSUME SafeOptions, LeakInv, IInv', NEW t \in Stores, CommitStore(t)
    PROVE  ListInv' /\ \A s \in Stores : Grown(s)' => LeftInv(s)'
  <1> DEFINE v == NextVersion(latestVersion)
  <1>1. IInv /\ ListInv
    BY Zenon DEF LeakInv
  <1>2. /\ pc = "commit" /\ tree[t].version = latestVersion /\ v \in Versions
    <2>1. pc = "commit" /\ t \in todo
      BY Zenon DEF CommitStore
    <2>2. /\ lastVersion = latestVersion /\ NextVersion(lastVersion) \in Versions
          /\ tree[t] = [version |-> lastVersion, root |-> NextVersion(lastVersion)]
      BY <1>1, <2>1, Zenon DEF IInv, MemInv
    <2>3. tree[t].version = lastVersion
      <3> DEFINE lv == lastVersion
                 nv == NextVersion(lastVersion)
      <3>1. tree[t] = [version |-> lv, root |-> nv]
        BY <2>2, Zenon
      <3> HIDE DEF lv, nv
      <3>2. tree[t].version = lv
        BY <3>1
      <3> QED BY <3>2, Zenon DEF lv
    <2>4. v \in Versions
      BY <2>2, Zenon
    <2> QED BY <2>1, <2>2, <2>3, <2>4, Zenon
  <1>3. pc' # "panic"
    BY Zenon DEF IInv, MemInv
  <1>4. /\ saved' = [saved EXCEPT ![t][v] = tree[t].root]
        /\ pc' = pc
        /\ UNCHANGED <<latestVersion, commitInfo, diskHeights, lastVersion, pruneHeights>>
    BY <1>2, <1>3, Zenon DEF CommitStore
  <1>5. ListInv'
    BY <1>1, <1>2, <1>4, Zenon DEF ListInv
  <1>6. ASSUME NEW s \in Stores, Grown(s)' PROVE LeftInv(s)'
    <2>1. Grown(s) /\ LeftInv(s)
      BY <1>4, <1>6, Zenon DEF Grown, LeakInv
    <2>2. v = latestVersion + 1 /\ latestVersion \in Nat /\ FirstVersion = 1
      BY <1>1, <2>1, GrownFacts, Zenon
    <2>3. saved \in [Stores -> [Versions -> Roots \cup {Absent}]]
      BY <1>1, Zenon DEF IInv, TypeOK
    <2>4. \A w \in Versions : w <= latestVersion => saved'[s][w] = saved[s][w]
      BY <1>2, <1>4, <2>2, <2>3, VersionFacts
    <2>5. Scheduled' = Scheduled
      BY <1>4, Zenon DEF Scheduled, HeightToPrune
    <2>6. \A h \in Scheduled : h \in Versions /\ h <= latestVersion
      BY <1>1, <2>2, ScheduledFacts
    <2>7. AllThere(s)' = AllThere(s) /\ AllGone(s)' = AllGone(s)
      BY <2>4, <2>5, <2>6, Zenon DEF AllThere, AllGone
    <2>8. \A w \in Versions : w < latestVersion - KeepRecent => w <= latestVersion
      BY OptionsAssumption, <2>2, VersionFacts
    <2> QED BY <1>2, <1>4, <2>1, <2>4, <2>7, <2>8, Zenon DEF LeftInv, PruneNow, NextVersion
  <1> QED BY <1>5, <1>6, Zenon

\* pruneStores leaves none of the scheduled heights in the sub-store it visits:
\* they were all there and are deleted, or they were all gone.
LEMMA PruneStoreLeak ==
    ASSUME SafeOptions, LeakInv, IInv', NEW t \in Stores, PruneStore(t)
    PROVE  ListInv' /\ \A s \in Stores : Grown(s)' => LeftInv(s)'
  <1>1. IInv /\ ListInv
    BY Zenon DEF LeakInv
  <1>2. /\ pc = "prune" /\ t \in todo /\ pruneHeights = Scheduled
        /\ PruneNow(lastVersion) /\ lastVersion = NextVersion(latestVersion)
    BY <1>1, ZenonT(30) DEF PruneStore, ListInv, IInv, MemInv
  <1>3. pc' # "panic"
    BY Zenon DEF IInv, MemInv
  <1>4. /\ \/ saved' = [saved EXCEPT ![t] = [v \in Versions |->
                 IF v \in Scheduled THEN Absent ELSE saved[t][v]]]
           \/ saved' = saved /\ \E h \in Scheduled : ~ VersionExists(t, h)
        /\ todo' = todo \ {t}
        /\ pc' = pc
        /\ UNCHANGED <<latestVersion, commitInfo, diskHeights, lastVersion, pruneHeights>>
    BY <1>2, <1>3, Zenon DEF PruneStore
  <1>5. Scheduled' = Scheduled
    BY <1>4, Zenon DEF Scheduled, HeightToPrune
  <1>6. ListInv'
    BY <1>1, <1>2, <1>4, <1>5, Zenon DEF ListInv, PruneNow
  <1>7. saved \in [Stores -> [Versions -> Roots \cup {Absent}]]
    BY <1>1, Zenon DEF IInv, TypeOK
  <1>8. ASSUME NEW s \in Stores, Grown(s)' PROVE LeftInv(s)'
    <2>1. Grown(s) /\ LeftInv(s)
      BY <1>4, <1>8, Zenon DEF Grown, LeakInv
    <2>2. \A h \in Scheduled : h \in Versions
      BY <1>1, <2>1, GrownFacts, ScheduledFacts, Zenon
    <2>3. \A w \in Versions : saved'[s][w] # Absent => saved[s][w] # Absent
      BY <1>4, <1>7
    <2>4. CASE s = t
      <3>1. AllGone(s)'
        <4>1. CASE saved' = [saved EXCEPT ![t] = [v \in Versions |->
                       IF v \in Scheduled THEN Absent ELSE saved[t][v]]]
          BY <1>5, <1>7, <2>2, <2>4, <4>1, Zenon DEF AllGone
        <4>2. CASE saved' = saved /\ \E h \in Scheduled : ~ VersionExists(t, h)
          <5>1. ~ AllThere(s)
            BY <2>2, <2>4, <4>2, Zenon DEF AllThere, VersionExists
          <5>2. AllGone(s)
            BY <2>1, <5>1, Zenon DEF LeftInv
          <5> QED BY <1>5, <4>2, <5>2, Zenon DEF AllGone
        <4> QED BY <1>4, <4>1, <4>2, Zenon
      <3> QED BY <1>2, <1>4, <2>1, <2>3, <3>1, Zenon DEF LeftInv, PruneNow, NextVersion
    <2>5. CASE s # t
      <3>1. saved'[s] = saved[s]
        BY <1>4, <1>7, <2>5, Zenon
      <3>2. AllThere(s)' = AllThere(s) /\ AllGone(s)' = AllGone(s)
        BY <1>5, <3>1, Zenon DEF AllThere, AllGone
      <3> QED BY <1>4, <2>1, <2>5, <3>1, <3>2, Zenon DEF LeftInv, PruneNow, NextVersion
    <2> QED BY <2>4, <2>5, Zenon
  <1> QED BY <1>6, <1>8, Zenon

\* The first version flushed, by a commit or by a restore: nothing is scheduled.
LEMMA FirstFlushLeft ==
    ASSUME SafeOptions, IInv', NEW s \in Stores, Grown(s)', latestVersion' = 1,
           diskHeights' = {}, pc' = "idle"
    PROVE  LeftInv(s)'
  <1>1. HeightToPrune(1) = {}
    BY OptionsAssumption DEF HeightToPrune, SafeOptions
  <1>2. Scheduled' = {}
    BY <1>1, Zenon DEF Scheduled, HeightToPrune
  <1>3. AllThere(s)'
    BY <1>2, Zenon DEF AllThere
  <1>4. \A v \in 1 .. latestVersion' : commitInfo'[v][s] # NoID
    BY DEF Grown
  <1>5. \A v \in Versions : ~ (v < latestVersion' - KeepRecent)
    BY OptionsAssumption, VersionFacts
  <1> QED BY <1>3, <1>4, <1>5, Zenon DEF LeftInv

\* A version past its time at the new latest version was scheduled for the
\* commit that ends here.
LEMMA PastItsTime ==
    ASSUME NEW s \in Stores, LeftInv(s), latestVersion \in Nat,
           NEW v \in Versions, saved[s][v] # Absent,
           v < (latestVersion + 1) - KeepRecent, KeepEvery = 0 \/ v % KeepEvery # 0
    PROVE  v \in Scheduled
  <1>1. v \in Nat /\ v >= 1
    BY VersionFacts, Zenon
  <1>2. CASE v < latestVersion - KeepRecent
    BY <1>2, Zenon DEF LeftInv, Scheduled
  <1>3. CASE v = latestVersion - KeepRecent
    BY OptionsAssumption, <1>1, <1>3 DEF Scheduled, HeightToPrune
  <1> QED BY OptionsAssumption, <1>1, <1>2, <1>3

\* The height that the commit after the new latest version schedules was kept
\* up to now, so it is there.
LEMMA NextScheduledThere ==
    ASSUME SafeOptions, IInv, NEW s \in Stores, Grown(s), LeftInv(s),
           NEW h \in HeightToPrune(latestVersion + 1)
    PROVE  saved[s][h] # Absent
  <1>1. /\ latestVersion \in Nat /\ latestVersion >= 1 /\ latestVersion \in Versions
        /\ FirstVersion = 1
    BY GrownFacts, Zenon
  <1>2. /\ h = (latestVersion + 1) - KeepRecent /\ h >= 1 /\ h \in Nat
        /\ KeepEvery = 0 \/ h % KeepEvery # 0
    BY OptionsAssumption, <1>1 DEF HeightToPrune
  <1>3. KeepRecent >= 1
    BY <1>2 DEF SafeOptions
  <1>4. h \in 1 .. latestVersion /\ h \in Versions
    BY OptionsAssumption, BoundsAssumption, StoresAssumption, <1>1, <1>2, <1>3, VersionFacts DEF Versions
  <1>5. commitInfo[h][s] # NoID
    BY <1>4, Zenon DEF LeftInv
  <1>6. h > latestVersion - KeepRecent
    BY OptionsAssumption, <1>1, <1>2
  <1>7. saved[s][h] = h
    BY <1>4, <1>5, <1>6, Zenon DEF IInv, HeightInv
  <1> QED BY <1>2, <1>7 DEF Absent

\* flushMetadata makes the version the latest: the list is empty only when
\* every sub-store has been pruned.
LEMMA FlushMetadataLeak ==
    ASSUME SafeOptions, LeakInv, IInv', FlushMetadata
    PROVE  ListInv' /\ \A s \in Stores : Grown(s)' => LeftInv(s)'
  <1>1. IInv /\ ListInv
    BY Zenon DEF LeakInv
  <1>2. /\ pc = "prune" /\ todo = {} /\ pc' = "idle"
        /\ pruneHeights = Scheduled
        /\ lastVersion = NextVersion(latestVersion) /\ lastVersion \in Versions
        /\ latestVersion \in Versions \cup {0}
        /\ latestVersion' = lastVersion
        /\ pruneHeights' = diskHeights'
        /\ diskHeights' = IF PruneNow(lastVersion) THEN {} ELSE Scheduled
        /\ saved' = saved
    BY <1>1, Zenon DEF FlushMetadata, Flush, ListInv, IInv, MemInv, TypeOK
  <1>3. ListInv'
    BY <1>2, Zenon DEF ListInv
  <1>4. \A v \in Versions, s \in Stores :
          commitInfo'[v][s] = IF v = lastVersion THEN tree[s] ELSE commitInfo[v][s]
    BY <1>1, <1>2, Zenon DEF FlushMetadata, Flush, IInv, TypeOK
  <1>5. ASSUME NEW s \in Stores, Grown(s)' PROVE LeftInv(s)'
    <2>1. CASE latestVersion = 0
      <3>1. lastVersion = 1
        BY <1>2, <1>5, <2>1, VersionFacts DEF Grown, NextVersion, Versions
      <3>2. Scheduled = {}
        BY <1>1, <2>1, ScheduledFacts
      <3> QED BY <1>2, <1>5, <3>1, <3>2, FirstFlushLeft, Zenon
    <2>2. CASE latestVersion # 0
      <3>1. latestVersion \in Nat /\ latestVersion >= 1 /\ lastVersion = latestVersion + 1
        BY <1>2, <2>2, VersionFacts, Zenon DEF NextVersion
      <3>2. Grown(s) /\ LeftInv(s)
        <4>1. 1 \in Versions /\ lastVersion # 1
          BY <1>5, <3>1 DEF Grown
        <4> QED BY <1>4, <1>5, <4>1, Zenon DEF Grown, LeakInv
      <3>3. FirstVersion = 1
        BY <1>1, <3>2, GrownFacts, Zenon
      <3>4. \A v \in 1 .. latestVersion' : commitInfo'[v][s] # NoID
        <4> SUFFICES ASSUME NEW v \in 1 .. lastVersion PROVE commitInfo'[v][s] # NoID
          BY <1>2, Zenon
        <4>1. v \in Versions
          BY BoundsAssumption, <1>2, <3>1, <3>3, VersionFacts DEF Versions
        <4>2. CASE v = lastVersion
          <5>1. tree[s] \in CommitID
            BY <1>1, Zenon DEF IInv, TypeOK
          <5>2. tree[s] # NoID
            BY <5>1, VersionFacts DEF CommitID, NoID, Absent
          <5> QED BY <1>4, <4>1, <4>2, <5>2, Zenon
        <4>3. CASE v # lastVersion
          BY <1>4, <3>1, <3>2, <4>1, <4>3 DEF LeftInv
        <4> QED BY <4>2, <4>3, Zenon
      <3>5. \A v \in Versions :
              /\ saved'[s][v] # Absent
              /\ v < latestVersion' - KeepRecent
              /\ KeepEvery = 0 \/ v % KeepEvery # 0
              => v \in diskHeights'
        <4> SUFFICES ASSUME NEW v \in Versions, saved[s][v] # Absent,
                            v < (latestVersion + 1) - KeepRecent,
                            KeepEvery = 0 \/ v % KeepEvery # 0
                     PROVE  v \in diskHeights'
          BY <1>2, <3>1, Zenon
        <4>1. v \in Scheduled
          BY <3>1, <3>2, PastItsTime, Zenon
        <4>2. PruneNow(lastVersion) => saved[s][v] = Absent
          BY <1>2, <3>2, <4>1, Zenon DEF LeftInv, AllGone
        <4> QED BY <1>2, <4>1, <4>2, Zenon
      <3>6. AllThere(s)'
        <4>1. Scheduled' = diskHeights' \cup HeightToPrune(latestVersion + 1)
          BY <1>2, <3>1, Zenon DEF Scheduled, HeightToPrune
        <4>2. \A h \in HeightToPrune(latestVersion + 1) : saved[s][h] # Absent
          BY <1>1, <3>2, NextScheduledThere, Zenon
        <4>3. ~ PruneNow(lastVersion) => AllThere(s)
          BY <1>2, <3>2, ZenonT(30) DEF LeftInv
        <4>4. \A h \in diskHeights' : saved[s][h] # Absent
          BY <1>2, <4>3, Zenon DEF AllThere
        <4> QED BY <1>2, <4>1, <4>2, <4>4, Zenon DEF AllThere
      <3> QED BY <1>2, <3>4, <3>5, <3>6, Zenon DEF LeftInv
    <2> QED BY <2>1, <2>2, Zenon
  <1> QED BY <1>3, <1>5, Zenon

\* A restore fills an empty store: nothing has been committed, and nothing is
\* scheduled.
LEMMA RestoreLeak ==
    ASSUME SafeOptions, LeakInv, IInv', EndRestore \/ \E t \in Stores : ImportStore(t)
    PROVE  ListInv' /\ \A s \in Stores : Grown(s)' => LeftInv(s)'
  <1>1. IInv /\ ListInv
    BY Zenon DEF LeakInv
  <1>2. /\ pc = "restore" /\ latestVersion = 0 /\ restoreHeight \in Versions
        /\ pruneHeights = {} /\ diskHeights = {}
    BY <1>1, Zenon DEF EndRestore, ImportStore, IInv, MemInv, ListInv
  <1>3. CASE EndRestore
    <2>1. /\ latestVersion' = restoreHeight /\ diskHeights' = {} /\ pc' = "idle"
          /\ pruneHeights' = {}
          /\ commitInfo' = [commitInfo EXCEPT ![restoreHeight] = tree]
      BY <1>2, <1>3, Zenon DEF EndRestore, Flush
    <2>2. ListInv'
      BY <2>1, Zenon DEF ListInv
    <2>3. ASSUME NEW s \in Stores, Grown(s)' PROVE LeftInv(s)'
      <3>1. commitInfo[1][s] = NoID
        BY <1>1, <1>2, <2>3, ZenonT(30) DEF Grown, IInv, DiskInv
      <3>2. restoreHeight = 1
        BY <1>1, <2>1, <2>3, <3>1, Zenon DEF Grown, IInv, TypeOK
      <3> QED BY <2>1, <2>3, <3>2, FirstFlushLeft, Zenon
    <2> QED BY <2>2, <2>3, Zenon
  <1>4. CASE \E t \in Stores : ImportStore(t)
    <2>1. UNCHANGED <<latestVersion, commitInfo, diskHeights, pruneHeights>>
      BY <1>4, Zenon DEF ImportStore
    <2>2. pc' \in {"restore", "aborted"}
      BY <1>2, <1>4, Zenon DEF ImportStore
    <2>3. ListInv'
      BY <1>2, <2>1, <2>2, Zenon DEF ListInv
    <2>4. ASSUME NEW s \in Stores PROVE ~ Grown(s)'
      BY <1>1, <1>2, <2>1, Zenon DEF Grown, IInv, DiskInv
    <2> QED BY <2>3, <2>4, Zenon
  <1> QED BY <1>3, <1>4, Zenon

LEMMA NextLeakInv == ASSUME SafeOptions, LeakInv, [Next]_vars, ~cut' PROVE LeakInv'
  <1>1. IInv'
    BY NextIInv, Zenon DEF LeakInv
  <1>2. ListInv' /\ \A s \in Stores : Grown(s)' => LeftInv(s)'
    BY <1>1, MemoryLeak, CommitStoreLeak, PruneStoreLeak, FlushMetadataLeak, RestoreLeak, Zenon
    DEF Next, Process, AtBound
  <1> QED BY <1>1, <1>2, Zenon DEF LeakInv

\* A version past its time is gone or still scheduled whenever the store is
\* idle: a crash between two sub-stores of pruneStores, or before the list is
\* flushed, loses no height, because the replayed commit schedules the same
\* heights and finds each sub-store with all of them or with none.
THEOREM NoVersionLeaks == ASSUME SafeOptions PROVE Spec => []NoLeakedVersion
  <1>1. Init => LeakInv
    BY InitLeakInv, Zenon
  <1>2. (cut \/ LeakInv) /\ [Next]_vars => (cut \/ LeakInv)'
    BY NextLeakInv, CutSteps, Zenon
  <1>3. (cut \/ LeakInv) => NoLeakedVersion
    <2> SUFFICES ASSUME LeakInv, pc = "idle", 1 \in Versions,
                        NEW s \in Stores, NEW v \in Versions,
                        commitInfo[1][s] # NoID, saved[s][v] # Absent,
                        v < latestVersion - KeepRecent,
                        KeepEvery = 0 \/ v % KeepEvery # 0
                 PROVE  v \in pruneHeights
      BY Zenon DEF NoLeakedVersion
    <2>1. LeftInv(s) /\ pruneHeights = diskHeights
      BY Zenon DEF LeakInv, Grown, ListInv
    <2> QED BY <2>1, Zenon DEF LeftInv
  <1> QED BY <1>1, <1>2, <1>3, PTL DEF Spec

-----------------------------------------------------------------------------
(* What a load finds holds whatever crashes, a restore cut short included: *)
(* LoadInv says nothing of the blocks a version holds, only that the       *)
(* commit info flushed last names versions that are saved.                 *)

\* The sub-store has the version that id names, with the root it names.
Named(s, id) == id.version \in Versions /\ saved[s][id.version] = id.root

LoadInv ==
    /\ TypeOK
    /\ latestVersion # 0 =>
         \A s \in Stores :
            /\ commitInfo[latestVersion][s] \in CommitID
            /\ Named(s, commitInfo[latestVersion][s])
            /\ commitInfo[latestVersion][s].version >= latestVersion
    /\ pc \in {"idle", "commit"} =>
         lastVersion = latestVersion /\ \A s \in Stores : tree[s].version >= lastVersion
    /\ pc = "commit" =>
         /\ NextVersion(lastVersion) \in Versions
         /\ \A s \in todo : NextVersion(tree[s].version) \in Versions
         /\ \A s \in Stores \ todo :
              Named(s, tree[s]) /\ tree[s].version >= NextVersion(lastVersion)
    /\ pc = "prune" =>
         /\ lastVersion = NextVersion(latestVersion)
         /\ lastVersion \in Versions
         /\ \A s \in Stores : Named(s, tree[s]) /\ tree[s].version >= lastVersion
    /\ pc = "restore" =>
         /\ latestVersion = 0
         /\ restoreHeight \in Versions
         /\ \A s \in Stores \ todo :
              Named(s, tree[s]) /\ tree[s].version >= restoreHeight
    /\ \A h \in pruneHeights \cup diskHeights : h < latestVersion

\* A nonempty set of naturals has a least element, and one that is bounded a
\* greatest.
LEMMA Least ==
    ASSUME NEW S \in SUBSET Nat, S # {}
    PROVE  \E x \in S : \A y \in S : x <= y
  <1> DEFINE R == OpToRel(<, Nat)
  <1>1. IsWellFoundedOn(R, Nat)
    BY NatLessThanWellFounded, Zenon
  <1>2. \A x, y \in Nat : x < y => <<x, y>> \in R
    BY DEF OpToRel
  <1> HIDE DEF R
  <1>3. PICK x \in S : \A y \in S : ~(<<y, x>> \in R)
    BY <1>1, WFMin, Zenon
  <1>4. \A y \in S : ~(y < x) /\ y \in Nat /\ x \in Nat
    BY <1>2, <1>3, Zenon
  <1>5. \A y \in S : x <= y
    BY <1>4
  <1> QED BY <1>5, Zenon

LEMMA Greatest ==
    ASSUME NEW n \in Nat, NEW S \in SUBSET (0 .. n), S # {}
    PROVE  \E x \in S : \A y \in S : y <= x
  <1> DEFINE T == {n - x : x \in S}
  <1>1. T \in SUBSET Nat /\ T # {}
    <2>1. \A x \in S : n - x \in Nat
      OBVIOUS
    <2> QED BY <2>1, Zenon
  <1> HIDE DEF T
  <1>2. PICK t \in T : \A u \in T : t <= u
    BY <1>1, Least
  <1>3. PICK x \in S : t = n - x
    BY DEF T
  <1>4. \A y \in S : n - y \in T
    BY DEF T
  <1>5. \A y \in S : n - x <= n - y
    BY <1>2, <1>3, <1>4
  <1> QED BY <1>5

\* LoadVersion(0) gives the latest version saved, or the empty tree.
LEMMA LatestSavedFacts ==
    ASSUME TypeOK, NEW s \in Stores
    PROVE  LoadTree(s, 0) \in CommitID
  <1>1. CASE SavedVersions(s) = {}
    BY <1>1, Zenon DEF LoadTree, Target, LatestSaved, ZeroID, CommitID, Roots
  <1>2. CASE SavedVersions(s) # {}
    <2>1. SavedVersions(s) \in SUBSET (0 .. MaxVersion)
      BY VersionFacts DEF SavedVersions
    <2>2. \E v \in SavedVersions(s) : \A w \in SavedVersions(s) : w <= v
      BY <1>2, <2>1, BoundsAssumption, Greatest, Zenon
    <2>3. LatestSaved(s) \in SavedVersions(s)
      BY <1>2, <2>2, Zenon DEF LatestSaved
    <2>4. /\ LatestSaved(s) \in Versions
          /\ saved[s][LatestSaved(s)] \in Roots
      <3>1. LatestSaved(s) \in Versions /\ saved[s][LatestSaved(s)] # Absent
        BY <2>3, Zenon DEF SavedVersions
      <3>2. saved \in [Stores -> [Versions -> Roots \cup {Absent}]]
        BY Zenon DEF TypeOK
      <3> QED BY <3>1, <3>2
    <2>5. LatestSaved(s) # 0
      BY <2>4, VersionFacts
    <2> QED BY <2>4, <2>5, Zenon DEF LoadTree, Target, CommitID
  <1> QED BY <1>1, <1>2, Zenon

\* A root of a CommitID is a root that is there.
LEMMA RootThere == \A r \in Roots : r # Absent
  BY VersionFacts DEF Roots, Absent, Bad

\* What LoadLatestVersion loads: every sub-store as the commit info names it, or
\* the latest it has when nothing was ever flushed.
LEMMA LoadFinds ==
    ASSUME LoadInv
    PROVE  /\ CanLoad(latestVersion)
           /\ \A s \in Stores :
                LET t == LoadTree(s, getCommitID(latestVersion, s).version)
                IN  t \in CommitID /\ t.version >= latestVersion
  <1>1. TypeOK
    BY Zenon DEF LoadInv
  <1>2. CASE latestVersion = 0
    <2>1. \A s \in Stores : getCommitID(latestVersion, s) = ZeroID
      BY <1>2, Zenon DEF getCommitID
    <2>2. ZeroID.version = 0 /\ ZeroID # NoID
      BY DEF ZeroID, NoID, Absent
    <2>3. CanLoad(latestVersion)
      BY <2>1, <2>2, Zenon DEF CanLoad
    <2>4. ASSUME NEW t \in CommitID PROVE t.version >= 0
      BY VersionFacts DEF CommitID
    <2>5. \A s \in Stores :
            LoadTree(s, getCommitID(latestVersion, s).version) = LoadTree(s, 0)
      BY <2>1, <2>2, Zenon
    <2> QED BY <1>1, <1>2, <2>3, <2>4, <2>5, LatestSavedFacts, Zenon
  <1>3. CASE latestVersion # 0
    <2> SUFFICES ASSUME NEW s \in Stores
                 PROVE  LET id == getCommitID(latestVersion, s)
                            t  == LoadTree(s, id.version)
                        IN  /\ id # NoID /\ VersionExists(s, id.version)
                            /\ t \in CommitID /\ t.version >= latestVersion
      BY Zenon DEF CanLoad
    <2> DEFINE id == commitInfo[latestVersion][s]
    <2>1. /\ getCommitID(latestVersion, s) = id
          /\ id \in CommitID
          /\ id.version \in Versions /\ saved[s][id.version] = id.root
          /\ id.version >= latestVersion
      BY <1>3, Zenon DEF getCommitID, LoadInv, Named
    <2> HIDE DEF id
    <2>2. id # NoID /\ id.root \in Roots
      BY <2>1, VersionFacts DEF CommitID, NoID, Absent
    <2>3. VersionExists(s, id.version)
      BY <2>1, <2>2, RootThere, Zenon DEF VersionExists
    <2>4. id.version # 0
      BY <2>1, VersionFacts
    <2>5. LoadTree(s, id.version) = [version |-> id.version, root |-> id.root]
      BY <2>1, <2>4, Zenon DEF LoadTree, Target
    <2>6. /\ LoadTree(s, id.version) \in CommitID
          /\ LoadTree(s, id.version).version >= latestVersion
      BY <2>1, <2>2, <2>5 DEF CommitID
    <2> QED BY <2>1, <2>2, <2>3, <2>6, Zenon
  <1> QED BY <1>2, <1>3, Zenon

LEMMA LoadLoadInv == ASSUME LoadInv, LoadLatestVersion PROVE LoadInv'
  <1> USE DEF LoadLatestVersion, Loaded, disk, snap
  <1>1. /\ pc' = "idle" /\ lastVersion' = latestVersion
        /\ \A s \in Stores : tree'[s] \in CommitID /\ tree'[s].version >= latestVersion
        /\ pruneHeights' \in SUBSET (pruneHeights \cup diskHeights)
    BY LoadFinds, Zenon
  <1>2. tree' \in [Stores -> CommitID]
    BY <1>1, LoadFinds, Zenon
  <1>3. TypeOK'
    BY <1>1, <1>2, Zenon DEF LoadInv, TypeOK
  <1> QED BY <1>1, <1>3, Zenon DEF LoadInv, Named

\* The root BeginCommit gives to a tree.
LEMMA ApplyType == \A r, b : b \in Versions => Apply(r, b) \in Roots
  BY Zenon DEF Apply, Roots

LEMMA BeginCommitLoadInv == ASSUME LoadInv, BeginCommit PROVE LoadInv'
  <1> DEFINE version == NextVersion(lastVersion)
  <1>1. /\ tree \in [Stores -> CommitID] /\ lastVersion \in Versions \cup {0}
        /\ lastVersion = latestVersion
        /\ \A s \in Stores : tree[s].version >= lastVersion
    BY Zenon DEF BeginCommit, LoadInv, TypeOK
  <1>2. \A s \in Stores : tree[s].version \in Versions \cup {0}
    BY <1>1 DEF CommitID
  <1>3. version \in Versions /\ \A s \in Stores : NextVersion(tree[s].version) \in Versions
    BY <1>1, <1>2, BoundsAssumption, VersionFacts DEF BeginCommit, Versions
  <1> HIDE DEF version
  <1>4. tree' = [s \in Stores |-> [version |-> tree[s].version,
                                   root |-> Apply(tree[s].root, version)]]
    BY Zenon DEF BeginCommit, version
  <1>5. tree' \in [Stores -> CommitID]
    BY <1>2, <1>3, <1>4, ApplyType, Zenon DEF CommitID
  <1>6. \A s \in Stores : tree'[s].version = tree[s].version
    BY <1>4
  <1>7. TypeOK'
    BY <1>5, Zenon DEF BeginCommit, disk, snap, LoadInv, TypeOK
  <1> QED
    BY <1>1, <1>3, <1>6, <1>7, Zenon
    DEF BeginCommit, disk, LoadInv, Named, NextVersion, version

\* The version after v is above the version after w when v is not below w.
LEMMA NextMonotone ==
    ASSUME NEW v \in Versions \cup {0}, NEW w \in Versions \cup {0}, v >= w
    PROVE  NextVersion(v) >= NextVersion(w)
  BY VersionFacts DEF NextVersion

\* SaveVersion writes the root of the tree, over an equal one if at all.
LEMMA CommitStoreLoadInv ==
    ASSUME LoadInv, NEW s \in Stores, CommitStore(s) PROVE LoadInv'
  <1> DEFINE v == NextVersion(tree[s].version)
             r == tree[s].root
  <1>1. /\ pc = "commit" /\ s \in todo /\ v \in Versions
        /\ tree[s] \in CommitID /\ tree[s].version >= lastVersion
        /\ tree \in [Stores -> CommitID]
        /\ saved \in [Stores -> [Versions -> Roots \cup {Absent}]]
        /\ lastVersion = latestVersion /\ lastVersion \in Versions \cup {0}
        /\ NextVersion(lastVersion) \in Versions
    BY Zenon DEF CommitStore, LoadInv, TypeOK
  <1>2. tree[s].version \in Versions \cup {0} /\ r \in Roots
    BY <1>1 DEF CommitID
  <1>3. v >= NextVersion(lastVersion)
    BY <1>1, <1>2, NextMonotone
  <1> HIDE DEF v, r
  <1>4. CASE VersionExists(s, v) /\ saved[s][v] # r
    <2>1. pc' = "panic" /\ UNCHANGED <<saved, tree, todo>>
      BY <1>4, Zenon DEF CommitStore, v, r
    <2>2. TypeOK'
      BY <2>1, Zenon DEF CommitStore, snap, LoadInv, TypeOK
    <2> QED BY <2>1, <2>2, Zenon DEF CommitStore, LoadInv, Named
  <1>5. CASE ~(VersionExists(s, v) /\ saved[s][v] # r)
    <2>1. /\ saved' = [saved EXCEPT ![s][v] = r]
          /\ tree' = [tree EXCEPT ![s] = [version |-> v, root |-> r]]
          /\ todo' = todo \ {s} /\ pc' = pc
          /\ UNCHANGED <<latestVersion, commitInfo, diskHeights, lastVersion, pruneHeights>>
      BY <1>5, Zenon DEF CommitStore, v, r
    <2>2. \A w \in Versions, q \in Stores :
            saved'[q][w] = IF q = s /\ w = v THEN r ELSE saved[q][w]
      BY <1>1, <2>1, Zenon
    <2>3. [version |-> v, root |-> r] \in CommitID
      BY <1>1, <1>2, Zenon DEF CommitID
    <2>4. TypeOK'
      <3>1. tree' \in [Stores -> CommitID]
        BY <1>1, <2>1, <2>3, Zenon
      <3>2. saved' \in [Stores -> [Versions -> Roots \cup {Absent}]]
        BY <1>1, <1>2, <2>1, Zenon
      <3> QED BY <2>1, <3>1, <3>2, Zenon DEF CommitStore, snap, LoadInv, TypeOK
    <2>5. \A q \in Stores, id \in CommitID : Named(q, id) => Named(q, id)'
      <3> SUFFICES ASSUME NEW q \in Stores, NEW id \in CommitID, Named(q, id)
                   PROVE  Named(q, id)'
        BY Zenon
      <3>1. id.version \in Versions /\ saved[q][id.version] = id.root /\ id.root \in Roots
        BY Zenon DEF Named, CommitID
      <3>2. CASE q = s /\ id.version = v
        <4>1. saved[s][v] # Absent
          BY <3>1, <3>2, RootThere, Zenon
        <4>2. saved[s][v] = r
          BY <1>1, <1>5, <4>1, Zenon DEF VersionExists
        <4> QED BY <2>2, <3>1, <3>2, <4>2, Zenon DEF Named
      <3>3. CASE ~(q = s /\ id.version = v)
        BY <2>2, <3>1, <3>3, Zenon DEF Named
      <3> QED BY <3>2, <3>3, Zenon
    <2>6. \A q \in Stores : q # s => tree'[q] = tree[q]
      BY <1>1, <2>1, Zenon
    <2>7. tree'[s].version = v /\ tree'[s].root = r
      BY <1>1, <2>1
    <2>8. Named(s, tree[s])'
      BY <1>1, <2>2, <2>7, Zenon DEF Named
    <2>9. latestVersion' # 0 => \A q \in Stores :
            /\ commitInfo'[latestVersion'][q] \in CommitID
            /\ Named(q, commitInfo[latestVersion][q])'
            /\ commitInfo'[latestVersion'][q].version >= latestVersion'
      <3>1. latestVersion # 0 => \A q \in Stores :
              /\ commitInfo[latestVersion][q] \in CommitID
              /\ Named(q, commitInfo[latestVersion][q])
              /\ commitInfo[latestVersion][q].version >= latestVersion
        BY Zenon DEF LoadInv
      <3> QED BY <2>1, <2>5, <3>1, Zenon DEF Named
    <2>10. \A q \in Stores : tree'[q].version >= lastVersion'
      <3>1. v >= lastVersion
        BY <1>1, <1>2, <1>3, VersionFacts
      <3> QED BY <1>1, <2>1, <2>6, <2>7, <3>1, Zenon DEF LoadInv
    <2>11. \A q \in Stores \ todo' :
             Named(q, tree[q])' /\ tree'[q].version >= NextVersion(lastVersion)
      <3>1. \A q \in Stores \ todo : q # s =>
              Named(q, tree[q])' /\ tree'[q].version >= NextVersion(lastVersion)
        <4> SUFFICES ASSUME NEW q \in Stores \ todo, q # s
                     PROVE  Named(q, tree[q])' /\ tree'[q].version >= NextVersion(lastVersion)
          BY Zenon
        <4>1. /\ tree[q] \in CommitID /\ Named(q, tree[q])
              /\ tree[q].version >= NextVersion(lastVersion)
          BY <1>1, Zenon DEF LoadInv
        <4> DEFINE id == tree[q]
        <4>2. id \in CommitID /\ Named(q, id) /\ tree'[q] = id
          BY <2>6, <4>1, Zenon
        <4> HIDE DEF id
        <4>3. id.version \in Versions /\ saved'[q][id.version] = id.root
          BY <2>5, <4>2, Zenon DEF Named
        <4> QED BY <2>6, <4>1, <4>2, <4>3, Zenon DEF Named
      <3> QED BY <1>3, <2>1, <2>7, <2>8, <3>1, Zenon
    <2>12. \A q \in todo' : NextVersion(tree'[q].version) \in Versions
      BY <1>1, <2>1, <2>6, Zenon DEF LoadInv, TypeOK
    <2> QED
      BY <1>1, <2>1, <2>4, <2>9, <2>10, <2>11, <2>12, Zenon DEF LoadInv, NextVersion
  <1> QED BY <1>4, <1>5, Zenon

\* A height that is scheduled is below the latest version.
LEMMA ScheduledBelow ==
    ASSUME SafeOptions, NEW p \in Versions \cup {0}, NEW h \in HeightToPrune(p)
    PROVE  h < p /\ h \in 1 .. MaxVersion
  <1>1. KeepRecent >= 1
    BY HeightToPruneFacts DEF SafeOptions
  <1> QED BY <1>1, HeightToPruneFacts, OptionsAssumption, VersionFacts

LEMMA EndCommitStoresLoadInv ==
    ASSUME SafeOptions, LoadInv, EndCommitStores PROVE LoadInv'
  <1>1. /\ pc = "commit" /\ todo = {} /\ pc' = "prune"
        /\ lastVersion = latestVersion /\ lastVersion \in Versions \cup {0}
        /\ NextVersion(lastVersion) \in Versions
        /\ lastVersion' = NextVersion(lastVersion)
        /\ pruneHeights' = pruneHeights \cup HeightToPrune(lastVersion)
        /\ todo' \in SUBSET Stores
        /\ UNCHANGED <<disk, tree, restoreHeight, snap, cut, crashes>>
    BY Zenon DEF EndCommitStores, LoadInv, TypeOK
  <1>2. TypeOK'
    BY <1>1, ScheduledBelow, Zenon DEF disk, snap, LoadInv, TypeOK
  <1>3. \A h \in pruneHeights' \cup diskHeights' : h < latestVersion'
    BY <1>1, ScheduledBelow, Zenon DEF disk, LoadInv
  <1> QED BY <1>1, <1>2, <1>3, Zenon DEF disk, LoadInv, Named, NextVersion

\* pruneStores deletes only versions below the one flushed last.
LEMMA PruneStoreLoadInv ==
    ASSUME LoadInv, NEW s \in Stores, PruneStore(s) PROVE LoadInv'
  <1>1. /\ pc = "prune" /\ lastVersion = NextVersion(latestVersion)
        /\ saved \in [Stores -> [Versions -> Roots \cup {Absent}]]
        /\ latestVersion \in Versions \cup {0} /\ pruneHeights \in SUBSET (1 .. MaxVersion)
        /\ \A h \in pruneHeights : h < latestVersion
    BY Zenon DEF PruneStore, LoadInv, TypeOK
  <1>2. /\ \/ saved' = [saved EXCEPT ![s] = [v \in Versions |->
                 IF v \in pruneHeights THEN Absent ELSE saved[s][v]]]
           \/ saved' = saved
        /\ todo' \in SUBSET todo
        /\ pc' \in {"prune", "panic"}
        /\ UNCHANGED <<latestVersion, commitInfo, diskHeights, tree, lastVersion,
                       pruneHeights, restoreHeight, snap, cut, crashes>>
    BY <1>1, Zenon DEF PruneStore
  <1>3. saved' \in [Stores -> [Versions -> Roots \cup {Absent}]]
    BY <1>1, <1>2
  <1>4. \A q \in Stores, v \in Versions : v \notin pruneHeights => saved'[q][v] = saved[q][v]
    BY <1>1, <1>2
  <1>5. \A v \in Versions : v >= latestVersion => v \notin pruneHeights
    BY <1>1, VersionFacts
  <1>6. latestVersion # 0 => \A q \in Stores : Named(q, commitInfo[latestVersion][q])'
    BY <1>2, <1>4, <1>5, Zenon DEF LoadInv, Named
  <1>7. \A q \in Stores : Named(q, tree[q])'
    <2>1. \A q \in Stores : Named(q, tree[q]) /\ tree[q].version >= lastVersion
      BY <1>1, Zenon DEF LoadInv
    <2>2. \A q \in Stores : tree[q].version \in Versions /\ tree[q].version >= latestVersion
      BY <1>1, <2>1, VersionFacts DEF Named
    <2> QED BY <1>2, <1>4, <1>5, <2>1, <2>2, Zenon DEF Named
  <1>8. TypeOK'
    BY <1>2, <1>3, Zenon DEF snap, LoadInv, TypeOK
  <1> QED BY <1>1, <1>2, <1>6, <1>7, <1>8, Zenon DEF LoadInv, NextVersion

\* A flush of the trees, each of which is saved, under a version that none is below.
LEMMA FlushLoads ==
    ASSUME TypeOK, NEW w \in Versions, NEW heights, Flush(w, heights),
           \A s \in Stores : Named(s, tree[s]) /\ tree[s].version >= w
    PROVE  /\ commitInfo' \in [Versions -> [Stores -> CommitID \cup {NoID}]]
           /\ latestVersion' = w
           /\ \A s \in Stores : /\ commitInfo'[w][s] \in CommitID
                                /\ Named(s, commitInfo[latestVersion][s])'
                                /\ commitInfo'[w][s].version >= w
  <1>1. commitInfo'[w] = tree /\ tree \in [Stores -> CommitID] /\ latestVersion' = w
    BY Zenon DEF Flush, TypeOK
  <1>2. commitInfo' \in [Versions -> [Stores -> CommitID \cup {NoID}]]
    BY <1>1, Zenon DEF Flush, TypeOK
  <1> QED BY <1>1, <1>2, Zenon DEF Flush, Named

LEMMA FlushMetadataLoadInv == ASSUME LoadInv, FlushMetadata PROVE LoadInv'
  <1>1. /\ TypeOK /\ pc' = "idle" /\ lastVersion \in Versions
        /\ lastVersion = NextVersion(latestVersion) /\ latestVersion \in Versions \cup {0}
        /\ \A s \in Stores : Named(s, tree[s]) /\ tree[s].version >= lastVersion
        /\ pruneHeights' \in SUBSET pruneHeights /\ diskHeights' = pruneHeights'
        /\ Flush(lastVersion, pruneHeights')
        /\ lastVersion' = lastVersion /\ tree' = tree /\ saved' = saved
    BY Zenon DEF FlushMetadata, Flush, LoadInv, TypeOK
  <1>2. /\ commitInfo' \in [Versions -> [Stores -> CommitID \cup {NoID}]]
        /\ latestVersion' = lastVersion
        /\ \A s \in Stores : /\ commitInfo'[lastVersion][s] \in CommitID
                             /\ Named(s, commitInfo[latestVersion][s])'
                             /\ commitInfo'[lastVersion][s].version >= lastVersion
    BY <1>1, FlushLoads, Zenon
  <1>3. TypeOK'
    <2>1. SnapshotDue(lastVersion) \in SUBSET Versions
      BY <1>1, Zenon DEF SnapshotDue
    <2> QED BY <1>1, <1>2, <2>1, Zenon DEF FlushMetadata, TypeOK
  <1>4. \A h \in pruneHeights' \cup diskHeights' : h < latestVersion'
    <2>1. \A h \in pruneHeights : h \in 1 .. MaxVersion /\ h < latestVersion
      BY <1>1, Zenon DEF LoadInv, TypeOK
    <2>2. latestVersion < lastVersion /\ lastVersion \in Nat /\ latestVersion \in Nat
      <3>1. lastVersion = NextVersion(latestVersion) /\ latestVersion \in Versions \cup {0}
        BY <1>1, Zenon
      <3> QED BY <3>1, VersionFacts
    <2>3. \A h \in pruneHeights : h < lastVersion
      BY <2>1, <2>2
    <2> QED BY <1>1, <1>2, <2>3, Zenon
  <1> QED BY <1>1, <1>2, <1>3, <1>4, Zenon DEF LoadInv

LEMMA BeginRestoreLoadInv ==
    ASSUME LoadInv, NEW h \in Versions, BeginRestore(h) PROVE LoadInv'
  <1>1. TypeOK'
    BY Zenon DEF BeginRestore, disk, snap, LoadInv, TypeOK
  <1> QED BY <1>1, Zenon DEF BeginRestore, disk, LoadInv, Named

\* The importer writes into an empty tree.
LEMMA ImportStoreLoadInv ==
    ASSUME LoadInv, NEW s \in Stores, ImportStore(s) PROVE LoadInv'
  <1>1. /\ pc = "restore" /\ latestVersion = 0 /\ restoreHeight \in Versions
        /\ tree \in [Stores -> CommitID]
        /\ saved \in [Stores -> [Versions -> Roots \cup {Absent}]]
    BY Zenon DEF ImportStore, LoadInv, TypeOK
  <1>2. CASE tree[s].version # 0
    <2>1. pc' = "aborted" /\ UNCHANGED <<saved, tree, todo>>
      BY <1>2, Zenon DEF ImportStore
    <2>2. TypeOK'
      BY <2>1, Zenon DEF ImportStore, snap, LoadInv, TypeOK
    <2> QED BY <1>1, <2>1, <2>2, Zenon DEF ImportStore, LoadInv
  <1>3. CASE tree[s].version = 0
    <2>1. /\ saved' = [saved EXCEPT ![s][restoreHeight] = restoreHeight]
          /\ tree' = [tree EXCEPT ![s] = Pair(restoreHeight)]
          /\ todo' = todo \ {s} /\ pc' = pc
          /\ UNCHANGED <<latestVersion, commitInfo, diskHeights, lastVersion,
                         pruneHeights, restoreHeight, snap, cut, crashes>>
      BY <1>3, Zenon DEF ImportStore, Pair
    <2>2. /\ Pair(restoreHeight) \in CommitID
          /\ Pair(restoreHeight).version = restoreHeight
          /\ Pair(restoreHeight).root = restoreHeight
      BY <1>1 DEF Pair, CommitID, Roots
    <2>3. tree' \in [Stores -> CommitID]
      BY <1>1, <2>1, <2>2, Zenon
    <2>4. saved' \in [Stores -> [Versions -> Roots \cup {Absent}]]
      BY <1>1, <2>1, Zenon DEF Roots
    <2>5. TypeOK'
      BY <2>1, <2>3, <2>4, Zenon DEF snap, LoadInv, TypeOK
    <2>6. \A q \in Stores : q # s => tree'[q] = tree[q] /\ saved'[q] = saved[q]
      BY <1>1, <2>1, Zenon
    <2>7. /\ tree'[s] = Pair(restoreHeight)
          /\ saved'[s][restoreHeight] = restoreHeight
      BY <1>1, <2>1, Zenon
    <2>8. Named(s, tree[s])' /\ tree'[s].version >= restoreHeight
      BY <1>1, <2>2, <2>7, VersionFacts DEF Named
    <2>9. \A q \in Stores \ todo' : Named(q, tree[q])' /\ tree'[q].version >= restoreHeight
      BY <1>1, <2>1, <2>6, <2>8, Zenon DEF LoadInv, Named
    <2> QED BY <1>1, <2>1, <2>5, <2>9, Zenon DEF LoadInv
  <1> QED BY <1>2, <1>3, Zenon

LEMMA EndRestoreLoadInv == ASSUME LoadInv, EndRestore PROVE LoadInv'
  <1>1. /\ TypeOK /\ pc' = "idle" /\ restoreHeight \in Versions /\ latestVersion = 0
        /\ \A s \in Stores : Named(s, tree[s]) /\ tree[s].version >= restoreHeight
        /\ diskHeights' = {} /\ pruneHeights' = pruneHeights
        /\ Flush(restoreHeight, {})
        /\ lastVersion' = restoreHeight /\ tree' = tree /\ saved' = saved
    BY Zenon DEF EndRestore, Flush, LoadInv
  <1>2. /\ commitInfo' \in [Versions -> [Stores -> CommitID \cup {NoID}]]
        /\ latestVersion' = restoreHeight
        /\ \A s \in Stores : /\ commitInfo'[restoreHeight][s] \in CommitID
                             /\ Named(s, commitInfo[latestVersion][s])'
                             /\ commitInfo'[restoreHeight][s].version >= restoreHeight
    BY <1>1, FlushLoads, Zenon
  <1>3. TypeOK'
    BY <1>1, <1>2, Zenon DEF EndRestore, snap, TypeOK
  <1>4. pruneHeights = {}
    <2>1. \A h \in pruneHeights : h < 0 /\ h \in 1 .. MaxVersion
      BY <1>1, Zenon DEF LoadInv, TypeOK
    <2> QED BY <2>1
  <1> QED BY <1>1, <1>2, <1>3, <1>4, Zenon DEF LoadInv

LEMMA ExporterLoadInv == ASSUME LoadInv, Exporter PROVE LoadInv'
  <1>1. UNCHANGED <<disk, mem, cut, crashes>>
    BY Zenon DEF Exporter, Snapshot, ExportStore, CloseExporter, EndSnapshot
  <1>2. /\ snapPending' \in SUBSET Versions /\ snapHeight' \in Versions \cup {0}
        /\ snapTodo' \in SUBSET Stores /\ snapOpen' \in SUBSET Stores
        /\ snapOut' \in [Stores -> Roots \cup {Absent}]
    <2>1. ASSUME NEW s \in Stores, ExportStore(s)
          PROVE  snapOut' \in [Stores -> Roots \cup {Absent}]
      <3>1. saved[s][snapHeight] \in Roots \/ ~VersionExists(s, snapHeight)
        <4>1. saved \in [Stores -> [Versions -> Roots \cup {Absent}]]
          BY Zenon DEF LoadInv, TypeOK
        <4> QED BY <4>1 DEF VersionExists
      <3> QED BY <2>1, <3>1, Zenon DEF ExportStore, LoadInv, TypeOK, Roots
    <2> QED
      BY <2>1, Zenon
      DEF Exporter, Snapshot, ExportStore, CloseExporter, EndSnapshot, LoadInv, TypeOK
  <1>3. TypeOK'
    BY <1>1, <1>2, Zenon DEF disk, mem, LoadInv, TypeOK
  <1> QED BY <1>1, <1>3, Zenon DEF disk, mem, LoadInv, Named

LEMMA CrashLoadInv == ASSUME LoadInv, Crash PROVE LoadInv'
  <1>1. TypeOK'
    <2>1. tree' \in [Stores -> CommitID]
      BY Zenon DEF Crash, CommitID, ZeroID, Roots
    <2>2. crashes' \in 0 .. MaxCrashes
      BY BoundsAssumption DEF Crash, LoadInv, TypeOK
    <2> QED BY <2>1, <2>2, Zenon DEF Crash, disk, LoadInv, TypeOK
  <1> QED BY <1>1, Zenon DEF Crash, disk, LoadInv, Named

\* Every step preserves LoadInv.
LEMMA NextLoadInv == ASSUME SafeOptions, LoadInv, [Next]_vars PROVE LoadInv'
  <1>1. CASE UNCHANGED vars
    <2>1. TypeOK'
      BY <1>1, Zenon DEF vars, disk, mem, snap, LoadInv, TypeOK
    <2> QED BY <1>1, <2>1, Zenon DEF vars, disk, mem, LoadInv, Named
  <1> QED
    BY <1>1, LoadLoadInv, BeginCommitLoadInv, CommitStoreLoadInv, EndCommitStoresLoadInv,
       PruneStoreLoadInv, FlushMetadataLoadInv, BeginRestoreLoadInv, ImportStoreLoadInv,
       EndRestoreLoadInv, ExporterLoadInv, CrashLoadInv, Zenon
    DEF Next, Process, AtBound

\* Every version that the commit info flushed last names is on disk, whatever
\* crashes have come before.
THEOREM LoadInvariance == ASSUME SafeOptions PROVE Spec => []LoadInv
  <1>1. Init => LoadInv
    <2> SUFFICES ASSUME Init PROVE LoadInv
      BY Zenon
    <2>1. TypeOK
      BY InitIInv, Zenon DEF IInv
    <2> QED BY <2>1, Zenon DEF Init, LoadInv
  <1>2. LoadInv /\ [Next]_vars => LoadInv'
    BY NextLoadInv, Zenon
  <1> QED BY <1>1, <1>2, PTL DEF Spec

\* Type correctness.
THEOREM TypeCorrect == ASSUME SafeOptions PROVE Spec => []TypeOK
  <1>1. LoadInv => TypeOK
    BY Zenon DEF LoadInv
  <1> QED BY <1>1, LoadInvariance, PTL

\* A crash at any point, inside Commit, pruneStores or Restore, leaves on disk a
\* latest version that every sub-store can load as its commit info names it:
\* sub-stores are saved before the latest version is flushed, and only versions
\* below the one flushed are pruned. What is loaded is exactly the blocks up to
\* it, unless the first Commit or a Restore was cut short.
THEOREM LatestAlwaysLoadable == ASSUME SafeOptions PROVE Spec => []LatestLoadable
  <1>1. LoadInv /\ (cut \/ IInv) => LatestLoadable
    <2> SUFFICES ASSUME LoadInv, cut \/ IInv, latestVersion # 0, NEW s \in Stores
                 PROVE  LET id == commitInfo[latestVersion][s]
                        IN  /\ VersionExists(s, id.version)
                            /\ saved[s][id.version] = id.root
                            /\ cut \/ id = Pair(latestVersion)
      BY Zenon DEF LatestLoadable, Pair
    <2> DEFINE id == commitInfo[latestVersion][s]
    <2>1. id \in CommitID /\ id.version \in Versions /\ saved[s][id.version] = id.root
      BY Zenon DEF LoadInv, Named
    <2>2. cut \/ id = Pair(latestVersion)
      BY Zenon DEF IInv, DiskInv
    <2> HIDE DEF id
    <2>3. id.root \in Roots
      BY <2>1 DEF CommitID
    <2>4. VersionExists(s, id.version)
      BY <2>1, <2>3, RootThere, Zenon DEF VersionExists
    <2> QED BY <2>1, <2>2, <2>4, Zenon DEF id
  <1> QED BY <1>1, Invariance, LoadInvariance, PTL
=============================================================================
