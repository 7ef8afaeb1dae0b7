----------------------------- MODULE MultiStore -----------------------------
(***************************************************************************)
(* The commit multi-store (store/rootmulti) over its IAVL sub-stores: how  *)
(* a block is committed, how old versions are pruned, how a process        *)
(* reloads the store after a crash, how a snapshot is exported while new   *)
(* blocks are committed, and how a snapshot is restored.                   *)
(*                                                                         *)
(* Every durable write is a step of its own, so that a crash can fall      *)
(* between any two of them: commitStores saves the sub-stores one at a     *)
(* time, pruneStores deletes versions one sub-store at a time, and         *)
(* flushMetadata writes the commit info, the latest version and the        *)
(* heights still to prune in one batch.                                    *)
(*                                                                         *)
(* The content of a sub-store is named by the last block applied to it: h  *)
(* is what the blocks up to h produce, each applied once and in order      *)
(* (consensus replays the same blocks after a crash), and Bad is anything  *)
(* else.                                                                   *)
(***************************************************************************)
EXTENDS Integers, FiniteSets

CONSTANTS
    Stores,             \* the IAVL sub-stores (rs.stores)
    KeepRecent,         \* pruningOpts.KeepRecent
    KeepEvery,          \* pruningOpts.KeepEvery
    Interval,           \* pruningOpts.Interval
    InitialVersion,     \* the initial height InitChain gives to SetInitialVersion
    SnapshotInterval,   \* BaseApp's snapshotInterval, 0 when snapshots are off
    StateSync,          \* may the empty store be restored from a snapshot
    MaxVersion,         \* bound: the last version committed
    MaxCrashes          \* bound: crashes in one behaviour

ASSUME StoresAssumption == Stores # {}

ASSUME OptionsAssumption ==
    /\ KeepRecent \in Nat
    /\ KeepEvery \in Nat
    /\ Interval \in Nat
    /\ InitialVersion \in Nat
    /\ SnapshotInterval \in Nat
    /\ StateSync \in BOOLEAN

ASSUME BoundsAssumption == MaxVersion \in Nat /\ MaxCrashes \in Nat

VARIABLES
    \* on disk
    saved,          \* saved[s][v]: the root of IAVL version v of s, or Absent
    latestVersion,  \* under latestVersionKey
    commitInfo,     \* commitInfo[v][s]: the CommitID of s in the commit info of v
    diskHeights,    \* under pruneHeightsKey
    \* in the memory of the process
    pc,             \* where the process stands
    todo,           \* the sub-stores the current loop has still to visit
    tree,           \* tree[s]: version and working root of the IAVL tree of s
    lastVersion,    \* rs.lastCommitInfo.Version
    pruneHeights,   \* rs.pruneHeights
    restoreHeight,  \* the height being restored, 0 when none is
    \* the snapshot goroutine
    snapPending,    \* the heights whose goroutine has not begun
    snapHeight,     \* the height being exported, 0 when none is
    snapTodo,       \* the sub-stores not yet exported
    snapOpen,       \* the sub-stores whose exporter is open
    snapOut,        \* snapOut[s]: the root exported for s, or Absent
    \* bookkeeping
    cut,            \* did a process die between the first sub-store's save and the first flush
    crashes

disk == <<saved, latestVersion, commitInfo, diskHeights>>
mem  == <<pc, todo, tree, lastVersion, pruneHeights, restoreHeight>>
snap == <<snapPending, snapHeight, snapTodo, snapOpen, snapOut>>
vars == <<disk, mem, snap, cut, crashes>>

Absent == -1
Bad    == -2

FirstVersion == IF InitialVersion > 1 THEN InitialVersion ELSE 1
Versions     == FirstVersion .. MaxVersion
Roots        == Versions \cup {0, Bad}
CommitID     == [version : Versions \cup {0}, root : Roots]
ZeroID       == [version |-> 0, root |-> 0]
NoID         == [version |-> Absent, root |-> Absent]

\* The version Commit gives to the block after version v.
NextVersion(v) == IF v = 0 THEN FirstVersion ELSE v + 1

\* The root after block b is applied to root r.
Apply(r, b) == IF r >= 0 /\ NextVersion(r) = b THEN b ELSE Bad

-----------------------------------------------------------------------------
(* The IAVL library, as rootmulti and store/iavl use it.                   *)

VersionExists(s, v) == v \in Versions /\ saved[s][v] # Absent

SavedVersions(s) == {v \in Versions : saved[s][v] # Absent}

LatestSaved(s) ==
    IF SavedVersions(s) = {} THEN 0
    ELSE CHOOSE v \in SavedVersions(s) : \A w \in SavedVersions(s) : w <= v

\* LoadVersion(0) loads the latest version saved, whatever it is.
Target(s, v) == IF v = 0 THEN LatestSaved(s) ELSE v

LoadTree(s, v) ==
    IF Target(s, v) = 0 THEN ZeroID
    ELSE [version |-> Target(s, v), root |-> saved[s][Target(s, v)]]

\* DeleteVersions refuses the latest version and one that an exporter reads.
DeleteFails(s, heights) ==
    \/ \E h \in heights : h >= LatestSaved(s)
    \/ s \in snapOpen /\ snapHeight \in heights

-----------------------------------------------------------------------------
Init ==
    /\ saved = [s \in Stores |-> [v \in Versions |-> Absent]]
    /\ latestVersion = 0
    /\ commitInfo = [v \in Versions |-> [s \in Stores |-> NoID]]
    /\ diskHeights = {}
    /\ pc = "down"
    /\ todo = {}
    /\ tree = [s \in Stores |-> ZeroID]
    /\ lastVersion = 0
    /\ pruneHeights = {}
    /\ restoreHeight = 0
    /\ snapPending = {}
    /\ snapHeight = 0
    /\ snapTodo = {}
    /\ snapOpen = {}
    /\ snapOut = [s \in Stores |-> Absent]
    /\ cut = FALSE
    /\ crashes = 0

\* The CommitID recorded for s at version ver; version 0 has no commit info.
getCommitID(ver, s) == IF ver = 0 THEN ZeroID ELSE commitInfo[ver][s]

CanLoad(ver) ==
    \A s \in Stores :
        LET id == getCommitID(ver, s) IN
        /\ id # NoID
        /\ id.version # 0 => VersionExists(s, id.version)

\* Mutant of Loaded: the list on disk is not read.
LoadedNoHeights(ver) ==
    /\ tree' = [s \in Stores |-> LoadTree(s, getCommitID(ver, s).version)]
    /\ lastVersion' = ver
    /\ pruneHeights' = pruneHeights

\* The memory of a process that has loaded version ver.
Loaded(ver) ==
    /\ tree' = [s \in Stores |-> LoadTree(s, getCommitID(ver, s).version)]
    /\ lastVersion' = ver
    /\ pruneHeights' = IF diskHeights # {} THEN diskHeights ELSE pruneHeights

\* LoadLatestVersion at the start of a process, which ends when it fails.
LoadLatestVersion ==
    /\ pc = "down"
    /\ IF CanLoad(latestVersion)
         THEN Loaded(latestVersion) /\ pc' = "idle"
         ELSE pc' = "failed" /\ UNCHANGED <<tree, lastVersion, pruneHeights>>
    /\ UNCHANGED <<disk, todo, restoreHeight, snap, cut, crashes>>

-----------------------------------------------------------------------------
(* Commit                                                                  *)

\* The next block has been executed and written to the trees; Commit starts.
BeginCommit ==
    LET version == NextVersion(lastVersion) IN
    /\ pc = "idle"
    /\ version <= MaxVersion
    /\ \A s \in Stores : NextVersion(tree[s].version) <= MaxVersion
    /\ tree' = [s \in Stores |-> [version |-> tree[s].version,
                                  root |-> Apply(tree[s].root, version)]]
    /\ todo' = Stores
    /\ pc' = "commit"
    /\ UNCHANGED <<disk, lastVersion, pruneHeights, restoreHeight, snap, cut, crashes>>

\* SaveVersion of one sub-store: a version that exists is accepted when its
\* root is the same, and the process panics when it differs.
CommitStore(s) ==
    LET v == NextVersion(tree[s].version) IN
    /\ pc = "commit"
    /\ s \in todo
    /\ IF VersionExists(s, v) /\ saved[s][v] # tree[s].root
         THEN pc' = "panic" /\ UNCHANGED <<saved, tree, todo>>
         ELSE /\ saved' = [saved EXCEPT ![s][v] = tree[s].root]
              /\ tree' = [tree EXCEPT ![s] = [version |-> v, root |-> tree[s].root]]
              /\ todo' = todo \ {s}
              /\ UNCHANGED pc
    /\ UNCHANGED <<latestVersion, commitInfo, diskHeights, lastVersion,
                   pruneHeights, restoreHeight, snap, cut, crashes>>

\* Mutants of HeightToPrune: one height too many; the multiples of KeepEvery too.
HeightToPruneOffByOne(previousHeight) ==
    LET h == previousHeight - KeepRecent + 1 IN
    IF KeepRecent <= previousHeight /\ (KeepEvery = 0 \/ h % KeepEvery # 0)
      THEN {h} ELSE {}

HeightToPruneAll(previousHeight) ==
    IF KeepRecent < previousHeight THEN {previousHeight - KeepRecent} ELSE {}

\* The height Commit schedules for pruning, if any.
HeightToPrune(previousHeight) ==
    LET h == previousHeight - KeepRecent IN
    IF KeepRecent < previousHeight /\ (KeepEvery = 0 \/ h % KeepEvery # 0)
      THEN {h} ELSE {}

PruneNow(version) == Interval > 0 /\ version % Interval = 0

\* Mutant of EndCommitStores: it does not wait for every sub-store.
EndCommitStoresEarly ==
    LET version == NextVersion(lastVersion) IN
    /\ pc = "commit"
    /\ todo # Stores
    /\ lastVersion' = version
    /\ pruneHeights' = pruneHeights \cup HeightToPrune(lastVersion)
    /\ todo' = IF PruneNow(version) /\ pruneHeights' # {} THEN Stores ELSE {}
    /\ pc' = "prune"
    /\ UNCHANGED <<disk, tree, restoreHeight, snap, cut, crashes>>

\* commitStores has returned: the commit info is set in memory and the list
\* of heights to prune is extended.
EndCommitStores ==
    LET version == NextVersion(lastVersion) IN
    /\ pc = "commit"
    /\ todo = {}
    /\ lastVersion' = version
    /\ pruneHeights' = pruneHeights \cup HeightToPrune(lastVersion)
    /\ todo' = IF PruneNow(version) /\ pruneHeights' # {} THEN Stores ELSE {}
    /\ pc' = "prune"
    /\ UNCHANGED <<disk, tree, restoreHeight, snap, cut, crashes>>

\* pruneStores deletes the scheduled heights from one sub-store.  When one of
\* them does not exist the library may delete the others or delete none
\* (ErrVersionDoesNotExist is tolerated); any other error is a panic.
PruneStore(s) ==
    /\ pc = "prune"
    /\ s \in todo
    /\ IF DeleteFails(s, pruneHeights)
         THEN pc' = "panic" /\ UNCHANGED <<saved, todo>>
         ELSE /\ \/ saved' = [saved EXCEPT ![s] = [v \in Versions |->
                        IF v \in pruneHeights THEN Absent ELSE @[v]]]
                 \/ /\ \E h \in pruneHeights : ~ VersionExists(s, h)
                    /\ UNCHANGED saved
              /\ todo' = todo \ {s}
              /\ UNCHANGED pc
    /\ UNCHANGED <<latestVersion, commitInfo, diskHeights, tree, lastVersion,
                   pruneHeights, restoreHeight, snap, cut, crashes>>

\* The batch of flushMetadata.
Flush(version, heights) ==
    /\ commitInfo' = [commitInfo EXCEPT ![version] = tree]
    /\ latestVersion' = version
    /\ diskHeights' = heights
    /\ UNCHANGED saved

\* BaseApp.Commit starts a snapshot goroutine at every snapshot interval.
SnapshotDue(height) ==
    IF SnapshotInterval > 0 /\ height % SnapshotInterval = 0
      THEN {height} ELSE {}

\* The list is empty after pruneStores, and Commit ends with flushMetadata;
\* BaseApp then starts the snapshot goroutine when one is due.
FlushMetadata ==
    /\ pc = "prune"
    /\ todo = {}
    /\ pruneHeights' = IF PruneNow(lastVersion) THEN {} ELSE pruneHeights
    /\ Flush(lastVersion, pruneHeights')
    /\ pc' = "idle"
    /\ snapPending' = snapPending \cup SnapshotDue(lastVersion)
    /\ UNCHANGED <<todo, tree, lastVersion, restoreHeight, snapHeight, snapTodo,
                   snapOpen, snapOut, cut, crashes>>

-----------------------------------------------------------------------------
(* Restore: a state-synced node fills its empty sub-stores one at a time.  *)

BeginRestore(h) ==
    /\ StateSync
    /\ pc = "idle"
    /\ lastVersion = 0
    /\ todo' = Stores
    /\ pc' = "restore"
    /\ restoreHeight' = h
    /\ UNCHANGED <<disk, tree, lastVersion, pruneHeights, snap, cut, crashes>>

\* The importer of one sub-store commits; it refuses a tree that has versions,
\* and Restore then returns the error.
ImportStore(s) ==
    /\ pc = "restore"
    /\ s \in todo
    /\ IF tree[s].version # 0
         THEN pc' = "aborted" /\ UNCHANGED <<saved, tree, todo>>
         ELSE /\ saved' = [saved EXCEPT ![s][restoreHeight] = restoreHeight]
              /\ tree' = [tree EXCEPT ![s] = [version |-> restoreHeight,
                                              root |-> restoreHeight]]
              /\ todo' = todo \ {s}
              /\ UNCHANGED pc
    /\ UNCHANGED <<latestVersion, commitInfo, diskHeights, lastVersion,
                   pruneHeights, restoreHeight, snap, cut, crashes>>

\* flushMetadata with the commit info of the trees, then LoadLatestVersion.
EndRestore ==
    /\ pc = "restore"
    /\ todo = {}
    /\ Flush(restoreHeight, {})
    /\ lastVersion' = restoreHeight
    /\ restoreHeight' = 0
    /\ pc' = "idle"
    /\ UNCHANGED <<todo, tree, pruneHeights, snap, cut, crashes>>

-----------------------------------------------------------------------------
(* Snapshot: the goroutine BaseApp.Commit starts exports the sub-stores    *)
(* one after the other while the next blocks are committed and pruned.     *)

\* The goroutine begins; the manager drops it while another one is at work.
Snapshot(h) ==
    /\ h \in snapPending
    /\ snapPending' = snapPending \ {h}
    /\ IF snapHeight = 0
         THEN /\ snapHeight' = h
              /\ snapTodo' = Stores
              /\ snapOut' = [s \in Stores |-> Absent]
         ELSE UNCHANGED <<snapHeight, snapTodo, snapOut>>
    /\ UNCHANGED <<disk, mem, snapOpen, cut, crashes>>

\* Export of one sub-store: GetImmutable gives an empty tree for a version
\* that does not exist, and only a tree that exists counts as being read.
ExportStore(s) ==
    /\ s \in snapTodo
    /\ snapOpen = {}
    /\ snapTodo' = snapTodo \ {s}
    /\ IF VersionExists(s, snapHeight)
         THEN /\ snapOut' = [snapOut EXCEPT ![s] = saved[s][snapHeight]]
              /\ snapOpen' = {s}
         ELSE /\ snapOut' = [snapOut EXCEPT ![s] = 0]
              /\ UNCHANGED snapOpen
    /\ UNCHANGED <<disk, mem, snapPending, snapHeight, cut, crashes>>

CloseExporter ==
    /\ snapOpen # {}
    /\ snapOpen' = {}
    /\ UNCHANGED <<disk, mem, snapPending, snapHeight, snapTodo, snapOut, cut, crashes>>

\* Every sub-store is exported and the manager may start another snapshot.
EndSnapshot ==
    /\ snapHeight # 0
    /\ snapTodo = {}
    /\ snapOpen = {}
    /\ snapHeight' = 0
    /\ UNCHANGED <<disk, mem, snapPending, snapTodo, snapOpen, snapOut, cut, crashes>>

-----------------------------------------------------------------------------
\* The process ends, by a panic, an error or a crash: its memory and its
\* goroutine go. Before the first flush nothing tells the next process that
\* sub-stores were saved, and LoadVersion(0) loads what they have.
Crash ==
    /\ pc # "down"
    /\ IF pc \in {"panic", "failed", "aborted"} THEN UNCHANGED crashes
       ELSE crashes < MaxCrashes /\ crashes' = crashes + 1
    /\ cut' = (cut \/ (latestVersion = 0 /\ \E s \in Stores : SavedVersions(s) # {}))
    /\ pc' = "down"
    /\ todo' = {}
    /\ tree' = [s \in Stores |-> ZeroID]
    /\ lastVersion' = 0
    /\ pruneHeights' = {}
    /\ restoreHeight' = 0
    /\ snapPending' = {}
    /\ snapHeight' = 0
    /\ snapTodo' = {}
    /\ snapOpen' = {}
    /\ snapOut' = [s \in Stores |-> Absent]
    /\ UNCHANGED disk

\* The bound on versions is reached: a behaviour of the model ends here.
AtBound ==
    /\ pc = "idle"
    /\ lastVersion = MaxVersion \/ \E s \in Stores : tree[s].version = MaxVersion
    /\ UNCHANGED vars

Process ==
    \/ LoadLatestVersion
    \/ BeginCommit
    \/ \E s \in Stores : CommitStore(s)
    \/ EndCommitStores
    \/ \E s \in Stores : PruneStore(s)
    \/ FlushMetadata
    \/ \E s \in Stores : ImportStore(s)
    \/ EndRestore

Exporter ==
    \/ \E h \in Versions : Snapshot(h)
    \/ \E s \in Stores : ExportStore(s)
    \/ CloseExporter
    \/ EndSnapshot

Next ==
    \/ Process
    \/ \E h \in Versions : BeginRestore(h)
    \/ Exporter
    \/ Crash
    \/ AtBound

Spec == Init /\ [][Next]_vars

\* The process and the exporting goroutine keep running while they can: the
\* scheduler of the Go runtime gives every runnable goroutine its turn.
FairSpec == Spec /\ WF_vars(Process) /\ WF_vars(Exporter)

-----------------------------------------------------------------------------
(* Properties                                                              *)

\* Every variable has its type; the stores the loop of pc has to visit and
\* the exporter that is open are sets of sub-stores.
TypeOK ==
    /\ saved \in [Stores -> [Versions -> Roots \cup {Absent}]]
    /\ latestVersion \in Versions \cup {0}
    /\ commitInfo \in [Versions -> [Stores -> CommitID \cup {NoID}]]
    /\ diskHeights \in SUBSET (1 .. MaxVersion)
    /\ pc \in {"down", "idle", "commit", "prune", "restore", "panic", "failed",
               "aborted"}
    /\ todo \in SUBSET Stores
    /\ tree \in [Stores -> CommitID]
    /\ lastVersion \in Versions \cup {0}
    /\ pruneHeights \in SUBSET (1 .. MaxVersion)
    /\ restoreHeight \in Versions \cup {0}
    /\ snapPending \in SUBSET Versions
    /\ snapHeight \in Versions \cup {0}
    /\ snapTodo \in SUBSET Stores
    /\ snapOpen \in SUBSET Stores
    /\ snapOut \in [Stores -> Roots \cup {Absent}]
    /\ cut \in BOOLEAN
    /\ crashes \in 0 .. MaxCrashes

\* Whenever the process dies, between any two durable writes of Commit, of
\* pruneStores or of Restore, LoadLatestVersion finds in every sub-store the
\* version and root that the commit info names. They are those of the blocks up to
\* the latest version, unless a first Commit or a Restore was cut short.
LatestLoadable ==
    latestVersion # 0 =>
        \A s \in Stores :
            LET id == commitInfo[latestVersion][s]
            IN  /\ VersionExists(s, id.version)
                /\ saved[s][id.version] = id.root
                /\ cut \/ id = [version |-> latestVersion, root |-> latestVersion]

\* The properties from here on are about nodes whose first Commit or Restore was
\* not cut short by a crash. One that was has sub-stores of different heights, and
\* the next Restore is refused.

\* Replaying a block whose versions a crashed commit had already saved gives
\* the same roots, no pruned height is one that a snapshot still reads, and
\* so neither SaveVersion nor DeleteVersions panics, and no load fails.
NoPanic == cut \/ pc \notin {"panic", "failed", "aborted"}

\* The KeepRecent latest versions and the multiples of KeepEvery
\* stay on disk in every sub-store once they are committed, and what is on
\* disk under a version is what the blocks up to it produce.
Retained ==
    ~cut => \A s \in Stores, v \in Versions :
        /\ commitInfo[v][s] # NoID
        /\ \/ v > latestVersion - KeepRecent
           \/ KeepEvery # 0 /\ v % KeepEvery = 0
        => saved[s][v] = v

\* A version that may be pruned does not leak: once the process is idle, it
\* is either gone from every sub-store or scheduled in pruneHeights, whatever
\* crashes interrupted the pruning or the flush of the list.  (It needs a
\* store that committed height 1: otherwise the heights before its first
\* version are scheduled too, and a library that gives up a batch with a
\* missing version keeps the other versions of that batch for ever.)
NoLeakedVersion ==
    pc = "idle" /\ 1 \in Versions /\ ~cut =>
        \A s \in Stores, v \in Versions :
            /\ commitInfo[1][s] # NoID
            /\ saved[s][v] # Absent
            /\ v < latestVersion - KeepRecent
            /\ KeepEvery = 0 \/ v % KeepEvery # 0
            => v \in pruneHeights

\* A snapshot holds, for every sub-store exported so far, the content of its
\* height, though the next blocks are committed and pruned meanwhile.
SnapshotComplete ==
    ~cut => \A s \in Stores : snapOut[s] # Absent /\ snapHeight # 0 =>
        snapOut[s] = snapHeight

\* The commit info of a version (hence the app hash the node reported for it)
\* never changes once it is flushed, whatever is replayed.
AppHashStable ==
    [][\A v \in Versions :
        commitInfo[v] # [s \in Stores |-> NoID] /\ ~cut =>
            commitInfo'[v] = commitInfo[v]]_vars

\* The sub-stores move together: seen through the latest version on disk, the
\* multi-store is one store that commits and restores atomically.
Atomic == INSTANCE AtomicStore WITH
    version <- latestVersion,
    content <- [s \in Stores |->
        IF latestVersion = 0 THEN 0
        ELSE saved[s][commitInfo[latestVersion][s].version]]

AtomicCommit == Atomic!Init /\ [][cut \/ Atomic!Next]_(Atomic!vars)

\* When the crashes stop, the node commits every block up to the bound: no other
\* crash leaves it unable to start or to replay.
CatchesUp == <>(cut \/ latestVersion = MaxVersion)
=============================================================================
