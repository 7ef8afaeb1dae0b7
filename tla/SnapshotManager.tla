-------------------------- MODULE SnapshotManager --------------------------
(***************************************************************************)
(* Taking, keeping and restoring state-sync snapshots: snapshots.Manager   *)
(* over snapshots.Store, the goroutines BaseApp.Commit starts to take a    *)
(* snapshot (BaseApp.snapshot), the goroutine that exports the state       *)
(* (rootmulti.Store.Snapshot behind a ChunkWriter) and the one that        *)
(* restores it (rootmulti.Store.Restore behind a ChunkReader).             *)
(*                                                                         *)
(* A height is one of those BaseApp takes a snapshot of, numbered from 1.  *)
(* A chunk is its index; its file is missing, partly written or full.      *)
(***************************************************************************)
EXTENDS Integers, Sequences, FiniteSets, FiniteSetsExt

CONSTANTS
    Chunks,         \* the number of chunks of a complete export
    KeepRecent,     \* BaseApp's snapshotKeepRecent, 0 when nothing is pruned
    BufferSize,     \* chunkBufferSize
    MaxHeight,      \* bound: the last height a snapshot is taken of
    MaxCrashes,     \* bound: crashes in one behaviour
    MaxFailures     \* bound: failing exports and failing file writes

ASSUME ManagerAssumption ==
    /\ Chunks \in Nat \ {0}
    /\ BufferSize \in Nat \ {0}
    /\ {KeepRecent, MaxHeight, MaxCrashes, MaxFailures} \subseteq Nat

VARIABLES
    \* on disk: snapshots.Store
    meta,       \* meta[h]: chunks recorded for the snapshot at h, or Absent
    files,      \* files[h][i]: the file of chunk i
    dirs,       \* the heights that have a directory
    \* snapshots.Manager
    operation,          \* m.operation
    chRestore,          \* the chunks buffered in the channel to the restore
    chOpen,             \* is that channel open
    restoreChunkIndex,  \* the next chunk expected
    \* the goroutines of BaseApp.snapshot
    height,     \* the last height whose goroutine was started
    pc,         \* pc[h]: where the goroutine of h stands
    index,      \* the chunk Store.Save is at
    toDelete,   \* the snapshots Store.Prune has still to delete
    toRemove,   \* the height directories Store.Prune has still to remove
    exporter,   \* the goroutine that writes the chunks
    \* the restore
    badChunk,   \* the first chunk that is not valid state, Chunks if none is
    endChunk,   \* the chunk in which the stream ends, Chunks if it is cut short
    restorer,   \* the goroutine of rootmulti.Store.Restore
    applied,    \* the chunks it has read
    restoreErr, \* did it meet an error
    caller,     \* the ApplySnapshotChunk call, which holds m.mtx
    verdict,    \* what the last call told the consensus engine
    \* bookkeeping
    crashes, failures

store   == <<meta, files, dirs>>
taking  == <<pc, index, toDelete, toRemove, exporter>>
channel == <<chRestore, chOpen, restoreChunkIndex>>
restore == <<badChunk, endChunk, restorer, applied, restoreErr, caller, verdict>>
vars    == <<store, operation, channel, height, taking, restore, crashes, failures>>

Absent   == -1
Heights  == 1 .. MaxHeight
Indices  == 0 .. Chunks - 1
Listed   == {h \in Heights : meta[h] # Absent}

\* Manager.Restore refuses a snapshot without chunks.
Fetchable == {h \in Listed : meta[h] > 0}

NoFiles == [i \in Indices |-> "none"]

Init ==
    /\ meta = [h \in Heights |-> Absent]
    /\ files = [h \in Heights |-> NoFiles]
    /\ dirs = {}
    /\ operation = "none"
    /\ chRestore = <<>> /\ chOpen = FALSE /\ restoreChunkIndex = 0
    /\ height = 0
    /\ pc = [h \in Heights |-> "none"]
    /\ index = 0 /\ toDelete = {} /\ toRemove = {} /\ exporter = "none"
    /\ badChunk = Chunks /\ endChunk = Chunks /\ restorer = "none" /\ applied = 0
    /\ restoreErr = FALSE /\ caller = "none" /\ verdict = "none"
    /\ crashes = 0 /\ failures = 0

Goto(h, l) == pc' = [pc EXCEPT ![h] = l]

\* Mutant of beginLocked: an operation in progress is not noticed.
beginLockedAlways(op) == operation' = op

\* m.begin and m.end take m.mtx, which a call of RestoreChunk holds.
Unlocked == caller = "none"

beginLocked(op) == operation = "none" /\ operation' = op

end == operation' = "none"

-----------------------------------------------------------------------------
(* BaseApp.snapshot(h): Manager.Create, then Manager.Prune.                *)

\* Commit starts a goroutine and goes on.
Commit ==
    /\ height < MaxHeight
    /\ height' = height + 1
    /\ Goto(height + 1, "create")
    /\ UNCHANGED <<store, operation, channel, index, toDelete, toRemove, exporter,
                   restore, crashes, failures>>

\* Create gives up when another operation is in progress.
BeginCreate(h) ==
    /\ pc[h] = "create" /\ Unlocked
    /\ \/ beginLocked("snapshot") /\ Goto(h, "latest")
       \/ operation # "none" /\ Goto(h, "none") /\ UNCHANGED operation
    /\ UNCHANGED <<store, channel, height, index, toDelete, toRemove, exporter, restore,
                   crashes, failures>>

\* GetLatest, then target.Snapshot, which starts the exporting goroutine, and
\* the beginning of Save. The goroutine of an older height may come last.
CheckLatest(h) ==
    /\ pc[h] = "latest" /\ Unlocked
    /\ IF \E l \in Listed : l >= h
         THEN end /\ Goto(h, "none") /\ UNCHANGED <<exporter, index>>
         ELSE exporter' = "open" /\ index' = 0 /\ Goto(h, "save") /\ UNCHANGED operation
    /\ UNCHANGED <<store, channel, height, toDelete, toRemove, restore, crashes, failures>>

\* Save receives a chunk and creates its directory and its file.
CreateChunk(h) ==
    /\ pc[h] = "save" /\ exporter = "open"
    /\ dirs' = dirs \cup {h}
    /\ files' = [files EXCEPT ![h][index] = "partial"]
    /\ Goto(h, "copy")
    /\ UNCHANGED <<meta, operation, channel, height, index, toDelete, toRemove, exporter,
                   restore, crashes, failures>>

\* ChunkWriter.Close: after the last chunk the exporter closes the channel and
\* the pipe of the chunk, and is done.
Close(h) ==
    /\ pc[h] = "copy" /\ exporter = "open" /\ index = Chunks - 1
    /\ exporter' = "closed"
    /\ UNCHANGED <<store, operation, channel, height, pc, index, toDelete, toRemove,
                   restore, crashes, failures>>

\* ChunkWriter.CloseWithError: the exporter fails. The reader of the chunk
\* that is open gets the error; before the first chunk there is no reader,
\* and the channel is closed as after a complete export.
CloseWithError(h) ==
    /\ exporter = "open" /\ failures < MaxFailures
    /\ \/ pc[h] = "save" /\ index = 0 /\ exporter' = "closed"
       \/ pc[h] = "copy" /\ exporter' = "failed"
    /\ failures' = failures + 1
    /\ UNCHANGED <<store, operation, channel, height, pc, index, toDelete, toRemove,
                   restore, crashes>>

\* io.Copy reaches the end of a chunk: its pipe is closed by the next chunk or
\* by Close.
CopyChunk(h) ==
    /\ pc[h] = "copy"
    /\ exporter = IF index = Chunks - 1 THEN "closed" ELSE "open"
    /\ files' = [files EXCEPT ![h][index] = "full"]
    /\ index' = index + 1
    /\ Goto(h, "save")
    /\ UNCHANGED <<meta, dirs, operation, channel, height, toDelete, toRemove, exporter,
                   restore, crashes, failures>>

\* Save returns an error: the exporter's, out of the pipe, or one of its own
\* file operations. The chunk files written so far stay.
SaveFails(h) ==
    /\ pc[h] = "copy"
    /\ \/ exporter = "failed" /\ UNCHANGED failures
       \/ exporter # "failed" /\ failures < MaxFailures /\ failures' = failures + 1
    /\ Goto(h, "drain")
    /\ UNCHANGED <<store, operation, channel, height, index, toDelete, toRemove, exporter,
                   restore, crashes>>

\* Mutant of DrainChunks: the chunks left in the channel are not drained, and
\* the exporter waits for a reader.
DrainChunksNot(h) ==
    /\ pc[h] = "drain"
    /\ end /\ Goto(h, "none")
    /\ UNCHANGED <<store, channel, height, index, toDelete, toRemove, exporter, restore,
                   crashes, failures>>

\* The deferred DrainChunks closes every reader it gets until the exporter,
\* whose writes now fail, closes the channel; then Create ends.
DrainChunks(h) ==
    /\ pc[h] = "drain"
    /\ exporter' = "none"
    /\ end /\ Goto(h, "none")
    /\ UNCHANGED <<store, channel, height, index, toDelete, toRemove, restore, crashes,
                   failures>>

\* The channel is closed: Save records the chunks it got, Create ends, and
\* BaseApp.snapshot goes on to prune.
saveSnapshot(h) ==
    /\ pc[h] = "save" /\ exporter = "closed" /\ Unlocked
    /\ meta' = [meta EXCEPT ![h] = index]
    /\ exporter' = "none"
    /\ end /\ Goto(h, IF KeepRecent > 0 THEN "prune" ELSE "none")
    /\ UNCHANGED <<files, dirs, channel, height, index, toDelete, toRemove, restore, crashes,
                   failures>>

\* Mutant of Retained: the oldest instead of the newest.
RetainedOldest == {h \in Listed : Cardinality({l \in Listed : l < h}) < KeepRecent}

\* The KeepRecent most recent heights.
Retained == {h \in Listed : Cardinality({l \in Listed : l > h}) < KeepRecent}

\* Prune is skipped when another operation is in progress.
BeginPrune(h) ==
    /\ pc[h] = "prune" /\ Unlocked
    /\ \/ /\ beginLocked("prune") /\ Goto(h, "delete")
          /\ toDelete' = Listed \ Retained
          /\ toRemove' = Listed \ Retained
       \/ /\ operation # "none" /\ Goto(h, "none")
          /\ UNCHANGED <<operation, toDelete, toRemove>>
    /\ UNCHANGED <<store, channel, height, index, exporter, restore, crashes, failures>>

\* Delete of the newest snapshot left: first its metadata ...
DeleteMeta(h) ==
    /\ pc[h] = "delete" /\ toDelete # {}
    /\ meta' = [meta EXCEPT ![Max(toDelete)] = Absent]
    /\ Goto(h, "removeall")
    /\ UNCHANGED <<files, dirs, operation, channel, height, index, toDelete, toRemove,
                   exporter, restore, crashes, failures>>

\* ... then its chunk files.
RemoveAll(h) ==
    /\ pc[h] = "removeall"
    /\ files' = [files EXCEPT ![Max(toDelete)] = NoFiles]
    /\ toDelete' = toDelete \ {Max(toDelete)}
    /\ Goto(h, "delete")
    /\ UNCHANGED <<meta, dirs, operation, channel, height, index, toRemove, exporter,
                   restore, crashes, failures>>

\* The directories of the heights deleted, in any order: os.Remove fails on a
\* directory that does not exist, and Prune returns. Otherwise it ends when
\* all are gone.
RemoveDir(h) ==
    /\ pc[h] = "delete" /\ toDelete = {} /\ Unlocked
    /\ \/ toRemove = {} /\ end /\ Goto(h, "none") /\ UNCHANGED <<dirs, toRemove>>
       \/ \E d \in toRemove :
            IF d \in dirs
              THEN /\ dirs' = dirs \ {d} /\ toRemove' = toRemove \ {d}
                   /\ UNCHANGED <<operation, pc>>
              ELSE toRemove' = {} /\ end /\ Goto(h, "none") /\ UNCHANGED dirs
    /\ UNCHANGED <<meta, files, channel, height, index, toDelete, exporter, restore,
                   crashes, failures>>

-----------------------------------------------------------------------------
(* OfferSnapshot and ApplySnapshotChunk: Manager.Restore, RestoreChunk.    *)

\* An offer is refused for its metadata, for an operation in progress or for
\* its format; the last makes rootmulti.Store.Restore return before it is
\* ready. Otherwise the restore runs, and waits for chunks. The chunks match
\* the hashes of the offer, but may not be valid state from bad on, and the
\* stream they make up may end in chunk last, before the final one.
OfferSnapshot(kind, bad, last) ==
    /\ Unlocked
    /\ IF kind = "metadata" \/ operation # "none" \/ kind = "format"
         THEN /\ verdict' = CASE kind = "metadata" -> "reject"
                              [] kind # "metadata" /\ operation # "none" -> "abort"
                              [] OTHER -> "reject_format"
              /\ UNCHANGED <<operation, channel, badChunk, endChunk, restorer, applied, restoreErr>>
         ELSE /\ beginLocked("restore")
              /\ chRestore' = <<>> /\ chOpen' = TRUE /\ restoreChunkIndex' = 0
              /\ badChunk' = bad /\ endChunk' = last /\ restorer' = "read" /\ applied' = 0
              /\ restoreErr' = FALSE /\ verdict' = "accept"
    /\ UNCHANGED <<store, height, taking, caller, crashes, failures>>

\* endLocked: the channel is closed and the operation is over.
endLocked ==
    /\ end
    /\ chOpen' = FALSE /\ restoreChunkIndex' = 0

\* RestoreChunk up to the hash: it holds m.mtx from here until it returns. A
\* restore that has returned is noticed, a chunk that does not match its hash
\* is asked for again.
RestoreChunk(match) ==
    /\ Unlocked
    /\ CASE operation # "restore" \/ restoreChunkIndex >= Chunks ->
              verdict' = "abort" /\ UNCHANGED <<operation, channel, caller>>
         [] operation = "restore" /\ restorer = "returned" ->
              endLocked /\ verdict' = "abort" /\ UNCHANGED <<chRestore, caller>>
         [] operation = "restore" /\ restorer # "returned" /\ ~match ->
              verdict' = "retry" /\ UNCHANGED <<operation, channel, caller>>
         [] OTHER -> caller' = "send" /\ UNCHANGED <<operation, channel, verdict>>
    /\ UNCHANGED <<store, height, taking, badChunk, endChunk, restorer, applied, restoreErr,
                   crashes, failures>>

\* The chunk goes into the channel, when there is room. After the last one
\* the channel is closed and RestoreChunk waits for the restore.
SendChunk ==
    /\ caller = "send" /\ Len(chRestore) < BufferSize
    /\ chRestore' = Append(chRestore, restoreChunkIndex)
    /\ restoreChunkIndex' = restoreChunkIndex + 1
    /\ IF restoreChunkIndex + 1 >= Chunks
         THEN chOpen' = FALSE /\ caller' = "wait" /\ UNCHANGED verdict
         ELSE caller' = "none" /\ verdict' = "accept" /\ UNCHANGED chOpen
    /\ UNCHANGED <<store, operation, height, taking, badChunk, endChunk, restorer, applied, restoreErr,
                   crashes, failures>>

\* Mutant of RestoreDone: the answer does not wait for the restore.
RestoreDoneEarly ==
    /\ caller = "wait"
    /\ endLocked
    /\ caller' = "none"
    /\ verdict' = IF restoreErr THEN "abort" ELSE "complete"
    /\ UNCHANGED <<store, chRestore, height, taking, badChunk, endChunk, restorer, applied, restoreErr,
                   crashes, failures>>

\* The restore has returned: the operation ends, and the caller has its result.
RestoreDone ==
    /\ caller = "wait" /\ restorer = "returned"
    /\ endLocked
    /\ caller' = "none"
    /\ verdict' = IF restoreErr THEN "abort" ELSE "complete"
    /\ badChunk' = Chunks /\ endChunk' = Chunks /\ restorer' = "none" /\ applied' = 0
    /\ restoreErr' = FALSE
    /\ UNCHANGED <<store, chRestore, height, taking, crashes, failures>>

\* Mutant of ReadChunk: the restore does not drain the channel after an error.
ReadChunkReturns ==
    /\ restorer = "read" /\ chRestore # <<>>
    /\ chRestore' = Tail(chRestore) /\ applied' = applied + 1
    /\ restoreErr' = (Head(chRestore) = badChunk)
    /\ restorer' = IF Head(chRestore) = badChunk THEN "gone"
                   ELSE IF Head(chRestore) = endChunk THEN "drain" ELSE "read"
    /\ UNCHANGED <<store, operation, chOpen, restoreChunkIndex, height, taking, badChunk, endChunk,
                   caller, verdict, crashes, failures>>

\* The restore reads a chunk through the ChunkReader and imports it. An error or
\* the end of the stream leads to the deferred ChunkReader.Close; the chunks
\* after that are not looked at. When the channel is closed before the stream
\* ends, the end comes unexpectedly and is an error.
ReadChunk ==
    /\ restorer = "read"
    /\ \/ /\ chRestore # <<>>
          /\ chRestore' = Tail(chRestore) /\ applied' = applied + 1
          /\ restoreErr' = (Head(chRestore) = badChunk)
          /\ restorer' = IF Head(chRestore) \in {badChunk, endChunk} THEN "drain" ELSE "read"
       \/ /\ chRestore = <<>> /\ ~chOpen
          /\ restoreErr' = TRUE /\ restorer' = "drain"
          /\ UNCHANGED <<chRestore, applied>>
    /\ UNCHANGED <<store, operation, chOpen, restoreChunkIndex, height, taking, badChunk, endChunk,
                   caller, verdict, crashes, failures>>

\* ChunkReader.Close reads what comes until the channel is closed; only then
\* does Restore return and its result reach the Manager.
CloseReader ==
    /\ restorer = "drain"
    /\ \/ chRestore # <<>> /\ chRestore' = Tail(chRestore) /\ UNCHANGED restorer
       \/ chRestore = <<>> /\ ~chOpen /\ restorer' = "returned" /\ UNCHANGED chRestore
    /\ UNCHANGED <<store, operation, chOpen, restoreChunkIndex, height, taking, badChunk, endChunk,
                   applied, restoreErr, caller, verdict, crashes, failures>>

-----------------------------------------------------------------------------
\* The process dies: the disk stays, every goroutine and the Manager are gone.
Crash ==
    /\ crashes < MaxCrashes
    /\ crashes' = crashes + 1
    /\ operation' = "none"
    /\ chRestore' = <<>> /\ chOpen' = FALSE /\ restoreChunkIndex' = 0
    /\ pc' = [h \in Heights |-> "none"]
    /\ index' = 0 /\ toDelete' = {} /\ toRemove' = {} /\ exporter' = "none"
    /\ badChunk' = Chunks /\ endChunk' = Chunks /\ restorer' = "none" /\ applied' = 0
    /\ restoreErr' = FALSE /\ caller' = "none" /\ verdict' = "none"
    /\ UNCHANGED <<store, height, failures>>

Taking(h) ==
    \/ BeginCreate(h) \/ CheckLatest(h) \/ CreateChunk(h) \/ Close(h) \/ CopyChunk(h)
    \/ SaveFails(h) \/ DrainChunks(h) \/ saveSnapshot(h)
    \/ BeginPrune(h) \/ DeleteMeta(h) \/ RemoveAll(h) \/ RemoveDir(h)

Restoring == SendChunk \/ RestoreDone \/ ReadChunk \/ CloseReader

Next ==
    \/ Commit
    \/ \E h \in Heights : Taking(h) \/ CloseWithError(h)
    \/ \E kind \in {"metadata", "format", "good"}, bad \in 0 .. Chunks, last \in 0 .. Chunks :
         OfferSnapshot(kind, bad, last)
    \/ \E match \in BOOLEAN : RestoreChunk(match)
    \/ Restoring
    \/ Crash

Spec == Init /\ [][Next]_vars

\* Goroutines that can run do run; whether blocks, offers, chunks, failures or
\* crashes come is up to the environment.
FairSpec ==
    /\ Spec
    /\ \A h \in Heights : WF_vars(Taking(h))
    /\ WF_vars(SendChunk \/ RestoreDone)
    /\ WF_vars(ReadChunk \/ CloseReader)

-----------------------------------------------------------------------------
(* Properties                                                              *)

\* A snapshot that ListSnapshots reports has every chunk it promises, whole,
\* on disk: Save writes the chunks before the metadata, Delete removes the
\* metadata before the chunks, and a crash may fall between any two of these.
ListedComplete ==
    \A h \in Listed : \A i \in Indices : i < meta[h] => files[h][i] = "full"

\* The newest snapshot is not lost: as long as the newest one on record is one
\* a peer can fetch, every step, of Prune, of a failing export, of a crash or of
\* a goroutine that runs late, leaves one that is at least as new. (An export
\* that fails before its first chunk is recorded with no chunks, and counts for
\* Prune like any other: with KeepRecent = 1 it costs the only one that can be
\* fetched.)
NewestKept ==
    [][Listed # {} /\ Max(Listed) \in Fetchable
         => Fetchable' # {} /\ Max(Fetchable') >= Max(Listed)]_vars

\* Only a restore that has read the stream to its end, and found every chunk of
\* it valid, is reported complete, and only when the channel is empty. The
\* chunks of the offer that lie past the end of the stream are not read at all.
CompleteMeansRestored ==
    [][verdict' = "complete" /\ verdict # "complete"
         => endChunk < badChunk /\ applied = endChunk + 1 /\ chRestore = <<>>]_vars

\* An export always ends, and with it the exporters of the IAVL stores that
\* hold back pruning, also when Save fails half-way.
ExporterEnds == exporter = "open" ~> exporter # "open"

\* A call of ApplySnapshotChunk returns: the restore keeps taking chunks out
\* of the bounded channel even after an error, so the call never keeps the
\* Manager's mutex for good.
ApplyReturns == caller # "none" ~> caller = "none"

\* A snapshot that is recorded is a complete export: an exporter that fails
\* sends its error to the reader, and Save records nothing.
RecordedIsComplete == \A h \in Listed : meta[h] = Chunks
=============================================================================
