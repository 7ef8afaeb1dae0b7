--------------------------- MODULE BlockRetention ---------------------------
(***************************************************************************)
(* Which blocks Tendermint may discard: after every commit BaseApp answers *)
(* with GetBlockRetentionHeight, and Tendermint removes the blocks below.  *)
(* An option of 0 means that the constraint it stands for is not asked for.*)
(***************************************************************************)
EXTENDS Integers

CONSTANTS
    MaxOption,      \* bound: the largest value of an option
    MaxHeight       \* bound: the last height committed

ASSUME RetentionAssumption == MaxOption \in Nat /\ MaxHeight \in Nat

VARIABLES
    options,        \* the node's configuration and the consensus parameters
    height,         \* the last height committed
    base            \* the first block Tendermint still has

retentionVars == <<options, height, base>>

Options == [minRetainBlocks : 0 .. MaxOption, maxAgeNumBlocks : 0 .. MaxOption,
            keepEvery : 0 .. MaxOption, snapshotInterval : 0 .. MaxOption,
            snapshotKeepRecent : 0 .. 2]

-----------------------------------------------------------------------------
\* Mutant of minNonZero: the larger of the two.
maxNonZero(x, y) == IF x = 0 THEN y ELSE IF y = 0 THEN x ELSE IF x < y THEN y ELSE x

minNonZero(x, y) == IF x = 0 THEN y ELSE IF y = 0 THEN x ELSE IF x < y THEN x ELSE y

\* The constraints in the order they are applied, 0 for one that is not asked
\* for. No block is pruned before the first state is persisted.
GetBlockRetentionHeight(o, commitHeight) ==
    LET evidence  == IF o.maxAgeNumBlocks > 0 THEN commitHeight - o.maxAgeNumBlocks ELSE 0
        persisted == IF o.keepEvery > 0 THEN commitHeight - (commitHeight % o.keepEvery) ELSE 0
        snapshots == IF o.snapshotInterval > 0 /\ o.snapshotKeepRecent > 0
                     THEN commitHeight - o.snapshotInterval * o.snapshotKeepRecent ELSE 0
        retention == minNonZero(minNonZero(minNonZero(evidence, persisted), snapshots),
                                commitHeight - o.minRetainBlocks)
    IN  IF \/ o.minRetainBlocks = 0
           \/ o.keepEvery > 0 /\ commitHeight <= o.keepEvery
           \/ retention <= 0
        THEN 0 ELSE retention

-----------------------------------------------------------------------------
RetentionInit == options \in Options /\ height = 0 /\ base = 1

\* A commit, and Tendermint's pruning.
CommitAndPrune ==
    /\ height < MaxHeight
    /\ height' = height + 1
    /\ LET retain == GetBlockRetentionHeight(options, height')
       IN  base' = IF retain > base THEN retain ELSE base
    /\ UNCHANGED options

LastHeight == height = MaxHeight /\ UNCHANGED retentionVars

RetentionNext == CommitAndPrune \/ LastHeight

RetentionSpec == RetentionInit /\ [][RetentionNext]_retentionVars

-----------------------------------------------------------------------------
(* Properties                                                              *)

\* The blocks since the last state persisted to disk are there.
ReplayPossible ==
    options.keepEvery > 0 => base <= 1 \/ base <= height - (height % options.keepEvery)

\* A step that prunes leaves every window whole, unless the height is that of one.
CutOnlyAtZero ==
    base' # base =>
        \/ height' \in {options.maxAgeNumBlocks, options.minRetainBlocks,
                        options.snapshotInterval * options.snapshotKeepRecent}
        \/ /\ base' <= height' - options.maxAgeNumBlocks
           /\ base' <= height' - options.minRetainBlocks
           /\ base' <= height' - options.snapshotInterval * options.snapshotKeepRecent

\* The blocks since the last state persisted to disk are there for the replay
\* after a restart, at every height and for every combination of options. And
\* GetBlockRetentionHeight honours the evidence window, the state sync snapshots
\* and min-retain-blocks together: a step never prunes into one of these windows,
\* except at a height equal to one of them, where that constraint has the value 0
\* and minNonZero takes it for one that is not asked for.
WindowsKept == []ReplayPossible /\ [][CutOnlyAtZero]_retentionVars
=============================================================================
