------------------------ MODULE BlockRetentionProofs ------------------------
(***************************************************************************)
(* GetBlockRetentionHeight keeps its windows for every combination of the  *)
(* options, however large, and at every height.                            *)
(***************************************************************************)
EXTENDS BlockRetention, TLAPS

OptionsInv == options \in Options /\ height \in Nat /\ base \in Nat

\* The last height at or below h that is a multiple of every.
LEMMA Rounded ==
    ASSUME NEW h \in Nat, NEW every \in Nat \ {0}
    PROVE  /\ h % every \in 0 .. every - 1
           /\ h - (h % every) = every * (h \div every)
           /\ h \div every \in Nat
  OBVIOUS

LEMMA RoundedGrows ==
    ASSUME NEW h \in Nat, NEW g \in Nat, h <= g, NEW every \in Nat \ {0}
    PROVE  h - (h % every) <= g - (g % every)
  <1> DEFINE q == h \div every
             r == g \div every
  <1>1. /\ q \in Nat /\ r \in Nat
        /\ h - (h % every) = every * q /\ h % every \in 0 .. every - 1
        /\ g - (g % every) = every * r /\ g % every \in 0 .. every - 1
    BY Rounded, Zenon
  <1> HIDE DEF q, r
  <1>2. r < q => every * r <= every * q - every
    <2> SUFFICES ASSUME r < q PROVE every * r <= every * q - every
      OBVIOUS
    <2>1. r <= q - 1
      BY <1>1
    <2>2. every * r <= every * (q - 1)
      BY <1>1, <2>1
    <2> QED BY <1>1, <2>2
  <1>3. r < q => FALSE
    BY <1>1, <1>2
  <1> QED BY <1>1, <1>3

\* Of constraints that are asked for, minNonZero meets both.
LEMMA MinNonZero ==
    ASSUME NEW x \in Int, NEW y \in Int
    PROVE  /\ minNonZero(x, y) \in Int
           /\ x # 0 => minNonZero(x, y) # 0 /\ minNonZero(x, y) <= x
           /\ y # 0 => minNonZero(x, y) # 0 /\ minNonZero(x, y) <= y
  BY DEF minNonZero

\* The height answered meets every constraint that is not 0.
LEMMA RetentionMeets ==
    ASSUME NEW o \in Options, NEW h \in Nat \ {0},
           GetBlockRetentionHeight(o, h) # 0
    PROVE  LET retain == GetBlockRetentionHeight(o, h)
           IN  /\ retain \in Nat /\ o.minRetainBlocks > 0
               /\ o.keepEvery > 0 => retain <= h - (h % o.keepEvery)
               /\ h # o.minRetainBlocks => retain <= h - o.minRetainBlocks
               /\ o.maxAgeNumBlocks > 0 /\ h # o.maxAgeNumBlocks => retain <= h - o.maxAgeNumBlocks
               /\ o.snapshotInterval > 0 /\ o.snapshotKeepRecent > 0
                     /\ h # o.snapshotInterval * o.snapshotKeepRecent
                     => retain <= h - o.snapshotInterval * o.snapshotKeepRecent
  <1> DEFINE evidence  == IF o.maxAgeNumBlocks > 0 THEN h - o.maxAgeNumBlocks ELSE 0
             persisted == IF o.keepEvery > 0 THEN h - (h % o.keepEvery) ELSE 0
             window    == o.snapshotInterval * o.snapshotKeepRecent
             snapshots == IF o.snapshotInterval > 0 /\ o.snapshotKeepRecent > 0
                          THEN h - window ELSE 0
             m1 == minNonZero(evidence, persisted)
             m2 == minNonZero(m1, snapshots)
             m3 == minNonZero(m2, h - o.minRetainBlocks)
  <1>1. /\ o.minRetainBlocks \in Nat /\ o.maxAgeNumBlocks \in Nat /\ o.keepEvery \in Nat
        /\ o.snapshotInterval \in Nat /\ o.snapshotKeepRecent \in Nat
    BY DEF Options
  <1>2. window \in Nat
    BY <1>1
  <1>3. /\ GetBlockRetentionHeight(o, h) = m3
        /\ ~(m3 <= 0) /\ o.minRetainBlocks # 0 /\ ~(o.keepEvery > 0 /\ h <= o.keepEvery)
    <2>1. GetBlockRetentionHeight(o, h) =
             IF \/ o.minRetainBlocks = 0
                \/ o.keepEvery > 0 /\ h <= o.keepEvery
                \/ m3 <= 0
             THEN 0 ELSE m3
      BY Zenon DEF GetBlockRetentionHeight
    <2> HIDE DEF m3
    <2> QED BY <2>1
  <1>4. evidence \in Int /\ snapshots \in Int
    BY <1>1, <1>2
  <1>5. persisted \in Int /\ (o.keepEvery > 0 => persisted # 0)
    <2>1. CASE o.keepEvery > 0
      <3>1. h % o.keepEvery \in 0 .. o.keepEvery - 1
        <4>1. o.keepEvery \in Nat \ {0} /\ h \in Nat
          BY <1>1, <2>1
        <4> QED BY <4>1, Rounded, Zenon
      <3>2. h > o.keepEvery
        BY <1>1, <1>3, <2>1
      <3> QED BY <1>1, <2>1, <3>1, <3>2
    <2> QED BY <1>1, <2>1
  <1> HIDE DEF evidence, persisted, snapshots, window
  <1>6. /\ m1 \in Int /\ (evidence # 0 => m1 # 0 /\ m1 <= evidence)
        /\ persisted # 0 => m1 # 0 /\ m1 <= persisted
    BY <1>4, <1>5, MinNonZero, Zenon
  <1> HIDE DEF m1
  <1>7. /\ m2 \in Int /\ (m1 # 0 => m2 # 0 /\ m2 <= m1)
        /\ snapshots # 0 => m2 # 0 /\ m2 <= snapshots
    BY <1>4, <1>6, MinNonZero, Zenon
  <1> HIDE DEF m2
  <1>8. /\ m3 \in Int /\ (m2 # 0 => m3 <= m2)
        /\ h - o.minRetainBlocks # 0 => m3 <= h - o.minRetainBlocks
    <2>1. h - o.minRetainBlocks \in Int
      BY <1>1
    <2> QED BY <1>7, <2>1, MinNonZero, Zenon
  <1> HIDE DEF m3
  <1>9. m3 \in Nat
    BY <1>3, <1>8
  <1>10. o.keepEvery > 0 => m3 <= h - (h % o.keepEvery)
    <2> SUFFICES ASSUME o.keepEvery > 0 PROVE m3 <= h - (h % o.keepEvery)
      OBVIOUS
    <2>1. persisted = h - (h % o.keepEvery)
      BY DEF persisted
    <2>2. m3 <= persisted
      BY <1>5, <1>6, <1>7, <1>8
    <2> QED BY <2>1, <2>2
  <1>11. o.maxAgeNumBlocks > 0 /\ h # o.maxAgeNumBlocks => m3 <= h - o.maxAgeNumBlocks
    BY <1>1, <1>6, <1>7, <1>8, <1>4 DEF evidence
  <1>12. o.snapshotInterval > 0 /\ o.snapshotKeepRecent > 0 /\ h # window => m3 <= h - window
    BY <1>1, <1>2, <1>7, <1>8, <1>4 DEF snapshots
  <1> QED BY <1>1, <1>3, <1>8, <1>9, <1>10, <1>11, <1>12 DEF window

LEMMA CommitStep ==
    ASSUME OptionsInv, CommitAndPrune
    PROVE  /\ OptionsInv'
           /\ ReplayPossible => ReplayPossible'
           /\ CutOnlyAtZero
  <1> DEFINE o == options
             h == height + 1
             retain == GetBlockRetentionHeight(o, h)
  <1>1. o \in Options /\ h \in Nat \ {0} /\ height' = h /\ options' = o /\ height \in Nat /\ base \in Nat
    BY DEF OptionsInv, CommitAndPrune
  <1>2. base' = IF retain > base THEN retain ELSE base
    BY DEF CommitAndPrune
  <1>3. retain # 0 =>
           /\ retain \in Nat /\ o.minRetainBlocks > 0
           /\ o.keepEvery > 0 => retain <= h - (h % o.keepEvery)
           /\ h # o.minRetainBlocks => retain <= h - o.minRetainBlocks
           /\ o.maxAgeNumBlocks > 0 /\ h # o.maxAgeNumBlocks => retain <= h - o.maxAgeNumBlocks
           /\ o.snapshotInterval > 0 /\ o.snapshotKeepRecent > 0
                 /\ h # o.snapshotInterval * o.snapshotKeepRecent
                 => retain <= h - o.snapshotInterval * o.snapshotKeepRecent
    BY <1>1, RetentionMeets
  <1>4. /\ o.minRetainBlocks \in Nat /\ o.maxAgeNumBlocks \in Nat /\ o.keepEvery \in Nat
        /\ o.snapshotInterval \in Nat /\ o.snapshotKeepRecent \in Nat
    BY <1>1 DEF Options
  <1> HIDE DEF retain
  <1>5. retain \in Nat
    BY <1>3
  <1>6. OptionsInv'
    BY <1>1, <1>2, <1>5 DEF OptionsInv
  <1>7. ASSUME ReplayPossible PROVE ReplayPossible'
    <2>1. CASE o.keepEvery = 0
      BY <1>1, <1>4, <2>1 DEF ReplayPossible
    <2>2. CASE o.keepEvery > 0
      <3>1. height - (height % o.keepEvery) <= h - (h % o.keepEvery)
        BY <1>1, <1>4, <2>2, RoundedGrows
      <3>2. h % o.keepEvery \in Int /\ height % o.keepEvery \in Int
        <4>1. o.keepEvery \in Nat \ {0} /\ h \in Nat /\ height \in Nat
          BY <1>1, <1>4, <2>2
        <4> HIDE DEF h, o
        <4>2. h % o.keepEvery \in 0 .. o.keepEvery - 1 /\ height % o.keepEvery \in 0 .. o.keepEvery - 1
          BY <4>1, Rounded, Zenon
        <4> QED BY <4>1, <4>2
      <3>3. base <= 1 \/ base <= height - (height % o.keepEvery)
        BY <1>7, <2>2 DEF ReplayPossible
      <3>4. base' <= 1 \/ base' <= h - (h % o.keepEvery)
        BY <1>1, <1>2, <1>3, <1>5, <2>2, <3>1, <3>2, <3>3
      <3> QED BY <1>1, <3>4 DEF ReplayPossible
    <2> QED BY <1>4, <2>1, <2>2
  <1>8. CutOnlyAtZero
    <2> DEFINE window == o.snapshotInterval * o.snapshotKeepRecent
    <2> SUFFICES ASSUME base' # base,
                        h # o.maxAgeNumBlocks, h # o.minRetainBlocks, h # window
                 PROVE  /\ base' <= h - o.maxAgeNumBlocks
                        /\ base' <= h - o.minRetainBlocks
                        /\ base' <= h - window
      BY <1>1 DEF CutOnlyAtZero
    <2>1. base' = retain /\ retain # 0
      BY <1>1, <1>2, <1>5
    <2>2. retain <= h - o.minRetainBlocks /\ retain <= h
      BY <1>1, <1>3, <1>4, <1>5, <2>1
    <2>3. retain <= h - o.maxAgeNumBlocks
      BY <1>1, <1>3, <1>4, <2>1, <2>2
    <2>4. retain <= h - window
      <3>1. CASE o.snapshotInterval > 0 /\ o.snapshotKeepRecent > 0
        BY <1>3, <2>1, <3>1
      <3>2. CASE o.snapshotInterval = 0 \/ o.snapshotKeepRecent = 0
        <4>1. window = 0
          BY <1>4, <3>2
        <4> QED BY <1>1, <2>2, <4>1
      <3> QED BY <1>4, <3>1, <3>2
    <2> QED BY <2>1, <2>2, <2>3, <2>4
  <1> QED BY <1>6, <1>7, <1>8

\* WindowsKept holds for all options and heights, with no bound on either: the
\* blocks since the last persisted state stay for the replay, and a step cuts
\* into no window but at a height where its constraint comes out as 0.
THEOREM WindowsAlwaysKept == RetentionSpec => WindowsKept
  <1>1. RetentionInit => OptionsInv /\ ReplayPossible
    BY DEF RetentionInit, OptionsInv, ReplayPossible
  <1>2. OptionsInv /\ ReplayPossible /\ [RetentionNext]_retentionVars => OptionsInv' /\ ReplayPossible'
    <2> SUFFICES ASSUME OptionsInv, ReplayPossible, [RetentionNext]_retentionVars PROVE OptionsInv' /\ ReplayPossible'
      OBVIOUS
    <2>1. CASE CommitAndPrune
      BY <2>1, CommitStep
    <2>2. CASE UNCHANGED retentionVars
      BY <2>2 DEF retentionVars, OptionsInv, ReplayPossible
    <2> QED BY <2>1, <2>2 DEF RetentionNext, LastHeight
  <1>3. OptionsInv /\ [RetentionNext]_retentionVars => [CutOnlyAtZero]_retentionVars
    BY CommitStep DEF RetentionNext, LastHeight
  <1> QED BY <1>1, <1>2, <1>3, PTL DEF RetentionSpec, WindowsKept
=============================================================================
