--------------------------- MODULE UpgradeProofs ---------------------------
(***************************************************************************)
(* Upgrades happen at the height of their plan, in their own binary and    *)
(* once, for any number of upgrades, blocks, crashes and skip heights.     *)
(***************************************************************************)
EXTENDS Upgrade, FiniteSetTheorems, TLAPS

TypeOK ==
    /\ height \in Nat /\ plan \in Plans \cup {None} /\ done \in [Upgrades -> Nat]
    /\ info \in [name : Binaries, height : Nat] /\ link \in Binaries \cup {Missing}
    /\ sup \in {"stopped", "launch", "wait", "upgrade", "unlinked"}
    /\ proc \in {"down", "up", "halted", "dead"}
    /\ binary \in Binaries /\ printed \in Binaries /\ seen \in Binaries
    /\ skips \in {{}, Skips}

\* The next block is the one of the plan.
Due == plan # None /\ plan.height = height + 1

\* A BeginBlocker has stopped for the upgrade that is due.
Announced == Due /\ info.name = plan.name /\ info.height = height + 1

\* A plan is ahead and not done yet, and upgrade-info.json is of the past or of
\* the upgrade that is due.
PlanInv ==
    /\ plan # None => height < plan.height /\ done[plan.name] = 0
    /\ info.height <= height \/ Announced

\* A process runs what `current` points to, and cosmovisor switches only to an
\* upgrade that is due and announced.
SwitchInv ==
    /\ proc # "down" => sup = "wait" /\ link = binary
    /\ proc = "up" => printed = 0 /\ seen = 0
    /\ printed # 0 => Announced /\ printed = plan.name
    /\ seen # 0 => Announced /\ seen = plan.name
    /\ sup \in {"upgrade", "unlinked"} => seen # 0

\* When an upgrade is due, a binary with its handler is there because it was
\* switched to: any other one would have stopped at the block before. Its store
\* loader has run the store upgrades.
HandlerInv ==
    /\ Due => plan.name \notin Handlers[CurrentBin] \/ (Announced /\ CurrentBin = plan.name)
    /\ proc = "up" /\ Due /\ ~IsSkipHeight(height + 1) /\ HasHandler(plan.name)
          => migrated = plan.name

BaseInv == TypeOK /\ PlanInv /\ SwitchInv

\* Before the heights that may be skipped, no binary is behind, other than the
\* genesis binary after the `current` link was lost, which stops at once.
BeforeSkips == \A k \in Skips : height < k
OrderInv ==
    BeforeSkips =>
        /\ ~Behind(CurrentBin) \/ (Announced /\ CurrentBin \in {Genesis, plan.name})
        /\ Announced => ~Behind(plan.name)

\* The version map is put together from the binaries of the upgrades done.
VersionInv ==
    /\ DOMAIN data = DOMAIN versions
    /\ \A m \in DOMAIN versions : \E k \in Binaries :
          /\ k = Genesis \/ done[k] # 0
          /\ m \in DOMAIN Versions[k] /\ versions[m] = Versions[k][m]
    /\ BeforeSkips => MapExact

-----------------------------------------------------------------------------
(* Facts about plans and binaries                                          *)

LEMMA BinaryFacts ==
    /\ Genesis \in Binaries /\ Missing \notin Binaries /\ Genesis \notin Upgrades
    /\ Upgrades \subseteq Binaries
    /\ \A b \in Binaries : Handlers[b] \subseteq Upgrades
  BY UpgradeAssumption DEF Genesis, Missing, Binaries

\* The height before one that is below every height to skip.
LEMMA EarlierHeights ==
    ASSUME NEW h \in Nat, \A k \in Skips : h + 1 < k
    PROVE  (\A k \in Skips : h < k) /\ h + 1 \notin Skips
  <1>1. Skips \subseteq Nat
    BY UpgradeAssumption, Zenon
  <1> QED BY <1>1

LEMMA CurrentFacts ==
    ASSUME TypeOK
    PROVE  /\ CurrentBin \in Binaries
           /\ link \in Binaries => CurrentBin = link
  BY BinaryFacts, Zenon DEF TypeOK, CurrentBin

LEMMA PlanFacts ==
    ASSUME NEW p \in Plans \cup {None}, p # None
    PROVE  p.name \in Upgrades /\ p.name \in Binaries /\ p.name # 0 /\ p.height \in Nat
  BY UpgradeAssumption DEF Plans, Binaries

\* A plan is executed in its own block and in no other.
LEMMA ExecutedWhenDue ==
    ASSUME TypeOK, PlanInv
    PROVE  ShouldExecute(plan, height + 1) <=> Due
  BY PlanFacts DEF TypeOK, PlanInv, ShouldExecute, Due

\* Steps that leave the chain and upgrade-info.json alone.
LEMMA Quiet ==
    ASSUME UNCHANGED <<state, info>>
    PROVE  /\ Due' <=> Due
           /\ Announced' <=> Announced
           /\ PlanInv => PlanInv'
  BY Zenon DEF state, Due, Announced, PlanInv

-----------------------------------------------------------------------------
(* x/upgrade                                                               *)

\* The plan that a block leaves is the one it found, which was not due, or one
\* that was scheduled in it.
LEMMA RunBlockPlan ==
    ASSUME BaseInv, RunBlock
    PROVE  /\ plan' \in Plans \cup {None} /\ height' = height + 1
           /\ done' \in [Upgrades -> Nat]
           /\ plan' # None => height' < plan'.height /\ done'[plan'.name] = 0
           /\ \/ plan' = None
              \/ plan' = plan /\ ~Due
              \/ plan'.height >= height' + Notice
  <1> DEFINE h == height + 1
             after == IF ShouldExecute(plan, h) THEN None ELSE plan
             finished == IF Applies(h) THEN [done EXCEPT ![plan.name] = h] ELSE done
  <1>1. /\ height' = h /\ h \in Nat /\ done' = finished /\ plan \in Plans \cup {None}
        /\ ShouldExecute(plan, h) <=> Due
    BY ExecutedWhenDue DEF RunBlock, BaseInv, TypeOK
  <1>2. PICK q \in Plans \cup {None} : Proposed(after, h, finished, q) /\ plan' = q
    BY Zenon DEF RunBlock
  <1>3. Applies(h) => Due /\ plan.name \in Upgrades
    BY <1>1, PlanFacts, Zenon DEF Applies, Due
  <1>4. finished \in [Upgrades -> Nat]
    BY <1>1, <1>3, Zenon DEF BaseInv, TypeOK
  <1>5. CASE q = after
    <2>1. plan' = None \/ (plan' = plan /\ ~Due)
      BY <1>1, <1>2, <1>5, Zenon
    <2>2. plan' = plan /\ ~Due /\ plan # None =>
             plan.height > h /\ finished[plan.name] = 0
      BY <1>1, <1>3, PlanFacts DEF BaseInv, PlanInv, Due, TypeOK
    <2> QED BY <1>1, <1>2, <1>4, <2>1, <2>2, Zenon
  <1>6. CASE q = None
    BY <1>1, <1>2, <1>4, <1>6, Zenon
  <1>7. CASE q.height >= h + Notice /\ ScheduleUpgrade(after, h, finished, q)
    BY <1>1, <1>2, <1>4, <1>7, PlanFacts, Zenon DEF ScheduleUpgrade
  <1> QED BY <1>2, <1>5, <1>6, <1>7, Zenon DEF Proposed

LEMMA RunBlockBase ==
    ASSUME BaseInv, RunBlock
    PROVE  BaseInv' /\ ~Announced'
  <1>1. /\ proc = "up" /\ printed = 0 /\ seen = 0
        /\ UNCHANGED <<disk, sup, proc, binary, printed, seen, skips>>
    BY Zenon DEF RunBlock, BaseInv, SwitchInv
  <1>2. TypeOK'
    BY <1>1, RunBlockPlan DEF BaseInv, TypeOK, disk
  <1>3. info'.height <= height'
    BY <1>1, RunBlockPlan DEF BaseInv, TypeOK, PlanInv, Announced, disk
  <1>4. PlanInv' /\ ~Announced'
    BY <1>2, <1>3, RunBlockPlan DEF PlanInv, Announced, TypeOK
  <1>5. SwitchInv'
    BY <1>1, Zenon DEF BaseInv, SwitchInv, disk
  <1> QED BY <1>2, <1>4, <1>5, Zenon DEF BaseInv

\* The process stops with the upgrade that is due announced.
LEMMA StopForUpgradeBase ==
    ASSUME BaseInv, StopForUpgrade
    PROVE  BaseInv' /\ Due /\ Announced' /\ ~HasHandler(plan.name)
  <1>1. /\ UNCHANGED <<state, link, dir, sup, binary, migrated, seen, skips>>
        /\ info' = [name |-> plan.name, height |-> height + 1] /\ printed' = plan.name
        /\ proc' \in {"dead", "halted"} /\ proc = "up"
    BY Zenon DEF StopForUpgrade, Panic
  <1>2. Due /\ ~HasHandler(plan.name) /\ plan \in Plans \cup {None}
    BY ExecutedWhenDue, Zenon DEF StopForUpgrade, UpgradeNeeded, BaseInv, TypeOK
  <1>3. /\ plan.name \in Upgrades /\ plan.name \in Binaries /\ plan.name # 0
        /\ plan.height \in Nat
    BY <1>2, PlanFacts, Zenon DEF Due
  <1>4. Announced'
    BY <1>1, <1>2, Zenon DEF Announced, Due, state
  <1>5. TypeOK'
    BY <1>1, <1>3 DEF BaseInv, TypeOK, state
  <1>6. PlanInv'
    BY <1>1, <1>4, Zenon DEF BaseInv, PlanInv, state
  <1>7. SwitchInv'
    BY <1>1, <1>4, Zenon DEF BaseInv, SwitchInv, state
  <1> QED BY <1>2, <1>4, <1>5, <1>6, <1>7, Zenon DEF BaseInv

-----------------------------------------------------------------------------
(* Cosmovisor                                                              *)

\* The steps that only stop or start something.
LEMMA StopsBase ==
    ASSUME BaseInv,
           \/ StopTooEarly \/ StopInMigration \/ Run \/ WaitForUpdate \/ WaitForUpgradeOrExit
           \/ Download \/ Install \/ Stop \/ Crash \/ AtBound \/ UNCHANGED vars
    PROVE  /\ BaseInv' /\ UNCHANGED <<state, info, link, binary, migrated>>
           /\ proc' = "up" => proc = "up" /\ skips' = skips
  <1>1. /\ UNCHANGED <<state, info, link, binary, migrated>>
        /\ proc' \in {proc, "dead", "halted", "down"} /\ printed' \in {printed, 0}
        /\ seen' \in {seen, printed, 0} /\ skips' \in {skips, {}, Skips}
    BY Zenon DEF StopTooEarly, StopInMigration, Panic, Run, WaitForUpdate, WaitForUpgradeOrExit,
           Download, Install, Stop, Crash, AtBound, vars, disk, node
  <1>2. /\ sup' \in {"stopped", "launch", "wait", "upgrade", "unlinked"}
        /\ proc' # "down" => proc # "down" /\ sup' = sup /\ skips' = skips
        /\ sup' \in {"upgrade", "unlinked"} => (sup' = sup /\ seen' = seen) \/ seen' # 0
        /\ proc' = "up" => proc = "up" /\ printed' = printed /\ seen' = seen
    <2>1. CASE StopTooEarly \/ StopInMigration
      BY <2>1, Zenon DEF StopTooEarly, StopInMigration, Panic, BaseInv, TypeOK
    <2>2. CASE Run
      BY <2>2, Zenon DEF Run, BaseInv, TypeOK, SwitchInv, node
    <2>3. CASE WaitForUpdate \/ WaitForUpgradeOrExit
      BY <2>3, Zenon DEF WaitForUpdate, WaitForUpgradeOrExit, BaseInv, TypeOK
    <2>4. CASE Download \/ Install
      BY <2>4, Zenon DEF Download, Install, BaseInv, TypeOK, SwitchInv, node
    <2>5. CASE Stop \/ Crash
      BY <2>5, Zenon DEF Stop, Crash, BaseInv, TypeOK
    <2>6. CASE AtBound \/ UNCHANGED vars
      BY <2>6, Zenon DEF AtBound, vars, node, BaseInv, TypeOK
    <2> QED BY <2>1, <2>2, <2>3, <2>4, <2>5, <2>6, Zenon
  <1>3. TypeOK'
    BY <1>1, <1>2, BinaryFacts DEF BaseInv, TypeOK, state, Genesis
  <1>4. PlanInv'
    BY <1>1, Quiet, Zenon DEF BaseInv
  <1>5. SwitchInv'
    <2>1. Announced' <=> Announced
      BY <1>1, Quiet, Zenon
    <2> QED BY <1>1, <1>2, <2>1, Zenon DEF BaseInv, SwitchInv, state
  <1> QED BY <1>1, <1>2, <1>3, <1>4, <1>5, Zenon DEF BaseInv

LEMMA LaunchProcessBase ==
    ASSUME BaseInv, LaunchProcess
    PROVE  /\ BaseInv' /\ UNCHANGED <<state, info, skips>>
           /\ CurrentBin' = CurrentBin /\ binary' = CurrentBin
           /\ migrated' = UpgradeStoreLoader(CurrentBin)
  <1>1. /\ UNCHANGED <<state, info, skips>> /\ sup' = "wait"
        /\ link' = (IF link = Missing THEN Genesis ELSE link) /\ proc' = "up"
        /\ binary' = CurrentBin /\ printed' = 0 /\ seen' = 0
        /\ migrated' = UpgradeStoreLoader(CurrentBin)
    BY Zenon DEF LaunchProcess
  <1>2. link' = CurrentBin /\ CurrentBin' = CurrentBin /\ CurrentBin \in Binaries
    BY <1>1, BinaryFacts, CurrentFacts, Zenon DEF CurrentBin, BaseInv
  <1>3. TypeOK'
    BY <1>1, <1>2, BinaryFacts, Zenon DEF BaseInv, TypeOK, state, Genesis
  <1>4. PlanInv' /\ SwitchInv'
    BY <1>1, <1>2, Quiet, Zenon DEF BaseInv, SwitchInv
  <1> QED BY <1>1, <1>2, <1>3, <1>4, Zenon DEF BaseInv

\* The link is moved for the upgrade that is due and announced.
LEMMA SwitchBase ==
    ASSUME BaseInv, Unlink \/ Symlink
    PROVE  /\ BaseInv' /\ UNCHANGED <<state, info, proc, skips>> /\ Announced' /\ proc = "down"
           /\ CurrentBin' = Genesis \/ CurrentBin' = plan'.name
  <1>1. /\ UNCHANGED <<state, info, dir, node, seen, skips>>
        /\ sup \in {"upgrade", "unlinked"} /\ sup' \in {"unlinked", "launch", "stopped"}
        /\ link' \in {Missing, seen}
    BY Zenon DEF Unlink, Symlink
  <1>2. /\ seen # 0 /\ Announced /\ seen = plan.name /\ seen \in Binaries /\ proc = "down"
        /\ UNCHANGED <<proc, printed, binary>>
    BY <1>1, Zenon DEF BaseInv, SwitchInv, TypeOK, node
  <1>3. TypeOK'
    BY <1>1, <1>2, Zenon DEF BaseInv, TypeOK, state
  <1>4. PlanInv' /\ Announced'
    BY <1>1, <1>2, Quiet, Zenon DEF BaseInv
  <1>5. SwitchInv'
    BY <1>1, <1>2, <1>4, Zenon DEF BaseInv, SwitchInv, state
  <1>6. CurrentBin' \in {Genesis, plan'.name}
    BY <1>1, <1>2, Zenon DEF CurrentBin, state
  <1> QED BY <1>1, <1>2, <1>3, <1>4, <1>5, <1>6, Zenon DEF BaseInv

LEMMA BaseInvariance ==
    Spec => []BaseInv
  <1>1. Init => BaseInv
    <2> SUFFICES ASSUME Init PROVE BaseInv
      BY Zenon
    <2>1. TypeOK
      BY BinaryFacts, Zenon DEF Init, TypeOK, Genesis, None
    <2>2. PlanInv /\ SwitchInv
      BY DEF Init, PlanInv, SwitchInv, None
    <2> QED BY <2>1, <2>2, Zenon DEF BaseInv
  <1>2. BaseInv /\ [Next]_vars => BaseInv'
    BY RunBlockBase, StopForUpgradeBase, StopsBase, LaunchProcessBase, SwitchBase, Zenon DEF Next
  <1> QED BY <1>1, <1>2, PTL DEF Spec

\* "The purpose is to ensure the binary is switched EXACTLY at the desired block"
\* (x/upgrade/abci.go): no block at or past the height of a plan is committed while
\* the plan stands. This needs nothing of the binaries or of how plans are made.
THEOREM PlanIsRespected ==
    Spec => []NoBlockPastPlan
  <1>1. BaseInv => NoBlockPastPlan
    BY Zenon DEF BaseInv, PlanInv, NoBlockPastPlan
  <1> QED BY <1>1, BaseInvariance, PTL

-----------------------------------------------------------------------------
(* The binary that an upgrade is done by                                   *)

\* A block that makes an upgrade due was run by a binary without its handler, or
\* the plan was made in that block, which the notice rules out.
LEMMA RunBlockHandler ==
    ASSUME Notice >= 2, BaseInv, RunBlock
    PROVE  HandlerInv'
  <1>1. /\ UNCHANGED <<link, binary>> /\ binary \in Binaries /\ link = binary
        /\ ~TooEarly(height + 1)
    BY Zenon DEF RunBlock, disk, BaseInv, TypeOK, SwitchInv
  <1>2. CurrentBin' = binary
    BY <1>1, BinaryFacts, Zenon DEF CurrentBin
  <1>3. ASSUME Due' PROVE plan'.name \notin Handlers[binary]
    <2>1. plan' = plan /\ plan # None /\ ~Due
      BY UpgradeAssumption, <1>3, RunBlockPlan, PlanFacts DEF Due, BaseInv, TypeOK
    <2> QED BY <1>1, <2>1, ExecutedWhenDue, Zenon DEF TooEarly, HasHandler, BaseInv
  <1> QED BY <1>1, <1>2, <1>3, Zenon DEF HandlerInv, HasHandler

LEMMA HandlerStep ==
    ASSUME Notice >= 2, BaseInv, HandlerInv, [Next]_vars
    PROVE  HandlerInv'
  <1>1. CASE RunBlock
    BY <1>1, RunBlockHandler, Zenon
  <1>2. CASE StopForUpgrade
    <2>1. /\ UNCHANGED <<state, link, binary>> /\ link = binary /\ proc' # "up"
      BY <1>2, Zenon DEF StopForUpgrade, Panic, BaseInv, SwitchInv
    <2>2. CurrentBin' = binary /\ plan' = plan
      BY <2>1, CurrentFacts, Zenon DEF CurrentBin, state, BaseInv, TypeOK
    <2>3. plan'.name \notin Handlers[CurrentBin']
      BY <1>2, <2>2, StopForUpgradeBase, Zenon DEF HasHandler
    <2> QED BY <2>1, <2>3, Zenon DEF HandlerInv
  <1>3. CASE \/ StopTooEarly \/ StopInMigration \/ Run \/ WaitForUpdate \/ WaitForUpgradeOrExit
             \/ Download \/ Install \/ Stop \/ Crash \/ AtBound \/ UNCHANGED vars
    <2>1. /\ UNCHANGED <<state, info, link, binary, migrated>>
          /\ proc' = "up" => proc = "up" /\ skips' = skips
      BY <1>3, StopsBase, Zenon
    <2>2. (Due' <=> Due) /\ (Announced' <=> Announced)
      BY <2>1, Quiet, Zenon
    <2> QED BY <2>1, <2>2, Zenon DEF HandlerInv, CurrentBin, IsSkipHeight, HasHandler, state
  <1>4. CASE LaunchProcess
    <2>1. /\ UNCHANGED <<state, info, skips>> /\ CurrentBin' = CurrentBin /\ binary' = CurrentBin
          /\ migrated' = UpgradeStoreLoader(CurrentBin)
      BY <1>4, LaunchProcessBase, Zenon
    <2>2. (Due' <=> Due) /\ (Announced' <=> Announced)
      BY <2>1, Quiet, Zenon
    <2>3. Due' => plan'.name \notin Handlers[CurrentBin'] \/ (Announced' /\ CurrentBin' = plan'.name)
      BY <2>1, <2>2, Zenon DEF HandlerInv, state
    <2>4. Due' /\ ~IsSkipHeight(height + 1)' /\ HasHandler(plan.name)' => migrated' = plan'.name
      BY <2>1, <2>2, <2>3, Zenon
         DEF Announced, UpgradeStoreLoader, IsSkipHeight, HasHandler, state
    <2> QED BY <2>3, <2>4, Zenon DEF HandlerInv
  <1>5. CASE Unlink \/ Symlink
    <2>1. /\ Announced' /\ proc' # "up" /\ (CurrentBin' = Genesis \/ CurrentBin' = plan'.name)
      BY <1>5, SwitchBase, Zenon
    <2> QED BY UpgradeAssumption, <2>1, Zenon DEF HandlerInv
  <1> QED BY <1>1, <1>2, <1>3, <1>4, <1>5, Zenon DEF Next

LEMMA HandlerInvariance ==
    ASSUME Notice >= 2
    PROVE  Spec => []HandlerInv
  <1>1. Init => HandlerInv
    BY Zenon DEF Init, HandlerInv, Due
  <1>2. BaseInv /\ HandlerInv /\ [Next]_vars => HandlerInv'
    BY HandlerStep, Zenon
  <1> QED BY <1>1, <1>2, BaseInvariance, PTL DEF Spec

\* An upgrade that takes place is due, and the binary is its own.
LEMMA OwnBinary ==
    ASSUME BaseInv, HandlerInv, proc = "up", Applies(height + 1)
    PROVE  /\ Due /\ Announced /\ binary = plan.name /\ migrated = plan.name
           /\ plan.name \in Upgrades /\ CurrentBin = binary
           /\ plan = [name |-> plan.name, height |-> height + 1]
  <1>1. /\ Due /\ ~IsSkipHeight(height + 1) /\ HasHandler(plan.name)
    BY ExecutedWhenDue, Zenon DEF Applies, BaseInv
  <1>2. CurrentBin = binary
    BY CurrentFacts, Zenon DEF BaseInv, TypeOK, SwitchInv
  <1>3. plan.name \in Upgrades /\ plan \in Plans
    BY <1>1, PlanFacts, Zenon DEF Due, BaseInv, TypeOK
  <1>4. plan = [name |-> plan.name, height |-> height + 1]
    BY <1>1, <1>3, Zenon DEF Due, Plans
  <1> QED BY <1>1, <1>2, <1>3, <1>4, Zenon DEF HandlerInv, HasHandler

-----------------------------------------------------------------------------
(* Binaries in order, and the version of the data                          *)

\* What a block does to the upgrades done and to the versions.
LEMMA RunBlockDone ==
    ASSUME BaseInv, HandlerInv, RunBlock
    PROVE  \/ /\ Applies(height + 1) /\ proc = "up"
              /\ done' = [done EXCEPT ![binary] = height + 1]
              /\ data' = Over(RunMigrations(binary), data)
              /\ versions' = Over(Versions[binary], versions)
           \/ ~Applies(height + 1) /\ UNCHANGED <<done, data, versions>>
  <1>1. proc = "up"
    BY Zenon DEF RunBlock
  <1>2. CASE Applies(height + 1)
    BY <1>1, <1>2, OwnBinary, Zenon DEF RunBlock
  <1>3. CASE ~Applies(height + 1)
    BY <1>3, Zenon DEF RunBlock
  <1> QED BY <1>2, <1>3, Zenon

\* The binary of a plan, which the binary that stopped for it does not know, knows
\* what that one knows.
LEMMA NextInOrder ==
    ASSUME InOrder, NEW b \in Binaries, NEW n \in Upgrades, n \notin Handlers[b], ~Behind(b)
    PROVE  ~Behind(n)
  <1>1. Handlers[b] \subseteq Handlers[n]
    BY UpgradeAssumption, Zenon DEF InOrder, Binaries
  <1> QED BY <1>1, Zenon DEF Behind

LEMMA OrderStep ==
    ASSUME InOrder, BaseInv, HandlerInv, OrderInv, [Next]_vars
    PROVE  OrderInv'
  <1>1. CASE RunBlock
    <2> SUFFICES ASSUME BeforeSkips' PROVE ~Behind(CurrentBin)' /\ ~Announced'
      BY Zenon DEF OrderInv
    <2>1. /\ height \in Nat /\ height' = height + 1 /\ UNCHANGED <<link, binary>> /\ proc = "up"
          /\ ~UpgradeNeeded(height + 1) /\ skips \in {{}, Skips} /\ CurrentBin = binary
      BY <1>1, CurrentFacts, Zenon DEF RunBlock, disk, BaseInv, TypeOK, SwitchInv
    <2>2. BeforeSkips /\ ~IsSkipHeight(height + 1)
      BY UpgradeAssumption, <2>1 DEF BeforeSkips, IsSkipHeight
    <2>3. CurrentBin' = binary
      BY <2>1, Zenon DEF CurrentBin
    <2>4. CASE Applies(height + 1)
      <3>1. /\ Announced /\ binary = plan.name /\ binary \in Upgrades
            /\ done' = [done EXCEPT ![binary] = height + 1]
        BY <1>1, <2>1, <2>4, OwnBinary, RunBlockDone, Zenon
      <3>2. ~Behind(binary) /\ binary \in Handlers[binary]
        BY UpgradeAssumption, <2>2, <3>1, Zenon DEF OrderInv
      <3> QED BY <1>1, <2>3, <3>1, <3>2, RunBlockBase, Zenon DEF Behind, BaseInv, TypeOK
    <2>5. CASE ~Applies(height + 1)
      <3>1. ~Due
        BY <2>1, <2>2, <2>5, ExecutedWhenDue, Zenon DEF UpgradeNeeded, Applies, BaseInv
      <3>2. ~Behind(binary) /\ done' = done
        BY <1>1, <2>1, <2>2, <2>5, <3>1, RunBlockDone, Zenon DEF OrderInv, Announced
      <3> QED BY <1>1, <2>3, <3>2, RunBlockBase, Zenon DEF Behind
    <2> QED BY <2>4, <2>5, Zenon
  <1>2. CASE StopForUpgrade
    <2> SUFFICES ASSUME BeforeSkips'
                 PROVE  /\ ~Behind(CurrentBin)' \/ (Announced' /\ CurrentBin' \in {Genesis, plan'.name})
                        /\ ~Behind(plan.name)'
      BY Zenon DEF OrderInv
    <2>1. /\ UNCHANGED <<state, link, binary>> /\ binary \in Binaries /\ link = binary
      BY <1>2, Zenon DEF StopForUpgrade, Panic, BaseInv, TypeOK, SwitchInv
    <2>2. /\ BeforeSkips /\ CurrentBin' = CurrentBin /\ CurrentBin = binary
          /\ plan' = plan /\ done' = done
      BY <2>1, BinaryFacts, Zenon DEF BeforeSkips, state, CurrentBin
    <2>3. Due /\ Announced' /\ binary \in Binaries /\ plan.name \in Upgrades
          /\ plan.name \notin Handlers[binary]
      BY <1>2, <2>1, PlanFacts, StopForUpgradeBase, Zenon DEF HasHandler, Due, BaseInv, TypeOK
    <2>4. ~Behind(plan.name)
      BY <2>2, <2>3, NextInOrder, Zenon DEF OrderInv
    <2> QED BY <2>2, <2>3, <2>4, Zenon DEF OrderInv, Behind
  <1>3. CASE \/ StopTooEarly \/ StopInMigration \/ Run \/ WaitForUpdate \/ WaitForUpgradeOrExit
             \/ Download \/ Install \/ Stop \/ Crash \/ AtBound \/ UNCHANGED vars
    <2>1. UNCHANGED <<state, info, link>>
      BY <1>3, StopsBase, Zenon
    <2> QED BY <2>1, Quiet, Zenon DEF OrderInv, BeforeSkips, CurrentBin, Behind, state
  <1>4. CASE LaunchProcess
    <2>1. UNCHANGED <<state, info>> /\ CurrentBin' = CurrentBin
      BY <1>4, LaunchProcessBase, Zenon
    <2> QED BY <2>1, Quiet, Zenon DEF OrderInv, BeforeSkips, Behind, state
  <1>5. CASE Unlink \/ Symlink
    <2>1. /\ UNCHANGED <<state, info>> /\ Announced' /\ CurrentBin' \in {Genesis, plan'.name}
      BY <1>5, SwitchBase, Zenon
    <2> QED BY <2>1, Quiet, Zenon DEF OrderInv, BeforeSkips, Behind, state
  <1> QED BY <1>1, <1>2, <1>3, <1>4, <1>5, Zenon DEF Next

\* How many migrations lie between two versions.
LEMMA SpanCount ==
    ASSUME NEW lo \in Nat, NEW hi \in Nat, lo <= hi
    PROVE  Cardinality(lo .. hi - 1) = hi - lo
  <1>1. lo \in Int /\ hi - 1 \in Int
    OBVIOUS
  <1>2. Cardinality(lo .. hi - 1) = IF lo > hi - 1 THEN 0 ELSE (hi - 1) - lo + 1
    BY <1>1, FS_Interval, Zenon
  <1>3. (IF lo > hi - 1 THEN 0 ELSE (hi - 1) - lo + 1) = hi - lo
    OBVIOUS
  <1> QED BY <1>2, <1>3

\* A migration a version higher for each step, from the version the map tells,
\* which is that of an earlier binary, ends in the version of the binary.
LEMMA MigrationExact ==
    ASSUME InOrder, VersionInv, MapExact, NEW b \in Upgrades, ~Behind(b),
           NEW m \in DOMAIN Versions[b]
    PROVE  RunMigrations(b)[m] = Versions[b][m]
  <1>1. CASE m \in DOMAIN versions
    <2>1. PICK k \in Binaries : /\ k = Genesis \/ done[k] # 0
                                /\ m \in DOMAIN Versions[k] /\ versions[m] = Versions[k][m]
      BY <1>1, Zenon DEF VersionInv
    <2>2. k \in Handlers[b] \cup {Genesis}
      BY <2>1, Zenon DEF Behind, Binaries
    <2>3. /\ versions[m] \in Nat /\ Versions[b][m] \in Nat /\ versions[m] <= Versions[b][m]
          /\ data[m] = versions[m]
      BY UpgradeAssumption, <1>1, <2>1, <2>2, Zenon DEF InOrder, MapExact, Binaries
    <2>4. Cardinality(versions[m] .. Versions[b][m] - 1) = Versions[b][m] - versions[m]
      BY <2>3, SpanCount, Zenon
    <2> QED BY <1>1, <2>3, <2>4 DEF RunMigrations
  <1>2. CASE m \notin DOMAIN versions
    BY <1>2, Zenon DEF RunMigrations
  <1> QED BY <1>1, <1>2, Zenon

\* What the upgrade to b leaves in the version map and in the data.
MapsOver(b) ==
    /\ DOMAIN versions' = DOMAIN Versions[b] \cup DOMAIN versions
    /\ DOMAIN data' = DOMAIN versions'
    /\ \A m \in DOMAIN Versions[b] :
          versions'[m] = Versions[b][m] /\ data'[m] = RunMigrations(b)[m]
    /\ \A m \in DOMAIN versions \ DOMAIN Versions[b] :
          versions'[m] = versions[m] /\ data'[m] = data[m]

LEMMA OverMaps ==
    ASSUME VersionInv, NEW b \in Upgrades,
           data' = Over(RunMigrations(b), data), versions' = Over(Versions[b], versions)
    PROVE  MapsOver(b)
  <1>1. DOMAIN RunMigrations(b) = DOMAIN Versions[b]
    BY Zenon DEF RunMigrations
  <1>2. DOMAIN data = DOMAIN versions
    BY Zenon DEF VersionInv
  <1> QED BY <1>1, <1>2, Zenon DEF Over, MapsOver

\* Steps other than blocks leave the upgrades, the data and the map alone.
LEMMA OnlyBlocks ==
    ASSUME BaseInv, [Next]_vars, ~RunBlock
    PROVE  UNCHANGED state
  <1>1. CASE StopForUpgrade
    BY <1>1, Zenon DEF StopForUpgrade, Panic
  <1> QED BY <1>1, StopsBase, LaunchProcessBase, SwitchBase, Zenon DEF Next

LEMMA VersionStep ==
    ASSUME InOrder, BaseInv, HandlerInv, OrderInv, VersionInv, [Next]_vars
    PROVE  VersionInv'
  <1>1. CASE RunBlock /\ Applies(height + 1)
    <2>1. /\ Announced /\ binary = plan.name /\ binary \in Upgrades
          /\ done' = [done EXCEPT ![binary] = height + 1] /\ done \in [Upgrades -> Nat]
          /\ height \in Nat /\ height' = height + 1
          /\ data' = Over(RunMigrations(binary), data)
          /\ versions' = Over(Versions[binary], versions)
      BY <1>1, OwnBinary, RunBlockDone, Zenon DEF BaseInv, TypeOK, RunBlock
    <2>2. \A k \in Upgrades : done[k] # 0 \/ k = binary => done'[k] # 0
      BY <2>1
    <2> MapsOver(binary)
      BY <2>1, OverMaps, Zenon
    <2>3. ASSUME NEW m \in DOMAIN versions'
          PROVE  \E k \in Binaries : /\ k = Genesis \/ done'[k] # 0
                                     /\ m \in DOMAIN Versions[k] /\ versions'[m] = Versions[k][m]
      <3>1. CASE m \in DOMAIN Versions[binary]
        BY <2>1, <2>2, <3>1 DEF MapsOver, Binaries
      <3>2. CASE m \notin DOMAIN Versions[binary]
        <4>1. m \in DOMAIN versions /\ versions'[m] = versions[m]
          BY <2>1, <2>3, <3>2, Zenon DEF MapsOver
        <4>2. PICK k \in Binaries : /\ k = Genesis \/ done[k] # 0
                                    /\ m \in DOMAIN Versions[k] /\ versions[m] = Versions[k][m]
          BY <4>1, Zenon DEF VersionInv
        <4> QED BY <2>2, <4>1, <4>2, Zenon DEF Binaries
      <3> QED BY <3>1, <3>2, Zenon
    <2>4. ASSUME BeforeSkips' PROVE MapExact'
      <3>1. BeforeSkips
        BY <2>1, <2>4, EarlierHeights, Zenon DEF BeforeSkips
      <3>2. MapExact /\ ~Behind(binary)
        BY <2>1, <3>1, Zenon DEF VersionInv, OrderInv
      <3>3. \A m \in DOMAIN Versions[binary] : RunMigrations(binary)[m] = Versions[binary][m]
        BY <2>1, <3>2, MigrationExact, Zenon
      <3> QED BY <2>1, <3>2, <3>3 DEF MapsOver, MapExact
    <2> QED BY <2>1, <2>3, <2>4, Zenon DEF MapsOver, VersionInv
  <1>2. CASE RunBlock /\ ~Applies(height + 1)
    <2>1. UNCHANGED <<done, data, versions>> /\ height \in Nat /\ height' = height + 1
      BY <1>2, RunBlockDone, Zenon DEF BaseInv, TypeOK, RunBlock
    <2>2. BeforeSkips' => BeforeSkips
      BY <2>1, EarlierHeights, Zenon DEF BeforeSkips
    <2> QED BY <2>1, <2>2, Zenon DEF VersionInv, MapExact
  <1>3. CASE ~RunBlock
    BY <1>3, OnlyBlocks DEF VersionInv, BeforeSkips, MapExact, state
  <1> QED BY <1>1, <1>2, <1>3, Zenon

LEMMA OrderInvariance ==
    ASSUME Notice >= 2, InOrder
    PROVE  Spec => [](OrderInv /\ VersionInv)
  <1>1. Init => OrderInv /\ VersionInv
    <2> SUFFICES ASSUME Init PROVE OrderInv /\ VersionInv
      BY Zenon
    <2>1. OrderInv
      BY Zenon DEF Init, OrderInv, Behind, Announced, Due
    <2>2. VersionInv
      BY BinaryFacts, Zenon DEF Init, VersionInv, MapExact
    <2> QED BY <2>1, <2>2, Zenon
  <1>2. BaseInv /\ HandlerInv /\ OrderInv /\ VersionInv /\ [Next]_vars => (OrderInv /\ VersionInv)'
    BY OrderStep, VersionStep, Zenon
  <1> QED BY <1>1, <1>2, BaseInvariance, HandlerInvariance, PTL DEF Spec

-----------------------------------------------------------------------------
(* The action properties                                                   *)

\* An upgrade is recorded as done at the height its plan named, once, by its own
\* binary and in a process whose store loader ran its store upgrades; a binary that
\* is not behind leaves the data in the versions it expects; and no store upgrade
\* is run again after the block. It takes that a plan leaves at least one block
\* between the one it passes in and its own, in which a binary that has the handler
\* too soon stops, and that releases come one after the other.
THEOREM UpgradedAsPlanned ==
    ASSUME Notice >= 2, InOrder
    PROVE  Spec => UpgradedExactly
  <1>1. ASSUME BaseInv, HandlerInv, VersionInv, [Next]_vars,
               NEW n \in Upgrades, done'[n] # done[n]
        PROVE  Recorded(n)
    <2>1. RunBlock /\ Applies(height + 1) /\ proc = "up"
      BY <1>1, OnlyBlocks, RunBlockDone, Zenon DEF state
    <2>2. /\ Due /\ binary = plan.name /\ migrated = plan.name /\ binary \in Upgrades
          /\ plan = [name |-> plan.name, height |-> height + 1]
          /\ done' = [done EXCEPT ![binary] = height + 1] /\ done \in [Upgrades -> Nat]
          /\ data' = Over(RunMigrations(binary), data)
          /\ versions' = Over(Versions[binary], versions)
      BY <1>1, <2>1, OwnBinary, RunBlockDone, Zenon DEF BaseInv, TypeOK
    <2>3. n = binary /\ done'[n] = height + 1
      BY <1>1, <2>2, Zenon
    <2>4. done[n] = 0
      BY <1>1, <2>2, <2>3, Zenon DEF BaseInv, PlanInv, Due
    <2>5. ASSUME ~Behind(n), MapExact, NEW m \in DOMAIN Versions[n]
          PROVE  data'[m] = Versions[n][m] /\ versions'[m] = Versions[n][m]
      <3>1. RunMigrations(n)[m] = Versions[n][m]
        BY <1>1, <2>5, MigrationExact, ZenonT(30)
      <3>2. MapsOver(binary)
        BY <1>1, <2>2, OverMaps, Zenon
      <3> QED BY <2>3, <2>5, <3>1, <3>2, Zenon DEF MapsOver
    <2>6. plan = [name |-> n, height |-> done'[n]] /\ migrated = n
      BY <2>2, <2>3, Zenon
    <2> QED BY <2>3, <2>4, <2>5, <2>6, Zenon DEF Recorded
  <1>2. ASSUME BaseInv, [Next]_vars, sup = "launch", sup' = "wait", migrated' # 0
        PROVE  done[migrated'] = 0
    <2>1. ~RunBlock /\ ~StopForUpgrade /\ ~StopTooEarly /\ ~StopInMigration
      BY <1>2, ZenonT(30) DEF RunBlock, StopForUpgrade, StopTooEarly, StopInMigration, BaseInv, SwitchInv
    <2>2. ~Run /\ ~WaitForUpdate /\ ~WaitForUpgradeOrExit /\ ~Unlink /\ ~Download
      BY <1>2, Zenon DEF Run, WaitForUpdate, WaitForUpgradeOrExit, Unlink, Download
    <2>3. ~Symlink /\ ~Install /\ ~Stop /\ ~Crash
      BY <1>2, Zenon DEF Symlink, Install, Stop, Crash
    <2>4. ~AtBound /\ ~UNCHANGED vars
      BY <1>2, Zenon DEF AtBound, vars
    <2>5. LaunchProcess
      BY <1>2, <2>1, <2>2, <2>3, <2>4, Zenon DEF Next
    <2>6. migrated' = info.name /\ info.height = height + 1 /\ height \in Nat
      BY <1>2, <2>5, Zenon DEF LaunchProcess, UpgradeStoreLoader, BaseInv, TypeOK
    <2> QED BY <1>2, <2>6 DEF BaseInv, PlanInv, Announced, Due
  <1>3. BaseInv /\ HandlerInv /\ VersionInv /\ [Next]_vars =>
          [/\ \A n \in Upgrades : done'[n] # done[n] => Recorded(n)
           /\ sup = "launch" /\ sup' = "wait" /\ migrated' # 0 => done[migrated'] = 0]_vars
    BY <1>1, <1>2, Zenon
  <1> QED BY <1>3, BaseInvariance, HandlerInvariance, OrderInvariance, PTL
          DEF Spec, UpgradedExactly

\* Once an upgrade is done, no block before the heights that may be skipped is run
\* by a binary from before it, and each finds the data as the version map says,
\* whatever the crashes while cosmovisor moves the link.
THEOREM NotBehind ==
    ASSUME Notice >= 2, InOrder
    PROVE  Spec => NeverBehind
  <1>1. ASSUME BaseInv, HandlerInv, OrderInv, VersionInv, [Next]_vars,
               height' # height, \A k \in Skips : height' < k
        PROVE  ~Behind(binary) /\ MapExact
    <2>1. RunBlock
      BY <1>1, OnlyBlocks, Zenon DEF state
    <2>2. /\ height \in Nat /\ height' = height + 1 /\ proc = "up" /\ CurrentBin = binary
          /\ skips \in {{}, Skips} /\ ~UpgradeNeeded(height + 1)
      BY <1>1, <2>1, CurrentFacts, Zenon DEF RunBlock, BaseInv, TypeOK, SwitchInv
    <2>3. BeforeSkips /\ ~IsSkipHeight(height + 1)
      BY <1>1, <2>2, EarlierHeights, Zenon DEF BeforeSkips, IsSkipHeight
    <2>4. CASE Due
      <3>1. Applies(height + 1)
        BY <1>1, <2>2, <2>3, <2>4, ExecutedWhenDue, Zenon DEF UpgradeNeeded, Applies, BaseInv
      <3> QED BY <1>1, <2>2, <2>3, <3>1, OwnBinary, Zenon DEF OrderInv, VersionInv
    <2>5. CASE ~Due
      BY <1>1, <2>2, <2>3, <2>5, Zenon DEF OrderInv, VersionInv, Announced
    <2> QED BY <2>4, <2>5, Zenon
  <1>2. BaseInv /\ HandlerInv /\ OrderInv /\ VersionInv /\ [Next]_vars =>
          [height' # height /\ (\A k \in Skips : height' < k) => ~Behind(binary) /\ MapExact]_vars
    BY <1>1, Zenon
  <1> QED BY <1>2, BaseInvariance, HandlerInvariance, OrderInvariance, PTL
          DEF Spec, NeverBehind

=============================================================================
