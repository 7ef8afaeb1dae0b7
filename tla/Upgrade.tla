------------------------------ MODULE Upgrade ------------------------------
(***************************************************************************)
(* A node that goes through software upgrades: the plan that governance    *)
(* puts in the state of x/upgrade, the BeginBlocker that stops the old     *)
(* binary and runs the handler of the new one, the store loader of the new *)
(* binary, and cosmovisor, which runs the node, scans its output for the   *)
(* line the BeginBlocker logs, and moves the `current` link.               *)
(*                                                                         *)
(* Blocks commit atomically here (BaseApp and MultiStore model how).       *)
(***************************************************************************)
EXTENDS Integers, FiniteSets

CONSTANTS
    Upgrades,               \* names; 0 is the genesis binary
    Handlers,               \* the upgrade handlers each binary registers
    Versions,               \* the consensus versions of the modules of each binary
    Migrations,             \* the migrations each registers, as <<module, from version>>
    Installed,              \* upgrade binaries in place before the first start
    Skips,                  \* heights the operator may give --unsafe-skip-upgrades
    AllowDownloadBinaries, RestartAfterUpgrade,
    Notice,                 \* the least distance of a plan from the block it passes in
    MaxHeight,              \* bound: blocks
    MaxCrashes              \* bound: crashes, and stops by the operator

Genesis  == 0
Binaries == Upgrades \cup {Genesis}
Missing  == -1
None     == [name |-> 0, height |-> 0]
Plans    == [name : Upgrades, height : 1 .. MaxHeight + 1]

ASSUME UpgradeAssumption ==
    /\ Upgrades \subseteq Nat \ {0} /\ IsFiniteSet(Upgrades)
    /\ Handlers \in [Binaries -> SUBSET Upgrades]
    /\ \A n \in Upgrades : n \in Handlers[n]
    /\ Handlers[Genesis] = {}
    /\ DOMAIN Versions = Binaries /\ DOMAIN Migrations = Binaries
    /\ \A b \in Binaries : \A m \in DOMAIN Versions[b] : Versions[b][m] \in Nat \ {0}
    /\ Installed \subseteq Upgrades /\ Skips \subseteq Nat
    /\ AllowDownloadBinaries \in BOOLEAN /\ RestartAfterUpgrade \in BOOLEAN
    /\ Notice \in Nat /\ MaxHeight \in Nat /\ MaxCrashes \in Nat

VARIABLES
    height, plan, done, version,    \* the committed state
    versions,       \* the module version map, part of it
    data,           \* the version the data of each module is in
    saved,          \* Tendermint's block store: the height it saved last
    info,           \* upgrade-info.json
    link,           \* where `current` points
    dir,            \* the directory of each upgrade: "absent", "partial", "ok"
    sup,            \* cosmovisor: "stopped", "launch", "wait", "upgrade", "unlinked"
    proc,           \* the node: "down", "up", "halted" by a panic, or "dead"
    binary,         \* the binary it runs
    migrated,       \* the upgrade whose store upgrades its loader ran
    appVersion,     \* BaseApp.appVersion
    printed,        \* the upgrade its output asks for
    seen,           \* WaitResult.info
    skips,          \* the skip heights it was started with
    crashes

state == <<height, plan, done, version, versions, data>>
disk  == <<info, link, dir>>
node  == <<proc, binary, migrated, appVersion, printed>>
vars  == <<state, saved, disk, sup, node, seen, skips, crashes>>

Init ==
    /\ height = 0 /\ plan = None /\ done = [n \in Upgrades |-> 0] /\ version = 0
    /\ versions = Versions[Genesis] /\ data = Versions[Genesis]
    /\ saved = 0 /\ info = None /\ link = Missing
    /\ dir = [n \in Upgrades |-> IF n \in Installed THEN "ok" ELSE "absent"]
    /\ sup = "stopped" /\ proc = "down" /\ binary = Genesis
    /\ migrated = 0 /\ appVersion = 0 /\ printed = 0 /\ seen = 0
    /\ skips = {} /\ crashes = 0

-----------------------------------------------------------------------------
(* x/upgrade, in block height + 1                                          *)

ShouldExecuteLate(p, h) == p # None /\ p.height < h
ShouldExecute(p, h)     == p # None /\ p.height <= h

HasHandler(name) == name \in Handlers[binary]

IsSkipHeight(h) == h \in skips

\* What BeginBlocker makes of the plan, and which panic stops it.
UpgradeNeeded(h) == ShouldExecute(plan, h) /\ ~IsSkipHeight(h) /\ ~HasHandler(plan.name)
TooEarly(h)      == plan # None /\ ~ShouldExecute(plan, h) /\ HasHandler(plan.name)
Applies(h)       == ShouldExecute(plan, h) /\ ~IsSkipHeight(h) /\ HasHandler(plan.name)

\* What a proposal may do to the plan p in the EndBlocker of block h:
\* nothing, cancel it, or schedule another one in its place.
ScheduleUpgrade(p, h, finished, q) ==
    q # None => q.height > h /\ finished[q.name] = 0
Proposed(p, h, finished, q) ==
    \/ q = p \/ q = None
    \/ q.height >= h + Notice /\ ScheduleUpgrade(p, h, finished, q)

\* runModuleMigrations: a module that is not new and beyond its first version
\* must have migrations, and those from its version on.
Migratable(b, m) ==
    /\ m \in {x[1] : x \in Migrations[b]}
    /\ \A i \in versions[m] .. Versions[b][m] - 1 : <<m, i>> \in Migrations[b]
CanMigrate(b) ==
    {m \in DOMAIN Versions[b] \cap DOMAIN versions : Versions[b][m] > 1 /\ ~Migratable(b, m)} = {}

\* RunMigrations: the modules of the binary, each with its data in a version that
\* is one higher for each migration, or as InitGenesis makes it for a new module.
RunMigrations(b) ==
    [m \in DOMAIN Versions[b] |->
        IF m \in DOMAIN versions THEN data[m] + Cardinality(versions[m] .. Versions[b][m] - 1)
        ELSE Versions[b][m]]

\* SetModuleVersionMap: the entries of new are written over those of old, and the
\* others stay.
Over(new, old) ==
    [m \in DOMAIN new \cup DOMAIN old |-> IF m \in DOMAIN new THEN new[m] ELSE old[m]]

\* A block whose BeginBlocker returns, and its commit. An upgrade leaves modules
\* that the binary no longer has in the version map.
RunBlock ==
    LET h == height + 1 IN
    /\ proc = "up" /\ height < MaxHeight
    /\ ~UpgradeNeeded(h) /\ ~TooEarly(h) /\ (Applies(h) => CanMigrate(binary))
    /\ LET after    == IF ShouldExecute(plan, h) THEN None ELSE plan
           finished == IF Applies(h) THEN [done EXCEPT ![plan.name] = h] ELSE done IN
       /\ done' = finished
       /\ \E q \in Plans \cup {None} : Proposed(after, h, finished, q) /\ plan' = q
    /\ data' = IF Applies(h) THEN Over(RunMigrations(binary), data) ELSE data
    /\ versions' = IF Applies(h) THEN Over(Versions[binary], versions) ELSE versions
    /\ version' = IF Applies(h) THEN version + 1 ELSE version
    /\ appVersion' = IF Applies(h) THEN version + 1 ELSE appVersion
    /\ height' = h /\ saved' = h
    /\ UNCHANGED <<disk, sup, proc, binary, migrated, printed, seen, skips, crashes>>

\* A panic in BeginBlock stops consensus and leaves the process running, but
\* ends it when the block comes from the handshake of a restart.
Panic(h) ==
    /\ proc' = IF saved >= h THEN "dead" ELSE "halted"
    /\ saved' = h
    /\ UNCHANGED <<state, link, dir, sup, binary, migrated, appVersion, seen, skips, crashes>>

\* The BeginBlocker of a binary without the handler writes upgrade-info.json,
\* logs the line cosmovisor waits for, and panics.
StopForUpgrade ==
    /\ proc = "up" /\ height < MaxHeight /\ UpgradeNeeded(height + 1)
    /\ info' = [name |-> plan.name, height |-> height + 1]
    /\ printed' = plan.name
    /\ Panic(height + 1)

\* The BeginBlocker of a binary that has the handler before the plan is due.
StopTooEarly ==
    /\ proc = "up" /\ height < MaxHeight /\ TooEarly(height + 1)
    /\ Panic(height + 1)
    /\ UNCHANGED <<info, printed>>

\* The handler returns the error of a migration that is missing.
StopInMigration ==
    /\ proc = "up" /\ height < MaxHeight /\ Applies(height + 1) /\ ~CanMigrate(binary)
    /\ Panic(height + 1)
    /\ UNCHANGED <<info, printed>>

-----------------------------------------------------------------------------
(* Cosmovisor                                                              *)

\* The operator, or a service manager, starts cosmovisor.
Run ==
    /\ sup = "stopped" /\ sup' = "launch" /\ skips' \in {{}, Skips}
    /\ UNCHANGED <<state, saved, disk, node, seen, crashes>>

CurrentBin == IF link = Missing THEN Genesis ELSE link

\* The store loader of binary b: whose store upgrades it runs while loading.
UpgradeStoreLoaderLate(b) ==
    IF info.height = height /\ info.name \in Handlers[b] /\ ~IsSkipHeight(info.height)
    THEN info.name ELSE 0
UpgradeStoreLoader(b) ==
    IF info.height = height + 1 /\ info.name \in Handlers[b] /\ ~IsSkipHeight(info.height)
    THEN info.name ELSE 0

\* LaunchProcess, up to the start of the node. BaseApp starts at version 0.
LaunchProcessRelinks ==
    /\ sup = "launch" /\ sup' = "wait"
    /\ link' = Genesis
    /\ proc' = "up" /\ binary' = CurrentBin
    /\ migrated' = UpgradeStoreLoader(CurrentBin)
    /\ appVersion' = 0 /\ printed' = 0 /\ seen' = 0
    /\ UNCHANGED <<state, saved, info, dir, skips, crashes>>
LaunchProcess ==
    /\ sup = "launch" /\ sup' = "wait"
    /\ link' = IF link = Missing THEN Genesis ELSE link
    /\ proc' = "up" /\ binary' = CurrentBin
    /\ migrated' = UpgradeStoreLoader(CurrentBin)
    /\ appVersion' = 0 /\ printed' = 0 /\ seen' = 0
    /\ UNCHANGED <<state, saved, info, dir, skips, crashes>>

\* A scanner reads the line, stores it and kills the process.
WaitForUpdate ==
    /\ sup = "wait" /\ proc \in {"halted", "dead"} /\ printed # 0 /\ seen = 0
    /\ seen' = printed /\ proc' = "dead"
    /\ UNCHANGED <<state, saved, disk, sup, binary, migrated, appVersion, printed, skips, crashes>>

\* cmd.Wait returns once the process is gone, whatever the scanners have read.
WaitForUpgradeOrExit ==
    /\ sup = "wait" /\ proc = "dead"
    /\ sup' = IF seen # 0 THEN "upgrade" ELSE "stopped"
    /\ proc' = "down" /\ printed' = 0
    /\ UNCHANGED <<state, saved, disk, binary, migrated, appVersion, seen, skips, crashes>>

\* DoUpgrade with the binary in place: SetCurrentUpgrade removes the link.
Unlink ==
    /\ sup = "upgrade" /\ dir[seen] = "ok"
    /\ link' = Missing /\ sup' = "unlinked"
    /\ UNCHANGED <<state, saved, info, dir, node, seen, skips, crashes>>

\* DoUpgrade without it: an error, unless a download may be tried and works.
Download ==
    /\ sup = "upgrade" /\ dir[seen] # "ok"
    /\ \/ sup' = "stopped" /\ UNCHANGED dir
       \/ /\ AllowDownloadBinaries /\ dir[seen] = "absent"
          /\ \/ dir' = [dir EXCEPT ![seen] = "partial"] /\ sup' = "stopped"
             \/ dir' = [dir EXCEPT ![seen] = "ok"] /\ UNCHANGED sup
    /\ UNCHANGED <<state, saved, info, link, node, seen, skips, crashes>>

SymlinkOld ==
    /\ sup = "unlinked" /\ link' = binary
    /\ sup' = IF RestartAfterUpgrade THEN "launch" ELSE "stopped"
    /\ UNCHANGED <<state, saved, info, dir, node, seen, skips, crashes>>
Symlink ==
    /\ sup = "unlinked" /\ link' = seen
    /\ sup' = IF RestartAfterUpgrade THEN "launch" ELSE "stopped"
    /\ UNCHANGED <<state, saved, info, dir, node, seen, skips, crashes>>

\* The operator puts a binary in place, over what a failed download left.
Install ==
    /\ \E n \in Upgrades : dir[n] # "ok" /\ dir' = [dir EXCEPT ![n] = "ok"]
    /\ UNCHANGED <<state, saved, info, link, sup, node, seen, skips, crashes>>

\* The node is told to stop, or reaches its halt height: cosmovisor ends too.
Stop ==
    /\ sup = "wait"
    /\ \/ proc \in {"up", "halted"} /\ crashes < MaxCrashes /\ crashes' = crashes + 1
       \/ proc = "halted" /\ printed = 0 /\ UNCHANGED crashes
    /\ proc' = "dead"
    /\ UNCHANGED <<state, saved, disk, sup, binary, migrated, appVersion, printed, seen, skips>>

\* The machine goes down, perhaps during a download.
Crash ==
    /\ sup # "stopped" /\ crashes < MaxCrashes /\ crashes' = crashes + 1
    /\ sup' = "stopped" /\ proc' = "down" /\ printed' = 0 /\ seen' = 0
    /\ \/ UNCHANGED dir
       \/ /\ sup = "upgrade" /\ AllowDownloadBinaries /\ dir[seen] = "absent"
          /\ dir' = [dir EXCEPT ![seen] = "partial"]
    /\ UNCHANGED <<state, saved, info, link, binary, migrated, appVersion, skips>>

AtBound == proc = "up" /\ height = MaxHeight /\ UNCHANGED vars

Next ==
    \/ RunBlock \/ StopForUpgrade \/ StopTooEarly \/ StopInMigration
    \/ Run \/ LaunchProcess \/ WaitForUpdate \/ WaitForUpgradeOrExit
    \/ Unlink \/ Download \/ Symlink \/ Install \/ Stop \/ Crash \/ AtBound

Spec == Init /\ [][Next]_vars

\* Blocks keep coming, cosmovisor's steps are taken, and it is started again
\* when it ends. Nothing makes a scanner read before cmd.Wait returns.
FairSpec ==
    /\ Spec
    /\ WF_vars(RunBlock) /\ WF_vars(StopForUpgrade) /\ WF_vars(StopTooEarly)
    /\ WF_vars(StopInMigration)
    /\ WF_vars(Run) /\ WF_vars(LaunchProcess) /\ WF_vars(WaitForUpdate)
    /\ WF_vars(WaitForUpgradeOrExit) /\ WF_vars(Unlink) /\ WF_vars(Symlink)

-----------------------------------------------------------------------------
(* Properties                                                              *)

\* "The purpose is to ensure the binary is switched EXACTLY at the desired
\* block" (x/upgrade/abci.go): no block at or past the height of a plan is
\* committed while the plan stands, through restarts, crashes, skips and
\* reschedules.
NoBlockPastPlan == plan # None => height < plan.height

\* Releases come one after the other: of two binaries one has all the handlers of
\* the other, and no module goes back to an earlier version.
InOrder ==
    /\ \A b, n \in Upgrades : n \notin Handlers[b] => Handlers[b] \subseteq Handlers[n]
    /\ \A b \in Upgrades : \A k \in Handlers[b] \cup {Genesis} :
          \A m \in DOMAIN Versions[b] \cap DOMAIN Versions[k] : Versions[k][m] <= Versions[b][m]

\* A binary is behind when it does not know an upgrade that is done.
Behind(b) == \E n \in Upgrades : done[n] # 0 /\ n \notin Handlers[b]

\* The module version map tells the version the data is in.
MapExact == \A m \in DOMAIN versions : data[m] = versions[m]

\* The record of upgrade n in a block.
Recorded(n) ==
    /\ done[n] = 0
    /\ plan = [name |-> n, height |-> done'[n]]
    /\ binary = n /\ migrated = n
    /\ ~Behind(n) /\ MapExact =>
          \A m \in DOMAIN Versions[n] :
              data'[m] = Versions[n][m] /\ versions'[m] = Versions[n][m]

\* An upgrade is recorded as done at the height its plan named, once, by its own
\* binary, and in a process whose store loader ran the store upgrades that go with
\* it. A binary that is not behind leaves the data of each of its modules in the
\* version it expects, and the version map says so, whatever upgrades were skipped.
\* Once the block of the upgrade is committed no process runs the store upgrades
\* again: the store loader compares the height of upgrade-info.json with the last
\* commit. Plans leave a block between the one they pass in and their own
\* (Notice >= 2): one for the very next block is run by a binary that has the
\* handler already, without the store upgrades.
UpgradedExactly ==
    [][/\ \A n \in Upgrades : done'[n] # done[n] => Recorded(n)
       /\ sup = "launch" /\ sup' = "wait" /\ migrated' # 0 => done[migrated'] = 0]_vars

\* Once an upgrade is done, no block is run by a binary from before it, and each
\* block finds the data as the version map says, whatever the crashes between the
\* removal of the `current` link and its creation: the genesis binary stops again at
\* the same height. That is the only thing that stops it, so this is about the
\* heights before those that may be skipped. (A skip lets the genesis binary run on;
\* an upgrade older than the last one may then be scheduled and applied, with no
\* migration back and a version map that says otherwise.)
NeverBehind ==
    [][height' # height /\ (\A k \in Skips : height' < k) => ~Behind(binary) /\ MapExact]_vars

\* A node that has stopped for an upgrade gets past its height, once there are
\* no more crashes, the binary is in place and it has the migrations from the
\* versions in the state: the line is read, the process killed, the link moved, the
\* new binary started and its handler run. (The lines of the output fit the
\* scanner's buffer: a longer one ends WaitForUpdate with an error, and then nobody
\* reads the line of the upgrade.)
UpgradeCompletes ==
    \A n \in Upgrades, h \in 0 .. MaxHeight - 1 :
        (/\ proc = "halted" /\ printed = n /\ dir[n] = "ok" /\ CanMigrate(n)
         /\ height = h /\ crashes = MaxCrashes)
            ~> height > h
=============================================================================
