# TLA+ models of the Cosmos SDK node

This directory keeps TLA+ specifications of the parts of this repository (a fork of the
Cosmos SDK, v0.44) that are hard to test: what survives a crash, what concurrent goroutines
and processes do to each other, and what long sequences of legal calls lead to. The modules
are model-checked with TLC on small instances; the safety of the multi-store, on which
everything else rests, of the cache store, block retention, snapshots, BaseApp, capabilities,
upgrades and governance is also proved with TLAPS for every size. `PROJECT.json` maps each
definition to the lines it models, and lists the runs, the theorems, the hazards and the
findings.

    tlc -config MCMultiStore.cfg MCMultiStore      # model-check one module
    tlapm MultiStoreProofs.tla                     # check the proofs of one module

Paths below are relative to the root of the repository.

## 1. The system and its parts

A node is one process (plus cosmovisor, which starts it). Tendermint calls the application
over ABCI; the application keeps its state in a versioned store.

| part | code | what it does, and with whom |
|---|---|---|
| commit multi-store | `store/rootmulti`, `store/iavl` | one IAVL tree per module; commits them together, prunes, reloads after a crash, exports and imports snapshots. Called by BaseApp and by the snapshot goroutines |
| branches of the store | `store/cachekv`, `store/cachemulti` | a private copy for each transaction, for CheckTx and for the block; written back or dropped by BaseApp |
| other store wrappers | `store/{gaskv,prefix,cache,tracekv,listenkv,mem,transient,dbadapter}` | gas, prefixes, caches and tracing around one store |
| BaseApp | `baseapp` | InitChain, BeginBlock, DeliverTx, EndBlock, Commit, CheckTx, Query; owns the check and deliver states and the gas meters |
| ante handler | `x/auth/ante` | fees, sequence numbers, signatures, timeouts, before the messages of a transaction |
| state-sync snapshots | `snapshots` | goroutines that BaseApp starts after Commit; the restore that Tendermint drives chunk by chunk |
| block retention | `baseapp/abci.go` | tells Tendermint which blocks it may forget |
| capability | `x/capability` | object capabilities for modules, kept half in the state and half in the memory of the process |
| upgrade, cosmovisor | `x/upgrade`, `cosmovisor` | stop the old binary at the height of a plan, swap it, run the handler of the new one |
| governance | `x/gov` | proposals, deposits, votes, and the execution of what passes in other modules (params, distribution, upgrade) |
| staking, slashing, evidence | `x/staking`, `x/slashing`, `x/evidence` | validators, delegations, unbonding, slashing; their hooks drive distribution |
| distribution, mint | `x/distribution`, `x/mint` | rewards, the community pool, inflation |
| bank, auth, vesting | `x/bank`, `x/auth` | balances, supply, accounts, locked coins |
| feegrant, authz | `x/feegrant`, `x/authz` | acting with the fees, or the rights, of another account |
| params, crisis, genutil, simulation | `x/...` | parameters, invariant checks, genesis, test driver |
| module manager | `types/module` | the order of modules, and migrations |
| numbers and coins | `types` | decimals, integers, sorted coins |
| codec, keys, client, server, simapp, telemetry | the rest | encodings, cryptography, command lines, gateways, examples |

The interactions that decide whether a node is correct: Tendermint replays blocks after a
crash, and the multi-store must be where it believes it is; the snapshot goroutine reads the
store that blocks prune; CheckTx, simulations and DeliverTx share the process but must not
share state; cosmovisor only sees the node through its log and its exit; a governance
proposal changes the parameters under which other proposals are pending; Tendermint learns
the validator set by differences only, two blocks late, and reports votes and evidence about
sets that are gone; staking tells slashing and distribution of every change by hooks, before
or after it; a fee may be paid from, and a message run for, an account that did not sign; and
a chain may be exported and started again from what the modules wrote.

## 2. Modules

| module | models | abstract specification |
|---|---|---|
| `MultiStore` | `store/rootmulti/store.go`, `store/iavl/store.go`, the parts of `baseapp` that call them | `AtomicStore` |
| `SnapshotManager` | `snapshots/*.go`, `BaseApp.snapshot`, the ABCI snapshot calls | |
| `BaseApp` | `baseapp/*.go` and the decorators of `x/auth/ante` | |
| `CacheKV` | `store/cachekv` | `KVStore` |
| `BlockRetention` | `GetBlockRetentionHeight` and what Tendermint does with it | |
| `Capability` | `x/capability`, `store/mem` | |
| `Upgrade` | `x/upgrade` composed with `cosmovisor` | |
| `Dec`, `Stores` | the decimals of `types/decimal.go`; what all keepers below share (stores, panics, ordered loops) | |
| `Gov` | `x/gov`, the proposal handlers of `x/params` and `x/distribution` | |
| `Validators`, `Staking` | `x/staking`: the validator record, the keeper | |
| `Slashing` | `x/slashing` and `x/evidence` composed with `Staking` and Tendermint | |
| `Mint`, `Distribution` | `x/mint` and `x/distribution` composed with `Staking`; `simapp/export.go` | |
| `Vesting`, `Bank` | `x/auth/vesting`, the keepers of `x/auth` and `x/bank` | |
| `FeeGrant`, `Authz` | `x/feegrant`, `x/authz` with the authorizations of bank and staking | |
| `Accounts` | `Bank`, `FeeGrant` and `Authz` composed, under transactions with fees | |
| `*Proofs` | theorems about the module they are named after: `MultiStore`, `CacheKV`, `BlockRetention`, `SnapshotManager`, `BaseApp`, `Capability`, `Upgrade`, `Gov` | |
| `MC*` | the constants of the runs; `MCBranches` is `CacheKV` and `Capability`, `MCBaseApp` is `BaseApp` and `BlockRetention`, side by side | |

**MultiStore.** Every durable write is a step: `CommitStore` saves one sub-store,
`PruneStore` deletes the pruned heights of one, `FlushMetadata` is the atomic batch with the
commit info, the latest version and the heights to prune. `Crash` may fall between any two,
and `LoadLatestVersion` is what the next start makes of the disk. The goroutine of a snapshot
(`Snapshot`, `ExportStore`, `CloseExporter`, `EndSnapshot`) runs beside the commits;
`BeginRestore`, `ImportStore` and `EndRestore` are a state sync. The content of a sub-store is
the number of the last block applied to it, or `Bad` when blocks were applied twice or out of
order. The IAVL library is external: a map from versions to roots, with the errors its
callers can meet (a version that is missing, a version that has an open export). The history
variable `cut` notes that a process died between the first sub-store's save and the first
flush, in a first commit or in a restore; section 5 says what follows.
`AtomicStore` is one store that commits a block or restores a snapshot in a single step; the
refinement mapping reads the sub-stores through the metadata, as a restarted node would.

**SnapshotManager.** The state of `snapshots.Store` (metadata in the database, chunk files),
of the manager (the running operation, the chunk channel) and the position of each goroutine:
one per height taken (`BeginCreate` to `RemoveDir`), the exporter that feeds it, the restorer
and the ABCI call that hands chunks over while it holds the mutex. File writes and exports
may fail, the process may crash.

**BaseApp.** `log` is what consensus decided, `committed` what the multi-store holds, and the
check and deliver branches are states of their own. `runTx` is an operator that follows the
source: the block gas test, the ante handler on its branch, the messages on theirs,
the deferred recovery and the deferred charge to the block. A transaction is a record of
what matters (sequence, fee, gas limit, timeout, and messages that succeed, fail, panic or use
gas). After a crash `BeginBlock` replays the blocks that were not committed. The reference it is
compared with is `Replay`, the state after each block, where `Execution` is the state after each
transaction of one: recursive functions of the log, which no crash and no check enters. `cold`
has the blocks that some process ran as its first after a restart.

**CacheKV.** The map, the dirty flags, the deleted and the unsorted keys and the lazily
sorted copy are separate variables, as in the code; `OpenIterator`, `Skip`, `Valid`, `CallNext` and
`Advance` are the merge iterator, so that writes fall between its steps. `KVStore` is a plain
map with a branch.

**BlockRetention.** One action, a commit, over every small combination of the options.

**Capability.** The persistent owners and the memory store live in the branches of the state
(`committed`, `deliver`, `tx`); the Go map `capMap` does not. Transactions commit, abort or are
simulated, modules claim what they hold under any name. The history variable `torn` becomes
true when a branch is dropped that wrote or removed the map's entry of a capability with
owners (`Torn`), or a claim is made that no caller should make (`OutOfTurn`): from there on map
and store disagree, and the properties say nothing more.

**Upgrade.** The chain (plan, handlers done), the node (its binary, its store loader, what it
logged) and cosmovisor (`Run`, `LaunchProcess`, `WaitForUpdate`, `WaitForUpgradeOrExit`,
`Download`, `Unlink`, `Symlink`) interleave; crashes hit between any two steps on disk. The
state also has the version map and, for each module, the version its data is really in:
`RunMigrations` takes the second where the handler's steps lead from the first, or stops
(`StopInMigration`) when a step is missing.

**Gov.** Messages (`SubmitProposal`, `AddDeposit`, `AddVote`) and the EndBlocker, one proposal
per step (`DropInactive`, `TallyActive`). Handlers are operators that return the outcome and
the state they would leave; `Execute` keeps it only on success. The tally is computed in the
fixed-point decimals of `Dec`, with `One` smallest units to 1 (10^18 in the code). Staking is
what the tally reads of it and changes at will (`StakeChanges`).

**Staking** has no actions of its own. The state of the application is a record `app`, and a
keeper method is an operator from one state to the next, so that a whole block, with all the
calls and hooks it makes, is one step, as it is for every observer of the chain. An error
undoes the message; a panic is noted in `app.panic`, and the properties say there is none in a
BeginBlocker or an EndBlocker. The hooks are constant operators that `Slashing` and
`Distribution` substitute with theirs (`INSTANCE Staking WITH`), which is how the application
wires the modules.

**Slashing.** `NextBlock` is Tendermint's choice of who signed and which evidence to hand over,
followed by the BeginBlockers; `DeliverTx` is any message; `EndBlock` sends the updates.
Tendermint (external) applies the updates of block h to the validators of h + 2. Evidence is
about any earlier block, may come twice or after the validator is gone.

**Distribution.** The same shape with mint and distribution: the votes of the last block share
what was minted and the fees; slashes hit any voter (`Slashing` has the reasons). `ExportImport`
exports the state as it is or for height zero, which withdraws everything and starts the
periods anew.

**Accounts.** A transaction is a fee, paid by the signer or from an allowance, and one message,
whose effects remain only if it succeeds. There is one validator, with tokens, shares and
unbonding entries as in `Staking`, so that a delegation returns what rounding and slashes leave
of it, a while later. `NextBlock` ends a block, pays out what has unbonded, mints, and may slash
the validator for this block or an earlier one. Block times step to the edges of vesting
schedules, periods and expirations. Two history variables keep what was charged under each
allowance, and when, and what was executed under each authorization.

**Export and import** is an action of `Gov`, `Capability`, `Slashing`, `Distribution` and
`Accounts`: the state becomes what `InitGenesis` makes of `ExportGenesis`, so the invariants and
histories of the old chain bind the new one.

## 3. What is checked

Each run is one instance of one module, or of two that do not meet and are run side by side.
All of them finish within a few minutes.

| run | shows | instance |
|---|---|---|
| `multistore` | `LatestLoadable`: the version the metadata names can be loaded, and holds the blocks up to it unless a first commit or a restore was cut short. `Retained`, `NoLeakedVersion`: what the options promise is kept, and nothing else for good. `SnapshotComplete`: an export has the content of its height. `AtomicCommit`: refinement of `AtomicStore`. `CatchesUp`: the node gets past every block it began | 2 sub-stores, KeepRecent 1, KeepEvery 3, Interval 2, snapshots every 3 blocks, state sync, 9 versions, 2 crashes |
| `snapshots` | `ListedComplete`: a listed snapshot has its chunks. `NewestKept`: as long as the newest snapshot on record can be fetched, one as new is left by every step. `CompleteMeansRestored`: a restore reported complete has read its stream to the end and found it valid. `ExporterEnds`, `ApplyReturns`: nobody waits for ever | 2 chunks, channel of 1, 3 heights of which 1 is kept, 1 crash, 1 failure |
| `baseapp` | `Deterministic`: what was committed is a function of the blocks (with one exception, section 5), and the check state follows it. `OnceAndWhole`: a signed transaction takes effect once, all of its messages or none. `BlockGasBounded`. `WindowsKept`: the blocks needed for replay stay, and a window is only cut where its bound is height 0 | six transactions of different fates, 2 blocks of up to 2, block gas 4, a restart that uses gas, 1 crash; retention options up to 4, 10 heights |
| `branches` | `Branch`: refinement of `KVStore`. `IteratorExact`: an iterator returns the keys of its domain once and in order, with values they had while it was open. `NeverMissing`, `OwnerAuthenticates`, `RestartInvisible`: until map and store are torn apart, what a module finds by name is there, authenticates, and is the same after a restart or an import | 2 keys, 2 values, sorting threshold 2, 3 writes, domains with both ends; 2 modules, 2 names, 3 addresses, `MaxIndex` 3, 1 crash or export |
| `upgrade` | `NoBlockPastPlan`, `UpgradedExactly`, `NeverBehind`: an upgrade is done once, at its height, by its own binary, after the store upgrades; a binary that is not behind leaves all data in its versions; before a skip no older binary runs a block. `UpgradeCompletes`: a node that stopped for an upgrade gets past it | 3 upgrades, binaries in place and to download, skip height 7, four modules of up to 3 versions, one of which comes with an upgrade and one of which goes, 8 blocks, 2 crashes |
| `gov` | `CoinsExact`: the module account holds the deposits of pending proposals, no coin is made or lost, the pool pays each passed spend once. `QueuesExact`: the queues are the pending proposals under their own end times. `TallyExact`: every share counts once, with its delegator's vote or else its validator's, up to rounding. `EventuallyDecided` | 2 operators of whom one delegates to the other, 2 proposals, 3 ballots (yes, veto, a split one), 2 stakes, 5 block times |
| `slashing` | `StakeExact`: pools, shares and the power index are exact and no assertion fails but that of `slash_redelegation`. `TendermintAgrees`: what Tendermint makes of the updates is the elected set. `QueuesExact`: nothing that waits is lost or left behind. `MissedExact`: the counter is that of the window, and evidence that comes again changes nothing | 2 validators for 1 seat, 3 delegators, window of 2, unbonding time 2, 6 blocks, 2 messages, 2 incidents (infractions, the last of them perhaps an export) |
| `distribution` | `AccountExact`: the module account is exact to the last digit. `ReferencesExact`: period records live as long as they are referred to. `RewardsCovered`: everybody could withdraw at once. `NoDilution`: nobody's rewards change by what another does | 2 validators of different commission, 3 delegators, 3 blocks, 2 messages, 2 incidents of which at most 1 export, a withdraw address that is blocked |
| `accounts` | `BooksExact`: supply, balances, staking pools and account numbers agree, and nothing panics. `VestingHeld`: unvested coins leave by delegation only. `AllowanceExact`, `AuthorizationExact`: no more than the limits, of a period too, and nothing after the end | 3 accounts, a validator, 3 vesting schedules, transfers enabled and not, 20 messages, 3 transactions, 5 block times, 1 slash, 1 payout, exports at will |

The modules have no type invariants among these, with the exception of `MultiStore`; those that the
proofs need are in the `*Proofs` modules.

Three runs end in a counterexample.

- `feegrant_filtered`: an `AllowedMsgAllowance` compares each fee with the limit of the allowance
  it wraps and stores that allowance as it was, so the limit is never lowered; `feegrant.proto`
  says of `spend_limit` that it "will be updated as tokens are spent". `AllowanceExact` is about
  the other kinds.
- `feegrant_period`: `tryResetPeriod` at a block time that is exactly a period after the reset sets
  the next reset to that time, so that a second use in the block tops the allowance up again;
  `feegrant.proto` says that `period_spend_limit` is "the maximum number of coins that can be
  spent in the period". The history variable notes these times (`ends`), and `AllowanceExact`
  allows twice the limit in a period that begins at one and in no other.
- `slash_redelegation`: `SlashRedelegation` unbonds from the destination validator and then
  asserts that it can be found, to know the pool to burn from. `Unbond` removes an unbonded
  validator with its last shares, and the assertion fails, in BeginBlock. `StakeExact` and
  `RewardsCovered` exclude every panic but this one.

### Bounds, and why they are enough

Bounds are constants named `Max...`; guards stop at them and an `AtBound` step keeps the last
state from being a deadlock where the module needs one. They are chosen so that every
interesting case happens, which the mutants confirm: for each property there is a plausible
mistake (a dropped guard, a swapped order, an off-by-one) that the same run reports.

- Two sub-stores are the least for which a crash can separate them; 9 versions are three
  periods of KeepEvery and of the snapshots, with the pruning interval out of step with
  both; a second crash hits the recovery from the first.
- With a channel of one and two chunks the sender blocks, and there is a chunk that is not
  the last. Three heights make pruning meet a snapshot being taken.
- Two blocks of two transactions allow a replay of a block whose predecessor changed the
  account, and a transaction delivered twice in a block, or in two.
- Two keys with a threshold of 2 take both branches of `dirtyItems`; 3 writes are set, delete
  and set again of one key while an iterator is open.
- Retention is linear in its options, and 10 heights exceed every window that options up to 4
  make (`snapshotInterval * snapshotKeepRecent` is 8).
- Two modules and two names are the least for a claim by another module and for a second
  name; an address may be handed out again.
- Three upgrades make one follow the other with `upgrade-info.json` still there, and one come
  due in a binary that skipped the one before; the skip height, the download and the two
  crashes interleave. The skip height is past that of two upgrades, so that what `NeverBehind`
  says of the heights before it is about both.
- Two proposals make one change the parameters, or spend the pool, under the other; 100
  smallest units and shares that do not divide the tokens make the tally round.
- One seat for two validators makes every jailing, unjailing and change of stake an election;
  a slash of tokens that PowerReduction does not divide changes tokens and not power. Six
  blocks are a window of two, its punishment, the jail time, the unbonding time and an
  election after it. Two messages are an unbonding or redelegation and what happens to it; two
  incidents are an infraction and another, the same evidence again, or an export. The fork
  height in the middle has validators created under both rules for the commission.
- In `Distribution` a slash and a redelegation slash fit into one block after an allocation;
  100 smallest units and rates that do not divide make every operation round, and 3 blocks
  hold a delegation's start, an allocation after a slash, and its end.
- In `Accounts` the time steps 1 and 3 hit the ends of periods of 2 exactly, early, and more than
  one period late; 3 transactions are a grant and two uses, or a delegation, an undelegation
  after a slash, and an attempt to spend. A slash of half leaves 2 shares to a token, so that
  what is undelegated rounds.
- Four modules are one that every binary migrates, one with a step missing after a skipped
  upgrade, a new one and a removed one.

The runs of `Slashing`, `Distribution` and `Accounts` stop at their bounds (CHECK_DEADLOCK FALSE):
after the last block, or after a panic, which the invariants exclude.

Symmetry is used for the values of `CacheKV` and the modules and addresses of `Capability`,
in runs without liveness. `MCBranches` does not go on from a state in which map and store are
torn apart (`Whole`): they stay so, and its properties have nothing more to say.

### Fairness, and why the code justifies it

- `MultiStore`: weak fairness of the process and of the exporting goroutine. A started
  process is scheduled, and a crashed one is started again; crashes are bounded and not fair.
- `SnapshotManager`: weak fairness of the steps of each goroutine (taking a snapshot, handing
  over a chunk, restoring), which is Go's scheduler. Commits, offers of snapshots, failures and
  crashes need not happen.
- `Upgrade`: weak fairness of blocks, of the steps of cosmovisor, and of its restart by a
  service manager. No fairness makes a scanner read a line before `cmd.Wait` returns, and
  completion is claimed only where the new binary has the migrations it needs.
- `Gov`: weak fairness of the steps of the EndBlocker and of the next block. `Dequeues` is a
  step of `TallyActive` seen from its queue. Nobody has to deposit or vote.

The other modules are checked for safety only.

## 4. What is proved

### MultiStore

`MultiStoreProofs` proves, for every set of sub-stores, every choice of the options that
satisfies `SafeOptions`, and every bound on versions and crashes:

| theorem | statement |
|---|---|
| `TypeCorrect` | `Spec => []TypeOK` |
| `LatestAlwaysLoadable` | `Spec => []LatestLoadable` |
| `NeverPanics` | `Spec => []NoPanic` |
| `VersionsRetained` | `Spec => []Retained` |
| `SnapshotsComplete` | `Spec => []SnapshotComplete` |
| `NoVersionLeaks` | `Spec => []NoLeakedVersion` |
| `AppHashFinal` | the commit info of a flushed version never changes, replays included |
| `CommitIsAtomic` | `Spec => AtomicCommit`, the refinement of `AtomicStore` |

`SafeOptions`: KeepRecent is at least 1 or KeepEvery is 1, so that nothing is pruned (without
this a crash between pruning and flush loses the latest version, see section 5), and the heights
snapshotted are multiples of a KeepEvery that is not 0. Both hold for `PruneDefault` and `PruneNothing` of
`store/types/pruning.go` with every snapshot interval that `BaseApp.init` accepts; they do not
for `PruneEverything`. Nothing else is assumed but that the options and bounds are natural
numbers and that there is a sub-store.

Crashes may fall anywhere. `LatestLoadable` holds through all of them; the others are about nodes
whose first commit or restore was not cut short (`cut`).

None of the invariants is inductive: that the latest version can be loaded depends on where
an interrupted commit left each sub-store and on which heights are still to be pruned. The
inductive invariant is `IInv`, the conjunction of

- `TypeOK`;
- `DiskInv`: every saved root is that of its own version; the latest version is complete in
  every sub-store; nothing is more than one commit ahead of it, and before the first flush
  only the version being committed or restored exists; commit infos belong to flushed versions;
- `MemInv`: where each phase leaves the trees (a sub-store that `commitStores` has visited is
  one version ahead, the others hold the writes of the block);
- `HeightInv`: heights scheduled for pruning, in memory or on disk, are at most
  `latestVersion - KeepRecent` and no multiples of KeepEvery, and every other flushed version
  is in every sub-store. This makes it safe to prune before the flush, and to prune again
  what a crash had left on the list;
- `SnapInv`: heights pending or under export are kept heights, and what was exported is theirs.

There is one lemma per action; `NextIInv` puts them together, `Invariance` is
`Spec => [](cut \/ IInv)`, and `RefinementStep` maps each step to a step of `AtomicStore` or a stutter.

`NoVersionLeaks` needs more, `LeakInv`: of the heights that the next commit will prune
(`Scheduled`) a sub-store has all or none. It has none only when a crash hit the pruning, and then
the commit that is replayed prunes again; so the library, which gives up a whole batch when one
version of it is missing, never skips a version that is there.

After a first commit or a restore that was cut short the sub-stores may be at different versions,
and `IInv` is lost. What is left is `LoadInv`: the commit info flushed last names, for each
sub-store, a version that is saved with that root and not below the latest version; a commit in
progress only adds to these, and what is pruned is older. It is inductive for all crashes
(`LoadInvariance`) and gives `TypeCorrect` and `LatestAlwaysLoadable`.

### CacheKV and BlockRetention

`CacheKVProofs` proves `CacheIsBranch`, `CacheSpec => Branch`: for every set of keys and of values, every
set of domains and every sorting threshold the cache implements a plain map with a branch.
`FlagsInv` is inductive: a cached key that is not dirty has the parent's value, and of the dirty
keys exactly those without a value are marked deleted. So `Write` leaves the parent equal to
what the branch showed. Iterating moves keys between copies and changes neither.

It also proves `IteratorIsExact`, `CacheSpec => IteratorExact`, from `SafeIterators`: there are finitely many
keys, and no iterator has a start and no end (section 5). `SortedInv` says that a dirty key is in
the sorted copy with its value of now or still to be sorted; `MergeInv` that a key nobody changed
has its value in the cache's iterator, or only in the parent's and then the parent's value;
`OrderInv` that what was read comes before what is left; `ReadInv` that a key nobody changed was
read, with its value, or is left. Together they are inductive under writes in mid-iteration.
They also exclude the panic of `Next`: the key it moves from is the one that was read, and
`lastKey` keeps it from being skipped when it was deleted since.

`BlockRetentionProofs` proves `WindowsAlwaysKept`, `RetentionSpec => WindowsKept`, for all options and all
heights. The argument is that `minNonZero` of constraints meets each that is not 0
(`RetentionMeets`), and that rounding a height down to a multiple is monotonic
(`RoundedGrows`), so that a later commit does not need blocks an earlier one gave up.

### SnapshotManager

`SnapshotManagerProofs` proves `ListedIsComplete` (`Spec => []ListedComplete`), `NewestIsKept`
(`Spec => NewestKept`) and `CompleteIsRestored` (`Spec => CompleteMeansRestored`), for any number of
chunks, heights, crashes and failures and any capacity of the channel. `IInv` says that one
goroutine at a time is inside an operation (`OneOperation`); that `Save` works on a height above
all listed ones, with the chunks before `index` whole (`SaveInv`); that `Prune` has a listed
snapshot above all it has still to delete (`PruneInv`); and that the channel holds the chunks from
the next one to read to the last one sent, in order (`RestoreInv`). The last is what makes
"complete" mean complete: the goroutine that returns without an error has emptied it.

### Upgrade

`UpgradeProofs` proves `PlanIsRespected` (`Spec => []NoBlockPastPlan`) without conditions, and
`UpgradedAsPlanned` (`Spec => UpgradedExactly`) and `NotBehind` (`Spec => NeverBehind`) from `Notice >= 2`
and `InOrder`, which the run's instance satisfies. `Notice >= 2`: a plan leaves a block between
the one it passes in and its own, in which a binary that has the handler too soon stops; section 5 says what happens without it. A
proposal may be scheduled for the very next block, so this is an assumption about its authors.
`InOrder`: of two releases one has all the handlers of the other, and no module goes back to an
earlier version.

The chain of invariants follows the switch: `PlanInv` and `SwitchInv` (cosmovisor only acts on an
upgrade that is due and announced in `upgrade-info.json`), then `HandlerInv` (a binary with the
handler of what is due was switched to, and its loader ran the store upgrades), then `OrderInv`
and `VersionInv` (before a skip no binary is behind but the genesis binary after a lost link,
which stops at once; the version map is put together from upgrades that are done).

### Capability

`CapabilityProofs` proves `NoCapabilityMissing` (`Spec => []NeverMissing`), `OwnersAuthenticate`
(`Spec => []OwnerAuthenticates`) and `RestartIsInvisible` (`Spec => []RestartInvisible`), for any
modules, names and addresses and without conditions on the calls; the three speak of a node that
is not `torn`. What makes it hard is that a failing or simulated transaction rolls back the stores
and not the Go map. `IInv` is `torn \/ Intact`, and `Intact` has `Linked`, which ties the owners, both
indexes and the map together, for the branch of the transaction and, unless dropping it now
would tear them apart (`Torn`), for the state of the block as well: entries that a dropped branch
left behind are at indices without owners.

### BaseApp

`BaseAppProofs` proves, for any transactions, gas limits, initial height and numbers of blocks,
checks and crashes:

- `EffectsOnceAndWhole`, `Spec => []OnceAndWhole`. `SoundInv` adds that the sequence number of a state
  is past that of each transaction that took effect in it, so a second delivery fails in the
  ante handler;
- `BlockGasIsBounded`, `Spec => []BlockGasBounded`;
- `NodesAgree`, `Spec => []Deterministic`, whatever gas a restart uses: `Deterministic` itself names
  the blocks it may change (section 5). `ReplayInv` places the process in the reference
  execution: what is durable, what the next block starts with, and how far the current one is. `Replay` and `Execution` are
  recursive functions; that they are what their definitions say is itself proved
  (`Recursion`), by induction over sets of numbers.

`TxsAssumption` is what the model takes a transaction to be: an identity of its own and
numbers that are natural.

### Gov

`GovProofs` proves `QueuesAreExact` (`Spec => []QueuesExact`) and `CoinsAreExact`
(`Spec => []CoinsExact`), for any accounts, contents, ballots, stakes and deposits and any numbers of
proposals and blocks. `GovAssumption` and `ContentsAssumption` only give types: accounts are
finitely many, amounts natural, parameters numbers, the recipient of a spend an account.

- `BaseInv`: types, what is kept of a proposal in each status (`KeptInv`: no deposits once it is
  decided, votes only while voting) and the queues as functions of the proposals
  (`QueueInv`). That a parameter change moves the periods under pending proposals is harmless
  because end times are stored; that the EndBlocker finds the entry to remove is
  because the first entry that is due is that of its proposal (`FirstInactive`, `FirstActive`).
- `Books`: the account is the sum of all deposits, a pending proposal's deposits are its total,
  and the pool is short of genesis by the passed spends. `HeldFits` follows: the account can
  always pay back or burn the deposits of one proposal, so the EndBlocker does not panic, and
  after an export `InitGenesis` finds the total it expects.

The sums are `SumFunction` of the community modules, a recursive fold. The lemmas about them
(`SumIs`, `SumExcept`, `SumAdd`, `SumNat`) rest on `SetInduction`, the induction over finite sets
in the form "a set of subsets that has the empty one and is closed under adding an element
has them all", which is proved from the library's well-founded orders.

### Only model-checked

- Every liveness property: fairness and ENABLED are beyond the prover.
- `TallyExact` of `Gov`, which needs the rounding of sums of quotients.
- `Staking`, `Slashing`, `Distribution`, `Mint`, `Bank`, `FeeGrant`, `Authz` and `Accounts`. Their steps are
  whole blocks or transactions, made of folds of keeper methods over the stores: an invariant
  holds only before and after the fold, and needs one of its own, by induction, for each loop.

## 5. Behaviour worth knowing

These were met while modelling. The passing runs leave them out by the constants, guards or
history variables named here, which also reproduce them. The three runs of section 3 that end in
a counterexample are not repeated.

Store and snapshots:

- With KeepRecent 0 and KeepEvery 0 (`PruneEverything`), `pruneStores` removes the version that
  the metadata on disk still names; a crash before `flushMetadata` leaves nothing to load
  (`LatestLoadable`).
- A crash inside the very first commit or inside a restore (`cut`) leaves saved sub-stores under
  an empty metadata. Version 0 means "latest" to the library, so these are loaded with the
  writes of the block that is replayed on top of them, and a new restore is refused.
- With KeepEvery 0 `BaseApp.init` accepts snapshots, and the height under export may be pruned.
- A query at a pruned height reads an empty tree (`GetImmutable` of `store/iavl`); `Retained` says
  which heights answer.
- An export that fails before its first chunk is recorded as a snapshot of zero chunks, because
  `ChunkWriter.CloseWithError` has no pipe to close (add the invariant `RecordedIsComplete` to the run).
  `Prune` counts it like any other, so that with KeepRecent 1 it costs the only one that can be
  fetched.
- A restore ends with the end of its stream: chunks of the offer that come after it are not read.
- `RestoreChunk` polls for an error of the restore without waiting: a chunk may be accepted
  after the restore failed. The next chunk, or the last, reports it.
- `dirtyItems` compares a nil end as an empty string: an iterator with a start and no end can
  miss cached writes. A key deleted before and set again during an iteration is returned
  with an empty value. `BoundedDomains` and `IteratorExact` leave these two out.

BaseApp:

- A transaction that crosses the block gas limit answers with an error after its writes were
  kept (add the property `PersistedOnlyOnSuccess` to the run).
- A transaction that does not decode is charged the gas of the block's own context
  (`BaseApp.ctxGas`), and so is one on which the ante handler panics. What `InitMemStore` consumes
  after a restart (`RestartGas`) lands there too, so that the block gas of the first block after a
  restart may differ from that of other nodes. `RestartsUncharged` is what `Deterministic` asks for.
- From a restart to the next Commit the check state has an empty header (`checkHeight`).
- In `GetBlockRetentionHeight`, a window whose bound is exactly 0 counts as not asked for.

Capability and upgrade:

- A transaction that releases the last owner and then fails leaves the memory store and the Go
  map in disagreement, and the next lookup panics; a simulation, which starts from the
  committed state, overwrites `capMap` at the index of a capability that the block has created
  (`Torn`). A capability claimed under two names by one module may change its name at a restart
  (`OutOfTurn`).
- A crash between the removal and the creation of cosmovisor's link starts the genesis binary,
  which goes on if the operator skips the height; an upgrade older than the last one may then
  be scheduled and applied, with no migration back and a version map that says otherwise
  (`NeverBehind` is about the heights before a skip for this reason). A plan for the very next
  block (`Notice` 1) is run by a binary that already has the handler, without the store upgrades.
- cosmovisor may miss the line of an upgrade when `cmd.Wait` returns first; it then stops
  and is started again. `appVersion` is 0 after a restart.
- `SetModuleVersionMap` deletes nothing, so a module that was removed and comes back is migrated
  from its old version and not initialised. `runModuleMigrations` wants registered migrations
  of every module past version 1, also when there is nothing to do.
- `x/upgrade` exports nothing: the plan, the heights done and the version map do not survive an
  export (simapp's InitChainer sets the map anew).

Staking, slashing and distribution:

- `AllocateTokens` expects every voter of the last block to exist. In the models a validator
  outlives the votes about it by the choice of `UnbondingTime`.
- A validator that was removed may be created again with its consensus key although it is
  tombstoned; the comment in `x/evidence/keeper/infraction.go` takes this for impossible.
- The check of `incrementReferenceCount`, `> 2`, lets 3 pass; `ReferencesExact` shows that 2 is
  never exceeded.
- A list of validators exempt from jailing (`JailAllowed`) in an export for height zero panics if
  another validator is bonded, "should never retrieve a jailed validator from the power
  store" (`Misplaced`): `prepForZeroHeightGenesis` marks the others as jailed and leaves them in the power
  index.

Accounts:

- Deleting an expired allowance or grant on a use that fails is undone with the transaction.
- What has unbonded may be more than what was tracked as delegated, when rounding left it to the
  last delegator to go: `TrackUndelegation` takes the lesser.
- The first period of an allowance is what the granter says it is: `ValidateBasic` accepts a
  `period_can_spend` above both limits.
- A `StakeAuthorization` with a deny list accepts no message.

## 6. Plan

1. **Proofs** of `TallyExact` of `Gov`, of the rounding bounds of `Dec` and
   `Validators` for every `One`, and of the books of `Bank`.
2. **Compositions**: `Gov` over `Staking` in place of `StakeChanges`, `Accounts` over `Staking` in place
   of its one validator, `Slashing` and `Distribution` in one block. Each pair multiplies the
   states, and needs larger instances than a few minutes allow.
3. **MultiStore**: store upgrades (rename, delete, add) composed with `Upgrade`, the inter-block
   cache and the prefix and gas stores as refinements of `KVStore`.
4. **Coins**: the merge of sorted coins of several denominations against a reference definition.

## 7. What is not modelled, and why

The map covers about 9,150 lines of source, some 4% of it. More than half of the Go code of the
repository (137,000 lines) is generated from protobuf files, and most of the rest is clients,
commands, queries, codecs, test helpers and simulations: code without a protocol, of which a
model would be a copy.

- Codec, protobuf, amino, unknown fields: encodings without state. Keys, signatures, HD
  derivation, multisig: cryptography, abstracted to whether a signature is right.
- Client, server, REST, gRPC and Rosetta gateways, telemetry, simapp (but its export), test
  utilities: input and output around the system.
- Params, crisis, genutil, simulation: no protocol of their own. A change of governance
  parameters is part of `Gov`; the parameters of the other modules are constants.
- The wrappers of a single store (`store/{prefix,gaskv,tracekv,listenkv,dbadapter,transient}`).
- In the export for height zero (`prepForZeroHeightGenesis`): the invariants that are asserted
  first, which are left to the properties, and the signing infos, which are `Slashing`'s.
- In modelled parts: queries and proofs, consensus parameter changes, public keys in the ante
  handler, gas overflow at 2^64, other snapshot formats, upgraded IBC clients, several
  denominations, overflow of decimals, an authz execution inside another.
