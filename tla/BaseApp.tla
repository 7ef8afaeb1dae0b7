------------------------------ MODULE BaseApp ------------------------------
(***************************************************************************)
(* BaseApp between the consensus engine and the multi-store: the ABCI      *)
(* calls InitChain, BeginBlock, DeliverTx, EndBlock, Commit and CheckTx,   *)
(* runTx with its two store branches and its gas meters, and the chain of  *)
(* ante decorators of x/auth, for a single account.                        *)
(*                                                                         *)
(* The consensus engine decides the blocks, log. After a crash it delivers *)
(* every block the application had not committed again. The durable state  *)
(* is what Commit wrote; MultiStore models how Commit writes it.           *)
(***************************************************************************)
EXTENDS Integers, Sequences, FiniteSets

CONSTANTS
    Txs,            \* the transactions: id, ok, seq, fee, limit, timeout, ante, msgs
    InitialHeight,  \* of the genesis document
    MaxGas,         \* the block gas limit, 0 when there is none
    MinFee,         \* the fee the node's minimum gas prices ask for
    Balance,        \* the coins of the account at genesis
    AnteGas,        \* gas the ante handler uses
    BeginGas,       \* gas InitChain uses, and gas BeginBlock uses
    RestartGas,     \* gas BeginBlock uses besides when it is the first since a
                    \* restart and the capability keeper fills its memory store
    ParamGas,       \* gas it takes to read the consensus parameters
    AccountNumber,  \* the account number, which signatures cover
    MaxBlocks,      \* bound: the number of blocks
    MaxBlockSize,   \* bound: transactions in a block
    MaxChecked,     \* bound: transactions checked between two commits
    MaxCrashes      \* bound: crashes in one behaviour

ASSUME BaseAppAssumption ==
    /\ InitialHeight \in Nat \ {0}
    /\ {MaxGas, MinFee, Balance, AnteGas, BeginGas, RestartGas, ParamGas, AccountNumber, MaxBlocks,
        MaxBlockSize, MaxChecked, MaxCrashes} \subseteq Nat

\* Different transactions have different hashes.
ASSUME TxsAssumption ==
    /\ \A tx \in Txs : /\ {tx.seq, tx.fee, tx.limit, tx.timeout} \subseteq Nat
                       /\ {tx.ok, tx.ante} \subseteq BOOLEAN
                       /\ tx.msgs \in Seq(STRING)
    /\ \A tx, other \in Txs : tx.id = other.id => tx = other

VARIABLES
    \* the consensus engine
    log,            \* the blocks decided, each a sequence of transactions
    \* durable
    committed,      \* the state of the root multi-store
    blocks,         \* the number of blocks committed
    \* in the memory of the process
    phase,          \* which ABCI call may come next
    initialHeight,  \* app.initialHeight
    deliver,        \* the branch deliverState.ms, or Nil
    check,          \* the branch checkState.ms, or Nil
    checkHeight,    \* the height in the header of checkState.ctx
    pos,            \* the transactions of the block delivered so far
    ctxGas,         \* the gas meter of deliverState.ctx
    blockGas,       \* the block gas meter
    warm,           \* has the process run InitChain or a BeginBlock
    result,         \* was the last DeliverTx a success
    checked,        \* transactions checked since the last commit
    \* bookkeeping
    cold,           \* the blocks begun as the first one of a process since a restart
    crashes

volatile == <<phase, initialHeight, deliver, check, checkHeight, pos, ctxGas, blockGas,
              warm, result, checked>>
vars == <<log, committed, blocks, volatile, cold, crashes>>

\* A state: has genesis run, the sequence number and the fees paid of the
\* account, and the effects of messages in the order they happened.
Empty == [genesis |-> FALSE, seq |-> 0, paid |-> 0, effects |-> <<>>]
Nil   == [genesis |-> FALSE, seq |-> -1, paid |-> 0, effects |-> <<>>]

\* The height of the n-th block, and LastBlockHeight.
HeightOf(n) == InitialHeight + n - 1
LastBlockHeight == IF blocks = 0 THEN 0 ELSE HeightOf(blocks)

-----------------------------------------------------------------------------
(* runTx                                                                   *)

\* The gas meter SetUpContextDecorator installs: none at height 0.
ToLimit(gas, tx, h) == IF h # 0 /\ gas > tx.limit THEN tx.limit ELSE gas
OutOfGas(gas, tx, h) == h # 0 /\ gas > tx.limit

\* Mutant of SigVerified: the sequence number is not compared.
SigVerifiedAnySequence(st, tx, h, recheck) == recheck \/ h # 0 \/ AccountNumber = 0

\* SigVerificationDecorator: the sequence number, and the signature, which
\* covers account number 0 when the height is 0. Not run on a recheck.
SigVerified(st, tx, h, recheck) ==
    \/ recheck
    \/ tx.seq = st.seq /\ (h # 0 \/ AccountNumber = 0)

MempoolFee(tx, isCheck) == isCheck => tx.fee >= MinFee
TxTimeoutHeight(tx, h) == tx.timeout > 0 => h <= tx.timeout
DeductFee(st, tx) == st.genesis /\ st.paid + tx.fee <= Balance
IncrementSequence(st) == st.seq + 1

\* The chain of decorators: the mempool fee and the timeout height come before
\* gas is used, the fee and the signature after. A panic that is not out of
\* gas leaves runTx without the new context, and so without its gas meter.
AnteHandler(st, tx, h, isCheck, recheck) ==
    LET early == MempoolFee(tx, isCheck) /\ TxTimeoutHeight(tx, h)
    IN  [ok    |-> /\ tx.ante /\ early /\ ~OutOfGas(AnteGas, tx, h)
                   /\ DeductFee(st, tx) /\ SigVerified(st, tx, h, recheck),
         gas   |-> IF early THEN AnteGas ELSE 0,
         state |-> [st EXCEPT !.seq = IncrementSequence(st), !.paid = st.paid + tx.fee]]

\* runMsgs on its branch: each message uses a unit of gas; the first that
\* fails, panics or runs out of gas ends it, and the branch is dropped.
runMsgs(st, tx, h) ==
    LET n     == Len(tx.msgs)
        Bad   == {i \in 1 .. n : tx.msgs[i] # "ok" \/ OutOfGas(AnteGas + i, tx, h)}
        first == CHOOSE i \in Bad : \A j \in Bad : i <= j
    IN  [ok    |-> Bad = {},
         gas   |-> AnteGas + (IF Bad = {} THEN n ELSE first),
         state |-> IF Bad = {}
                   THEN [st EXCEPT !.effects = @ \o [i \in 1 .. n |-> <<tx.id, i>>]]
                   ELSE st]

\* runTx in DeliverTx mode, on state st with own gas own in the context's
\* meter: a transaction that cannot be decoded or is not valid, and an ante
\* handler that panics, are charged what that meter holds. The branch of the
\* ante handler is written before the messages run.
runTx(st, tx, h, own) ==
    LET a == AnteHandler(st, tx, h, FALSE, FALSE)
        m == runMsgs(a.state, tx, h)
    IN  IF ~tx.ok \/ ~tx.ante
          THEN [ok |-> FALSE, gas |-> own, state |-> st]
        ELSE IF ~a.ok
          THEN [ok |-> FALSE, gas |-> ToLimit(a.gas, tx, h), state |-> st]
        ELSE [ok |-> m.ok, gas |-> ToLimit(m.gas, tx, h), state |-> m.state]

\* Mutant of Delivered: the block gas is not looked at before the transaction.
DeliveredUnchecked(x, tx, h) ==
    LET ctx == x.ctx + ParamGas
        r   == runTx(x.state, tx, h, ctx)
    IN  [state |-> r.state, block |-> x.block + r.gas, ctx |-> ctx,
         ok    |-> r.ok /\ (MaxGas = 0 \/ x.block + r.gas <= MaxGas)]

\* DeliverTx on the deliver state with its meters: the context reads the
\* consensus parameters; nothing runs once the block gas is used up; the gas of
\* the transaction is added to the block gas after its branches were written,
\* and going over the limit then turns the result into an error.
Delivered(x, tx, h) ==
    LET ctx == x.ctx + ParamGas
        r   == runTx(x.state, tx, h, ctx)
    IN  IF MaxGas > 0 /\ x.block >= MaxGas
          THEN [state |-> x.state, block |-> x.block, ctx |-> ctx, ok |-> FALSE]
          ELSE [state |-> r.state, block |-> x.block + r.gas, ctx |-> ctx,
                ok    |-> r.ok /\ (MaxGas = 0 \/ x.block + r.gas <= MaxGas)]

-----------------------------------------------------------------------------
Init ==
    /\ log = <<>>
    /\ committed = Empty /\ blocks = 0
    /\ phase = "down" /\ initialHeight = 0
    /\ deliver = Nil /\ check = Nil /\ checkHeight = 0
    /\ pos = 0 /\ ctxGas = 0 /\ blockGas = 0 /\ result = TRUE /\ checked = 0
    /\ warm = FALSE /\ cold = {} /\ crashes = 0

setCheckState(st, h) == check' = st /\ checkHeight' = h /\ checked' = 0

\* The consensus engine decides a block once the one before is committed.
Decide ==
    /\ Len(log) = blocks /\ blocks < MaxBlocks
    /\ \E n \in 0 .. MaxBlockSize : \E block \in [1 .. n -> Txs] : log' = Append(log, block)
    /\ UNCHANGED <<committed, blocks, volatile, cold, crashes>>

\* The process starts: the latest version is loaded and init sets a check
\* state with an empty header. The engine calls InitChain when Info reports
\* height 0.
Start ==
    /\ phase = "down"
    /\ setCheckState(committed, 0)
    /\ phase' = IF blocks = 0 THEN "genesis" ELSE "idle"
    /\ UNCHANGED <<log, committed, blocks, initialHeight, deliver, pos, ctxGas, blockGas,
                   warm, result, cold, crashes>>

\* The genesis state goes into the deliver state, which the first BeginBlock
\* keeps; the check state does not see it.
InitChain ==
    /\ phase = "genesis"
    /\ initialHeight' = IF InitialHeight > 1 THEN InitialHeight ELSE initialHeight
    /\ deliver' = [committed EXCEPT !.genesis = TRUE]
    /\ setCheckState(committed, IF InitialHeight > 1 THEN InitialHeight ELSE 0)
    /\ ctxGas' = BeginGas /\ warm' = TRUE
    /\ phase' = "idle"
    /\ UNCHANGED <<log, committed, blocks, pos, blockGas, result, cold, crashes>>

validateHeight(h) ==
    h = IF LastBlockHeight = 0 /\ initialHeight > 1 THEN initialHeight
        ELSE LastBlockHeight + 1

\* Mutant of BeginBlock: the block starts from the check state.
BeginBlockFromCheck ==
    /\ phase = "idle" /\ blocks < Len(log)
    /\ IF validateHeight(HeightOf(blocks + 1))
         THEN /\ deliver' = IF deliver = Nil THEN check ELSE deliver
              /\ ctxGas' = ctxGas + BeginGas + (IF warm THEN 0 ELSE RestartGas)
              /\ blockGas' = 0 /\ pos' = 0 /\ warm' = TRUE
              /\ cold' = IF warm THEN cold ELSE cold \cup {blocks + 1}
              /\ phase' = "block"
         ELSE phase' = "panic" /\ UNCHANGED <<deliver, blockGas, ctxGas, pos, warm, cold>>
    /\ UNCHANGED <<log, committed, blocks, initialHeight, check, checkHeight, result,
                   checked, crashes>>

\* validateHeight panics on an unexpected height. The deliver state is the
\* one InitChain left or a new branch of the root store.
BeginBlock ==
    /\ phase = "idle" /\ blocks < Len(log)
    /\ IF validateHeight(HeightOf(blocks + 1))
         THEN /\ deliver' = IF deliver = Nil THEN committed ELSE deliver
              /\ ctxGas' = ctxGas + BeginGas + (IF warm THEN 0 ELSE RestartGas)
              /\ blockGas' = 0 /\ pos' = 0 /\ warm' = TRUE
              /\ cold' = IF warm THEN cold ELSE cold \cup {blocks + 1}
              /\ phase' = "block"
         ELSE phase' = "panic" /\ UNCHANGED <<deliver, blockGas, ctxGas, pos, warm, cold>>
    /\ UNCHANGED <<log, committed, blocks, initialHeight, check, checkHeight, result,
                   checked, crashes>>

\* runTx on the deliver state.
DeliverTx ==
    /\ phase = "block" /\ pos < Len(log[blocks + 1])
    /\ pos' = pos + 1
    /\ LET x == Delivered([state |-> deliver, block |-> blockGas, ctx |-> ctxGas, ok |-> TRUE],
                          log[blocks + 1][pos + 1], HeightOf(blocks + 1))
       IN  deliver' = x.state /\ blockGas' = x.block /\ ctxGas' = x.ctx /\ result' = x.ok
    /\ UNCHANGED <<log, committed, blocks, phase, initialHeight, check, checkHeight, warm,
                   checked, cold, crashes>>

EndBlock ==
    /\ phase = "block" /\ pos = Len(log[blocks + 1])
    /\ phase' = "ended"
    /\ UNCHANGED <<log, committed, blocks, initialHeight, deliver, check, checkHeight, pos,
                   ctxGas, blockGas, warm, result, checked, cold, crashes>>

\* The deliver state is written to the root store and committed, the check
\* state branches from it, and the deliver state is dropped with its meter.
Commit ==
    /\ phase = "ended"
    /\ committed' = deliver /\ blocks' = blocks + 1
    /\ setCheckState(deliver, HeightOf(blocks + 1))
    /\ deliver' = Nil /\ ctxGas' = 0
    /\ phase' = "idle"
    /\ UNCHANGED <<log, initialHeight, pos, blockGas, warm, result, cold, crashes>>

\* runTx in CheckTx or ReCheckTx mode: only the ante handler runs, and its
\* branch is written to the check state when it passes.
CheckTx(tx, recheck) ==
    /\ phase \notin {"down", "panic"} /\ checked < MaxChecked
    /\ checked' = checked + 1
    /\ LET a == AnteHandler(check, tx, checkHeight, TRUE, recheck)
       IN  check' = IF tx.ok /\ a.ok THEN a.state ELSE check
    /\ UNCHANGED <<log, committed, blocks, phase, initialHeight, deliver, checkHeight, pos,
                   ctxGas, blockGas, warm, result, cold, crashes>>

\* The process dies.
Crash ==
    /\ crashes < MaxCrashes /\ phase # "down"
    /\ crashes' = crashes + 1
    /\ phase' = "down" /\ initialHeight' = 0
    /\ deliver' = Nil /\ check' = Nil /\ checkHeight' = 0
    /\ pos' = 0 /\ ctxGas' = 0 /\ blockGas' = 0 /\ warm' = FALSE /\ result' = TRUE /\ checked' = 0
    /\ UNCHANGED <<log, committed, blocks, cold>>

\* Every block is committed: an artefact of the bounds.
AtBound == blocks = MaxBlocks /\ phase = "idle" /\ UNCHANGED vars

Next ==
    \/ Decide \/ Start \/ InitChain \/ BeginBlock \/ DeliverTx \/ EndBlock \/ Commit
    \/ \E tx \in Txs, recheck \in BOOLEAN : CheckTx(tx, recheck)
    \/ Crash \/ AtBound

Spec == Init /\ [][Next]_vars

-----------------------------------------------------------------------------
(* Properties                                                              *)

up == phase \notin {"down", "panic"}

\* The reference, a node without a mempool and without crashes: the state, the
\* meters and the result after each transaction of the n-th block, executed on
\* state st, and the state after each block.
Execution(st, block, n) ==
    LET run[k \in 0 .. Len(block)] ==
          IF k = 0
          THEN [state |-> st, block |-> 0, ctx |-> IF n = 1 THEN 2 * BeginGas ELSE BeginGas,
                ok |-> TRUE]
          ELSE Delivered(run[k - 1], block[k], HeightOf(n))
    IN  run
Replay[n \in 0 .. Len(log)] ==
    IF n = 0 THEN [Empty EXCEPT !.genesis = TRUE]
    ELSE Execution(Replay[n - 1], log[n], n)[Len(log[n])].state

\* Every transaction of a block that is the first since a restart gets a gas
\* meter of its own; without one, its gas is what the context of the block holds,
\* the gas of InitMemStore included, and goes on the block gas.
Metered(block) == \A i \in 1 .. Len(block) : block[i].ok /\ block[i].ante
RestartsUncharged == \A n \in cold : Metered(log[n])

\* Determinism: what a node has committed, and in the middle of a block the
\* deliver state, the block gas and the result of the last transaction, are a
\* function of the blocks alone. Transactions the mempool checks meanwhile,
\* crashes and blocks delivered again leave no trace, with one exception: a block
\* that is the first of a restarted process and has a transaction that cannot be
\* decoded, or on which the ante handler panics. Such a transaction is charged
\* the gas the capability keeper used for its memory store, which the nodes that
\* did not restart have not used. The check state is the last committed one plus
\* what ante handlers wrote since: no message runs in CheckTx, and no check state
\* survives a Commit.
Deterministic ==
    /\ RestartsUncharged =>
         /\ blocks > 0 => committed = Replay[blocks]
         /\ phase \in {"block", "ended"} =>
              LET x == Execution(Replay[blocks], log[blocks + 1], blocks + 1)[pos]
              IN  deliver = x.state /\ blockGas = x.block /\ (pos > 0 => result = x.ok)
    /\ up => /\ check.effects = committed.effects /\ check.seq >= committed.seq
             /\ checked = 0 => check = committed

Once(effects) ==
    \A i, j \in 1 .. Len(effects) : effects[i] = effects[j] => i = j
Whole(effects) ==
    \A p \in 1 .. Len(effects) : \A tx \in Txs : effects[p][1] = tx.id =>
        \A j \in 1 .. Len(tx.msgs) :
            LET q == p - effects[p][2] + j
            IN  q \in 1 .. Len(effects) /\ effects[q] = <<tx.id, j>>

\* A transaction takes effect at most once, and as a whole. However often the
\* blocks contain it, the sequence number the ante handler checks is incremented
\* in a branch that is written even when the messages fail; and the branch that
\* runMsgs works on is written as a whole, so the effects are those of all the
\* messages, next to each other and in order.
OnceAndWhole == Once(committed.effects) /\ Whole(committed.effects)

\* DeliverTx: "State only gets persisted if all messages are valid and get
\* executed successfully. Otherwise, the ResponseDeliverTx will contain
\* releveant error information." So an error means that nothing is persisted.
PersistedOnlyOnSuccess ==
    [][phase = "block" /\ pos' = pos + 1 /\ ~result' => deliver'.effects = deliver.effects]_vars

\* The last transaction that still runs may overshoot the block gas limit, but
\* by no more than its own limit, or what the context of the block has used when
\* it fails before it has a meter.
BlockGasBounded ==
    MaxGas > 0 /\ phase \in {"block", "ended"} =>
        \/ blockGas < MaxGas + ctxGas
        \/ \E tx \in Txs : blockGas < MaxGas + tx.limit
=============================================================================
