-------------------------------- MODULE Gov --------------------------------
(***************************************************************************)
(* The governance module: messages submit proposals, deposit on them and   *)
(* vote; the EndBlocker drops proposals whose deposit period is over,      *)
(* tallies those whose voting period is over, gives back or burns their    *)
(* deposits and runs the handler of what passed, which may change the      *)
(* parameters of governance itself or spend the community pool.            *)
(*                                                                         *)
(* The EndBlocker handles one proposal in a step; nothing else runs until  *)
(* it is done. Coins have one denomination. Staking is what a tally reads  *)
(* of it, and may change in any block.                                     *)
(***************************************************************************)
EXTENDS Dec, FiniteSets, FiniteSetsExt

CONSTANTS
    Accounts,       \* those of validator operators among them
    Contents,       \* what proposals are made of
    Ballots,        \* the weighted votes
    NoBallot,
    Stakes,         \* what staking may look like
    Genesis,        \* params, balance and pool
    Amounts,        \* what is deposited in one message
    MaxProposals,   \* bound: proposals submitted
    MaxStep,        \* bound: the time from a block to the next
    MaxTime         \* bound: the time of the last block

Options == {"yes", "abstain", "no", "veto"}
IDs     == 1 .. MaxProposals

\* A stake: the validators that are bonded and in the power index, their tokens
\* and the shares of each delegator, and the tokens of the bonded pool. A
\* validator without shares has lost its self-delegation, which took it out of
\* the power index.
ASSUME StakesAssumption ==
    \A s \in Stakes : \A v \in s.bonded : \E d \in Accounts : s.shares[d, v] > 0

ASSUME BallotsAssumption ==
    \A b \in Ballots : b["yes"] + b["abstain"] + b["no"] + b["veto"] = One

\* A proposal sets some of the parameters, or spends coins of the pool.
Parameters == {"minDeposit", "depositPeriod", "votingPeriod", "quorum", "threshold", "veto"}

ASSUME ContentsAssumption ==
    \A c \in Contents :
        \/ c.kind = "params" /\ \A k \in DOMAIN c.set : c.set[k] \in Int
        \/ c.kind = "spend" /\ c.amount \in Nat /\ c.to \in Accounts

ASSUME GovAssumption ==
    /\ IsFiniteSet(Accounts) /\ NoBallot \notin Ballots
    /\ Genesis.params \in [Parameters -> Nat]
    /\ Genesis.balance \in [Accounts -> Nat] /\ Genesis.pool \in Nat
    /\ Amounts \subseteq Nat /\ MaxProposals \in Nat /\ MaxStep \in Nat /\ MaxTime \in Nat

VARIABLES
    time,           \* of the block
    phase,          \* "txs", or where the EndBlocker is: "inactive", "active"
    params,
    proposals, nextID,
    deposits,       \* deposits[id][a]
    votes,          \* votes[id][a]
    inactiveQ, activeQ,     \* the queues, of <<end time, id>>
    balance,        \* of the accounts
    module,         \* of the module account of governance
    pool,           \* the community pool
    burned,
    stake

store == <<params, proposals, nextID, deposits, votes, inactiveQ, activeQ>>
coins == <<balance, module, pool, burned>>
vars  == <<time, phase, store, coins, stake>>

NoTally    == [o \in Options |-> 0]
NoProposal == [status |-> "none", content |-> 0, total |-> 0, depositEnd |-> 0, votingEnd |-> 0,
               tally |-> NoTally]
NoDeposits == [a \in Accounts |-> 0]
NoVotes    == [a \in Accounts |-> NoBallot]

Init ==
    /\ time = 0 /\ phase = "txs"
    /\ params = Genesis.params
    /\ proposals = [id \in IDs |-> NoProposal] /\ nextID = 1
    /\ deposits = [id \in IDs |-> NoDeposits] /\ votes = [id \in IDs |-> NoVotes]
    /\ inactiveQ = {} /\ activeQ = {}
    /\ balance = Genesis.balance /\ module = 0 /\ pool = Genesis.pool /\ burned = 0
    /\ stake \in Stakes

-----------------------------------------------------------------------------
(* The handlers of proposals                                               *)

validParams(p) ==
    /\ p.depositPeriod > 0 /\ p.votingPeriod > 0
    /\ p.quorum \in 0 .. One /\ p.threshold \in 1 .. One /\ p.veto \in 1 .. One

Updated(set) == [k \in DOMAIN params |-> IF k \in DOMAIN set THEN set[k] ELSE params[k]]

\* What a handler returns, and the state it leaves, given the balances bal.
\* Parameters are validated, and a text proposal is one that sets nothing.
handleParameterChangeProposal(c, bal) ==
    [ok |-> validParams(Updated(c.set)), params |-> Updated(c.set), pool |-> pool, balance |-> bal]

\* A spend that the pool cannot cover fails.
DistributeFromFeePool(c, bal) ==
    [ok |-> c.amount <= pool, params |-> params, pool |-> pool - c.amount,
     balance |-> [bal EXCEPT ![c.to] = @ + c.amount]]

Handler(c, bal) ==
    IF c.kind = "params" THEN handleParameterChangeProposal(c, bal)
    ELSE DistributeFromFeePool(c, bal)

-----------------------------------------------------------------------------
(* Messages                                                                *)

\* Mutant of Deposit: a proposal stays in the inactive queue when its voting begins.
DepositStaysQueued(id, p, queue, who, amount) ==
    LET total     == p.total + amount
        activates == p.status = "deposit" /\ total >= params.minDeposit
        votingEnd == time + params.votingPeriod
    IN  /\ amount <= balance[who]
        /\ balance' = [balance EXCEPT ![who] = @ - amount]
        /\ module' = module + amount
        /\ deposits' = [deposits EXCEPT ![id][who] = @ + amount]
        /\ proposals' = [proposals EXCEPT ![id] =
             IF activates
             THEN [p EXCEPT !.total = total, !.status = "voting", !.votingEnd = votingEnd]
             ELSE [p EXCEPT !.total = total]]
        /\ inactiveQ' = queue
        /\ activeQ' = IF activates THEN activeQ \cup {<<votingEnd, id>>} ELSE activeQ
        /\ UNCHANGED <<time, phase, params, votes, pool, burned, stake>>

\* The keeper's AddDeposit on proposal p, with the inactive queue as given:
\* the coins move to the module account, and the voting period begins when the
\* total reaches the minimum.
Deposit(id, p, queue, who, amount) ==
    LET total     == p.total + amount
        activates == p.status = "deposit" /\ total >= params.minDeposit
        votingEnd == time + params.votingPeriod
    IN  /\ amount <= balance[who]
        /\ balance' = [balance EXCEPT ![who] = @ - amount]
        /\ module' = module + amount
        /\ deposits' = [deposits EXCEPT ![id][who] = @ + amount]
        /\ proposals' = [proposals EXCEPT ![id] =
             IF activates
             THEN [p EXCEPT !.total = total, !.status = "voting", !.votingEnd = votingEnd]
             ELSE [p EXCEPT !.total = total]]
        /\ inactiveQ' = IF activates THEN queue \ {<<p.depositEnd, id>>} ELSE queue
        /\ activeQ' = IF activates THEN activeQ \cup {<<votingEnd, id>>} ELSE activeQ
        /\ UNCHANGED <<time, phase, params, votes, pool, burned, stake>>

\* The bound on time leaves room for both periods of a new proposal.
Fits == time + params.depositPeriod + params.votingPeriod + MaxStep - 1 <= MaxTime

\* The handler is tried on a branch that is dropped; the first deposit comes in
\* the same message.
SubmitProposal(c, who, amount) ==
    LET depositEnd == time + params.depositPeriod
    IN  /\ phase = "txs" /\ nextID \in IDs /\ Fits
        /\ Handler(c, balance).ok
        /\ nextID' = nextID + 1
        /\ Deposit(nextID, [status |-> "deposit", content |-> c, total |-> 0,
                            depositEnd |-> depositEnd, votingEnd |-> 0, tally |-> NoTally],
                   inactiveQ \cup {<<depositEnd, nextID>>}, who, amount)

Pending(id) == proposals[id].status \in {"deposit", "voting"}

AddDeposit(id, who, amount) ==
    /\ phase = "txs" /\ Pending(id)
    /\ Deposit(id, proposals[id], inactiveQ, who, amount)
    /\ UNCHANGED nextID

\* A later vote replaces an earlier one.
AddVote(id, who, ballot) ==
    /\ phase = "txs" /\ proposals[id].status = "voting"
    /\ votes' = [votes EXCEPT ![id][who] = ballot]
    /\ UNCHANGED <<time, phase, params, proposals, nextID, deposits, inactiveQ, activeQ, coins,
                   stake>>

-----------------------------------------------------------------------------
(* The tally                                                               *)

Voters(id) == {a \in Accounts : votes[id][a] # NoBallot}

SharesOf(v) == MapThenSumSet(LAMBDA d : stake.shares[d, v], Accounts)
\* Mutant of Deductions: what a validator delegates to itself is not deducted.
DeductionsOfOthers(id, v) == MapThenSumSet(LAMBDA d : stake.shares[d, v], Voters(id) \ {v})
Deductions(id, v) == MapThenSumSet(LAMBDA d : stake.shares[d, v], Voters(id))

\* The voting power of some shares of a validator.
Power(shares, v) == Quo(MulInt(shares, stake.tokens[v]), SharesOf(v))

\* What is added up: for every voter its delegations to bonded validators, and
\* for every validator that voted what is left of its shares.
Delegated(id) == {x \in Voters(id) \X stake.bonded : stake.shares[x] > 0}
Entries(id) ==
    {[by |-> x, vote |-> votes[id][x[1]], power |-> Power(stake.shares[x], x[2])] :
        x \in Delegated(id)}
    \cup
    {[by |-> <<v>>, vote |-> votes[id][v], power |-> Power(SharesOf(v) - Deductions(id, v), v)] :
        v \in Voters(id) \cap stake.bonded}

Result(id, o)   == MapThenSumSet(LAMBDA e : Mul(e.power, e.vote[o]), Entries(id))
TotalPower(id)  == MapThenSumSet(LAMBDA e : e.power, Entries(id))
FinalTally(id)  == [o \in Options |-> TruncateInt(Result(id, o))]

\* Whether a proposal passes, and whether its deposits are burned: for want of a
\* quorum and for a veto they are.
Tally(id) ==
    LET total     == TotalPower(id)
        cast      == total - Result(id, "abstain")
        noQuorum  == stake.pool # 0 /\ Quo(total, stake.pool * One) < params.quorum
        undecided == stake.pool = 0 \/ (~noQuorum /\ cast = 0)
        vetoed    == ~noQuorum /\ ~undecided /\ Quo(Result(id, "veto"), total) > params.veto
    IN  [burns  |-> noQuorum \/ vetoed,
         passes |-> /\ ~noQuorum /\ ~undecided /\ ~vetoed
                    /\ Quo(Result(id, "yes"), cast) > params.threshold]

-----------------------------------------------------------------------------
(* The EndBlocker                                                          *)

\* Mutant of Due: only the entries of the very time of the block.
DueExactly(queue) == {e \in queue : e[1] = time}

Due(queue) == {e \in queue : e[1] <= time}

\* The queues are in the order of end times, then of ids.
FirstDue(queue) ==
    CHOOSE e \in Due(queue) : \A f \in Due(queue) : e[1] < f[1] \/ (e[1] = f[1] /\ e[2] <= f[2])

Held(id) == SumFunction(deposits[id])

EndBlocker ==
    /\ phase = "txs" /\ phase' = "inactive"
    /\ UNCHANGED <<time, store, coins, stake>>

\* The proposal is deleted, from both queues, and its deposits are burned. A
\* proposal that is not there, or coins that are not there, are a panic.
DropInactive ==
    /\ phase = "inactive" /\ Due(inactiveQ) # {}
    /\ LET id == FirstDue(inactiveQ)[2]
           p  == proposals[id]
       IN  IF p = NoProposal \/ Held(id) > module
           THEN phase' = "panic" /\ UNCHANGED <<store, coins>>
           ELSE /\ proposals' = [proposals EXCEPT ![id] = NoProposal]
                /\ inactiveQ' = inactiveQ \ {<<p.depositEnd, id>>}
                /\ activeQ' = activeQ \ {<<p.votingEnd, id>>}
                /\ deposits' = [deposits EXCEPT ![id] = NoDeposits]
                /\ module' = module - Held(id) /\ burned' = burned + Held(id)
                /\ UNCHANGED <<phase, params, nextID, votes, balance, pool>>
    /\ UNCHANGED <<time, stake>>

InactiveDone ==
    /\ phase = "inactive" /\ Due(inactiveQ) = {}
    /\ phase' = "active"
    /\ UNCHANGED <<time, store, coins, stake>>

\* Mutant of Execute: what a failing handler wrote stays.
ExecuteUnbranched(passes, c, bal) ==
    LET h == Handler(c, bal)
    IN  IF passes
        THEN [status |-> IF h.ok THEN "passed" ELSE "failed",
              params |-> h.params, pool |-> h.pool, balance |-> h.balance]
        ELSE [status |-> "rejected", params |-> params, pool |-> pool, balance |-> bal]

\* The handler of a proposal that passes runs on a branch, which is written when
\* it succeeds.
Execute(passes, c, bal) ==
    LET h == Handler(c, bal)
    IN  IF passes /\ h.ok
        THEN [status |-> "passed", params |-> h.params, pool |-> h.pool, balance |-> h.balance]
        ELSE [status |-> IF passes THEN "failed" ELSE "rejected",
              params |-> params, pool |-> pool, balance |-> bal]

\* The votes are counted and deleted, the deposits burned or given back, and
\* then the proposal takes effect.
TallyActive ==
    /\ phase = "active" /\ Due(activeQ) # {}
    /\ LET id   == FirstDue(activeQ)[2]
           p    == proposals[id]
           t    == Tally(id)
           back == [a \in Accounts |-> balance[a] + (IF t.burns THEN 0 ELSE deposits[id][a])]
           done == Execute(t.passes, p.content, back)
       IN  IF p = NoProposal \/ Held(id) > module
           THEN phase' = "panic" /\ UNCHANGED <<store, coins>>
           ELSE /\ proposals' = [proposals EXCEPT ![id].status = done.status,
                                                     ![id].tally = FinalTally(id)]
                /\ activeQ' = activeQ \ {<<p.votingEnd, id>>}
                /\ votes' = [votes EXCEPT ![id] = NoVotes]
                /\ deposits' = [deposits EXCEPT ![id] = NoDeposits]
                /\ module' = module - Held(id)
                /\ burned' = burned + (IF t.burns THEN Held(id) ELSE 0)
                /\ balance' = done.balance /\ params' = done.params /\ pool' = done.pool
                /\ UNCHANGED <<phase, nextID, inactiveQ>>
    /\ UNCHANGED <<time, stake>>

\* The next block. Staking has changed in the transactions of this one or in
\* the EndBlocker of staking, which runs after that of governance.
NextBlock ==
    /\ phase = "active" /\ Due(activeQ) = {} /\ time < MaxTime
    /\ \E n \in 1 .. MaxStep : time' = time + n /\ time' <= MaxTime
    /\ phase' = "txs"
    /\ UNCHANGED <<store, coins, stake>>

\* What delegations, redelegations, undelegations, slashes and jailings make of the
\* stake, which module Staking has in full. Here it is any of Stakes, and changes
\* while there is something to vote on.
StakeChanges ==
    /\ phase = "txs" /\ activeQ # {}
    /\ stake' \in Stakes
    /\ UNCHANGED <<time, phase, store, coins>>

\* All the deposits there are.
Total(ds) == SumFunction([id \in IDs |-> SumFunction(ds[id])])

\* The chain is exported between two blocks and imported as a new one. The
\* deposits and votes are those of the proposals exported, the queues are rebuilt,
\* and deposits that are not the balance of the module account are a panic.
ExportImport ==
    LET exported == {id \in IDs : proposals[id] # NoProposal}
        In(status) == {id \in exported : proposals[id].status = status}
    IN  /\ phase = "active" /\ Due(activeQ) = {}
        /\ deposits' = [id \in IDs |-> IF id \in exported THEN deposits[id] ELSE NoDeposits]
        /\ votes' = [id \in IDs |-> IF id \in exported THEN votes[id] ELSE NoVotes]
        /\ inactiveQ' = {<<proposals[id].depositEnd, id>> : id \in In("deposit")}
        /\ activeQ' = {<<proposals[id].votingEnd, id>> : id \in In("voting")}
        /\ phase' = IF module = Total(deposits') THEN phase ELSE "panic"
        /\ UNCHANGED <<time, params, proposals, nextID, coins, stake>>

AtBound == phase = "active" /\ Due(activeQ) = {} /\ time = MaxTime /\ UNCHANGED vars

Next ==
    \/ \E c \in Contents, who \in Accounts, n \in Amounts : SubmitProposal(c, who, n)
    \/ \E id \in IDs, who \in Accounts : \E n \in Amounts : AddDeposit(id, who, n)
    \/ \E id \in IDs, who \in Accounts : \E b \in Ballots : AddVote(id, who, b)
    \/ StakeChanges
    \/ EndBlocker \/ DropInactive \/ InactiveDone \/ TallyActive
    \/ NextBlock \/ ExportImport
    \/ AtBound

Spec == Init /\ [][Next]_vars

\* A step of TallyActive, seen from the queue.
Dequeues == phase = "active" /\ Due(activeQ) # {} /\ activeQ' = activeQ \ {FirstDue(activeQ)}

\* The EndBlocker runs to its end and blocks keep coming.
FairSpec ==
    /\ Spec
    /\ WF_vars(EndBlocker) /\ WF_vars(DropInactive) /\ WF_vars(InactiveDone)
    /\ WF_activeQ(Dequeues) /\ WF_vars(NextBlock)

-----------------------------------------------------------------------------
(* Properties                                                              *)

Spent(id) ==
    IF proposals[id].status = "passed" /\ proposals[id].content.kind = "spend"
    THEN proposals[id].content.amount ELSE 0

\* ModuleAccountInvariant, and what it rests on: the module account holds the
\* deposits, those of a pending proposal add up to its total and one that was
\* dropped or decided has none, so that giving back and burning them never
\* panics. No coin is made or lost, whatever passes or fails when it is
\* executed, and the community pool pays each spend that passed, once.
CoinsExact ==
    /\ phase # "panic"
    /\ module = Total(deposits)
    /\ \A id \in IDs :
         Held(id) = IF Pending(id) THEN proposals[id].total ELSE 0
    /\ SumFunction(balance) + module + pool + burned
         = SumFunction(Genesis.balance) + Genesis.pool
    /\ pool = Genesis.pool - SumFunction([id \in IDs |-> Spent(id)])

\* Each pending proposal is in the queue of its status, once, under its own end
\* time, also when a proposal changes the periods meanwhile; nothing else is in
\* a queue, and votes are only kept for proposals that are voted on.
QueuesExact ==
    /\ inactiveQ = {<<proposals[id].depositEnd, id>> :
                      id \in {i \in IDs : proposals[i].status = "deposit"}}
    /\ activeQ = {<<proposals[id].votingEnd, id>> :
                    id \in {i \in IDs : proposals[i].status = "voting"}}
    /\ \A id \in IDs : Voters(id) # {} => proposals[id].status = "voting"

\* The vote that counts for the shares d has in v: its own, or the validator's.
Counts(id, d, v) == IF votes[id][d] # NoBallot THEN votes[id][d] ELSE votes[id][v]

\* Every share of a bonded validator counts once: with the vote of its
\* delegator, and else with that of the validator, whoever votes, changes the
\* vote or delegates elsewhere meanwhile. The tally of an option differs from
\* this by the rounding of its entries only.
TallyExact ==
    \A id \in IDs : phase = "active" /\ proposals[id].status = "voting" => \A o \in Options :
        LET all == FoldSet(LAMBDA v, n : SharesOf(v) * n, 1, stake.bonded)
            Exact(v) == MapThenSumSet(
                LAMBDA d : stake.shares[d, v] * stake.tokens[v] * Counts(id, d, v)[o]
                             * (all \div SharesOf(v)),
                {d \in Accounts : Counts(id, d, v) # NoBallot})
            diff == all * Result(id, o) - MapThenSumSet(Exact, stake.bonded)
        IN  diff \in -all * Cardinality(Entries(id)) .. all * Cardinality(Entries(id))

\* Every proposal is decided or dropped in the end.
EventuallyDecided ==
    \A id \in IDs : Pending(id) ~> ~Pending(id)
=============================================================================
