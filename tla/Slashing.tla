------------------------------ MODULE Slashing ------------------------------
(***************************************************************************)
(* x/slashing and x/evidence on top of x/staking, driven block by block by *)
(* Tendermint: who missed too many of the last blocks, or signed two at    *)
(* one height, is slashed and jailed, and in the second case tombstoned.   *)
(*                                                                         *)
(* Tendermint is external: it applies the updates of block h to the        *)
(* validators of block h + 2, reports who signed the previous block, and   *)
(* hands over evidence of earlier blocks, late, twice or never.            *)
(***************************************************************************)
EXTENDS Validators

CONSTANTS
    Operators, Delegators, MaxValidators, MaxEntries, UnbondingTime,
    HistoricalEntries, MinCommissionRate, MaxRate, MaxChangeRate, Day, ForkHeight,
    SignedBlocksWindow, MinSignedPerWindow,         \* parameters of slashing
    DowntimeJailDuration, SlashFractionDowntime, SlashFractionDoubleSign,
    MaxAgeDuration, MaxAgeNumBlocks,                \* consensus parameters of evidence
    Genesis,        \* validators, delegations and balances
    Amounts,        \* tokens of one message
    MaxStep,        \* bound: the time from a block to the next
    MaxHeight,      \* bound: the last block
    MaxMessages,    \* bound: messages delivered
    MaxIncidents    \* bound: pieces of evidence handed over; an export is the last

Forever == 1000     \* DoubleSignJailEndTime

VARIABLES
    app,            \* the stores of staking, slashing and evidence, and the header
    tm,             \* tm[h]: time and validators, with their power, of block h
    phase,          \* "begin" before BeginBlock, "txs" after it, "halted" by a panic
    messages, incidents

vars == <<app, tm, phase, messages, incidents>>

-----------------------------------------------------------------------------
(* The hooks of x/slashing                                                 *)

AddPubkey(s, v) == [s EXCEPT !.pubkeys = @ \cup {v}]

deleteAddrPubkeyRelation(s, v) == [s EXCEPT !.pubkeys = @ \ {v}]

\* Signing info is created once, and outlives the validator.
CreateSigningInfo(s, v) ==
    IF v \in DOMAIN s.info THEN s
    ELSE [s EXCEPT !.info = (v :> [start |-> s.height, offset |-> 0, missed |-> 0,
                                   until |-> 0, tombstoned |-> FALSE]) @@ @]

NoHook(s, d, v) == s

INSTANCE Staking WITH
    AfterValidatorCreated <- AddPubkey, AfterValidatorRemoved <- deleteAddrPubkeyRelation,
    AfterValidatorBonded <- CreateSigningInfo,
    BeforeDelegationCreated <- NoHook, BeforeDelegationSharesModified <- NoHook,
    AfterDelegationModified <- NoHook, BeforeDelegationRemoved <- NoHook,
    BeforeValidatorSlashed <- NoHook

-----------------------------------------------------------------------------
(* Downtime                                                                *)

Jail(s, v) ==
    LET s1 == Require(s, Has(s.val, v), "validator record not found")
    IN  IF s1.panic = "" THEN jailValidator(s1, v) ELSE s1

\* The bit of the block in the window, and the counter of the bits that are set.
RecordVote(s, v, signed) ==
    LET info  == s.info[v]
        index == info.offset % SignedBlocksWindow
        was   == index \in s.bits[v]
    IN  [s EXCEPT !.bits[v] = IF signed THEN @ \ {index} ELSE @ \cup {index},
                  !.info[v] = [info EXCEPT !.offset = @ + 1,
                                           !.missed = IF was /\ signed THEN @ - 1
                                                      ELSE IF ~was /\ ~signed THEN @ + 1 ELSE @]]

\* Mutant of PunishDowntime: the bits of the window are kept.
PunishKeepsBits(s, v, power) ==
    LET s1 == Jail(Slash(s, v, s.height - 2, power, SlashFractionDowntime), v)
    IN  [s1 EXCEPT !.info[v] = [@ EXCEPT !.until = s.time + DowntimeJailDuration,
                                         !.missed = 0, !.offset = 0]]

\* Slashed for the power of the block that was missed, jailed, and given a
\* clean window.
PunishDowntime(s, v, power) ==
    LET s1 == Jail(Slash(s, v, s.height - 2, power, SlashFractionDowntime), v)
    IN  [s1 EXCEPT !.info[v] = [@ EXCEPT !.until = s.time + DowntimeJailDuration,
                                         !.missed = 0, !.offset = 0],
                   !.bits[v] = {}]

HandleValidatorSignature(s, v, power, signed) ==
    LET s1   == Require(s, v \in s.pubkeys /\ v \in DOMAIN s.info,
                        "expected pubkey and signing info of a validator that votes")
        s2   == RecordVote(s1, v, signed)
        late == s.height > s2.info[v].start + SignedBlocksWindow
        down == s2.info[v].missed > SignedBlocksWindow - MinSignedPerWindow
    IN  IF s1.panic # "" THEN s1
        ELSE IF late /\ down /\ Has(s.val, v) /\ ~s.val[v].jailed THEN PunishDowntime(s2, v, power)
        ELSE s2

SlashingBeginBlocker(s, votes, absent) ==
    ForEach(LAMBDA r, k : HandleValidatorSignature(r, k[2], k[1], k[2] \notin absent),
            s, {<<votes[v], v>> : v \in DOMAIN votes}, ByPower)

-----------------------------------------------------------------------------
(* Equivocation                                                            *)

TooOld(s, e) ==
    s.time - e.time > MaxAgeDuration /\ s.height - e.height > MaxAgeNumBlocks

\* Evidence that cannot be handled any more, or was, is ignored.
HandleEquivocationEvidence(s, e) ==
    LET v  == e.validator
        s1 == Slash(s, v, e.height - 1, e.power, SlashFractionDoubleSign)
        s2 == IF s.val[v].jailed THEN s1 ELSE Jail(s1, v)
    IN  IF \/ v \notin s.pubkeys \/ TooOld(s, e)
           \/ ~Has(s.val, v) \/ s.val[v].status = "unbonded"
        THEN s
        ELSE IF v \notin DOMAIN s.info THEN Panic(s, "expected signing info")
        ELSE IF s.info[v].tombstoned THEN s
        ELSE [s2 EXCEPT !.info[v] = [@ EXCEPT !.until = Forever, !.tombstoned = TRUE],
                        !.evidence = @ \cup {e}]

-----------------------------------------------------------------------------
(* The blocks                                                              *)

EmptyGenesis(balance) ==
    EmptyStores(balance) @@
        [info |-> <<>>, bits |-> [v \in Operators |-> {}], pubkeys |-> {}, evidence |-> {}]

Init ==
    /\ app = InitGenesis(EmptyGenesis(Genesis.balance), Genesis)
    /\ tm = [h \in 0 .. 2 |-> [time |-> 0, vals |-> IF h = 0 THEN <<>> ELSE app.last]]
    /\ phase = "begin"
    /\ messages = 0 /\ incidents = 0

\* What Tendermint may hand over in block h: it forgets blocks as they get old.
Provable(h) ==
    UNION {{[validator |-> v, height |-> b, time |-> tm[b].time, power |-> tm[b].vals[v]] :
               v \in DOMAIN tm[b].vals} : b \in {b \in DOMAIN tm : b < h}}

BeginBlock(step, absent, es) ==
    LET h  == app.height + 1
        s0 == [app EXCEPT !.height = h, !.time = @ + step, !.updates = <<>>]
        s1 == SlashingBeginBlocker(s0, tm[h - 1].vals, absent)
        s2 == FoldLeft(LAMBDA r, e : IF r.panic = "" THEN HandleEquivocationEvidence(r, e) ELSE r,
                       s1, es)
        s3 == TrackHistoricalInfo(s2)
    IN  /\ app' = s3
        /\ phase' = IF app'.panic = "" THEN "txs" ELSE "halted"
        /\ tm' = [tm EXCEPT ![h].time = s0.time]
        /\ incidents' = incidents + Len(es)
        /\ UNCHANGED messages

\* Tendermint stops when no validator is left.
NextBlock ==
    LET h == app.height + 1
    IN  /\ phase = "begin" /\ h <= MaxHeight /\ tm[h + 1].vals # <<>>
        /\ \E step \in 1 .. MaxStep, absent \in SUBSET DOMAIN tm[h - 1].vals :
              \/ BeginBlock(step, absent, <<>>)
              \/ incidents < MaxIncidents /\ \E e \in Provable(h) : BeginBlock(step, absent, <<e>>)

EndBlock ==
    LET h    == app.height
        next == app'.updates @@ tm[h + 1].vals
        old  == {b \in DOMAIN tm : b < h - MaxAgeNumBlocks - 1}
    IN  /\ phase = "txs"
        /\ app' = BlockValidatorUpdates(app)
        /\ phase' = IF app'.panic = "" THEN "begin" ELSE "halted"
        /\ tm' = [b \in (DOMAIN tm \ old) \cup {h + 2} |->
                     IF b = h + 2
                     THEN [time |-> 0, vals |-> Restrict(next, {v \in DOMAIN next : next[v] > 0})]
                     ELSE tm[b]]
        /\ UNCHANGED <<messages, incidents>>

\* The keys are those of the validators of staking.
SlashingInitGenesis(s, info, bits) ==
    [s EXCEPT !.pubkeys = DOMAIN s.val, !.info = info, !.bits = bits]

\* What the bank brings along.
Balances(s) ==
    [EmptyGenesis(s.balance) EXCEPT !.bonded = s.bonded, !.notBonded = s.notBonded,
                                    !.burned = s.burned, !.height = s.height, !.time = s.time]

\* The chain is exported, and another one starts from the genesis file at the
\* next height: Tendermint has no block before it, and so no votes and no
\* evidence of one.
ExportImport ==
    LET h == app.height
        s == InitExported(Balances(app), ExportGenesis(app), WriteValidators(app))
    IN  /\ phase = "begin" /\ h > 0 /\ app.last # <<>> /\ incidents < MaxIncidents
        /\ app' = [SlashingInitGenesis(s, app.info, app.bits) EXCEPT !.evidence = app.evidence]
        /\ phase' = IF app'.panic = "" THEN "begin" ELSE "halted"
        /\ tm' = [b \in h .. h + 2 |-> [time |-> IF b = h THEN app.time ELSE 0,
                                        vals |-> IF b = h THEN <<>> ELSE app'.updates]]
        /\ incidents' = MaxIncidents
        /\ UNCHANGED messages

\* The message of a validator that wants out of jail: not before its time, and
\* not without its minimum self-delegation.
Unjail(v) ==
    /\ Has(app.val, v) /\ Has(app.del, <<v, v>>)
    /\ TruncateInt(TokensFromShares(app.val[v], app.del[v, v])) >= app.val[v].minSelf
    /\ app.val[v].jailed
    /\ v \in DOMAIN app.info => ~app.info[v].tombstoned /\ app.time >= app.info[v].until
    /\ Delivered(unjailValidator(app, v))

Message ==
    \/ \E v \in Operators, amt \in Amounts : CreateValidator(v, amt, 1, 0)
    \/ \E v \in Operators : EditValidator(v, Nil, app.val[v].minSelf + 1) \/ Unjail(v)
    \/ \E d \in Delegators, v \in Operators, amt \in Amounts :
          \/ MsgDelegate(d, v, amt)
          \/ MsgUndelegate(d, v, amt)
          \/ \E dst \in Operators : MsgBeginRedelegate(d, v, dst, amt)

DeliverTx ==
    /\ phase = "txs" /\ messages < MaxMessages
    /\ Message
    /\ messages' = messages + 1
    /\ UNCHANGED <<tm, phase, incidents>>

Next == NextBlock \/ DeliverTx \/ EndBlock \/ ExportImport

Spec == Init /\ [][Next]_vars

-----------------------------------------------------------------------------
(* Properties                                                              *)

StatusTokens(S) == SumFunctionOnSet([v \in DOMAIN app.val |-> app.val[v].tokens],
                                    {v \in DOMAIN app.val : app.val[v].status \in S})

SumSeq(s, op(_)) == FoldLeft(LAMBDA n, e : n + op(e), 0, s)

UnbondingTokens ==
    SumFunction([k \in DOMAIN app.ubd |-> SumSeq(app.ubd[k], LAMBDA e : e.balance)])

\* Between any two operations the bonded pool holds exactly the tokens of the
\* bonded validators, and the other pool those of the rest and of the unbonding
\* entries, whatever was slashed, redelegated or moved between statuses; no token
\* comes or goes but by being burned. The shares of a validator are those of its
\* delegations, each of which holds some; and the power index has every validator
\* that is not jailed, once, under the power its tokens give. No assertion of the
\* BeginBlockers and EndBlockers fails, as a panic there stops every node, but the
\* one of DestinationFound.
StakeExact ==
    /\ phase = "halted" => app.panic = DestinationGone
    /\ phase # "halted" =>
        /\ app.bonded = StatusTokens({"bonded"})
        /\ app.notBonded = StatusTokens({"unbonding", "unbonded"}) + UnbondingTokens
        /\ app.bonded + app.notBonded + app.burned + SumFunction(app.balance)
              = SumFunction(Genesis.del) + SumFunction(Genesis.balance)
        /\ \A v \in DOMAIN app.val :
              app.val[v].shares = SumFunctionOnSet(app.del, {k \in DOMAIN app.del : k[2] = v})
        /\ \A k \in DOMAIN app.del : app.del[k] > 0 /\ Has(app.val, k[2])
        /\ app.power = {GetValidatorsByPowerIndexKey(app.val[v], v) :
                           v \in {v \in DOMAIN app.val : ~app.val[v].jailed}}

\* "destination validator not found" is a panic in SlashRedelegation: it takes the
\* validator that it unbonded from to be there. Unbond removes one that is unbonded
\* with its last shares.
DestinationFound == app.panic # DestinationGone

\* After EndBlock, what Tendermint makes of the updates it was sent so far is the
\* set staking has on record, with its total: the bonded validators and no other,
\* none of them jailed, and nobody outside with more power.
TendermintAgrees ==
    phase = "begin" =>
        LET bonded == {v \in DOMAIN app.val : IsBonded(app.val[v])}
        IN  /\ tm[app.height + 2].vals = app.last
            /\ DOMAIN app.last = bonded
            /\ app.total = SumFunction(app.last)
            /\ Cardinality(bonded) <= MaxValidators
            /\ \A v \in bonded : /\ ~app.val[v].jailed
                                 /\ app.last[v] = PotentialConsensusPower(app.val[v])
            /\ \A v \in DOMAIN app.val \ bonded :
                  \/ app.val[v].jailed \/ PotentialConsensusPower(app.val[v]) = 0
                  \/ /\ Cardinality(bonded) = MaxValidators
                     /\ \A b \in bonded : app.last[b] >= PotentialConsensusPower(app.val[v])

\* The queues hold what waits, at the time it ends, and EndBlock leaves nothing
\* behind that is due: an entry that its queue lost would never be paid.
QueuesExact ==
    /\ app.valQ = {<<app.val[v].unbondingTime, app.val[v].unbondingHeight, v>> :
                      v \in {v \in DOMAIN app.val : app.val[v].status = "unbonding"}}
    /\ app.ubdQ = UNION {{<<e.time>> \o k : e \in ToSet(app.ubd[k])} : k \in DOMAIN app.ubd}
    /\ app.redQ = UNION {{<<e.time>> \o k : e \in ToSet(app.red[k])} : k \in DOMAIN app.red}
    /\ phase = "begin" => \A q \in app.valQ \cup app.ubdQ \cup app.redQ : q[1] > app.time

\* The missed-block counter of a validator is the number of bits set in its
\* window, none of which lies outside it: it neither loses nor keeps a miss when
\* the window wraps, when the validator is punished, and when it leaves and
\* comes back. And a validator is punished for one equivocation, however often and
\* late evidence of it, or of another, is handed over.
MissedExact ==
    /\ \A v \in DOMAIN app.info :
          /\ app.info[v].missed = Cardinality(app.bits[v])
          /\ app.bits[v] \subseteq 0 .. SignedBlocksWindow - 1
    /\ \A e, f \in app.evidence : e.validator = f.validator => e = f
=============================================================================
