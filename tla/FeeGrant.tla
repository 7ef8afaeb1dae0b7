------------------------------ MODULE FeeGrant ------------------------------
(***************************************************************************)
(* x/feegrant: the allowances, under which a grantee's fees are paid by    *)
(* the granter. An allowance is a record: limit and expiration may be Nil, *)
(* period is Nil unless the allowance is a periodic one, and filtered says *)
(* that it is wrapped in an AllowedMsgAllowance for the message types of   *)
(* allowed.                                                                *)
(***************************************************************************)
EXTENDS Bank

BasicAllowance(limit, expiration) ==
    [limit |-> limit, expiration |-> expiration, period |-> Nil, filtered |-> FALSE]

PeriodicAllowance(basic, period, periodLimit, canSpend, reset) ==
    [basic EXCEPT !.period = period]
    @@ [periodLimit |-> periodLimit, canSpend |-> canSpend, reset |-> reset]

AllowedMsgAllowance(inner, allowed) == [inner EXCEPT !.filtered = TRUE] @@ [allowed |-> allowed]

\* What a period has to spend at first is not held against any limit.
ValidateBasic(a) ==
    /\ a.limit # Nil => a.limit > 0
    /\ a.expiration # Nil => a.expiration >= 0
    /\ a.period # Nil => a.period >= 0 /\ a.periodLimit > 0 /\ a.canSpend >= 0
    /\ a.filtered => a.allowed # {}

Expired(expiration, t) == expiration # Nil /\ expiration < t

\* How Accept answers: the error, whether to remove the allowance, and the
\* allowance as it is then in memory.
Accepted(a)         == [ok |-> TRUE, remove |-> a.limit = 0, allowance |-> a]
Rejected(a, remove) == [ok |-> FALSE, remove |-> remove, allowance |-> a]

LessFee(a, fee) == IF a.limit = Nil THEN a ELSE [a EXCEPT !.limit = @ - fee]

BasicAccept(a, fee, t) ==
    IF Expired(a.expiration, t) THEN Rejected(a, TRUE)
    ELSE IF a.limit # Nil /\ a.limit < fee THEN Rejected(a, FALSE)
    ELSE Accepted(LessFee(a, fee))

NextReset(a, t) == IF t > a.reset + a.period THEN t + a.period ELSE a.reset + a.period

\* As a bug: the period is topped up beyond what the limit has left.
ResetToPeriodLimit(a, t) ==
    IF t < a.reset THEN a ELSE [a EXCEPT !.canSpend = a.periodLimit, !.reset = NextReset(a, t)]

tryResetPeriod(a, t) ==
    IF t < a.reset THEN a
    ELSE [a EXCEPT !.canSpend = IF a.limit # Nil /\ a.limit < a.periodLimit THEN a.limit ELSE a.periodLimit,
                   !.reset = NextReset(a, t)]

PeriodicAccept(a, fee, t) ==
    LET r == tryResetPeriod(a, t)
    IN  IF Expired(a.expiration, t) THEN Rejected(a, TRUE)
        ELSE IF r.canSpend < fee \/ (r.limit # Nil /\ r.limit < fee) THEN Rejected(a, FALSE)
        ELSE Accepted(LessFee([r EXCEPT !.canSpend = @ - fee], fee))

AllowedMsgAccept(a, fee, msgType, t) ==
    IF a.filtered /\ msgType \notin a.allowed THEN Rejected(a, FALSE)
    ELSE IF a.period = Nil THEN BasicAccept(a, fee, t) ELSE PeriodicAccept(a, fee, t)

-----------------------------------------------------------------------------
(* x/feegrant/keeper *)

GrantAllowance(s, granter, grantee, a) ==
    [EnsureAccount(s, grantee) EXCEPT !.allowances = Set(@, <<granter, grantee>>, a)]

revokeAllowance(s, granter, grantee) ==
    [Require(s, Has(s.allowances, <<granter, grantee>>), "fee-grant not found")
        EXCEPT !.allowances = Delete(@, <<granter, grantee>>)]

\* What NewGrant packs. The allowance inside a filtered one is an Any: Accept
\* changes the value it has cached, and the bytes it packs stay those read.
Packed(read, a) == IF read.filtered THEN read ELSE a

\* An error makes the transaction fail, and a removal before it is undone.
UseGrantedFees(s, granter, grantee, fee, msgType) ==
    IF ~Has(s.allowances, <<granter, grantee>>) THEN Panic(s, "fee-grant not found")
    ELSE LET read == s.allowances[<<granter, grantee>>]
             res  == AllowedMsgAccept(read, fee, msgType, s.time)
         IN  IF res.remove
             THEN Require(revokeAllowance(s, granter, grantee), res.ok, "fee allowance expired")
             ELSE GrantAllowance(Require(s, res.ok, "fee limit exceeded"), granter, grantee,
                                 Packed(read, res.allowance))

FeeGrantInitGenesis(s, allowances) ==
    FoldSet(LAMBDA k, r : GrantAllowance(r, k[1], k[2], allowances[k]), s, DOMAIN allowances)

ValidateGrantAllowance(msg) == msg.grantee # msg.signer /\ ValidateBasic(msg.allowance)

MsgGrantAllowance(s, msg) ==
    GrantAllowance(Require(s, ~Has(s.allowances, <<msg.signer, msg.grantee>>), "already exists"),
                   msg.signer, msg.grantee, msg.allowance)

MsgRevokeAllowance(s, msg) == revokeAllowance(s, msg.signer, msg.grantee)
=============================================================================
