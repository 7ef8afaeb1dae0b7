------------------------------- MODULE Authz -------------------------------
(***************************************************************************)
(* x/authz, with the authorizations of x/bank and x/staking: a grantee     *)
(* executes messages that the granter would have to sign. An authorization *)
(* is a record: limit may be Nil, and allow and deny are sets of           *)
(* validators, at most one of them nonempty.                               *)
(***************************************************************************)
LOCAL INSTANCE Integers
LOCAL INSTANCE SequencesExt
LOCAL INSTANCE FiniteSetsExt
LOCAL INSTANCE Stores

CONSTANT Handler(_, _)      \* the message router: Handler(s, msg)

GenericAuthorization(msgType) == [kind |-> "generic", msgType |-> msgType]

SendAuthorization(limit) == [kind |-> "send", msgType |-> "Send", limit |-> limit]

StakeAuthorization(msgType, allow, deny, limit) ==
    [kind |-> "stake", msgType |-> msgType, allow |-> allow, deny |-> deny, limit |-> limit]

\* A message accepted under a limit: what the keeper makes of the grant.
Spent(auth, amt) ==
    IF auth.limit = Nil THEN [ok |-> TRUE, delete |-> FALSE, auth |-> auth]
    ELSE [ok |-> auth.limit >= amt, delete |-> auth.limit = amt, auth |-> [auth EXCEPT !.limit = @ - amt]]

GenericAccept(auth, msg) == [ok |-> TRUE, delete |-> FALSE, auth |-> auth]

SendAccept(auth, msg) == Spent(auth, msg.amt)

\* A validator must be on the list of those allowed, also when the
\* authorization has a list of those denied instead. More than the limit
\* panics.
StakeAccept(auth, msg) ==
    IF msg.val \in auth.deny \/ msg.val \notin auth.allow
    THEN [ok |-> FALSE, delete |-> FALSE, auth |-> auth]
    ELSE Spent(auth, msg.amt)

Accept(auth, msg) ==
    CASE auth.kind = "generic" -> GenericAccept(auth, msg)
      [] auth.kind = "send"    -> SendAccept(auth, msg)
      [] auth.kind = "stake"   -> StakeAccept(auth, msg)

-----------------------------------------------------------------------------
(* x/authz/keeper *)

\* A grant for the same type of message is overwritten.
SaveGrant(s, grantee, granter, auth, expiration) ==
    [s EXCEPT !.grants = Set(@, <<grantee, granter, auth.msgType>>,
                             [auth |-> auth, expiration |-> expiration])]

DeleteGrant(s, key) ==
    [Require(s, Has(s.grants, key), "authorization not found") EXCEPT !.grants = Delete(@, key)]

\* As a bug: the expiration is not looked at.
GetAnyAuthorization(s, key) == Has(s.grants, key)

\* Whether there is an authorization. An expired one is also deleted, which
\* the failure of the message undoes.
GetCleanAuthorization(s, key) == Has(s.grants, key) /\ s.grants[key].expiration >= s.time

\* One message of the list.
DispatchAction(s, grantee, msg) ==
    LET key   == <<grantee, msg.signer, msg.type>>
        res   == Accept(s.grants[key].auth, msg)
        taken == IF msg.signer = grantee THEN s
                 ELSE IF ~GetCleanAuthorization(s, key) THEN Panic(s, "authorization not found")
                 ELSE IF ~res.ok THEN Panic(s, "unauthorized")
                 ELSE IF res.delete THEN DeleteGrant(s, key)
                 ELSE [s EXCEPT !.grants[key].auth = res.auth]
    IN  IF taken.panic = "" THEN Handler(taken, msg) ELSE taken

DispatchActions(s, grantee, msgs) ==
    FoldLeft(LAMBDA r, msg : IF r.panic = "" THEN DispatchAction(r, grantee, msg) ELSE r, s, msgs)

\* Every grant is saved again, expired ones included.
AuthzInitGenesis(s, grants) ==
    FoldSet(LAMBDA k, r : SaveGrant(r, k[1], k[2], grants[k].auth, grants[k].expiration),
            s, DOMAIN grants)

Grant(s, msg)  == SaveGrant(s, msg.grantee, msg.signer, msg.auth, msg.expiration)
Revoke(s, msg) == DeleteGrant(s, <<msg.grantee, msg.signer, msg.msgType>>)
Exec(s, msg)   == DispatchActions(s, msg.signer, msg.msgs)
=============================================================================
