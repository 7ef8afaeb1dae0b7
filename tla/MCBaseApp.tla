----------------------------- MODULE MCBaseApp -----------------------------
(***************************************************************************)
(* BaseApp with a handful of transactions of one account: two that follow  *)
(* each other, the second of which times out after the first block, one    *)
(* whose second message fails, one that pays nothing and runs out of gas,  *)
(* one that cannot be decoded and one on which the ante handler panics.    *)
(* GetBlockRetentionHeight is a method of BaseApp that reads options and   *)
(* the height only: a behaviour runs the ABCI calls, or the commits of a   *)
(* node with some options.                                                 *)
(***************************************************************************)
EXTENDS BaseApp, BlockRetention

VARIABLE component      \* "baseapp" or "retention"

MCInit ==
    /\ Init /\ RetentionInit /\ component \in {"baseapp", "retention"}
    /\ component = "baseapp" => \A x \in DOMAIN options : options[x] = 0

MCNext ==
    /\ \/ component = "baseapp" /\ Next /\ UNCHANGED retentionVars
       \/ component = "retention" /\ RetentionNext /\ UNCHANGED vars
    /\ UNCHANGED component

MCSpec == MCInit /\ [][MCNext]_<<vars, retentionVars, component>>

Tx(id, seq, limit, timeout, msgs) ==
    [id |-> id, ok |-> TRUE, seq |-> seq, fee |-> 1, limit |-> limit, timeout |-> timeout,
     ante |-> TRUE, msgs |-> msgs]

first   == Tx("first", 0, 3, 0, <<"ok", "ok">>)
second  == Tx("second", 1, 2, 3, <<"ok">>)
fails   == Tx("fails", 0, 3, 0, <<"ok", "fail">>)
runsOut == [Tx("runsOut", 1, 2, 0, <<"ok", "ok">>) EXCEPT !.fee = 0]
garbage == [Tx("garbage", 0, 1, 0, <<>>) EXCEPT !.ok = FALSE]
panics  == [Tx("panics", 0, 1, 0, <<"ok">>) EXCEPT !.ante = FALSE]

MCTxs == {first, second, fails, runsOut, garbage, panics}
=============================================================================
