--------------------------- MODULE BaseAppProofs ---------------------------
(***************************************************************************)
(* What a node computes is a function of the blocks, a transaction takes   *)
(* effect once and as a whole, and the gas of a block is bounded, for any  *)
(* transactions, gas settings and initial height and any number of blocks, *)
(* checked transactions and crashes.                                       *)
(***************************************************************************)
EXTENDS BaseApp, WellFoundedInduction, TLAPS

Effects == {tx.id : tx \in Txs} \X (Nat \ {0})
State   == [genesis : BOOLEAN, seq : Nat, paid : Nat, effects : Seq(Effects)]

\* What Delivered works on.
Frames == [state : State, block : Nat, ctx : Nat, ok : BOOLEAN]

TypeOK ==
    /\ log \in Seq(Seq(Txs))
    /\ committed \in State /\ blocks \in Nat
    /\ phase \in {"down", "genesis", "idle", "block", "ended", "panic"}
    /\ initialHeight \in Nat
    /\ deliver \in State \cup {Nil} /\ check \in State \cup {Nil} /\ checkHeight \in Nat
    /\ pos \in Nat /\ ctxGas \in Nat /\ blockGas \in Nat
    /\ warm \in BOOLEAN /\ result \in BOOLEAN /\ checked \in Nat

\* Where there is a check state, and where a deliver state: a block is executed
\* on one, and is one of the log.
BlockInv ==
    /\ blocks <= Len(log)
    /\ up => check \in State
    /\ phase \in {"block", "ended"} =>
         deliver \in State /\ blocks < Len(log) /\ pos <= Len(log[blocks + 1])
    /\ phase = "ended" => pos = Len(log[blocks + 1])

BaseInv == TypeOK /\ BlockInv

\* The effects of a state, and the sequence number that keeps each transaction
\* that took effect from running again.
Sound(st) ==
    /\ Once(st.effects) /\ Whole(st.effects)
    /\ \A p \in 1 .. Len(st.effects), tx \in Txs :
         st.effects[p][1] = tx.id => tx.seq < st.seq

SoundInv == Sound(committed) /\ (deliver # Nil => Sound(deliver))

\* Where the process stands in the execution of the blocks: what is durable, what
\* it starts the next block with, and how far it is in a block.
DurableInv == blocks > 0 => committed = Replay[blocks]
IdleInv ==
    /\ phase \in {"down", "genesis"} => deliver = Nil /\ ctxGas = 0 /\ initialHeight = 0
    /\ phase = "genesis" => blocks = 0
    /\ phase = "idle" =>
         IF blocks = 0
         THEN /\ deliver = Replay[0] /\ ctxGas = BeginGas
              /\ initialHeight = IF InitialHeight > 1 THEN InitialHeight ELSE 0
         ELSE deliver = Nil /\ ctxGas = 0
    /\ phase # "panic"
    /\ blocks = 0 => committed = Empty
    /\ cold \subseteq 1 .. Len(log)
Reached == Execution(Replay[blocks], log[blocks + 1], blocks + 1)[pos]
BusyInv ==
    phase \in {"block", "ended"} =>
        /\ deliver = Reached.state /\ blockGas = Reached.block
        /\ blocks + 1 \notin cold => ctxGas = Reached.ctx
        /\ pos > 0 => result = Reached.ok
ReplayInv == IdleInv /\ (RestartsUncharged => DurableInv /\ BusyInv)

CheckInv ==
    up => /\ check.effects = committed.effects /\ check.seq >= committed.seq
          /\ checked = 0 => check = committed

-----------------------------------------------------------------------------
(* Induction and recursion over the numbers up to a bound                  *)

\* A set of numbers that is not empty has a least element.
LEMMA Least ==
    ASSUME NEW S, S \subseteq Nat, S # {}
    PROVE  \E m \in S : \A x \in S : m <= x
  <1> DEFINE R == OpToRel(<, Nat)
  <1>1. IsWellFoundedOn(R, Nat)
    BY NatLessThanWellFounded, Zenon
  <1>2. \A y, t \in Nat : y < t => <<y, t>> \in R
    BY Zenon DEF OpToRel
  <1> HIDE DEF R
  <1>3. PICK m \in S : \A y \in S : ~(<<y, m>> \in R)
    BY <1>1, WFMin, Zenon
  <1>4. \A y \in S : ~(y < m)
    BY <1>2, <1>3, Zenon
  <1> QED BY <1>3, <1>4

\* Induction, with the property as a set.
LEMMA Induction ==
    ASSUME NEW n \in Nat, NEW S, 0 \in S, \A k \in 1 .. n : k - 1 \in S => k \in S
    PROVE  \A k \in 0 .. n : k \in S
  <1> DEFINE Out == {k \in 0 .. n : k \notin S}
  <1> SUFFICES ASSUME Out # {} PROVE FALSE
    BY Zenon
  <1>1. PICK m \in Out : \A x \in Out : m <= x
    <2>1. Out \subseteq Nat
      OBVIOUS
    <2> HIDE DEF Out
    <2> QED BY <2>1, Least, Zenon
  <1>2. m \in 1 .. n /\ m \notin S
    OBVIOUS
  <1>3. m - 1 \notin Out
    BY <1>1, <1>2
  <1> QED BY <1>2, <1>3

\* f begins with base, and its next values come from those before by step.
Recursive(f, n, D, base, step) ==
    /\ f \in [0 .. n -> D]
    /\ f[0] = base
    /\ \A k \in 1 .. n : f[k] = step[k][f[k - 1]]

\* A function can be defined by recursion, with the step as a function.
LEMMA Recursion ==
    ASSUME NEW n \in Nat, NEW D, NEW base \in D, NEW step \in [1 .. n -> [D -> D]]
    PROVE  \E f : Recursive(f, n, D, base, step)
  <1> DEFINE Upto(f, m) == f[0] = base /\ \A k \in 1 .. m : f[k] = step[k][f[k - 1]]
             S == {m \in 0 .. n : \E f \in [0 .. m -> D] : Upto(f, m)}
  <1>1. 0 \in S
    <2> DEFINE g == [k \in 0 .. 0 |-> base]
    <2>1. g \in [0 .. 0 -> D] /\ g[0] = base
      OBVIOUS
    <2> HIDE DEF g
    <2>2. Upto(g, 0)
      BY <2>1
    <2> HIDE DEF Upto
    <2> QED BY <2>1, <2>2
  <1>2. ASSUME NEW m \in 1 .. n, m - 1 \in S PROVE m \in S
    <2>1. PICK f \in [0 .. m - 1 -> D] : Upto(f, m - 1)
      <3> HIDE DEF Upto
      <3> QED BY <1>2, Zenon
    <2> DEFINE g == [k \in 0 .. m |-> IF k = m THEN step[m][f[m - 1]] ELSE f[k]]
    <2>2. step[m][f[m - 1]] \in D
      <3>1. f[m - 1] \in D
        OBVIOUS
      <3> QED BY <3>1, Zenon
    <2>3. g \in [0 .. m -> D]
      BY <2>2
    <2>4. \A k \in 0 .. m - 1 : g[k] = f[k]
      OBVIOUS
    <2>5. g[m] = step[m][f[m - 1]]
      OBVIOUS
    <2> HIDE DEF g
    <2>6. Upto(g, m)
      <3>1. g[0] = base
        BY <2>1, <2>4
      <3>2. ASSUME NEW k \in 1 .. m PROVE g[k] = step[k][g[k - 1]]
        <4>1. CASE k = m
          BY <2>4, <2>5, <4>1
        <4>2. CASE k # m
          <5>1. k \in 1 .. m - 1 /\ k - 1 \in 0 .. m - 1 /\ k \in 0 .. m - 1
            BY <4>2
          <5>2. g[k] = f[k] /\ g[k - 1] = f[k - 1]
            BY <2>4, <5>1, Zenon
          <5> QED BY <2>1, <5>1, <5>2, Zenon
        <4> QED BY <4>1, <4>2, Zenon
      <3> QED BY <3>1, <3>2, Zenon
    <2> HIDE DEF Upto
    <2> QED BY <2>3, <2>6
  <1> HIDE DEF S
  <1>3. \A k \in 1 .. n : k - 1 \in S => k \in S
    BY <1>2, Zenon
  <1>4. \A k \in 0 .. n : k \in S
    BY <1>1, <1>3, Induction, Zenon
  <1>5. n \in S
    BY <1>4
  <1> QED BY <1>5, Zenon DEF S, Recursive

-----------------------------------------------------------------------------
(* One transaction                                                         *)

LEMMA TxFacts ==
    ASSUME NEW tx \in Txs
    PROVE  /\ tx.seq \in Nat /\ tx.fee \in Nat /\ tx.limit \in Nat /\ tx.timeout \in Nat
           /\ tx.ok \in BOOLEAN /\ tx.ante \in BOOLEAN
           /\ tx.msgs \in Seq(STRING) /\ Len(tx.msgs) \in Nat
  BY TxsAssumption

LEMMA ConstantFacts ==
    /\ InitialHeight \in Nat /\ InitialHeight >= 1
    /\ MaxGas \in Nat /\ MinFee \in Nat /\ Balance \in Nat /\ AnteGas \in Nat
    /\ BeginGas \in Nat /\ RestartGas \in Nat /\ ParamGas \in Nat /\ AccountNumber \in Nat
  BY BaseAppAssumption

\* The effects a transaction adds when its messages succeed.
Added(tx) == [i \in 1 .. Len(tx.msgs) |-> <<tx.id, i>>]

LEMMA AddedFacts ==
    ASSUME NEW tx \in Txs
    PROVE  Added(tx) \in Seq(Effects) /\ Len(Added(tx)) = Len(tx.msgs)
  <1>1. Len(tx.msgs) \in Nat
    BY TxFacts, Zenon
  <1>2. Added(tx) \in [1 .. Len(tx.msgs) -> Effects]
    BY DEF Added, Effects
  <1>3. \A n \in Nat : \A f \in [1 .. n -> Effects] : f \in Seq(Effects) /\ Len(f) = n
    OBVIOUS
  <1> QED BY <1>1, <1>2, <1>3, Zenon

Ran(st, tx) == [st EXCEPT !.effects = st.effects \o Added(tx)]

\* What runMsgs returns: the branch is the state it was given, or that state
\* with the effects of every message.
LEMMA RunMsgsFacts ==
    ASSUME NEW st \in State, NEW tx \in Txs, NEW h \in Nat
    PROVE  /\ runMsgs(st, tx, h).ok \in BOOLEAN
           /\ runMsgs(st, tx, h).gas \in Nat
           /\ runMsgs(st, tx, h).state \in {st, Ran(st, tx)}
  <1> DEFINE n == Len(tx.msgs)
             Failing == {i \in 1 .. n : tx.msgs[i] # "ok" \/ OutOfGas(AnteGas + i, tx, h)}
             first == CHOOSE i \in Failing : \A j \in Failing : i <= j
             m == runMsgs(st, tx, h)
  <1>1. n \in Nat /\ AnteGas \in Nat
    BY TxFacts, ConstantFacts, Zenon
  <1>2. Failing \subseteq Nat
    BY <1>1
  <1>3. /\ m.ok = (Failing = {})
        /\ m.gas = AnteGas + (IF Failing = {} THEN n ELSE first)
        /\ m.state = IF Failing = {} THEN Ran(st, tx) ELSE st
    BY Zenon DEF runMsgs, Added, Ran
  <1> HIDE DEF Failing, n, m
  <1>4. Failing # {} => first \in Failing
    BY <1>2, Least, Zenon
  <1> HIDE DEF first
  <1>5. m.gas \in Nat
    <2>1. (IF Failing = {} THEN n ELSE first) \in Nat
      BY <1>1, <1>2, <1>4, Zenon
    <2> QED BY <1>1, <1>3, <2>1
  <1>6. m.ok \in BOOLEAN /\ m.state \in {st, Ran(st, tx)}
    BY <1>3, Zenon
  <1> QED BY <1>5, <1>6, Zenon DEF m

\* The state when the ante handler has passed, and when the messages have too.
Passed(st, tx)   == [st EXCEPT !.seq = st.seq + 1, !.paid = st.paid + tx.fee]
Succeeded(st, tx) == Ran(Passed(st, tx), tx)

LEMMA PassedFacts ==
    ASSUME NEW st \in State, NEW tx \in Txs
    PROVE  /\ Passed(st, tx) \in State
           /\ Passed(st, tx).effects = st.effects
           /\ Passed(st, tx).seq = st.seq + 1
           /\ Succeeded(st, tx) \in State
           /\ Succeeded(st, tx).effects = st.effects \o Added(tx)
           /\ Succeeded(st, tx).seq = st.seq + 1
  <1>1. tx.fee \in Nat
    BY TxFacts, Zenon
  <1>2. Passed(st, tx) \in State /\ Passed(st, tx).effects = st.effects
        /\ Passed(st, tx).seq = st.seq + 1
    <2>1. st.seq \in Nat /\ st.paid \in Nat
      BY Zenon DEF State
    <2>2. st.seq + 1 \in Nat /\ st.paid + tx.fee \in Nat
      BY <1>1, <2>1
    <2>3. \A x \in State, n \in Nat : /\ [x EXCEPT !.seq = n] \in State
                                      /\ [x EXCEPT !.paid = n] \in State
      BY Zenon DEF State
    <2>4. Passed(st, tx) = [[st EXCEPT !.seq = st.seq + 1] EXCEPT !.paid = st.paid + tx.fee]
      BY Zenon DEF Passed
    <2>5. [st EXCEPT !.seq = st.seq + 1] \in State
      BY <2>2, <2>3, Zenon
    <2>6. Passed(st, tx) \in State
      BY <2>2, <2>3, <2>4, <2>5, Zenon
    <2> QED BY <2>6, Zenon DEF Passed, State
  <1>3. st.effects \o Added(tx) \in Seq(Effects)
    BY AddedFacts DEF State
  <1> QED BY <1>2, <1>3, Zenon DEF Succeeded, Ran, State

\* runTx leaves one of three states, and a transaction whose ante handler passes
\* has the sequence number of the account. It uses no more gas than its limit,
\* or, when it fails before it has a meter, what the context has used.
LEMMA RunTxFacts ==
    ASSUME NEW st \in State, NEW tx \in Txs, NEW h \in Nat, h # 0, NEW own \in Nat
    PROVE  LET r == runTx(st, tx, h, own)
           IN  /\ r.ok \in BOOLEAN /\ r.gas \in Nat
               /\ \/ r.state = st
                  \/ /\ r.state \in {Passed(st, tx), Succeeded(st, tx)}
                     /\ tx.seq = st.seq
               /\ r.gas <= tx.limit \/ r.gas = own
  <1> DEFINE r == runTx(st, tx, h, own)
             a == AnteHandler(st, tx, h, FALSE, FALSE)
             m == runMsgs(a.state, tx, h)
  <1>1. tx.limit \in Nat /\ AnteGas \in Nat
    BY TxFacts, ConstantFacts, Zenon
  <1>2. /\ a.gas \in Nat
        /\ a.state = Passed(st, tx)
        /\ a.ok \in BOOLEAN /\ (a.ok => tx.seq = st.seq)
    BY <1>1, Zenon DEF AnteHandler, Passed, IncrementSequence, SigVerified
  <1>3. a.state \in State
    BY <1>2, PassedFacts, Zenon
  <1> HIDE DEF a
  <1>4. /\ m.ok \in BOOLEAN /\ m.gas \in Nat
        /\ m.state \in {Passed(st, tx), Succeeded(st, tx)}
    BY <1>2, <1>3, RunMsgsFacts, Zenon DEF Succeeded
  <1> HIDE DEF m
  <1>5. \A g \in Nat : ToLimit(g, tx, h) \in Nat /\ ToLimit(g, tx, h) <= tx.limit
    BY <1>1 DEF ToLimit
  <1>6. r = IF ~tx.ok \/ ~tx.ante
            THEN [ok |-> FALSE, gas |-> own, state |-> st]
            ELSE IF ~a.ok
            THEN [ok |-> FALSE, gas |-> ToLimit(a.gas, tx, h), state |-> st]
            ELSE [ok |-> m.ok, gas |-> ToLimit(m.gas, tx, h), state |-> m.state]
    BY Zenon DEF runTx, a, m
  <1> HIDE DEF r
  <1>7. CASE ~tx.ok \/ ~tx.ante
    <2>1. r.ok = FALSE /\ r.gas = own /\ r.state = st
      BY <1>6, <1>7, Zenon
    <2> QED BY <2>1, Zenon DEF r
  <1>8. CASE tx.ok /\ tx.ante /\ ~a.ok
    <2>1. r.ok = FALSE /\ r.gas = ToLimit(a.gas, tx, h) /\ r.state = st
      BY <1>6, <1>8, Zenon
    <2> QED BY <1>2, <1>5, <2>1, Zenon DEF r
  <1>9. CASE tx.ok /\ tx.ante /\ a.ok
    <2>1. r.ok = m.ok /\ r.gas = ToLimit(m.gas, tx, h) /\ r.state = m.state
      BY <1>6, <1>9, Zenon
    <2> QED BY <1>2, <1>4, <1>5, <1>9, <2>1, Zenon DEF r
  <1> QED BY <1>7, <1>8, <1>9, Zenon

\* DeliverTx leaves the state as runTx does, and adds to the block gas what the
\* transaction used, when the block gas was not used up.
LEMMA DeliveredFacts ==
    ASSUME NEW x \in Frames, NEW tx \in Txs, NEW h \in Nat, h # 0
    PROVE  /\ Delivered(x, tx, h) \in Frames
           /\ Delivered(x, tx, h).ctx = x.ctx + ParamGas
           /\ \/ Delivered(x, tx, h).state = x.state
              \/ /\ Delivered(x, tx, h).state \in {Passed(x.state, tx), Succeeded(x.state, tx)}
                 /\ tx.seq = x.state.seq
           /\ \/ Delivered(x, tx, h).block = x.block
              \/ /\ MaxGas > 0 => x.block < MaxGas
                 /\ \/ Delivered(x, tx, h).block <= x.block + tx.limit
                    \/ Delivered(x, tx, h).block = x.block + Delivered(x, tx, h).ctx
  <1> DEFINE ctx == x.ctx + ParamGas
             r == runTx(x.state, tx, h, ctx)
             ok == r.ok /\ (MaxGas = 0 \/ x.block + r.gas <= MaxGas)
             y == Delivered(x, tx, h)
  <1>1. x.block \in Nat /\ x.ctx \in Nat /\ ParamGas \in Nat /\ MaxGas \in Nat /\ tx.limit \in Nat
    BY TxFacts, ConstantFacts, Zenon DEF Frames
  <1>2. x.state \in State
    BY Zenon DEF Frames
  <1>3. ctx \in Nat
    BY <1>1
  <1> HIDE DEF ctx
  <1>4. /\ r.gas \in Nat
        /\ r.state = x.state \/ (/\ r.state \in {Passed(x.state, tx), Succeeded(x.state, tx)}
                                 /\ tx.seq = x.state.seq)
        /\ r.gas <= tx.limit \/ r.gas = ctx
    BY <1>2, <1>3, RunTxFacts
  <1>5. y = IF MaxGas > 0 /\ x.block >= MaxGas
            THEN [state |-> x.state, block |-> x.block, ctx |-> ctx, ok |-> FALSE]
            ELSE [state |-> r.state, block |-> x.block + r.gas, ctx |-> ctx, ok |-> ok]
    BY Zenon DEF Delivered, ctx
  <1>6. r.state \in State
    BY <1>2, <1>4, PassedFacts, Zenon
  <1>7. ok \in BOOLEAN
    BY Zenon
  <1> HIDE DEF r, ok, y
  <1>8. CASE MaxGas > 0 /\ x.block >= MaxGas
    <2>1. y.state = x.state /\ y.block = x.block /\ y.ctx = ctx
      BY <1>5, <1>8, Zenon
    <2>2. y \in Frames
      BY <1>1, <1>2, <1>3, <1>5, <1>8, Zenon DEF Frames
    <2> QED BY <2>1, <2>2, Zenon DEF ctx, y
  <1>9. CASE ~(MaxGas > 0 /\ x.block >= MaxGas)
    <2>1. y.state = r.state /\ y.block = x.block + r.gas /\ y.ctx = ctx
      BY <1>5, <1>9, Zenon
    <2>2. y \in Frames
      <3>1. x.block + r.gas \in Nat
        BY <1>1, <1>4
      <3> QED BY <1>3, <1>5, <1>6, <1>7, <1>9, <3>1, Zenon DEF Frames
    <2>3. MaxGas > 0 => x.block < MaxGas
      BY <1>1, <1>9
    <2>4. y.block <= x.block + tx.limit \/ y.block = x.block + y.ctx
      BY <1>1, <1>3, <1>4, <2>1
    <2> QED BY <1>4, <2>1, <2>2, <2>3, <2>4, Zenon DEF ctx, y
  <1> QED BY <1>8, <1>9, Zenon

\* A state with other sequence number and fees only.
LEMMA PassedSound ==
    ASSUME NEW st \in State, NEW tx \in Txs, Sound(st)
    PROVE  Sound(Passed(st, tx))
  <1>1. Passed(st, tx).effects = st.effects /\ Passed(st, tx).seq = st.seq + 1
    BY PassedFacts, Zenon
  <1>2. st.seq \in Nat
    BY Zenon DEF State
  <1>3. \A other \in Txs : other.seq \in Nat
    BY TxFacts, Zenon
  <1>4. \A p \in 1 .. Len(st.effects), other \in Txs :
          st.effects[p][1] = other.id => other.seq < st.seq + 1
    <2>1. \A p \in 1 .. Len(st.effects), other \in Txs :
            st.effects[p][1] = other.id => other.seq < st.seq
      BY Zenon DEF Sound
    <2>2. \A other \in Txs : other.seq < st.seq => other.seq < st.seq + 1
      BY <1>2, <1>3
    <2> QED BY <2>1, <2>2, Zenon
  <1>5. Once(st.effects) /\ Whole(st.effects)
    BY Zenon DEF Sound
  <1> HIDE DEF Passed
  <1> QED BY <1>1, <1>4, <1>5, Zenon DEF Sound

LEMMA ConcatFacts ==
    ASSUME NEW S, NEW e \in Seq(S), NEW a \in Seq(S)
    PROVE  /\ Len(e \o a) = Len(e) + Len(a)
           /\ \A p \in 1 .. Len(e) + Len(a) :
                (e \o a)[p] = IF p <= Len(e) THEN e[p] ELSE a[p - Len(e)]
  OBVIOUS

LEMMA Appended ==
    ASSUME NEW e \in Seq(Effects), NEW tx \in Txs
    PROVE  /\ Len(e \o Added(tx)) = Len(e) + Len(tx.msgs)
           /\ \A p \in 1 .. Len(e) : (e \o Added(tx))[p] = e[p]
           /\ \A p \in Len(e) + 1 .. Len(e) + Len(tx.msgs) :
                (e \o Added(tx))[p] = <<tx.id, p - Len(e)>>
  <1> DEFINE a == Added(tx)
             n == Len(e)
             m == Len(tx.msgs)
  <1>1. a \in Seq(Effects) /\ Len(a) = m
    BY AddedFacts, Zenon
  <1>2. n \in Nat /\ m \in Nat
    BY TxFacts
  <1>3. \A i \in 1 .. m : a[i] = <<tx.id, i>>
    BY Zenon DEF Added
  <1> HIDE DEF a
  <1>4. /\ Len(e \o a) = n + m
        /\ \A p \in 1 .. n + m : (e \o a)[p] = IF p <= n THEN e[p] ELSE a[p - n]
    <2>1. /\ Len(e \o a) = Len(e) + Len(a)
          /\ \A p \in 1 .. Len(e) + Len(a) :
               (e \o a)[p] = IF p <= Len(e) THEN e[p] ELSE a[p - Len(e)]
      BY <1>1, ConcatFacts, Zenon
    <2> QED BY <1>1, <2>1, Zenon
  <1> DEFINE g == e \o a
  <1> HIDE DEF g, n, m
  <1>5. ASSUME NEW p \in 1 .. n PROVE g[p] = e[p]
    <2>1. p \in 1 .. n + m /\ p <= n
      BY <1>2
    <2> QED BY <1>4, <2>1, Zenon DEF g
  <1>6. ASSUME NEW p \in n + 1 .. n + m PROVE g[p] = <<tx.id, p - n>>
    <2>1. p \in 1 .. n + m /\ ~(p <= n) /\ p - n \in 1 .. m
      BY <1>2
    <2> QED BY <1>3, <1>4, <2>1, Zenon DEF g
  <1> QED BY <1>4, <1>5, <1>6, Zenon DEF g, a, n, m

\* The effects of a transaction that was not executed before, appended.
LEMMA SucceededSound ==
    ASSUME NEW st \in State, NEW tx \in Txs, Sound(st), tx.seq = st.seq
    PROVE  Sound(Succeeded(st, tx))
  <1> DEFINE e == st.effects
             n == Len(e)
             m == Len(tx.msgs)
             g == Succeeded(st, tx).effects
  <1>1. g = e \o Added(tx) /\ Succeeded(st, tx).seq = st.seq + 1
    BY PassedFacts, Zenon
  <1>13. e \in Seq(Effects) /\ st.seq \in Nat
    BY Zenon DEF State
  <1>10. n \in Nat /\ m \in Nat /\ st.seq \in Nat
    BY <1>13, TxFacts
  <1>2. /\ Len(g) = n + m
        /\ \A p \in 1 .. n : g[p] = e[p]
        /\ \A p \in n + 1 .. n + m : g[p] = <<tx.id, p - n>>
    <2> HIDE DEF e, g
    <2>1. /\ Len(e \o Added(tx)) = n + m
          /\ \A p \in 1 .. n : (e \o Added(tx))[p] = e[p]
          /\ \A p \in n + 1 .. n + m : (e \o Added(tx))[p] = <<tx.id, p - n>>
      BY <1>13, Appended, Zenon
    <2> QED BY <1>1, <2>1, Zenon
  <1> DEFINE At(q, t, j) == q \in 1 .. n /\ e[q] = <<t.id, j>>
  <1>4. \A i, j \in 1 .. n : e[i] = e[j] => i = j
    BY Zenon DEF Sound, Once
  <1>11. \A p \in 1 .. n : \A t \in Txs : e[p][1] = t.id => t.seq < st.seq
    BY Zenon DEF Sound
  <1>3. \A p \in 1 .. n : g[p][1] # tx.id
    <2> HIDE DEF e, n, m, g
    <2>1. ~(tx.seq < st.seq)
      BY <1>10
    <2> QED BY <1>11, <1>2, <2>1, Zenon
  <1>12. \A p \in 1 .. n : \A t \in Txs : e[p][1] = t.id =>
           \A j \in 1 .. Len(t.msgs) : At(p - e[p][2] + j, t, j)
    BY Zenon DEF Sound, Whole
  <1> HIDE DEF e, n, m, g, At
  <1>5. \A t \in Txs : t.id = tx.id => t = tx
    BY TxsAssumption, Zenon
  <1>6. \A p \in 1 .. n + m : p \in 1 .. n \/ p \in n + 1 .. n + m
    BY <1>10
  <1>7. Once(g)
    <2> SUFFICES ASSUME NEW i \in 1 .. n + m, NEW j \in 1 .. n + m, g[i] = g[j] PROVE i = j
      BY <1>2, Zenon DEF Once
    <2>1. CASE i \in 1 .. n /\ j \in 1 .. n
      BY <1>2, <1>4, <2>1, Zenon
    <2>2. CASE i \in n + 1 .. n + m /\ j \in n + 1 .. n + m
      <3>1. <<tx.id, i - n>> = <<tx.id, j - n>>
        BY <1>2, <2>2, Zenon
      <3>2. i - n = j - n
        BY <3>1, Zenon
      <3> QED BY <1>10, <3>2
    <2>3. CASE i \in 1 .. n /\ j \in n + 1 .. n + m
      <3>1. g[j][1] = tx.id
        BY <1>2, <2>3
      <3> QED BY <1>3, <2>3, <3>1, Zenon
    <2>4. CASE i \in n + 1 .. n + m /\ j \in 1 .. n
      <3>1. g[i][1] = tx.id
        BY <1>2, <2>4
      <3> QED BY <1>3, <2>4, <3>1, Zenon
    <2> QED BY <1>6, <2>1, <2>2, <2>3, <2>4, Zenon
  <1>8. Whole(g)
    <2> SUFFICES ASSUME NEW p \in 1 .. n + m, NEW t \in Txs, g[p][1] = t.id,
                        NEW j \in 1 .. Len(t.msgs)
                 PROVE  /\ p - g[p][2] + j \in 1 .. n + m
                        /\ g[p - g[p][2] + j] = <<t.id, j>>
      BY <1>2, Zenon DEF Whole
    <2>1. CASE p \in 1 .. n
      <3>1. g[p] = e[p]
        BY <1>2, <2>1, Zenon
      <3> DEFINE q == p - e[p][2] + j
      <3>2. e[p][1] = t.id
        BY <3>1, Zenon
      <3>3. At(q, t, j)
        BY <1>12, <2>1, <3>2, Zenon
      <3>4. p - g[p][2] + j = q
        BY <3>1, Zenon
      <3> HIDE DEF q
      <3>5. q \in 1 .. n
        BY <3>3, Zenon DEF At
      <3>6. q \in 1 .. n + m
        BY <1>10, <3>5
      <3>7. g[q] = <<t.id, j>>
        BY <1>2, <3>3, <3>5, Zenon DEF At
      <3> QED BY <3>4, <3>6, <3>7, Zenon
    <2>2. CASE p \in n + 1 .. n + m
      <3>1. g[p][1] = tx.id /\ g[p][2] = p - n
        BY <1>2, <2>2
      <3>2. t = tx
        BY <1>5, <3>1, Zenon
      <3>3. j \in 1 .. m
        BY <3>2, Zenon DEF m
      <3>4. p - g[p][2] + j = n + j
        BY <1>10, <2>2, <3>1, <3>3
      <3>5. n + j \in n + 1 .. n + m /\ (n + j) - n = j
        BY <1>10, <3>3
      <3>6. g[n + j] = <<tx.id, j>>
        BY <1>2, <3>5, Zenon
      <3>7. n + j \in 1 .. n + m
        BY <1>10, <3>3
      <3> DEFINE q == p - g[p][2] + j
      <3>8. q = n + j
        BY <3>4, Zenon
      <3> HIDE DEF q
      <3>9. q \in 1 .. n + m /\ g[q] = <<t.id, j>>
        BY <3>2, <3>6, <3>7, <3>8, Zenon
      <3> QED BY <3>9, Zenon DEF q
    <2> QED BY <1>6, <2>1, <2>2, Zenon
  <1>9. ASSUME NEW p \in 1 .. n + m, NEW t \in Txs, g[p][1] = t.id PROVE t.seq < st.seq + 1
    <2>1. t.seq \in Nat
      BY TxFacts, Zenon
    <2>2. CASE p \in 1 .. n
      <3>1. t.seq < st.seq
        BY <1>2, <1>11, <1>9, <2>2, Zenon
      <3> QED BY <1>10, <2>1, <3>1
    <2>3. CASE p \in n + 1 .. n + m
      <3>1. g[p][1] = tx.id
        BY <1>2, <2>3
      <3>2. t = tx
        BY <1>5, <1>9, <3>1, Zenon
      <3>3. t.seq = st.seq
        BY <3>2, Zenon
      <3> QED BY <1>10, <3>3
    <2> QED BY <1>6, <2>2, <2>3, Zenon
  <1> QED BY <1>1, <1>2, <1>7, <1>8, <1>9, Zenon DEF Sound, g

LEMMA DeliveredSound ==
    ASSUME NEW x \in Frames, NEW tx \in Txs, NEW h \in Nat, h # 0, Sound(x.state)
    PROVE  Sound(Delivered(x, tx, h).state)
  <1>1. x.state \in State
    BY Zenon DEF Frames
  <1> QED BY <1>1, DeliveredFacts, PassedSound, SucceededSound, Zenon

-----------------------------------------------------------------------------
(* The reference                                                           *)

\* The frame the n-th block begins with on state st.
Begun(st, n) == [state |-> st, block |-> 0,
                 ctx |-> IF n = 1 THEN 2 * BeginGas ELSE BeginGas, ok |-> TRUE]

LEMMA HeightFacts ==
    ASSUME NEW n \in Nat, n # 0
    PROVE  HeightOf(n) \in Nat /\ HeightOf(n) # 0
  BY ConstantFacts DEF HeightOf

LEMMA BegunFacts == ASSUME NEW st \in State, NEW n \in Nat PROVE Begun(st, n) \in Frames
  <1>1. (IF n = 1 THEN 2 * BeginGas ELSE BeginGas) \in Nat
    BY ConstantFacts
  <1> QED BY <1>1, Zenon DEF Begun, Frames

\* Execution is what its recursive definition says.
LEMMA ExecutionFacts ==
    ASSUME NEW st \in State, NEW block \in Seq(Txs), NEW n \in Nat, n # 0
    PROVE  /\ Execution(st, block, n)[0] = Begun(st, n)
           /\ \A k \in 1 .. Len(block) :
                Execution(st, block, n)[k]
                  = Delivered(Execution(st, block, n)[k - 1], block[k], HeightOf(n))
           /\ \A k \in 0 .. Len(block) : Execution(st, block, n)[k] \in Frames
  <1> DEFINE N == Len(block)
             h == HeightOf(n)
             base == Begun(st, n)
             step == [k \in 1 .. N |-> [x \in Frames |-> Delivered(x, block[k], h)]]
             Body(f) == [k \in 0 .. N |-> IF k = 0 THEN base
                                          ELSE Delivered(f[k - 1], block[k], h)]
             e == Execution(st, block, n)
  <1>1. N \in Nat /\ \A k \in 1 .. N : block[k] \in Txs
    OBVIOUS
  <1>2. h \in Nat /\ h # 0
    BY HeightFacts, Zenon
  <1>3. base \in Frames
    BY BegunFacts, Zenon
  <1>4. e = CHOOSE f : f = Body(f)
    BY Zenon DEF Execution, Begun
  <1> HIDE DEF N, h, base, e
  <1>5. \A k \in 1 .. N : \A x \in Frames : Delivered(x, block[k], h) \in Frames
    BY <1>1, <1>2, DeliveredFacts, Zenon
  <1>6. step \in [1 .. N -> [Frames -> Frames]]
    BY <1>5, Zenon
  <1>7. \A k \in 1 .. N : \A x \in Frames : step[k][x] = Delivered(x, block[k], h)
    BY Zenon
  <1> HIDE DEF step
  <1>8. PICK f : Recursive(f, N, Frames, base, step)
    BY <1>1, <1>3, <1>6, Recursion, Zenon
  <1>9. f = Body(f)
    <2> USE DEF Recursive
    <2>1. \A k \in 1 .. N : f[k - 1] \in Frames
      <3>1. N \in Nat => \A k \in 1 .. N : k - 1 \in 0 .. N
        OBVIOUS
      <3>2. N \in Nat
        BY <1>1, Zenon
      <3> QED BY <1>8, <3>1, <3>2, Zenon
    <2>2. \A k \in 1 .. N : f[k] = Delivered(f[k - 1], block[k], h)
      BY <1>7, <1>8, <2>1, Zenon
    <2>3. \A k \in 0 .. N : k = 0 \/ k \in 1 .. N
      BY <1>1
    <2>4. \A k \in 0 .. N : f[k] = IF k = 0 THEN base ELSE Delivered(f[k - 1], block[k], h)
      BY <1>8, <2>2, <2>3, Zenon
    <2> QED BY <1>8, <2>4, Zenon
  <1>10. e = Body(e)
    <2> HIDE DEF Body
    <2> QED BY <1>4, <1>9, Zenon
  <1>11. e[0] = base
    BY <1>1, <1>10
  <1>12. \A k \in 1 .. N : e[k] = Delivered(e[k - 1], block[k], h)
    <2>1. \A k \in 1 .. N : k \in 0 .. N /\ k # 0
      BY <1>1
    <2> QED BY <1>10, <2>1, Zenon
  <1>13. \A k \in 0 .. N : e[k] \in Frames
    <2> DEFINE S == {k \in 0 .. N : e[k] \in Frames}
    <2>1. 0 \in S
      BY <1>1, <1>3, <1>11
    <2>2. ASSUME NEW k \in 1 .. N, k - 1 \in S PROVE k \in S
      <3>1. k \in 0 .. N /\ e[k - 1] \in Frames
        BY <1>1, <2>2
      <3>2. e[k] \in Frames
        BY <1>5, <1>12, <3>1, Zenon
      <3> QED BY <3>1, <3>2, Zenon
    <2>3. \A k \in 0 .. N : k \in S
      <3> HIDE DEF S
      <3> QED BY <1>1, <2>1, <2>2, Induction, Zenon
    <2> QED BY <2>3, Zenon
  <1> QED BY <1>11, <1>12, <1>13, Zenon DEF e, base, h, N

Genesis == [Empty EXCEPT !.genesis = TRUE]

\* The state block n leaves.
Committed(st, block, n) == Execution(st, block, n)[Len(block)].state

LEMMA CommittedFacts ==
    ASSUME NEW st \in State, NEW block \in Seq(Txs), NEW n \in Nat, n # 0
    PROVE  Committed(st, block, n) \in State
  <1>1. Len(block) \in 0 .. Len(block)
    OBVIOUS
  <1>2. Execution(st, block, n)[Len(block)] \in Frames
    BY <1>1, ExecutionFacts, Zenon
  <1> QED BY <1>2, Zenon DEF Committed, Frames

LEMMA GenesisFacts ==
    /\ Genesis \in State /\ Empty \in State /\ Nil \notin State
    /\ Genesis.effects = <<>> /\ Empty.effects = <<>>
  <1>1. <<>> \in Seq(Effects)
    OBVIOUS
  <1>2. Empty \in State /\ Empty.effects = <<>>
    BY <1>1, Zenon DEF Empty, State
  <1>3. Genesis \in State /\ Genesis.effects = <<>>
    BY <1>1, <1>2, Zenon DEF Genesis, Empty, State
  <1>4. Nil \notin State
    <2>1. Nil.seq = -1
      BY Zenon DEF Nil
    <2>2. Nil \in State => Nil.seq \in Nat
      BY Zenon DEF State
    <2> QED BY <2>1, <2>2
  <1> QED BY <1>2, <1>3, <1>4, Zenon

\* Replay is what its recursive definition says.
ReplayIs ==
    /\ Replay[0] = Genesis
    /\ \A n \in 1 .. Len(log) : Replay[n] = Committed(Replay[n - 1], log[n], n)
    /\ \A n \in 0 .. Len(log) : Replay[n] \in State

LEMMA ReplayFacts == log \in Seq(Seq(Txs)) => ReplayIs
  <1> SUFFICES ASSUME log \in Seq(Seq(Txs)) PROVE ReplayIs
    BY Zenon
  <1> DEFINE N == Len(log)
             step == [k \in 1 .. N |-> [x \in State |-> Committed(x, log[k], k)]]
             Body(f) == [k \in 0 .. N |-> IF k = 0 THEN Genesis
                                          ELSE Committed(f[k - 1], log[k], k)]
  <1>1. N \in Nat /\ \A k \in 1 .. N : log[k] \in Seq(Txs)
    OBVIOUS
  <1>2. Replay = CHOOSE f : f = Body(f)
    BY Zenon DEF Replay, Genesis, Committed
  <1> HIDE DEF N
  <1>3. \A k \in 1 .. N : k \in Nat /\ k # 0
    BY <1>1
  <1>4. \A k \in 1 .. N : \A x \in State : Committed(x, log[k], k) \in State
    BY <1>1, <1>3, CommittedFacts, Zenon
  <1>5. step \in [1 .. N -> [State -> State]]
    BY <1>4, Zenon
  <1>6. \A k \in 1 .. N : \A x \in State : step[k][x] = Committed(x, log[k], k)
    BY Zenon
  <1>7. Genesis \in State
    BY GenesisFacts, Zenon
  <1> HIDE DEF step
  <1>8. PICK f : Recursive(f, N, State, Genesis, step)
    BY <1>1, <1>5, <1>7, Recursion, Zenon
  <1>9. f = Body(f)
    <2> USE DEF Recursive
    <2>1. \A k \in 1 .. N : f[k - 1] \in State
      BY <1>1, <1>8
    <2>2. \A k \in 1 .. N : f[k] = Committed(f[k - 1], log[k], k)
      BY <1>6, <1>8, <2>1, Zenon
    <2>3. \A k \in 0 .. N : k = 0 \/ k \in 1 .. N
      BY <1>1
    <2>4. \A k \in 0 .. N : f[k] = IF k = 0 THEN Genesis ELSE Committed(f[k - 1], log[k], k)
      BY <1>8, <2>2, <2>3, Zenon
    <2> QED BY <1>8, <2>4, Zenon
  <1>10. Replay = Body(Replay)
    <2> HIDE DEF Body
    <2> QED BY <1>2, <1>9, Zenon
  <1>11. Replay[0] = Genesis
    BY <1>1, <1>10
  <1>12. \A k \in 1 .. N : Replay[k] = Committed(Replay[k - 1], log[k], k)
    <2>1. \A k \in 1 .. N : k \in 0 .. N /\ k # 0
      BY <1>1
    <2> QED BY <1>10, <2>1, Zenon
  <1>13. \A k \in 0 .. N : Replay[k] \in State
    <2> DEFINE S == {k \in 0 .. N : Replay[k] \in State}
    <2>1. 0 \in S
      BY <1>1, <1>7, <1>11
    <2>2. ASSUME NEW k \in 1 .. N, k - 1 \in S PROVE k \in S
      <3>1. k \in 0 .. N /\ Replay[k - 1] \in State
        BY <1>1, <2>2
      <3>2. Replay[k] \in State
        BY <1>4, <1>12, <3>1, Zenon
      <3> QED BY <3>1, <3>2, Zenon
    <2>3. \A k \in 0 .. N : k \in S
      <3> HIDE DEF S
      <3> QED BY <1>1, <2>1, <2>2, Induction, Zenon
    <2> QED BY <2>3, Zenon
  <1> QED BY <1>11, <1>12, <1>13, Zenon DEF ReplayIs, N

-----------------------------------------------------------------------------
(* Each action preserves the types                                         *)

LEMMA InitBase == Init => BaseInv
  <1> SUFFICES ASSUME Init PROVE BaseInv
    BY Zenon
  <1>1. committed \in State
    BY GenesisFacts, Zenon DEF Init
  <1>2. log \in Seq(Seq(Txs)) /\ Len(log) = 0
    BY DEF Init
  <1>3. warm \in BOOLEAN /\ result \in BOOLEAN
    BY Zenon DEF Init
  <1>4. blocks <= Len(log)
    BY <1>2 DEF Init
  <1>5. TypeOK
    BY <1>1, <1>2, <1>3, Zenon DEF Init, TypeOK
  <1> QED BY <1>4, <1>5, Zenon DEF Init, BaseInv, BlockInv, up

LEMMA DecideBase ==
    ASSUME BaseInv, Decide
    PROVE  /\ BaseInv' /\ Len(log') = Len(log) + 1
           /\ \A n \in 1 .. Len(log) : log'[n] = log[n]
  <1>1. PICK n \in 0 .. MaxBlockSize : \E block \in [1 .. n -> Txs] : log' = Append(log, block)
    BY Zenon DEF Decide
  <1>2. n \in Nat
    BY <1>1
  <1>3. PICK block \in Seq(Txs) : log' = Append(log, block)
    BY <1>1, <1>2
  <1>4. log \in Seq(Seq(Txs)) /\ Len(log) \in Nat
    BY DEF BaseInv, TypeOK
  <1>5. /\ log' \in Seq(Seq(Txs)) /\ Len(log') = Len(log) + 1
        /\ \A k \in 1 .. Len(log) : log'[k] = log[k]
    BY <1>3, <1>4
  <1>6. blocks \in Nat /\ blocks <= Len(log)
    BY Zenon DEF BaseInv, TypeOK, BlockInv
  <1>7. TypeOK'
    BY <1>5, Zenon DEF BaseInv, TypeOK, Decide, volatile
  <1>8. blocks <= Len(log') /\ (blocks < Len(log) => blocks < Len(log') /\ blocks + 1 \in 1 .. Len(log))
    <2> DEFINE m == Len(log)
    <2>1. m \in Nat /\ blocks \in Nat /\ blocks <= m /\ Len(log') = m + 1
      BY <1>4, <1>5, <1>6, Zenon
    <2> HIDE DEF m
    <2>2. blocks <= m + 1 /\ (blocks < m => blocks < m + 1 /\ blocks + 1 \in 1 .. m)
      BY <2>1
    <2> QED BY <2>1, <2>2, Zenon DEF m
  <1>9. BlockInv'
    BY <1>5, <1>8, Zenon DEF BaseInv, BlockInv, Decide, volatile, up
  <1> QED BY <1>5, <1>7, <1>9, Zenon DEF BaseInv

LEMMA StartBase == ASSUME BaseInv, Start PROVE BaseInv'
  BY Zenon DEF Start, setCheckState, BaseInv, TypeOK, BlockInv, up

LEMMA InitChainBase == ASSUME BaseInv, InitChain PROVE BaseInv'
  <1>1. [committed EXCEPT !.genesis = TRUE] \in State
    BY Zenon DEF BaseInv, TypeOK, State
  <1>2. InitialHeight \in Nat /\ BeginGas \in Nat
    BY ConstantFacts, Zenon
  <1> QED BY <1>1, <1>2, Zenon DEF InitChain, setCheckState, BaseInv, TypeOK, BlockInv, up

\* The block after the first n of a log.
LEMMA BlockAfter ==
    ASSUME NEW l \in Seq(Seq(Txs)), NEW n \in Nat, n < Len(l)
    PROVE  l[n + 1] \in Seq(Txs)
  <1>1. n + 1 \in 1 .. Len(l)
    <2>1. Len(l) \in Nat
      OBVIOUS
    <2> QED BY <2>1
  <1> QED BY <1>1

LEMMA BeginBlockBase == ASSUME BaseInv, BeginBlock PROVE BaseInv'
  <1>1. (IF warm THEN 0 ELSE RestartGas) \in Nat /\ BeginGas \in Nat
    BY ConstantFacts, Zenon
  <1>2. ctxGas + BeginGas + (IF warm THEN 0 ELSE RestartGas) \in Nat
    <2> DEFINE more == IF warm THEN 0 ELSE RestartGas
    <2>1. ctxGas \in Nat
      BY Zenon DEF BaseInv, TypeOK
    <2>2. more \in Nat
      BY <1>1, Zenon
    <2> HIDE DEF more
    <2>3. ctxGas + BeginGas + more \in Nat
      BY <1>1, <2>1, <2>2
    <2> QED BY <2>3, Zenon DEF more
  <1>3. CASE validateHeight(HeightOf(blocks + 1))
    <2>1. blocks \in Nat /\ log \in Seq(Seq(Txs)) /\ blocks < Len(log)
      BY Zenon DEF BeginBlock, BaseInv, TypeOK
    <2>2. log[blocks + 1] \in Seq(Txs)
      BY <2>1, BlockAfter, Zenon
    <2>3. 0 <= Len(log[blocks + 1])
      BY <2>2
    <2>4. deliver' \in State
      BY <1>3, Zenon DEF BeginBlock, BaseInv, TypeOK
    <2>5. TypeOK'
      BY <1>2, <1>3, <2>4 DEF BeginBlock, BaseInv, TypeOK
    <2> QED BY <1>3, <2>1, <2>3, <2>4, <2>5, Zenon DEF BeginBlock, BaseInv, BlockInv, up
  <1>4. CASE ~ validateHeight(HeightOf(blocks + 1))
    BY <1>4, Zenon DEF BeginBlock, BaseInv, TypeOK, BlockInv, up
  <1> QED BY <1>3, <1>4, Zenon

\* The frame DeliverTx works on.
Current == [state |-> deliver, block |-> blockGas, ctx |-> ctxGas, ok |-> TRUE]

LEMMA CurrentFacts ==
    ASSUME BaseInv, DeliverTx
    PROVE  /\ Current \in Frames
           /\ log[blocks + 1] \in Seq(Txs) /\ pos \in 0 .. Len(log[blocks + 1]) - 1
           /\ log[blocks + 1][pos + 1] \in Txs
           /\ HeightOf(blocks + 1) \in Nat /\ HeightOf(blocks + 1) # 0
  <1> DEFINE b == log[blocks + 1]
  <1>1. blocks \in Nat /\ pos \in Nat /\ log \in Seq(Seq(Txs)) /\ blocks < Len(log)
    BY Zenon DEF DeliverTx, BaseInv, TypeOK, BlockInv
  <1>2. b \in Seq(Txs) /\ pos < Len(b)
    <2>1. b \in Seq(Txs)
      BY <1>1, BlockAfter, Zenon
    <2> QED BY <2>1, Zenon DEF DeliverTx
  <1> HIDE DEF b
  <1>3. b[pos + 1] \in Txs /\ pos \in 0 .. Len(b) - 1
    <2>1. Len(b) \in Nat /\ \A k \in 1 .. Len(b) : b[k] \in Txs
      BY <1>2
    <2>2. pos + 1 \in 1 .. Len(b) /\ pos \in 0 .. Len(b) - 1
      BY <1>1, <1>2, <2>1
    <2> QED BY <2>1, <2>2, Zenon
  <1>4. Current \in Frames
    BY Zenon DEF DeliverTx, BaseInv, TypeOK, BlockInv, Current, Frames
  <1>5. blocks + 1 \in Nat /\ blocks + 1 # 0
    BY <1>1
  <1> QED BY <1>2, <1>3, <1>4, <1>5, HeightFacts, Zenon DEF b

\* DeliverTx makes the frame that Delivered says the current one.
LEMMA DeliverTxStep ==
    ASSUME BaseInv, DeliverTx
    PROVE  LET x == Delivered(Current, log[blocks + 1][pos + 1], HeightOf(blocks + 1))
           IN  /\ x \in Frames
               /\ deliver' = x.state /\ blockGas' = x.block /\ ctxGas' = x.ctx /\ result' = x.ok
  <1>1. Delivered(Current, log[blocks + 1][pos + 1], HeightOf(blocks + 1)) \in Frames
    BY CurrentFacts, DeliveredFacts, ZenonT(30)
  <1> QED BY <1>1, Zenon DEF DeliverTx, Current

LEMMA DeliverTxBase == ASSUME BaseInv, DeliverTx PROVE BaseInv'
  <1> DEFINE x == Delivered(Current, log[blocks + 1][pos + 1], HeightOf(blocks + 1))
  <1>1. /\ x \in Frames
        /\ deliver' = x.state /\ blockGas' = x.block /\ ctxGas' = x.ctx /\ result' = x.ok
    BY DeliverTxStep, Zenon
  <1> HIDE DEF x
  <1>2. deliver' \in State /\ blockGas' \in Nat /\ ctxGas' \in Nat
    BY <1>1, Zenon DEF Frames
  <1>3. result' \in BOOLEAN
    BY <1>1, Zenon DEF Frames
  <1>4. pos' \in Nat /\ pos' <= Len(log[blocks + 1])
    <2> DEFINE n == Len(log[blocks + 1])
    <2>1. n \in Nat /\ pos \in 0 .. n - 1
      BY CurrentFacts
    <2>2. pos' = pos + 1
      BY Zenon DEF DeliverTx
    <2> HIDE DEF n
    <2>3. pos + 1 \in Nat /\ pos + 1 <= n
      BY <2>1
    <2> QED BY <2>2, <2>3, Zenon DEF n
  <1>5. TypeOK'
    BY <1>2, <1>3, <1>4, Zenon DEF DeliverTx, BaseInv, TypeOK
  <1> QED BY <1>2, <1>4, <1>5, ZenonT(30) DEF DeliverTx, BaseInv, BlockInv, up

LEMMA EndBlockBase == ASSUME BaseInv, EndBlock PROVE BaseInv'
  BY Zenon DEF EndBlock, BaseInv, TypeOK, BlockInv, up

LEMMA CommitBase == ASSUME BaseInv, Commit PROVE BaseInv'
  <1>1. /\ deliver \in State /\ blocks \in Nat /\ Len(log) \in Nat /\ blocks < Len(log)
    BY DEF Commit, BaseInv, TypeOK, BlockInv
  <1>2. blocks + 1 \in Nat /\ blocks + 1 # 0 /\ blocks + 1 <= Len(log)
    BY <1>1
  <1>3. HeightOf(blocks + 1) \in Nat
    BY <1>2, HeightFacts, Zenon
  <1> QED BY <1>1, <1>2, <1>3, Zenon DEF Commit, setCheckState, BaseInv, TypeOK, BlockInv, up

\* A check state is left as it is, or passed by the ante handler.
LEMMA CheckTxStep ==
    ASSUME BaseInv, NEW tx \in Txs, NEW recheck \in BOOLEAN, CheckTx(tx, recheck)
    PROVE  check \in State /\ check' \in {check, Passed(check, tx)} /\ check' \in State
  <1>1. check \in State
    BY Zenon DEF CheckTx, BaseInv, BlockInv, up
  <1>2. check' \in {check, Passed(check, tx)}
    BY Zenon DEF CheckTx, AnteHandler, Passed, IncrementSequence
  <1> QED BY <1>1, <1>2, PassedFacts, Zenon

LEMMA CheckTxBase ==
    ASSUME BaseInv, NEW tx \in Txs, NEW recheck \in BOOLEAN, CheckTx(tx, recheck)
    PROVE  BaseInv'
  <1>1. check' \in State
    BY CheckTxStep, Zenon
  <1>2. checked' \in Nat
    BY DEF CheckTx, BaseInv, TypeOK
  <1> QED BY <1>1, <1>2, Zenon DEF CheckTx, BaseInv, TypeOK, BlockInv, up

LEMMA CrashBase == ASSUME BaseInv, Crash PROVE BaseInv'
  BY Zenon DEF Crash, BaseInv, TypeOK, BlockInv, up

LEMMA StutterBase == ASSUME BaseInv, UNCHANGED vars PROVE BaseInv'
  BY DEF vars, volatile, BaseInv, TypeOK, BlockInv, up

LEMMA NextBase == ASSUME BaseInv, [Next]_vars PROVE BaseInv'
  BY DecideBase, StartBase, InitChainBase, BeginBlockBase, DeliverTxBase, EndBlockBase,
     CommitBase, CheckTxBase, CrashBase, StutterBase, Zenon
  DEF Next, AtBound

LEMMA BaseInvariance == Spec => []BaseInv
  BY InitBase, NextBase, PTL DEF Spec

-----------------------------------------------------------------------------
(* Transactions take effect once and as a whole                            *)

LEMMA InitSound == Init => SoundInv
  <1> SUFFICES ASSUME Init PROVE SoundInv
    BY Zenon
  <1>1. committed = Empty /\ deliver = Nil
    BY Zenon DEF Init
  <1>2. Sound(Empty)
    <2>1. Empty.effects = <<>> /\ Len(<<>>) = 0
      BY GenesisFacts, Zenon
    <2> QED BY <2>1 DEF Sound, Once, Whole
  <1> QED BY <1>1, <1>2, Zenon DEF SoundInv

\* The state that InitChain puts into the deliver state.
LEMMA InitChainSound ==
    ASSUME BaseInv, Sound(committed)
    PROVE  Sound([committed EXCEPT !.genesis = TRUE])
  <1> DEFINE g == [committed EXCEPT !.genesis = TRUE]
  <1>1. g.effects = committed.effects /\ g.seq = committed.seq
    BY Zenon DEF BaseInv, TypeOK, State
  <1> HIDE DEF g
  <1>2. Sound(g)
    BY <1>1, Zenon DEF Sound
  <1> QED BY <1>2, Zenon DEF g

\* DeliverTx may add effects, and keeps those it does not touch; every other
\* action copies states.
LEMMA NextSound == ASSUME BaseInv, SoundInv, [Next]_vars PROVE SoundInv'
  <1>1. ASSUME Start \/ Decide \/ EndBlock \/ (\E tx \in Txs, recheck \in BOOLEAN : CheckTx(tx, recheck))
        PROVE  SoundInv'
    BY <1>1, Zenon DEF Start, Decide, EndBlock, CheckTx, volatile, SoundInv
  <1>2. ASSUME InitChain PROVE SoundInv'
    BY <1>2, InitChainSound, Zenon DEF InitChain, SoundInv
  <1>3. ASSUME BeginBlock PROVE SoundInv'
    BY <1>3, Zenon DEF BeginBlock, SoundInv
  <1>4. ASSUME DeliverTx PROVE SoundInv'
    <2> DEFINE x == Delivered(Current, log[blocks + 1][pos + 1], HeightOf(blocks + 1))
    <2>1. deliver' = x.state
      BY <1>4, DeliverTxStep, Zenon
    <2>2. deliver \in State /\ Current.state = deliver
      BY <1>4, Zenon DEF DeliverTx, BaseInv, BlockInv, Current
    <2>3. Sound(Current.state)
      BY <2>2, GenesisFacts, Zenon DEF SoundInv
    <2>4. Sound(x.state)
      BY <1>4, <2>3, CurrentFacts, DeliveredSound, ZenonT(30)
    <2> HIDE DEF x
    <2>5. committed' = committed
      BY <1>4, Zenon DEF DeliverTx
    <2> QED BY <2>1, <2>4, <2>5, Zenon DEF SoundInv
  <1>5. ASSUME Commit PROVE SoundInv'
    <2>1. deliver # Nil
      BY <1>5, GenesisFacts, Zenon DEF Commit, BaseInv, BlockInv
    <2> QED BY <1>5, <2>1, Zenon DEF Commit, SoundInv
  <1>6. ASSUME Crash PROVE SoundInv'
    BY <1>6, Zenon DEF Crash, SoundInv
  <1>7. ASSUME UNCHANGED vars PROVE SoundInv'
    BY <1>7, Zenon DEF vars, volatile, SoundInv
  <1> QED BY <1>1, <1>2, <1>3, <1>4, <1>5, <1>6, <1>7, Zenon DEF Next, AtBound

\* Whatever blocks are decided and however often the process crashes and is
\* given a block again, a transaction takes effect at most once and with all its
\* messages: the sequence number that the ante handler compares is past that of
\* each transaction that took effect.
THEOREM EffectsOnceAndWhole == Spec => []OnceAndWhole
  <1>1. SoundInv => OnceAndWhole
    BY Zenon DEF SoundInv, Sound, OnceAndWhole
  <1>2. BaseInv /\ BaseInv' /\ SoundInv /\ [Next]_vars => SoundInv'
    BY NextSound, Zenon
  <1> QED BY <1>1, <1>2, InitSound, BaseInvariance, PTL DEF Spec

-----------------------------------------------------------------------------
(* The gas of a block                                                      *)

LEMMA GasArithmetic ==
    /\ \A c \in Nat : MaxGas > 0 => 0 < MaxGas + c
    /\ \A b, c, d \in Nat : c <= d /\ b < MaxGas + c => b < MaxGas + d
    /\ \A b, c \in Nat : b < MaxGas => b + c < MaxGas + c
  BY ConstantFacts

\* A transaction is executed below the limit only, and uses at most its own
\* limit, or what the context has used.
LEMMA NextGas == ASSUME BaseInv, BlockGasBounded, [Next]_vars PROVE BlockGasBounded'
  <1>1. ASSUME Start \/ Decide \/ InitChain \/ EndBlock \/ Commit \/ Crash \/ UNCHANGED vars
               \/ (\E tx \in Txs, recheck \in BOOLEAN : CheckTx(tx, recheck))
        PROVE  BlockGasBounded'
    BY <1>1, ZenonT(30) DEF Start, Decide, InitChain, EndBlock, Commit, Crash, CheckTx, volatile, vars,
                BlockGasBounded
  <1>2. ASSUME BeginBlock PROVE BlockGasBounded'
    <2>1. CASE validateHeight(HeightOf(blocks + 1))
      <3>1. blockGas' = 0 /\ ctxGas' \in Nat
        BY <1>2, <2>1, BeginBlockBase, Zenon DEF BeginBlock, BaseInv, TypeOK
      <3>2. MaxGas > 0 => 0 < MaxGas + ctxGas'
        BY <3>1, GasArithmetic, Zenon
      <3> QED BY <3>1, <3>2, Zenon DEF BlockGasBounded
    <2>2. CASE ~ validateHeight(HeightOf(blocks + 1))
      BY <1>2, <2>2, Zenon DEF BeginBlock, BlockGasBounded
    <2> QED BY <2>1, <2>2, Zenon
  <1>3. ASSUME DeliverTx PROVE BlockGasBounded'
    <2> DEFINE tx == log[blocks + 1][pos + 1]
               x == Delivered(Current, tx, HeightOf(blocks + 1))
    <2>1. tx \in Txs /\ tx.limit \in Nat /\ x \in Frames /\ blockGas' = x.block /\ ctxGas' = x.ctx
      BY <1>3, CurrentFacts, DeliverTxStep, TxFacts, Zenon
    <2>2. Current.block = blockGas /\ Current.ctx = ctxGas /\ blockGas \in Nat /\ ctxGas \in Nat
      BY Zenon DEF Current, BaseInv, TypeOK
    <2>3. /\ x.ctx = Current.ctx + ParamGas
          /\ \/ x.block = Current.block
             \/ /\ MaxGas > 0 => Current.block < MaxGas
                /\ \/ x.block <= Current.block + tx.limit
                   \/ x.block = Current.block + x.ctx
      BY <1>3, CurrentFacts, DeliveredFacts, ZenonT(30)
    <2> HIDE DEF tx, x
    <2> SUFFICES ASSUME MaxGas > 0
                 PROVE  \/ blockGas' < MaxGas + ctxGas'
                        \/ \E t \in Txs : blockGas' < MaxGas + t.limit
      BY Zenon DEF BlockGasBounded
    <2>4. blockGas < MaxGas + ctxGas \/ \E t \in Txs : blockGas < MaxGas + t.limit
      BY <1>3, Zenon DEF DeliverTx, BlockGasBounded
    <2>5. ctxGas' \in Nat /\ ctxGas <= ctxGas' /\ blockGas' \in Nat
      BY <2>1, <2>2, <2>3, ConstantFacts DEF Frames
    <2>6. CASE blockGas' = blockGas
      <3>1. blockGas < MaxGas + ctxGas => blockGas' < MaxGas + ctxGas'
        BY <2>2, <2>5, <2>6, GasArithmetic, Zenon
      <3> QED BY <2>4, <2>6, <3>1, Zenon
    <2>7. CASE blockGas < MaxGas /\ blockGas' <= blockGas + tx.limit
      <3>1. blockGas' < MaxGas + tx.limit
        BY <2>1, <2>2, <2>5, <2>7, ConstantFacts
      <3> QED BY <2>1, <3>1, Zenon
    <2>8. CASE blockGas < MaxGas /\ blockGas' = blockGas + ctxGas'
      BY <2>2, <2>5, <2>8, GasArithmetic, Zenon
    <2> QED BY <2>1, <2>2, <2>3, <2>6, <2>7, <2>8, Zenon
  <1> QED BY <1>1, <1>2, <1>3, Zenon DEF Next, AtBound

\* The block gas limit is exceeded by less than one transaction's own limit, or
\* by less than what the context of the block has used.
THEOREM BlockGasIsBounded == Spec => []BlockGasBounded
  <1>1. Init => BlockGasBounded
    BY Zenon DEF Init, BlockGasBounded
  <1>2. BaseInv /\ BaseInv' /\ BlockGasBounded /\ [Next]_vars => BlockGasBounded'
    BY NextGas, Zenon
  <1> QED BY <1>1, <1>2, BaseInvariance, PTL DEF Spec

-----------------------------------------------------------------------------
(* A node computes what the reference computes                             *)

\* The blocks decided stay as they are, and so does what the reference computes
\* of them.
Grows ==
    /\ Len(log) <= Len(log')
    /\ \A n \in 1 .. Len(log) : log'[n] = log[n]
Same == \A n \in 0 .. Len(log) : Replay'[n] = Replay[n]

LEMMA LogGrows == ASSUME BaseInv, [Next]_vars PROVE Grows
  <1>1. log \in Seq(Seq(Txs)) /\ Len(log) \in Nat
    BY DEF BaseInv, TypeOK
  <1>2. CASE Decide
    <2>1. Len(log') = Len(log) + 1 /\ \A n \in 1 .. Len(log) : log'[n] = log[n]
      BY <1>2, DecideBase, Zenon
    <2>2. Len(log) <= Len(log) + 1
      BY <1>1
    <2> QED BY <2>1, <2>2, Zenon DEF Grows
  <1>3. CASE log' = log
    BY <1>1, <1>3 DEF Grows
  <1> QED BY <1>2, <1>3, Zenon
      DEF Next, Start, InitChain, BeginBlock, DeliverTx, EndBlock, Commit, CheckTx, Crash,
          AtBound, vars

LEMMA ReplayStable == ASSUME BaseInv, BaseInv', Grows PROVE Same
  <1> DEFINE N == Len(log)
             S == {n \in 0 .. N : Replay'[n] = Replay[n]}
  <1>1. N \in Nat /\ Len(log') \in Nat /\ N <= Len(log')
    <2>1. log \in Seq(Seq(Txs)) /\ log' \in Seq(Seq(Txs))
      BY Zenon DEF BaseInv, TypeOK
    <2>2. Len(log) \in Nat /\ Len(log') \in Nat
      BY <2>1
    <2> QED BY <2>2, Zenon DEF Grows
  <1>2. ReplayIs
    BY ReplayFacts, Zenon DEF BaseInv, TypeOK
  <1>3. ReplayIs'
    <2>1. (log \in Seq(Seq(Txs)) => ReplayIs)'
      BY ReplayFacts, PTL
    <2> QED BY <2>1, Zenon DEF BaseInv, TypeOK
  <1>4. 0 \in S
    BY <1>1, <1>2, <1>3 DEF ReplayIs
  <1>5. ASSUME NEW k \in 1 .. N, k - 1 \in S PROVE k \in S
    <2>1. k \in 1 .. Len(log')
      BY <1>1
    <2>2. Replay[k] = Committed(Replay[k - 1], log[k], k)
      BY <1>2, Zenon DEF ReplayIs
    <2>3. Replay'[k] = Committed(Replay'[k - 1], log'[k], k)
      BY <1>3, <2>1, Zenon DEF ReplayIs
    <2>4. Replay'[k - 1] = Replay[k - 1] /\ log'[k] = log[k]
      BY <1>5, Zenon DEF Grows
    <2>5. Replay'[k] = Replay[k]
      BY <2>2, <2>3, <2>4, Zenon
    <2>6. k \in 0 .. N
      BY <1>1
    <2> QED BY <2>5, <2>6, Zenon
  <1>6. \A k \in 0 .. N : k \in S
    <2> HIDE DEF S
    <2> QED BY <1>1, <1>4, <1>5, Induction, Zenon
  <1> QED BY <1>6, Zenon DEF Same

LEMMA InitReplay == Init => ReplayInv
  <1>1. Init => blocks = 0 /\ ~(0 > 0)
    BY DEF Init
  <1> QED BY <1>1, Zenon DEF Init, ReplayInv, DurableInv, IdleInv, BusyInv

\* The states of the reference up to the block that is executed.
LEMMA ReplayStates ==
    ASSUME BaseInv
    PROVE  /\ Replay[0] = Genesis /\ Replay[blocks] \in State /\ blocks \in 0 .. Len(log)
           /\ blocks < Len(log) =>
                Replay[blocks + 1] = Committed(Replay[blocks], log[blocks + 1], blocks + 1)
  <1>1. ReplayIs
    BY ReplayFacts, Zenon DEF BaseInv, TypeOK
  <1>2. blocks \in Nat /\ Len(log) \in Nat /\ blocks <= Len(log)
    BY DEF BaseInv, TypeOK, BlockInv
  <1>3. blocks \in 0 .. Len(log) /\ (blocks < Len(log) => blocks + 1 \in 1 .. Len(log))
    BY <1>2
  <1>4. blocks + 1 - 1 = blocks
    BY <1>2
  <1>5. Replay[0] = Genesis /\ Replay[blocks] \in State
    BY <1>1, <1>3, Zenon DEF ReplayIs
  <1>6. ASSUME blocks < Len(log)
        PROVE  Replay[blocks + 1] = Committed(Replay[blocks], log[blocks + 1], blocks + 1)
    <2> DEFINE n == blocks + 1
    <2>1. n \in 1 .. Len(log) /\ n - 1 = blocks
      BY <1>3, <1>4, <1>6
    <2> HIDE DEF n
    <2>2. Replay[n] = Committed(Replay[n - 1], log[n], n)
      BY <1>1, <2>1, Zenon DEF ReplayIs
    <2>3. Replay[n] = Committed(Replay[blocks], log[n], n)
      BY <2>1, <2>2, Zenon
    <2> QED BY <2>3, Zenon DEF n
  <1> QED BY <1>3, <1>5, <1>6, Zenon

\* BeginBlock is called with the height that validateHeight expects.
LEMMA HeightExpected ==
    ASSUME BaseInv, IdleInv, phase = "idle"
    PROVE  validateHeight(HeightOf(blocks + 1))
  <1>1. blocks \in Nat /\ InitialHeight \in Nat /\ InitialHeight >= 1
    BY ConstantFacts, Zenon DEF BaseInv, TypeOK
  <1>2. CASE blocks = 0
    BY <1>1, <1>2 DEF IdleInv, validateHeight, HeightOf, LastBlockHeight
  <1>3. CASE blocks # 0
    BY <1>1, <1>3 DEF validateHeight, HeightOf, LastBlockHeight
  <1> QED BY <1>2, <1>3, Zenon

\* Delivered does not look at the result of the transaction before.
LEMMA DeliveredCongruent ==
    ASSUME NEW x, NEW y, NEW tx, NEW h,
           x.state = y.state, x.block = y.block, x.ctx = y.ctx
    PROVE  Delivered(x, tx, h) = Delivered(y, tx, h)
  BY Zenon DEF Delivered

\* A transaction that gets a gas meter does not look at the one of the context.
LEMMA DeliveredMetered ==
    ASSUME NEW x, NEW y, NEW tx, NEW h,
           x.state = y.state, x.block = y.block, tx.ok, tx.ante
    PROVE  /\ Delivered(x, tx, h).state = Delivered(y, tx, h).state
           /\ Delivered(x, tx, h).block = Delivered(y, tx, h).block
           /\ Delivered(x, tx, h).ok = Delivered(y, tx, h).ok
  <1> DEFINE r(own) == runTx(x.state, tx, h, own)
  <1>1. \A a, b : r(a) = r(b)
    BY Zenon DEF runTx
  <1>2. r(x.ctx + ParamGas) = runTx(y.state, tx, h, y.ctx + ParamGas)
    BY <1>1, Zenon
  <1> HIDE DEF r
  <1> QED BY <1>2, Zenon DEF Delivered, r

\* A block begun cold stays one of the blocks decided, so that what no restart
\* has been charged for in the next state it has not been charged for in this.
LEMMA UnchargedBefore ==
    ASSUME IdleInv, Grows, cold \subseteq cold', RestartsUncharged'
    PROVE  RestartsUncharged
  BY Zenon DEF IdleInv, Grows, RestartsUncharged

LEMMA ColdGrows == ASSUME [Next]_vars PROVE cold \subseteq cold'
  BY Zenon DEF Next, Decide, Start, InitChain, BeginBlock, DeliverTx, EndBlock, Commit, CheckTx,
               Crash, AtBound, vars

\* What a process starts a block with does not depend on gas.
LEMMA NextIdle ==
    ASSUME BaseInv, IdleInv, Same, Grows, [Next]_vars
    PROVE  IdleInv'
  <1>1. Replay'[0] = Replay[0] /\ Replay[0] = Genesis /\ blocks \in Nat /\ Len(log) \in Nat
    <2>1. 0 \in 0 .. Len(log)
      BY DEF BaseInv, TypeOK
    <2> QED BY <2>1, ReplayStates DEF Same, BaseInv, TypeOK
  <1>2. cold \subseteq 1 .. Len(log')
    BY <1>1 DEF IdleInv, Grows
  <1> DEFINE Quiet == /\ UNCHANGED <<committed, blocks, initialHeight, deliver, ctxGas, cold>>
                      /\ phase' = phase \/ (phase = "block" /\ phase' = "ended")
  <1>3. ASSUME Quiet PROVE IdleInv'
    BY <1>1, <1>2, <1>3, Zenon DEF IdleInv
  <1>4. CASE Start
    BY <1>1, <1>2, <1>4, Zenon DEF Start, IdleInv
  <1>5. CASE InitChain
    <2>1. blocks = 0 /\ committed = Empty /\ initialHeight = 0
      BY <1>5, Zenon DEF InitChain, IdleInv
    <2>2. deliver' = Genesis
      BY <1>5, <2>1, ZenonT(30) DEF InitChain, Genesis
    <2> QED BY <1>1, <1>2, <1>5, <2>1, <2>2, Zenon DEF InitChain, IdleInv
  <1>6. CASE BeginBlock
    <2>1. validateHeight(HeightOf(blocks + 1))
      BY <1>6, HeightExpected, Zenon DEF BeginBlock
    <2>2. /\ phase' = "block" /\ UNCHANGED <<committed, blocks>>
          /\ cold' = IF warm THEN cold ELSE cold \cup {blocks + 1}
      BY <1>6, <2>1, Zenon DEF BeginBlock
    <2>3. blocks + 1 \in 1 .. Len(log')
      BY <1>1, <1>6 DEF BeginBlock
    <2>4. cold' \subseteq 1 .. Len(log')
      BY <1>2, <2>2, <2>3, Zenon
    <2> QED BY <2>2, <2>4, Zenon DEF IdleInv
  <1>7. CASE Commit
    <2>1. blocks' # 0
      BY <1>1, <1>7 DEF Commit
    <2> QED BY <1>2, <1>7, <2>1, Zenon DEF Commit, IdleInv
  <1>8. CASE Crash
    BY <1>2, <1>8, Zenon DEF Crash, IdleInv
  <1>9. CASE \/ Decide \/ DeliverTx \/ EndBlock \/ UNCHANGED vars
             \/ \E tx \in Txs, recheck \in BOOLEAN : CheckTx(tx, recheck)
    <2>1. CASE DeliverTx
      BY <1>2, <2>1, Zenon DEF DeliverTx, IdleInv
    <2>2. CASE ~DeliverTx
      <3>1. Quiet
        BY <1>9, <2>2, ZenonT(30) DEF Decide, EndBlock, CheckTx, vars, volatile
      <3> HIDE DEF Quiet
      <3> QED BY <1>3, <3>1, Zenon
    <2> QED BY <2>1, <2>2, Zenon
  <1> QED BY <1>4, <1>5, <1>6, <1>7, <1>8, <1>9, Zenon DEF Next, AtBound

LEMMA BeginBlockReplay ==
    ASSUME BaseInv, IdleInv, DurableInv, Same, BeginBlock
    PROVE  DurableInv' /\ BusyInv'
  <1> DEFINE st == Replay[blocks]
             b == log[blocks + 1]
  <1>1. validateHeight(HeightOf(blocks + 1))
    BY HeightExpected, Zenon DEF BeginBlock
  <1>2. /\ deliver' = IF deliver = Nil THEN committed ELSE deliver
        /\ ctxGas' = ctxGas + BeginGas + (IF warm THEN 0 ELSE RestartGas)
        /\ blockGas' = 0 /\ pos' = 0 /\ phase' = "block"
        /\ cold' = IF warm THEN cold ELSE cold \cup {blocks + 1}
        /\ UNCHANGED <<log, committed, blocks>>
    BY <1>1, Zenon DEF BeginBlock
  <1>3. /\ st \in State /\ Replay[0] \in State /\ blocks \in 0 .. Len(log)
        /\ blocks \in Nat /\ log \in Seq(Seq(Txs)) /\ blocks < Len(log)
    BY ReplayStates, GenesisFacts, Zenon DEF BeginBlock, BaseInv, TypeOK
  <1>4. b \in Seq(Txs) /\ blocks + 1 \in Nat /\ blocks + 1 # 0
    BY <1>3
  <1>5. Execution(st, b, blocks + 1)[0] = Begun(st, blocks + 1)
    BY <1>3, <1>4, ExecutionFacts, ZenonT(30)
  <1>6. deliver' = st
    <2>1. CASE blocks = 0
      BY <1>2, <1>3, <2>1, GenesisFacts, Zenon DEF BeginBlock, IdleInv
    <2>2. CASE blocks # 0
      <3>1. blocks > 0
        BY <1>3, <2>2
      <3> QED BY <1>2, <2>2, <3>1, Zenon DEF BeginBlock, IdleInv, DurableInv
    <2> QED BY <2>1, <2>2, Zenon
  <1>7. ASSUME blocks + 1 \notin cold'
        PROVE  ctxGas' = IF blocks + 1 = 1 THEN 2 * BeginGas ELSE BeginGas
    <2>1. CASE blocks = 0
      <3>1. ctxGas' = BeginGas + BeginGas + 0
        BY <1>2, <1>7, <2>1, Zenon DEF BeginBlock, IdleInv
      <3> QED BY <2>1, <3>1, ConstantFacts
    <2>2. CASE blocks # 0
      <3>1. ctxGas' = 0 + BeginGas + 0
        BY <1>2, <1>7, <2>2, Zenon DEF BeginBlock, IdleInv
      <3> QED BY <1>3, <2>2, <3>1, ConstantFacts
    <2> QED BY <2>1, <2>2, Zenon
  <1>8. Replay'[blocks] = st
    BY <1>3 DEF Same
  <1>9. Reached' = Begun(st, blocks + 1)
    BY <1>2, <1>5, <1>8, Zenon DEF Reached
  <1>10. BusyInv'
    <2>1. Begun(st, blocks + 1).state = st /\ Begun(st, blocks + 1).block = 0
      BY Zenon DEF Begun
    <2>2. Begun(st, blocks + 1).ctx = IF blocks + 1 = 1 THEN 2 * BeginGas ELSE BeginGas
      BY Zenon DEF Begun
    <2>3. ~(pos' > 0)
      BY <1>2
    <2> HIDE DEF st
    <2> QED BY <1>2, <1>6, <1>7, <1>9, <2>1, <2>2, <2>3, Zenon DEF BusyInv
  <1>11. DurableInv'
    BY <1>2, <1>8, Zenon DEF DurableInv
  <1> QED BY <1>10, <1>11, Zenon

LEMMA DeliverTxReplay ==
    ASSUME BaseInv, DurableInv, BusyInv, RestartsUncharged, Same, DeliverTx
    PROVE  DurableInv' /\ BusyInv'
  <1> DEFINE st == Replay[blocks]
             b == log[blocks + 1]
             h == HeightOf(blocks + 1)
  <1>1. /\ phase = "block" /\ pos' = pos + 1
        /\ UNCHANGED <<log, committed, blocks, phase, cold>>
    BY Zenon DEF DeliverTx
  <1>2. st \in State /\ blocks \in 0 .. Len(log) /\ blocks \in Nat
    BY ReplayStates, Zenon DEF BaseInv, TypeOK
  <1>3. b \in Seq(Txs) /\ pos \in 0 .. Len(b) - 1
    BY CurrentFacts, Zenon
  <1>4. blocks + 1 \in Nat /\ blocks + 1 # 0
    BY <1>2
  <1>5. pos + 1 \in 1 .. Len(b) /\ pos + 1 - 1 = pos
    <2>1. Len(b) \in Nat
      BY <1>3
    <2> QED BY <1>3, <2>1
  <1> HIDE DEF st, b, h
  <1>6. Execution(st, b, blocks + 1)[pos + 1]
          = Delivered(Execution(st, b, blocks + 1)[pos], b[pos + 1], h)
    <2>1. \A k \in 1 .. Len(b) :
            Execution(st, b, blocks + 1)[k]
              = Delivered(Execution(st, b, blocks + 1)[k - 1], b[k], HeightOf(blocks + 1))
      BY <1>2, <1>3, <1>4, ExecutionFacts, Zenon
    <2> DEFINE n == pos + 1
    <2>2. n \in 1 .. Len(b) /\ n - 1 = pos
      <3>1. pos \in Nat
        BY Zenon DEF BaseInv, TypeOK
      <3>2. n - 1 = pos
        BY <3>1
      <3> QED BY <1>5, <3>2, Zenon
    <2> HIDE DEF n
    <2>3. Execution(st, b, blocks + 1)[n]
            = Delivered(Execution(st, b, blocks + 1)[n - 1], b[n], HeightOf(blocks + 1))
      BY <2>1, <2>2, Zenon
    <2> QED BY <2>2, <2>3, Zenon DEF h, n
  <1>7. Reached = Execution(st, b, blocks + 1)[pos]
    BY Zenon DEF Reached, st, b
  <1>8. Replay'[blocks] = st
    BY <1>2 DEF Same, st
  <1>9. Reached' = Delivered(Reached, b[pos + 1], h)
    <2>1. Reached' = Execution(st, b, blocks + 1)[pos + 1]
      BY <1>1, <1>8, Zenon DEF Reached, b
    <2> QED BY <1>6, <1>7, <2>1, ZenonT(30)
  <1> DEFINE x == Delivered(Current, b[pos + 1], h)
             y == Delivered(Reached, b[pos + 1], h)
  <1>10. Current.state = Reached.state /\ Current.block = Reached.block
    BY <1>1, Zenon DEF Current, BusyInv
  <1>11. ASSUME blocks + 1 \notin cold PROVE x = y
    <2>1. Current.ctx = Reached.ctx
      BY <1>1, <1>11, Zenon DEF Current, BusyInv
    <2> QED BY <1>10, <2>1, DeliveredCongruent
  <1>12. ASSUME blocks + 1 \in cold
         PROVE  x.state = y.state /\ x.block = y.block /\ x.ok = y.ok
    <2>1. b[pos + 1].ok /\ b[pos + 1].ante
      BY <1>5, <1>12, Zenon DEF RestartsUncharged, Metered, b
    <2> QED BY <1>10, <2>1, DeliveredMetered
  <1>13. deliver' = x.state /\ blockGas' = x.block /\ ctxGas' = x.ctx /\ result' = x.ok
    BY DeliverTxStep, Zenon DEF b, h
  <1> HIDE DEF x, y
  <1>14. BusyInv'
    BY <1>1, <1>9, <1>11, <1>12, <1>13, Zenon DEF BusyInv, y
  <1>15. DurableInv'
    BY <1>1, <1>8, Zenon DEF DurableInv, st
  <1> QED BY <1>14, <1>15, Zenon

LEMMA CommitReplay ==
    ASSUME BaseInv, BusyInv, Same, Commit
    PROVE  DurableInv' /\ BusyInv'
  <1> DEFINE b == log[blocks + 1]
             n == blocks + 1
  <1>1. /\ phase = "ended" /\ committed' = deliver /\ blocks' = n /\ phase' = "idle"
        /\ deliver' = Nil /\ ctxGas' = 0 /\ log' = log
    BY Zenon DEF Commit
  <1>2. blocks \in Nat /\ Len(log) \in Nat /\ blocks < Len(log) /\ pos = Len(b)
    BY <1>1 DEF BaseInv, TypeOK, BlockInv
  <1>3. n \in 0 .. Len(log)
    BY <1>2
  <1>4. Replay[n] = Committed(Replay[blocks], b, n)
    BY <1>2, ReplayStates, Zenon
  <1>5. Reached = Execution(Replay[blocks], b, n)[Len(b)]
    BY <1>2, Zenon DEF Reached
  <1> HIDE DEF b, n
  <1>6. deliver = Replay[n]
    BY <1>1, <1>4, <1>5, Zenon DEF Committed, BusyInv
  <1>7. Replay'[n] = Replay[n]
    BY <1>3, Zenon DEF Same
  <1>8. DurableInv'
    BY <1>1, <1>6, <1>7, Zenon DEF DurableInv
  <1>9. BusyInv'
    BY <1>1, Zenon DEF BusyInv
  <1> QED BY <1>8, <1>9, Zenon

\* The actions that are not part of the execution of a block.
LEMMA OtherReplay ==
    ASSUME BaseInv, DurableInv, BusyInv, Same,
           \/ Decide \/ Start \/ InitChain \/ Crash \/ UNCHANGED vars \/ EndBlock
           \/ \E tx \in Txs, recheck \in BOOLEAN : CheckTx(tx, recheck)
    PROVE  DurableInv' /\ BusyInv'
  <1>1. Replay'[blocks] = Replay[blocks]
    <2>1. blocks \in 0 .. Len(log)
      BY ReplayStates, Zenon
    <2> QED BY <2>1, Zenon DEF Same
  <1>2. committed' = committed /\ blocks' = blocks
    BY Zenon DEF Decide, Start, InitChain, Crash, EndBlock, CheckTx, vars
  <1>3. DurableInv'
    BY <1>1, <1>2, Zenon DEF DurableInv
  <1>4. CASE Decide
    <2>1. ~ (phase \in {"block", "ended"})
      <3>1. Len(log) = blocks /\ blocks \in Nat
        BY <1>4, Zenon DEF Decide, BaseInv, TypeOK
      <3>2. ~ (blocks < Len(log))
        BY <3>1
      <3> QED BY <3>2, ZenonT(30) DEF BaseInv, BlockInv
    <2> QED BY <1>3, <1>4, <2>1, Zenon DEF Decide, volatile, BusyInv
  <1>5. CASE Start
    BY <1>3, <1>5, Zenon DEF Start, BusyInv
  <1>6. CASE InitChain \/ Crash
    BY <1>3, <1>6, Zenon DEF InitChain, Crash, BusyInv
  <1>7. CASE UNCHANGED vars \/ EndBlock \/ \E tx \in Txs, recheck \in BOOLEAN : CheckTx(tx, recheck)
    <2>1. /\ UNCHANGED <<log, blocks, deliver, pos, ctxGas, blockGas, result, cold>>
          /\ phase' = phase \/ (phase = "block" /\ phase' = "ended")
      BY <1>7, ZenonT(30) DEF EndBlock, CheckTx, vars, volatile
    <2>2. Reached' = Reached
      BY <1>1, <2>1, Zenon DEF Reached
    <2>3. BusyInv'
      BY <2>1, <2>2, ZenonT(30) DEF BusyInv
    <2> QED BY <1>3, <2>3, Zenon
  <1> QED BY <1>4, <1>5, <1>6, <1>7, Zenon

LEMMA NextReplay ==
    ASSUME BaseInv, BaseInv', ReplayInv, [Next]_vars
    PROVE  ReplayInv'
  <1>1. Same /\ Grows
    BY LogGrows, ReplayStable, Zenon
  <1>2. IdleInv /\ IdleInv'
    BY <1>1, NextIdle, Zenon DEF ReplayInv
  <1>3. ASSUME RestartsUncharged' PROVE DurableInv' /\ BusyInv'
    <2>1. RestartsUncharged
      BY <1>1, <1>2, <1>3, ColdGrows, UnchargedBefore, Zenon
    <2>2. DurableInv /\ BusyInv
      BY <2>1, Zenon DEF ReplayInv
    <2> QED BY <1>1, <1>2, <2>1, <2>2, BeginBlockReplay, DeliverTxReplay, CommitReplay, OtherReplay,
               Zenon DEF Next, AtBound
  <1> QED BY <1>2, <1>3, Zenon DEF ReplayInv

-----------------------------------------------------------------------------
(* The check state                                                         *)

LEMMA NextCheck == ASSUME BaseInv, CheckInv, [Next]_vars PROVE CheckInv'
  <1>1. committed.seq \in Nat
    BY Zenon DEF BaseInv, TypeOK, State
  <1>2. ASSUME NEW tx \in Txs, NEW recheck \in BOOLEAN, CheckTx(tx, recheck)
        PROVE  CheckInv'
    <2>1. check \in State /\ check' \in {check, Passed(check, tx)}
      BY <1>2, CheckTxStep, Zenon
    <2>2. up /\ committed' = committed /\ phase' = phase /\ checked' # 0
      BY <1>2 DEF CheckTx, up, BaseInv, TypeOK
    <2>3. check.seq \in Nat /\ check.seq >= committed.seq /\ check.effects = committed.effects
      BY <2>1, <2>2, Zenon DEF CheckInv, State
    <2>4. check'.effects = check.effects /\ check'.seq \in {check.seq, check.seq + 1}
      BY <2>1, PassedFacts
    <2>5. check'.seq >= committed.seq
      BY <1>1, <2>3, <2>4
    <2> QED BY <2>2, <2>3, <2>4, <2>5, Zenon DEF CheckInv
  <1>3. ASSUME Start \/ InitChain \/ Commit PROVE CheckInv'
    <2>1. check' = committed' /\ committed'.seq \in Nat
      BY <1>1, <1>3, Zenon DEF Start, InitChain, Commit, setCheckState, BaseInv, BlockInv, State
    <2> QED BY <2>1 DEF CheckInv
  <1>4. ASSUME Crash PROVE CheckInv'
    BY <1>4, Zenon DEF Crash, CheckInv, up
  <1>5. ASSUME Decide \/ BeginBlock \/ DeliverTx \/ EndBlock \/ UNCHANGED vars PROVE CheckInv'
    BY <1>5, Zenon DEF Decide, BeginBlock, DeliverTx, EndBlock, vars, volatile, CheckInv, up
  <1> QED BY <1>2, <1>3, <1>4, <1>5, Zenon DEF Next, AtBound

\* Nodes agree: whatever a node commits and whatever it answers in the middle of
\* a block is what the blocks alone determine, and no mempool check, no crash and
\* no block delivered again shows in it, as long as the first block of a restarted
\* process had no transaction that failed before it got a gas meter. (With one,
\* the gas of InitMemStore is charged to the block, and shows.)
THEOREM NodesAgree == Spec => []Deterministic
  <1>1. Init => CheckInv
    BY Zenon DEF Init, CheckInv, up
  <1>2. ReplayInv /\ CheckInv => Deterministic
    <2> SUFFICES ASSUME ReplayInv, CheckInv PROVE Deterministic
      BY Zenon
    <2>1. RestartsUncharged => DurableInv /\ BusyInv
      BY Zenon DEF ReplayInv
    <2> QED BY <2>1, Zenon DEF Reached, DurableInv, BusyInv, CheckInv, Deterministic
  <1>3. BaseInv /\ BaseInv' /\ ReplayInv /\ [Next]_vars => ReplayInv'
    BY NextReplay, Zenon
  <1>4. BaseInv /\ BaseInv' /\ CheckInv /\ [Next]_vars => CheckInv'
    BY NextCheck, Zenon
  <1> QED BY <1>1, <1>2, <1>3, <1>4, InitReplay, BaseInvariance, PTL DEF Spec
=============================================================================
