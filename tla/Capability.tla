----------------------------- MODULE Capability -----------------------------
(***************************************************************************)
(* The capability keeper of x/capability. The owners of a capability are   *)
(* persisted; the capability itself is an address in memory, found by name *)
(* through the reverse index and told its name by the forward index, both  *)
(* in a memory store, and through a Go map that all branches of the state  *)
(* share and that no failing transaction restores.                         *)
(*                                                                         *)
(* A transaction runs on a branch of the deliver state, and a simulation   *)
(* on a branch of the committed state; simulations never write it back.    *)
(***************************************************************************)
EXTENDS Integers, FiniteSets

CONSTANTS
    Modules,
    Names,          \* numbers, in the order of the strings
    Addresses,      \* addresses the allocator hands out
    NoAddress,
    MaxIndex,       \* bound: the global index
    MaxCrashes      \* bound: crashes and exports in one behaviour

ASSUME CapabilityAssumption ==
    /\ NoAddress \notin Addresses /\ Names \subseteq Nat \ {0}
    /\ MaxIndex \in Nat /\ MaxCrashes \in Nat

VARIABLES
    committed,      \* the root store, its memory store included
    deliver,        \* the deliver state
    tx,             \* the branch of the transaction or simulation that runs
    mode,           \* "down", "idle", "block", or "tx" or "simulate" in a block
    capMap,         \* the Go map
    held,           \* capabilities the modules got hold of in this transaction
    touched,        \* the entries of capMap that this transaction wrote or removed
    torn,           \* history: see Torn and OutOfTurn
    crashes

vars == <<committed, deliver, tx, mode, capMap, held, touched, torn, crashes>>

Owner   == Modules \X Names
Indices == 1 .. MaxIndex - 1

\* A state: the index and owners of the persistent store; the initialized flag
\* and the two indexes of the memory store, 0 where there is no entry.
Genesis ==
    [index |-> 1, owners |-> [i \in Indices |-> {}], init |-> FALSE,
     fwd |-> [x \in Modules \X Addresses |-> 0], rev |-> [o \in Owner |-> 0]]

Init ==
    /\ committed = Genesis /\ deliver = Genesis /\ tx = Genesis
    /\ mode = "down" /\ capMap = [i \in Indices |-> NoAddress]
    /\ held = {} /\ touched = {} /\ torn = FALSE /\ crashes = 0

-----------------------------------------------------------------------------
(* InitMemStore                                                            *)

Largest(S) == CHOOSE x \in S \cup {0} : \A y \in S : y <= x

\* The entries InitializeCapability leaves when it goes through the indices in
\* ascending order, and through the owners of each in the order of the names.
RevOf(owners) == [o \in Owner |-> Largest({i \in Indices : o \in owners[i]})]
NameOf(owners, m, i) == Largest({n \in Names : <<m, n>> \in owners[i]})

\* The addresses a process may allocate for the capabilities that have owners.
Allocations(owners) ==
    {at \in [Indices -> Addresses \cup {NoAddress}] :
        /\ \A i \in Indices : at[i] = NoAddress <=> owners[i] = {}
        /\ \A i, j \in Indices : at[i] = at[j] => i = j \/ at[i] = NoAddress}

InitMemStore(s, at) ==
    [s EXCEPT !.init = TRUE,
              !.rev = RevOf(s.owners),
              !.fwd = [x \in Modules \X Addresses |->
                         Largest({NameOf(s.owners, x[1], i) : i \in {j \in Indices : at[j] = x[2]}})]]

\* BeginBlock on a deliver state: the first one of a process allocates the
\* capabilities.
BeginBlock ==
    /\ mode = "idle"
    /\ \/ /\ committed.init
          /\ deliver' = committed /\ UNCHANGED capMap
       \/ /\ ~committed.init
          /\ \E at \in Allocations(committed.owners) :
                capMap' = at /\ deliver' = InitMemStore(committed, at)
    /\ mode' = "block"
    /\ UNCHANGED <<committed, tx, held, touched, torn, crashes>>

-----------------------------------------------------------------------------
(* A transaction, and the calls of scoped keepers in it                    *)

Begin(m) ==
    /\ mode = "block"
    /\ mode' = m /\ tx' = IF m = "tx" THEN deliver ELSE committed
    /\ held' = {} /\ touched' = {}
    /\ UNCHANGED <<committed, deliver, capMap, torn, crashes>>

Running == mode \in {"tx", "simulate"}

\* A capability that is not referenced any more may give its address away.
Free == Addresses \ ({capMap[i] : i \in Indices} \cup {h[1] : h \in held})

\* Would dropping the branch tear map and store apart: it wrote or removed the entry
\* of a capability that has owners in the deliver state.
Torn == \E i \in touched : deliver.owners[i] # {}

\* The branch is gone, and what it did to the map is not.
DropBranch ==
    /\ mode' = "block" /\ tx' = Genesis /\ held' = {} /\ touched' = {}
    /\ torn' = (torn \/ Torn)
    /\ UNCHANGED <<committed, deliver, capMap, crashes>>

\* GetCapability: an index in the memory store without an entry in the map is
\* a panic, which fails the transaction.
GetCapability(m, n) ==
    /\ Running /\ tx.rev[<<m, n>>] # 0
    /\ LET i == tx.rev[<<m, n>>]
       IN  IF capMap[i] = NoAddress
             THEN DropBranch
             ELSE /\ held' = held \cup {<<capMap[i], i>>}
                  /\ UNCHANGED <<committed, deliver, tx, mode, capMap, touched, torn, crashes>>

\* The name must be free for the module, and the index must not be owned by it.
NewCapability(m, n) ==
    /\ Running /\ tx.rev[<<m, n>>] = 0 /\ tx.index < MaxIndex
    /\ <<m, n>> \notin tx.owners[tx.index]
    /\ \E a \in Free :
          /\ tx' = [tx EXCEPT !.owners[tx.index] = @ \cup {<<m, n>>}, !.index = @ + 1,
                              !.fwd[<<m, a>>] = n, !.rev[<<m, n>>] = tx.index]
          /\ capMap' = [capMap EXCEPT ![tx.index] = a]
          /\ held' = held \cup {<<a, tx.index>>} /\ touched' = touched \cup {tx.index}
    /\ UNCHANGED <<committed, deliver, mode, torn, crashes>>

\* A claim that no caller should make: of a name that stands for a capability
\* already, of a capability the module already owns under another name, or of one
\* that was released by its last owner after the caller got hold of it.
OutOfTurn(m, n, h) == tx.rev[<<m, n>>] # 0 \/ tx.fwd[<<m, h[1]>>] # 0 \/ capMap[h[2]] # h[1]

\* Mutant of ClaimCapability: the reverse index is forgotten.
ClaimCapabilityOneWay(m, n, h) ==
    /\ Running /\ h \in held
    /\ <<m, n>> \notin tx.owners[h[2]]
    /\ tx' = [tx EXCEPT !.owners[h[2]] = @ \cup {<<m, n>>}, !.fwd[<<m, h[1]>>] = n]
    /\ torn' = (torn \/ OutOfTurn(m, n, h))
    /\ UNCHANGED <<committed, deliver, mode, capMap, held, touched, crashes>>

\* A module claims a capability it received. addOwner only refuses an owner the
\* capability has already: claims out of turn are made like the others.
ClaimCapability(m, n, h) ==
    /\ Running /\ h \in held
    /\ <<m, n>> \notin tx.owners[h[2]]
    /\ tx' = [tx EXCEPT !.owners[h[2]] = @ \cup {<<m, n>>},
                        !.fwd[<<m, h[1]>>] = n, !.rev[<<m, n>>] = h[2]]
    /\ torn' = (torn \/ OutOfTurn(m, n, h))
    /\ UNCHANGED <<committed, deliver, mode, capMap, held, touched, crashes>>

\* What a release leaves: the index, the name and the owners that remain.
Released(m, h) ==
    LET n == tx.fwd[<<m, h[1]>>]
    IN  [tx EXCEPT !.fwd[<<m, h[1]>>] = 0, !.rev[<<m, n>>] = 0, !.owners[h[2]] = @ \ {<<m, n>>}]

\* Mutant of ReleaseCapability: the map entry goes with the first owner.
ReleaseCapabilityAlways(m, h) ==
    /\ Running /\ h \in held /\ tx.fwd[<<m, h[1]>>] # 0
    /\ tx' = Released(m, h)
    /\ capMap' = [capMap EXCEPT ![h[2]] = NoAddress] /\ touched' = touched \cup {h[2]}
    /\ UNCHANGED <<committed, deliver, mode, held, torn, crashes>>

\* Mutant of ReleaseCapability: the reverse index keeps its entry.
ReleaseCapabilityKeepsRev(m, h) ==
    /\ Running /\ h \in held /\ tx.fwd[<<m, h[1]>>] # 0
    /\ tx' = [Released(m, h) EXCEPT !.rev = tx.rev]
    /\ LET last == tx'.owners[h[2]] = {}
       IN  /\ capMap' = IF last THEN [capMap EXCEPT ![h[2]] = NoAddress] ELSE capMap
           /\ touched' = IF last THEN touched \cup {h[2]} ELSE touched
    /\ UNCHANGED <<committed, deliver, mode, held, torn, crashes>>

\* The module owns the capability under the name of the forward index. The
\* capability leaves the map with its last owner.
ReleaseCapability(m, h) ==
    /\ Running /\ h \in held /\ tx.fwd[<<m, h[1]>>] # 0
    /\ tx' = Released(m, h)
    /\ LET last == tx'.owners[h[2]] = {}
       IN  /\ capMap' = IF last THEN [capMap EXCEPT ![h[2]] = NoAddress] ELSE capMap
           /\ touched' = IF last THEN touched \cup {h[2]} ELSE touched
    /\ UNCHANGED <<committed, deliver, mode, held, torn, crashes>>

\* The branch is written when the transaction succeeds. A simulation is always
\* dropped.
EndTx(ok) ==
    /\ Running
    /\ \/ /\ mode = "tx" /\ ok
          /\ deliver' = tx
          /\ mode' = "block" /\ tx' = Genesis /\ held' = {} /\ touched' = {}
          /\ UNCHANGED <<committed, capMap, torn, crashes>>
       \/ ~(mode = "tx" /\ ok) /\ DropBranch

Commit ==
    /\ mode = "block"
    /\ committed' = deliver /\ mode' = "idle"
    /\ UNCHANGED <<deliver, tx, capMap, held, touched, torn, crashes>>

-----------------------------------------------------------------------------
Start ==
    /\ mode = "down" /\ mode' = "idle"
    /\ UNCHANGED <<committed, deliver, tx, capMap, held, touched, torn, crashes>>

\* The process dies: memory store, Go map and branches are gone.
Crash ==
    /\ mode # "down" /\ crashes < MaxCrashes /\ crashes' = crashes + 1
    /\ mode' = "down"
    /\ committed' = [committed EXCEPT !.init = FALSE, !.fwd = Genesis.fwd, !.rev = Genesis.rev]
    /\ deliver' = Genesis /\ tx' = Genesis
    /\ capMap' = [i \in Indices |-> NoAddress]
    /\ held' = {} /\ touched' = {}
    /\ UNCHANGED torn

\* The chain is exported and imported as a new one, up to the commit of its first
\* block: the index and the owners of the capabilities that have some are kept.
ExportImport ==
    /\ mode = "idle" /\ crashes < MaxCrashes /\ crashes' = crashes + 1
    /\ \E at \in Allocations(committed.owners) :
          /\ capMap' = at
          /\ committed' = InitMemStore([Genesis EXCEPT !.index = committed.index,
                                                     !.owners = committed.owners], at)
    /\ UNCHANGED <<deliver, tx, mode, held, touched, torn>>

Next ==
    \/ ExportImport
    \/ Start \/ BeginBlock \/ Commit \/ Crash
    \/ \E m \in {"tx", "simulate"} : Begin(m)
    \/ \E ok \in BOOLEAN : EndTx(ok)
    \/ \E m \in Modules, n \in Names :
          GetCapability(m, n) \/ NewCapability(m, n) \/ \E h \in held : ClaimCapability(m, n, h)
    \/ \E m \in Modules, h \in held : ReleaseCapability(m, h)

Spec == Init /\ [][Next]_vars

-----------------------------------------------------------------------------
(* Properties                                                              *)

\* The three hold until the first time a branch is dropped that wrote or removed the
\* map entry of a capability the deliver state has, or a module claims out of turn.
\* Then they fail: the entry an aborted release took away is not put back, and one
\* that a simulated NewCapability replaced has another address.

\* The assertion of GetCapability: a capability that a transaction, or the block
\* between transactions, finds in the memory store is never missing from the map,
\* although transactions fail and simulations end with the map as they left it.
\* (A simulation reads the committed state with the map of the block, and panics for
\* a capability that the block released.)
NeverMissing ==
    LET s == IF mode = "tx" THEN tx ELSE deliver
    IN  ~torn /\ mode \in {"block", "tx"} =>
            \A o \in Owner : s.rev[o] # 0 => capMap[s.rev[o]] # NoAddress

\* The concepts page: AuthenticateCapability tells a module that "a capability
\* does in fact correspond to a particular name with which the calling module
\* previously associated it". What a module gets by name between transactions
\* authenticates under that name.
OwnerAuthenticates ==
    ~torn /\ mode = "block" =>
        \A o \in Owner : deliver.rev[o] # 0 /\ capMap[deliver.rev[o]] # NoAddress =>
            deliver.fwd[<<o[1], capMap[deliver.rev[o]]>>] = o[2]

\* A restart cannot be told from the results of later transactions: the memory
\* store finds for every name and every capability what InitMemStore would
\* rebuild from the persisted owners.
RestartInvisible ==
    ~torn /\ mode = "block" =>
        /\ deliver.rev = RevOf(deliver.owners)
        /\ \A m \in Modules, i \in Indices :
              deliver.owners[i] # {} /\ capMap[i] # NoAddress =>
                  deliver.fwd[<<m, capMap[i]>>] = NameOf(deliver.owners, m, i)

=============================================================================
