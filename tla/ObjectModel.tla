------------------------------ MODULE ObjectModel ------------------------------
(***************************************************************************)
(* Publication of RTT components into the OPC UA address space:            *)
(* ObjectModelImpl of src/src/object_model.cpp.                            *)
(*                                                                         *)
(* A publisher holds command_mutex over the whole call, plans on its own   *)
(* thread, and has the nodes created, and the inventory committed, by one  *)
(* task on the server thread.  What the server promises about that task is *)
(* the contract of Server::invoke (module TaskContract): a task that was   *)
(* cancelled or failed never runs, one that started is waited for.         *)
(*                                                                         *)
(* A client operation that was dispatched on the server thread may itself  *)
(* query the model, and so need command_mutex, before it can finish.       *)
(***************************************************************************)
EXTENDS Integers, Sequences, FiniteSets

CONSTANTS
  Instances,    \* RTT component instances
  Names,        \* component names
  NameOf,       \* the name of each instance
  Selections,   \* effective resource sets a selected publication resolves to
  Publishers,   \* application threads that publish
  Parts,        \* nodes of one component are 1..Parts, parents first
  MaxCalls,     \* bound: publication calls in a behaviour
  MaxOps        \* bound: client operations in a behaviour

ASSUME ObjectModelAssumption ==
  /\ NameOf \in [Instances -> Names]
  /\ Instances # {} /\ Selections # {}
  /\ Parts \in Nat \ {0}
  /\ MaxCalls \in Nat /\ MaxOps \in Nat

VARIABLES
  up,             \* the server runs (it is not restarted under one model)
  nodes,          \* address space: which attempt owns node i of a name, or 0
  admissionClosed,
  mutex,          \* holder of command_mutex: a set of at most one thread
  components,     \* the inventory: name -> publication
  abandoned,      \* attempts whose rollback left nodes behind
  failed,         \* names in failed_publications
  diagnosed,      \* names in publication_diagnostics
  revision,       \* the local schema revision
  pc,             \* where each publisher is
  req,            \* what it publishes
  calls,          \* calls made (bounded by MaxCalls)
  attempts,       \* publication transactions submitted so far
  st,             \* ComponentState of an attempt: none, active, closing, closed
  result,         \* what the publishing call of an attempt returned
  task,           \* the transaction on its way through Server::invoke
  ledger,         \* parts created by the running transaction
  committed,      \* the transaction's flag of that name
  rollbackComplete,
  dispatching,    \* the server thread is in OperationDispatcher::invoke
  op,             \* the client operation: none, running or finished
  lease,          \* the attempt whose component it holds a lease on, or 0
  ops,            \* operations so far (bounded by MaxOps)
  sd,             \* where the destroying thread is
  closing         \* attempts that shutdown() has still to deactivate

spaceVars == <<up, nodes>>
inventoryVars == <<components, abandoned, failed, diagnosed, revision>>
publisherVars == <<pc, req, calls, attempts, st, result>>
txVars == <<task, ledger, committed, rollbackComplete>>
opVars == <<dispatching, op, lease, ops>>
sdVars == <<admissionClosed, sd, closing>>
vars == <<spaceVars, mutex, inventoryVars, publisherVars, txVars, opVars, sdVars>>

Attempts == 1..MaxCalls
Modes == {"full", "selected"}
NoPublication == [instance |-> "none"]
Publication == [instance : Instances, mode : Modes, set : Selections,
                attempt : Attempts]
Request == [instance : Instances, mode : Modes, set : Selections]
NameOfReq(p) == NameOf[req[p].instance]

Init ==
  /\ up = TRUE /\ nodes = [n \in Names |-> [i \in 1..Parts |-> 0]]
  /\ admissionClosed = FALSE /\ mutex = {}
  /\ components = [n \in Names |-> NoPublication]
  /\ abandoned = {} /\ failed = {} /\ diagnosed = {} /\ revision = 0
  /\ pc = [p \in Publishers |-> "idle"]
  /\ req \in [Publishers -> {CHOOSE r \in Request : TRUE}]
  /\ calls = 0 /\ attempts = 0
  /\ st = [a \in Attempts |-> "none"] /\ result = [a \in Attempts |-> "none"]
  /\ task = "none" /\ ledger = <<>> /\ committed = FALSE
  /\ rollbackComplete = TRUE
  /\ dispatching = FALSE /\ op = "none" /\ lease = 0 /\ ops = 0
  /\ sd = "idle" /\ closing = {}

-----------------------------------------------------------------------------
(* publishComponentInternal, on the publisher's thread                     *)

PublishCall(p) ==
  /\ pc[p] = "idle" /\ calls < MaxCalls /\ calls' = calls + 1
  /\ pc' = [pc EXCEPT ![p] = "call"]
  /\ \E r \in Request : req' = [req EXCEPT ![p] = r]
  /\ UNCHANGED <<spaceVars, mutex, inventoryVars, attempts, st, result, txVars,
                 opVars, sdVars>>

PublishLock(p) ==
  /\ pc[p] = "call" /\ mutex = {}
  /\ mutex' = {p} /\ pc' = [pc EXCEPT ![p] = "locked"]
  /\ UNCHANGED <<spaceVars, inventoryVars, req, calls, attempts, st, result,
                 txVars, opVars, sdVars>>

Return(p) ==
  /\ pc' = [pc EXCEPT ![p] = "idle"]
  /\ mutex' = {}

NameFree(p) == components[NameOfReq(p)] = NoPublication

\* A return before any transaction: the model shuts down, or the server is not
\* running.
PublishRefused(p) ==
  /\ pc[p] = "locked"
  /\ admissionClosed \/ (NameFree(p) /\ ~up)
  /\ Return(p)
  /\ UNCHANGED <<spaceVars, inventoryVars, req, calls, attempts, st, result,
                 txVars, opVars, sdVars>>

\* A name is bound to its first instance, mode and effective set.
Conflicts(r, published) ==
  \/ published.instance # r.instance
  \/ published.mode # r.mode
  \/ r.mode = "selected" /\ published.set # r.set

\* Mutant: a conflicting publication replaces the published one.
PublishReplace(p) ==
  /\ pc[p] = "locked" /\ ~admissionClosed
  /\ components[NameOfReq(p)] # NoPublication
  /\ Conflicts(req[p], components[NameOfReq(p)])
  /\ components' = [components EXCEPT ![NameOfReq(p)].set = req[p].set,
                                     ![NameOfReq(p)].mode = req[p].mode,
                                     ![NameOfReq(p)].instance = req[p].instance]
  /\ Return(p)
  /\ UNCHANGED <<spaceVars, diagnosed, abandoned, failed, revision, req, calls,
                 attempts, st, result, txVars, opVars, sdVars>>

PublishConflict(p) ==
  /\ pc[p] = "locked" /\ ~admissionClosed
  /\ components[NameOfReq(p)] # NoPublication
  /\ Conflicts(req[p], components[NameOfReq(p)])
  /\ diagnosed' = diagnosed \cup {NameOfReq(p)}
  /\ Return(p)
  /\ UNCHANGED <<spaceVars, components, abandoned, failed, revision, req, calls,
                 attempts, st, result, txVars, opVars, sdVars>>

\* An equal publication succeeds; a selected one that resolves to the same set
\* with a diagnostic (an unmatched selector beside the matching ones) fails.
PublishRepeat(p) ==
  /\ pc[p] = "locked" /\ ~admissionClosed
  /\ components[NameOfReq(p)] # NoPublication
  /\ ~Conflicts(req[p], components[NameOfReq(p)])
  /\ failed' = failed \ {NameOfReq(p)}
  /\ \/ diagnosed' = diagnosed \ {NameOfReq(p)}
     \/ req[p].mode = "selected" /\ diagnosed' = diagnosed \cup {NameOfReq(p)}
  /\ Return(p)
  /\ UNCHANGED <<spaceVars, components, abandoned, revision, req, calls, attempts,
                 st, result, txVars, opVars, sdVars>>

\* The snapshot of a new component has diagnostics; its state is closed at once.
PublishDiagnosed(p) ==
  /\ pc[p] = "locked" /\ ~admissionClosed /\ up
  /\ NameFree(p)
  /\ failed' = failed \cup {NameOfReq(p)}
  /\ diagnosed' = diagnosed \cup {NameOfReq(p)}
  /\ Return(p)
  /\ UNCHANGED <<spaceVars, components, abandoned, revision, req, calls, attempts,
                 st, result, txVars, opVars, sdVars>>

\* server.invoke(transaction): the mutex stays held.
PublishSubmit(p) ==
  /\ pc[p] = "locked" /\ ~admissionClosed /\ up
  /\ NameFree(p)
  /\ attempts' = attempts + 1
  /\ st' = [st EXCEPT ![attempts + 1] = "active"]
  /\ task' = "queued" /\ ledger' = <<>> /\ committed' = FALSE
  /\ rollbackComplete' = TRUE
  /\ pc' = [pc EXCEPT ![p] = "invoke"]
  /\ UNCHANGED <<spaceVars, mutex, inventoryVars, req, calls, result, opVars,
                 sdVars>>

\* invoke() gives up on a transaction that is still queued.
PublishTimeout(p) ==
  /\ pc[p] = "invoke" /\ task = "queued"
  /\ task' = "failed"
  /\ UNCHANGED <<spaceVars, mutex, inventoryVars, publisherVars, ledger,
                 committed, rollbackComplete, opVars, sdVars>>

\* Mutant: a transaction that ran is taken for one that committed.
RanIsCommitted == task = "done"

Succeeded == task = "done" /\ committed

PublishCommitted(p) ==
  /\ pc[p] = "invoke" /\ Succeeded
  /\ failed' = failed \ {NameOfReq(p)} /\ diagnosed' = diagnosed \ {NameOfReq(p)}
  /\ result' = [result EXCEPT ![attempts] = "published"]
  /\ task' = "none"
  /\ Return(p)
  /\ UNCHANGED <<spaceVars, components, abandoned, revision, req, calls, attempts,
                 st, ledger, committed, rollbackComplete, opVars, sdVars>>

\* Mutant: a shutdown that began meanwhile makes the call fail.
RejectedIfClosing ==
  \/ task = "failed"
  \/ task = "done" /\ (~committed \/ admissionClosed)

Rejected == task = "failed" \/ (task = "done" /\ ~committed)

\* Not invoked or not committed: close the state, remember what a rollback left.
PublishFailed(p) ==
  /\ pc[p] = "invoke" /\ Rejected
  /\ st' = [st EXCEPT ![attempts] = "closed"]
  /\ abandoned' = IF rollbackComplete THEN abandoned
                  ELSE abandoned \cup {attempts}
  /\ result' = [result EXCEPT ![attempts] = "rejected"]
  /\ task' = "none"
  /\ Return(p)
  /\ UNCHANGED <<spaceVars, components, failed, diagnosed, revision, req, calls,
                 attempts, ledger, committed, rollbackComplete, opVars, sdVars>>

-----------------------------------------------------------------------------
(* The transaction, on the server thread                                   *)

\* The publisher whose transaction is in the server; it holds command_mutex.
Owner == CHOOSE p \in Publishers : pc[p] = "invoke"
TxName == NameOfReq(Owner)
NextPart == Len(ledger) + 1

TxBegin ==
  /\ up /\ task = "queued" /\ ~dispatching
  /\ task' = "creating"
  /\ UNCHANGED <<spaceVars, mutex, inventoryVars, publisherVars, ledger,
                 committed, rollbackComplete, opVars, sdVars>>

\* createNode() succeeds and the node enters the ledger.
TxCreate ==
  /\ task = "creating" /\ NextPart <= Parts
  /\ nodes[TxName][NextPart] = 0
  /\ nodes' = [nodes EXCEPT ![TxName][NextPart] = attempts]
  /\ ledger' = Append(ledger, NextPart)
  /\ UNCHANGED <<up, mutex, inventoryVars, publisherVars, task, committed,
                 rollbackComplete, opVars, sdVars>>

\* Mutant: the nodes are rolled back while their callbacks stay open.
RollbackWithoutClosing == task' = "rollback" /\ UNCHANGED st

\* closeAndRollback() begins by closing the state.
CloseState == /\ st' = [st EXCEPT ![attempts] = "closed"]
              /\ task' = "rollback"

\* Roots, namespace or node cannot be created; an occupied NodeId never can.
TxCreateFail ==
  /\ task = "creating" /\ NextPart <= Parts
  /\ CloseState
  /\ UNCHANGED <<spaceVars, mutex, inventoryVars, pc, req, calls, attempts,
                 result, ledger, committed, rollbackComplete, opVars, sdVars>>

\* createNode() made the node and then failed to complete it: `created` is set,
\* so the node is in the ledger when the rollback starts.
TxCreatePartial ==
  /\ task = "creating" /\ NextPart <= Parts
  /\ nodes[TxName][NextPart] = 0
  /\ nodes' = [nodes EXCEPT ![TxName][NextPart] = attempts]
  /\ ledger' = Append(ledger, NextPart)
  /\ CloseState
  /\ UNCHANGED <<up, mutex, inventoryVars, pc, req, calls, attempts, result,
                 committed, rollbackComplete, opVars, sdVars>>

\* rollbackCreatedNodes(): newest first; a deletion that fails is remembered
\* and the rest is still deleted.
TxRollbackNode ==
  /\ task = "rollback" /\ ledger # <<>>
  /\ ledger' = SubSeq(ledger, 1, Len(ledger) - 1)
  /\ \/ /\ nodes' = [nodes EXCEPT ![TxName][ledger[Len(ledger)]] = 0]
        /\ UNCHANGED rollbackComplete
     \/ /\ rollbackComplete' = FALSE
        /\ UNCHANGED nodes
  /\ UNCHANGED <<up, mutex, inventoryVars, publisherVars, task, committed,
                 opVars, sdVars>>

\* The subtree cannot be detached, or the rollback throws: nothing is deleted.
TxRollbackAbort ==
  /\ task = "rollback" /\ ledger # <<>>
  /\ ledger' = <<>> /\ rollbackComplete' = FALSE
  /\ UNCHANGED <<spaceVars, mutex, inventoryVars, publisherVars, task, committed,
                 opVars, sdVars>>

TxRolledBack ==
  /\ task = "rollback" /\ ledger = <<>>
  /\ task' = "done"
  /\ UNCHANGED <<spaceVars, mutex, inventoryVars, publisherVars, ledger,
                 committed, rollbackComplete, opVars, sdVars>>

\* try_emplace() into the inventory, then advanceRevision().
TxCommit ==
  /\ task = "creating" /\ NextPart > Parts
  /\ components' = [components EXCEPT ![TxName] =
       [instance |-> req[Owner].instance, mode |-> req[Owner].mode,
        set |-> req[Owner].set, attempt |-> attempts]]
  /\ committed' = TRUE /\ revision' = revision + 1
  /\ task' = "done"
  /\ UNCHANGED <<spaceVars, mutex, abandoned, failed, diagnosed, publisherVars,
                 ledger, rollbackComplete, opVars, sdVars>>

\* The server stops between tasks: a queued one fails, the native server and
\* its address space are destroyed.
ServerStop ==
  /\ up /\ ~dispatching /\ task \notin {"creating", "rollback"}
  /\ up' = FALSE
  /\ nodes' = [n \in Names |-> [i \in 1..Parts |-> 0]]
  /\ task' = IF task = "queued" THEN "failed" ELSE task
  /\ UNCHANGED <<mutex, inventoryVars, publisherVars, ledger, committed,
                 rollbackComplete, opVars, sdVars>>

-----------------------------------------------------------------------------
(* A client operation that queries the model while it runs                 *)

OpStart(n) ==
  /\ up /\ ~dispatching /\ task \notin {"creating", "rollback"}
  /\ components[n] # NoPublication /\ lease = 0 /\ ops < MaxOps
  /\ st[components[n].attempt] = "active" /\ ~admissionClosed
  /\ dispatching' = TRUE /\ op' = "running" /\ ops' = ops + 1
  /\ lease' = components[n].attempt
  /\ UNCHANGED <<spaceVars, mutex, inventoryVars, publisherVars, txVars, sdVars>>

\* componentCount(), lastError(), ... : the operation takes command_mutex.
OpQueryAndFinish ==
  /\ op = "running" /\ mutex = {}
  /\ op' = "finished"
  /\ UNCHANGED <<spaceVars, mutex, inventoryVars, publisherVars, txVars,
                 dispatching, lease, ops, sdVars>>

\* The handler collects the result, or times out and leaves the call, with its
\* lease, to the reaper (while drain() has not begun).
OpCollect ==
  /\ dispatching /\ op = "finished"
  /\ dispatching' = FALSE /\ op' = "none" /\ lease' = 0
  /\ UNCHANGED <<spaceVars, mutex, inventoryVars, publisherVars, txVars, ops,
                 sdVars>>

OpTimeout ==
  /\ dispatching /\ sd \in {"idle", "lock"}
  /\ dispatching' = FALSE
  /\ UNCHANGED <<spaceVars, mutex, inventoryVars, publisherVars, txVars, op,
                 lease, ops, sdVars>>

OpReap ==
  /\ ~dispatching /\ op = "finished"
  /\ op' = "none" /\ lease' = 0
  /\ UNCHANGED <<spaceVars, mutex, inventoryVars, publisherVars, txVars,
                 dispatching, ops, sdVars>>

-----------------------------------------------------------------------------
(* beginShutdown() and shutdown()                                          *)

BeginShutdown ==
  /\ ~admissionClosed /\ admissionClosed' = TRUE
  /\ UNCHANGED <<spaceVars, mutex, inventoryVars, publisherVars, txVars, opVars,
                 sd, closing>>

Shutdown ==
  /\ sd = "idle" /\ sd' = "lock" /\ admissionClosed' = TRUE
  /\ UNCHANGED <<spaceVars, mutex, inventoryVars, publisherVars, txVars, opVars,
                 closing>>

Published == {components[n].attempt :
                n \in {m \in Names : components[m] # NoPublication}}

\* Mutant: the inventory is swapped out without the lock.
SdDetachUnlocked ==
  /\ sd = "lock"
  /\ closing' = Published \cup abandoned
  /\ components' = [n \in Names |-> NoPublication] /\ abandoned' = {}
  /\ failed' = {} /\ diagnosed' = {}
  /\ sd' = "drain"
  /\ UNCHANGED <<spaceVars, mutex, revision, publisherVars, txVars, opVars,
                 admissionClosed>>

\* Mutant: the lock is kept while the pending operations are drained.
SdDetachKeepsLock ==
  /\ sd = "lock" /\ mutex = {} /\ mutex' = {"shutdown"}
  /\ closing' = Published \cup abandoned
  /\ components' = [n \in Names |-> NoPublication] /\ abandoned' = {}
  /\ failed' = {} /\ diagnosed' = {}
  /\ sd' = "drain"
  /\ UNCHANGED <<spaceVars, revision, publisherVars, txVars, opVars,
                 admissionClosed>>

\* Swap the inventory out under command_mutex; the lock ends with this step.
SdDetach ==
  /\ sd = "lock" /\ mutex = {}
  /\ closing' = Published \cup abandoned
  /\ components' = [n \in Names |-> NoPublication] /\ abandoned' = {}
  /\ failed' = {} /\ diagnosed' = {}
  /\ sd' = "drain"
  /\ UNCHANGED <<spaceVars, mutex, revision, publisherVars, txVars, opVars,
                 admissionClosed>>

\* Mutant: command_mutex is taken for the wait for the pending operations.
SdDrainLocked ==
  /\ sd = "drain"
  /\ \/ mutex = {} /\ mutex' = {"shutdown"} /\ UNCHANGED sd
     \/ mutex = {"shutdown"} /\ mutex' = {} /\ (lease = 0 \/ dispatching) /\ sd' = "deactivate"
  /\ UNCHANGED <<spaceVars, inventoryVars, publisherVars, txVars, opVars,
                 admissionClosed, closing>>

\* drainPending(): no retained call is left.
SdDrain ==
  /\ sd = "drain" /\ (lease = 0 \/ dispatching)
  /\ sd' = "deactivate"
  /\ UNCHANGED <<spaceVars, mutex, inventoryVars, publisherVars, txVars, opVars,
                 admissionClosed, closing>>

\* deactivate(): close, wait for the leases, forget the component.
SdClose(a) ==
  /\ sd = "deactivate" /\ a \in closing /\ sd' = "release"
  /\ st' = [st EXCEPT ![a] = "closing"]
  /\ UNCHANGED <<spaceVars, mutex, inventoryVars, pc, req, calls, attempts,
                 result, txVars, opVars, admissionClosed, closing>>

SdRelease(a) ==
  /\ sd = "release" /\ a \in closing /\ st[a] = "closing" /\ lease # a
  /\ st' = [st EXCEPT ![a] = "closed"] /\ closing' = closing \ {a}
  /\ sd' = "deactivate"
  /\ UNCHANGED <<spaceVars, mutex, inventoryVars, pc, req, calls, attempts,
                 result, txVars, opVars, admissionClosed>>

SdDone ==
  /\ sd = "deactivate" /\ closing = {} /\ sd' = "finished"
  /\ UNCHANGED <<spaceVars, mutex, inventoryVars, publisherVars, txVars, opVars,
                 admissionClosed, closing>>

-----------------------------------------------------------------------------

PublisherStep(p) ==
  \/ PublishLock(p) \/ PublishRefused(p) \/ PublishConflict(p)
  \/ PublishRepeat(p) \/ PublishDiagnosed(p) \/ PublishSubmit(p)
  \/ PublishTimeout(p) \/ PublishCommitted(p) \/ PublishFailed(p)

ServerStep ==
  \/ TxBegin \/ TxCreate \/ TxCreateFail \/ TxCreatePartial \/ TxRollbackNode
  \/ TxRollbackAbort \/ TxRolledBack \/ TxCommit \/ OpCollect \/ OpTimeout

ShutdownStep ==
  \/ SdDetach \/ SdDrain \/ SdDone
  \/ \E a \in Attempts : SdClose(a) \/ SdRelease(a)

Over ==
  /\ calls = MaxCalls /\ \A p \in Publishers : pc[p] = "idle"
  /\ sd = "finished" /\ lease = 0 /\ ~up
  /\ UNCHANGED vars

Next ==
  \/ \E p \in Publishers : PublishCall(p) \/ PublisherStep(p)
  \/ ServerStep \/ ServerStop
  \/ \E n \in Names : OpStart(n)
  \/ OpQueryAndFinish \/ OpReap
  \/ BeginShutdown \/ Shutdown \/ ShutdownStep
  \/ Over

Spec == Init /\ [][Next]_vars

\* Threads are scheduled and bounded waits expire.  Contention for command_mutex
\* is bounded by the calls made, so no strong fairness is needed.
FairSpec ==
  /\ Spec
  /\ \A p \in Publishers : WF_vars(PublisherStep(p))
  /\ WF_vars(ServerStep) /\ WF_vars(OpQueryAndFinish) /\ WF_vars(OpReap)
  /\ WF_vars(ShutdownStep)

-----------------------------------------------------------------------------
(* Properties                                                              *)

\* Every variable keeps its type; in particular the transaction is always in a
\* state one of the two threads acts on.
TypeOK ==
  /\ up \in BOOLEAN /\ nodes \in [Names -> [1..Parts -> 0..MaxCalls]]
  /\ admissionClosed \in BOOLEAN /\ mutex \in SUBSET Publishers
  /\ components \in [Names -> Publication \cup {NoPublication}]
  /\ abandoned \subseteq Attempts /\ closing \subseteq Attempts
  /\ failed \subseteq Names /\ diagnosed \subseteq Names
  /\ revision \in 0..MaxCalls
  /\ pc \in [Publishers -> {"idle", "call", "locked", "invoke"}]
  /\ req \in [Publishers -> Request]
  /\ calls \in 0..MaxCalls /\ attempts \in 0..MaxCalls
  /\ st \in [Attempts -> {"none", "active", "closing", "closed"}]
  /\ result \in [Attempts -> {"none", "published", "rejected"}]
  /\ task \in {"none", "queued", "creating", "rollback", "done", "failed"}
  /\ ledger \in Seq(1..Parts) /\ committed \in BOOLEAN
  /\ rollbackComplete \in BOOLEAN /\ dispatching \in BOOLEAN
  /\ op \in {"none", "running", "finished"} /\ lease \in 0..MaxCalls
  /\ ops \in 0..MaxOps
  /\ sd \in {"idle", "lock", "drain", "deactivate", "release", "finished"}

\* Publication is all or nothing: outside a transaction, a node in the address
\* space belongs to a component of the inventory whose nodes all exist, or to an
\* attempt whose callbacks are closed (left by a failed rollback, or detached by
\* shutdown).  No client ever reaches a component through half a publication.
PublicationIsAtomic ==
  up /\ task \notin {"creating", "rollback"} =>
    /\ \A n \in Names : components[n] # NoPublication =>
         \A i \in 1..Parts : nodes[n][i] = components[n].attempt
    /\ \A n \in Names, i \in 1..Parts :
         LET a == nodes[n][i]
         IN  a # 0 => \/ st[a] = "closed"
                      \/ components[n] # NoPublication /\ components[n].attempt = a
                      \/ a \in closing

\* A publishing call reports success exactly when its transaction committed: no
\* component is published behind the back of a caller who was told it failed.
ReportMatchesCommit ==
  \A n \in Names : components[n] # NoPublication /\ mutex = {} =>
    result[components[n].attempt] = "published"

\* "Monotonic RTT model schema revision": it counts the components committed,
\* each one exactly once, also when the call races the shutdown.
RevisionCountsCommits ==
  mutex = {} =>
    revision = Cardinality({a \in Attempts : result[a] = "published"})

\* Once the model is destroyed no callback can reach any component any more:
\* every state ever handed to a node is closed, and no operation holds a lease.
DestroyedModelIsClosed ==
  sd = "finished" => lease = 0 /\ \A a \in Attempts : st[a] \in {"none", "closed"}

\* "changing the effective set, or publishing a different component instance
\* with the same name is rejected" (README): the first publication of a name is
\* never replaced; only the destruction of the model removes it.
FirstPublicationWins ==
  [][\A n \in Names :
       components[n] # NoPublication /\ components'[n] # components[n]
         => sd = "lock" /\ components'[n] = NoPublication]_vars

\* Destroying the model ends although running operations may need command_mutex:
\* "Detach the inventory under its lock, then wait without holding it".
ShutdownCompletes == sd # "idle" ~> sd = "finished"

\* Every publication call returns, also while the server thread is busy with an
\* operation that waits for the publisher's command_mutex.
PublishReturns == \A p \in Publishers : pc[p] # "idle" ~> pc[p] = "idle"

=============================================================================
