-------------------------- MODULE OperationDispatcher --------------------------
(***************************************************************************)
(* Remote operation calls and the component leases they hold:              *)
(* ComponentState / ComponentLease / deactivate (component_state.hpp),     *)
(* OperationDispatcher (operation_dispatcher.cpp), and the part of         *)
(* ObjectModelImpl::shutdown that drains the dispatcher and releases the   *)
(* published components (object_model.cpp).                                *)
(*                                                                         *)
(* The server thread executes one method handler at a time.  An operation  *)
(* it launches runs on the component's own engine or on an async thread.   *)
(* A call that outlives the operation timeout is handed, with its lease,   *)
(* to a reaper thread.  One thread destroys the ObjectModel.               *)
(***************************************************************************)
EXTENDS Integers, FiniteSets

CONSTANTS
  Calls,         \* method calls that arrive in a behaviour
  Components     \* published RTT components

ASSUME DispatcherAssumption == IsFiniteSet(Calls)

VARIABLES
  admissionClosed,  \* *admission_closed
  active,           \* ComponentState::is_active
  present,          \* ComponentState::component != nullptr
  users,            \* ComponentState::users
  phase,            \* how far invoke() or the retained call has come
  target,           \* the component a call addresses
  op,               \* the RTT operation behind a call
  draining,         \* Impl::draining, set with the reaper's stop request
  reaper,           \* the reaper thread: "running" or "exited"
  sd,               \* where the destroying thread is
  closing           \* components shutdown() has detached and not yet released

callVars == <<phase, target, op>>
componentVars == <<active, present, users>>
shutdownVars == <<admissionClosed, draining, sd, closing>>
vars == <<callVars, componentVars, shutdownVars, reaper>>

\* The phases in which the call owns a ComponentLease: on the server thread ...
ServerPhases == {"leased", "sent", "polling", "retaining", "waiting"}
\* ... or inside a PendingInvocation of the reaper's list.
LeasePhases == ServerPhases \cup {"retained"}
\* Over: answered, or given up after send() without waiting for the operation.
EndPhases == {"returned", "givenup"}
Phases == LeasePhases \cup EndPhases \cup {"new"}

SdPoints == {"idle", "detach", "drain", "join", "reap", "deactivate",
             "release", "finished"}

Holders(c) == {k \in Calls : phase[k] \in LeasePhases /\ target[k] = c}

Init ==
  /\ admissionClosed = FALSE
  /\ active = [c \in Components |-> TRUE]
  /\ present = [c \in Components |-> TRUE]
  /\ users = [c \in Components |-> 0]
  /\ phase = [k \in Calls |-> "new"]
  /\ target \in [Calls -> Components]
  /\ op = [k \in Calls |-> "none"]
  /\ draining = FALSE /\ reaper = "running"
  /\ sd = "idle" /\ closing = {}

-----------------------------------------------------------------------------
(* ComponentLease                                                          *)

Admissible(c) == ~admissionClosed /\ active[c] /\ present[c]

\* Call k gives its lease back and is over.
ReleaseLease(k, end) ==
  /\ phase' = [phase EXCEPT ![k] = end]
  /\ users' = [users EXCEPT ![target[k]] = @ - 1]
  /\ UNCHANGED <<active, present>>

-----------------------------------------------------------------------------
(* OperationDispatcher::invoke, on the server thread                       *)

ServerIdle == \A k \in Calls : phase[k] \notin ServerPhases

\* The handler obtains a lease.  Property, attribute and port handlers do the
\* same and give it back on return, as Reject does.
Admit(k) ==
  /\ ServerIdle /\ phase[k] = "new"
  /\ Admissible(target[k])
  /\ phase' = [phase EXCEPT ![k] = "leased"]
  /\ users' = [users EXCEPT ![target[k]] = @ + 1]
  /\ UNCHANGED <<target, op, active, present, shutdownVars, reaper>>

\* BadNotConnected.
Refuse(k) ==
  /\ ServerIdle /\ phase[k] = "new"
  /\ ~Admissible(target[k])
  /\ phase' = [phase EXCEPT ![k] = "returned"]
  /\ UNCHANGED <<target, op, componentVars, shutdownVars, reaper>>

\* Every early return before the operation is launched: timeout option, arity,
\* argument decoding, caller not ready, unsupported outputs.
Reject(k) ==
  /\ phase[k] = "leased"
  /\ ReleaseLease(k, "returned")
  /\ UNCHANGED <<target, op, shutdownVars, reaper>>

\* caller.send(): the operation is queued on the component's engine before the
\* values to collect are built.
LaunchSend(k) ==
  /\ phase[k] = "leased"
  /\ phase' = [phase EXCEPT ![k] = "sent"]
  /\ op' = [op EXCEPT ![k] = "running"]
  /\ UNCHANGED <<target, componentVars, shutdownVars, reaper>>

SetupCollect(k) ==
  /\ phase[k] = "sent"
  /\ phase' = [phase EXCEPT ![k] = "polling"]
  /\ UNCHANGED <<target, op, componentVars, shutdownVars, reaper>>

\* No result value, handle not ready, or an exception: BadNotSupported,
\* BadInternalError or BadUnexpectedError after send().
SetupFail(k) ==
  /\ phase[k] = "sent"
  /\ ReleaseLease(k, "givenup")
  /\ UNCHANGED <<target, op, shutdownVars, reaper>>

\* An operation without a send data source: all values exist before std::async.
LaunchCall(k) ==
  /\ phase[k] = "leased"
  /\ phase' = [phase EXCEPT ![k] = "polling"]
  /\ op' = [op EXCEPT ![k] = "running"]
  /\ UNCHANGED <<target, componentVars, shutdownVars, reaper>>

\* The poll sees the operation done; the outputs are encoded.
Collect(k) ==
  /\ phase[k] = "polling" /\ op[k] = "finished"
  /\ ReleaseLease(k, "returned")
  /\ UNCHANGED <<target, op, shutdownVars, reaper>>

\* A poll before the operation was done found the deadline passed.
Timeout(k) ==
  /\ phase[k] = "polling"
  /\ phase' = [phase EXCEPT ![k] = "retaining"]
  /\ UNCHANGED <<target, op, componentVars, shutdownVars, reaper>>

\* Mutant: retainPending() does not ask whether the drain has begun.
RetainAlways == TRUE

RetainAllowed == ~draining

\* retainPending() under the dispatcher's mutex.
Retain(k) ==
  /\ phase[k] = "retaining" /\ RetainAllowed
  /\ phase' = [phase EXCEPT ![k] = "retained"]
  /\ UNCHANGED <<target, op, componentVars, shutdownVars, reaper>>

\* Draining has begun, or the pending invocation cannot be allocated: the
\* server thread waits in place and keeps the lease.
RetainInPlace(k) ==
  /\ phase[k] = "retaining"
  /\ phase' = [phase EXCEPT ![k] = "waiting"]
  /\ UNCHANGED <<target, op, componentVars, shutdownVars, reaper>>

WaitDone(k) ==
  /\ phase[k] = "waiting" /\ op[k] = "finished"
  /\ ReleaseLease(k, "returned")
  /\ UNCHANGED <<target, op, shutdownVars, reaper>>

-----------------------------------------------------------------------------
(* The operation itself, and the reaper                                    *)

\* The component's engine, or the async thread, completes the operation.
OperationDone(k) ==
  /\ op[k] = "running"
  /\ op' = [op EXCEPT ![k] = "finished"]
  /\ UNCHANGED <<phase, target, componentVars, shutdownVars, reaper>>

\* Mutant: a retained invocation counts as done whatever its operation does.
ReapableEarly == {k \in Calls : phase[k] = "retained"}

\* PendingInvocation::done() of the retained calls.
Reapable == {k \in Calls : phase[k] = "retained" /\ op[k] = "finished"}

\* Mutant: one decrement for all erased invocations of a component.
UsersAfterOneRelease ==
  [c \in Components |->
     users[c] - IF \E k \in Reapable : target[k] = c THEN 1 ELSE 0]

UsersAfterReap ==
  [c \in Components |->
     users[c] - Cardinality({k \in Reapable : target[k] = c})]

\* reapOnce(): erase every done invocation; each erased one gives its lease
\* back.
ReapOnce ==
  /\ phase' = [k \in Calls |-> IF k \in Reapable THEN "returned" ELSE phase[k]]
  /\ users' = UsersAfterReap
  /\ UNCHANGED <<target, op, active, present>>

ReaperReap ==
  /\ reaper = "running" /\ ~draining
  /\ Reapable # {}
  /\ ReapOnce
  /\ UNCHANGED <<shutdownVars, reaper>>

\* Mutant: the reaper also leaves its loop when it finds nothing to watch.
ReaperStopsWhenEmpty == draining \/ \A k \in Calls : phase[k] # "retained"

\* stop_token.stop_requested(): requested by drain().
ReaperStopRequested == draining

ReaperExit ==
  /\ reaper = "running" /\ ReaperStopRequested
  /\ reaper' = "exited"
  /\ UNCHANGED <<callVars, componentVars, shutdownVars>>

-----------------------------------------------------------------------------
(* ObjectModel::beginShutdown and ~ObjectModel                             *)

BeginShutdown ==
  /\ sd = "idle" /\ ~admissionClosed
  /\ admissionClosed' = TRUE
  /\ UNCHANGED <<callVars, componentVars, draining, sd, closing, reaper>>

Shutdown ==
  /\ sd = "idle" /\ sd' = "detach"
  /\ admissionClosed' = TRUE
  /\ UNCHANGED <<callVars, componentVars, draining, closing, reaper>>

\* The inventory is swapped out under command_mutex.
Detach ==
  /\ sd = "detach" /\ sd' = "drain"
  /\ closing' = Components
  /\ UNCHANGED <<callVars, componentVars, admissionClosed, draining, reaper>>

DrainBegin ==
  /\ sd = "drain" /\ sd' = "join"
  /\ draining' = TRUE
  /\ UNCHANGED <<callVars, componentVars, admissionClosed, closing, reaper>>

DrainJoin ==
  /\ sd = "join" /\ reaper = "exited" /\ sd' = "reap"
  /\ UNCHANGED <<callVars, componentVars, admissionClosed, draining, closing,
                 reaper>>

\* drain()'s loop: reap under the mutex and leave once the list is empty.
DrainReap ==
  /\ sd = "reap"
  /\ ReapOnce
  /\ sd' = IF \A k \in Calls : phase[k] = "retained" => k \in Reapable
             THEN "deactivate" ELSE "reap"
  /\ UNCHANGED <<admissionClosed, draining, closing, reaper>>

\* deactivate(): refuse new leases, then wait for the last user.
Deactivate(c) ==
  /\ sd = "deactivate" /\ c \in closing
  /\ active' = [active EXCEPT ![c] = FALSE]
  /\ sd' = "release"
  /\ UNCHANGED <<callVars, present, users, admissionClosed, draining, closing,
                 reaper>>

\* Mutant: an off-by-one in the wait for the last user.
AtMostOneUser(c) == users[c] <= 1

NoUser(c) == users[c] = 0

Release(c) ==
  /\ sd = "release" /\ c \in closing /\ ~active[c]
  /\ NoUser(c)
  /\ present' = [present EXCEPT ![c] = FALSE]
  /\ closing' = closing \ {c}
  /\ sd' = "deactivate"
  /\ UNCHANGED <<callVars, active, users, admissionClosed, draining, reaper>>

ShutdownDone ==
  /\ sd = "deactivate" /\ closing = {}
  /\ sd' = "finished"
  /\ UNCHANGED <<callVars, componentVars, admissionClosed, draining, closing,
                 reaper>>

-----------------------------------------------------------------------------

InvokeStep(k) ==
  \/ Refuse(k) \/ Reject(k) \/ LaunchSend(k) \/ SetupCollect(k)
  \/ SetupFail(k) \/ LaunchCall(k) \/ Collect(k) \/ Timeout(k) \/ Retain(k)
  \/ RetainInPlace(k) \/ WaitDone(k)

ReaperStep == ReaperReap \/ ReaperExit

ShutdownStep ==
  \/ Detach \/ DrainBegin \/ DrainJoin \/ DrainReap
  \/ (\E c \in Components : Deactivate(c) \/ Release(c))
  \/ ShutdownDone

Over ==
  /\ sd = "finished" /\ \A k \in Calls : phase[k] \in EndPhases /\ op[k] # "running"
  /\ UNCHANGED vars

Next ==
  \/ \E k \in Calls : Admit(k) \/ InvokeStep(k) \/ OperationDone(k)
  \/ ReaperStep
  \/ BeginShutdown \/ Shutdown
  \/ ShutdownStep
  \/ Over

Spec == Init /\ [][Next]_vars

\* The server thread, the reaper and the destroying thread are scheduled, and
\* every launched operation ends: an application operation that never returns
\* is the one thing the code does not bound.
FairSpec ==
  /\ Spec
  /\ \A k \in Calls : WF_vars(InvokeStep(k)) /\ WF_vars(OperationDone(k))
  /\ WF_vars(ReaperStep) /\ WF_vars(ShutdownStep)

-----------------------------------------------------------------------------
(* Properties                                                              *)

\* Every variable keeps its type; an operation only ever runs or has finished.
TypeOK ==
  /\ admissionClosed \in BOOLEAN /\ draining \in BOOLEAN
  /\ active \in [Components -> BOOLEAN] /\ present \in [Components -> BOOLEAN]
  /\ users \in [Components -> Int]
  /\ phase \in [Calls -> Phases]
  /\ target \in [Calls -> Components]
  /\ op \in [Calls -> {"none", "running", "finished"}]
  /\ reaper \in {"running", "exited"}
  /\ sd \in SdPoints /\ closing \in SUBSET Components

\* The count that deactivate() waits on is the number of leases in existence,
\* wherever they were moved: a lost or doubled release would let shutdown pass
\* early, wait forever, or wrap the unsigned counter.
UsersCountLeases == \A c \in Components : users[c] = Cardinality(Holders(c))

\* "Destruction still drains admitted operations before releasing components"
\* (object_model.hpp): while an operation launched for a client runs, the
\* component it runs on has not been released.
OperationsKeepComponent ==
  \A k \in Calls : op[k] = "running" => present[target[k]]

\* The same for every call but those that SetupFail gave up: an operation that is
\* collected, waited for, retained or reaped never runs on a released component,
\* however late it ends and whatever the shutdown does meanwhile.
AwaitedOperationsKeepComponent ==
  \A k \in Calls : op[k] = "running" /\ phase[k] # "givenup" => present[target[k]]

\* A handler that passed admission can use the component pointer until it
\* gives its lease back, whatever the shutdown does meanwhile.
LeaseKeepsComponent ==
  \A k \in Calls : phase[k] \in LeasePhases => present[target[k]]

\* Once drain() has returned nothing is left in the reaper's list, and nothing
\* is added to it: no call is retained that nobody will reap.
NothingRetainedAfterDrain ==
  sd \in {"deactivate", "release", "finished"}
    => \A k \in Calls : phase[k] # "retained"

\* Destroying the model ends: with operations that return, neither the reaper's
\* join nor the wait for the last lease blocks forever.
ShutdownCompletes == sd # "idle" ~> sd = "finished"

\* Every admitted call ends and gives its lease back, also when it timed out
\* and its answer comes late.
EveryLeaseReturns == \A k \in Calls : phase[k] = "leased" ~> phase[k] \in EndPhases

=============================================================================
