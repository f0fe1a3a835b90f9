# Verification of rtt_opcua

This directory holds TLA+ models of the concurrent core of `rtt_opcua`, the
TLC configurations that check them on small instances, and TLAPS proofs of the
results that matter most for every instance. `PROJECT.json` maps every
definition that models code to the lines it stands for.

## The system

`rtt_opcua` serves the interface of Orocos RTT components over OPC UA and
mirrors a served component on the client side.

| Component | State | Operations | Hard parts |
| --- | --- | --- | --- |
| `Server` (`server.cpp`) | life-cycle state, thread handle, stop flag, task queue, native server, type registry | `start`, `stop`, `requestStop`, `post`, `invoke`, the server thread's `run`, callbacks that re-enter | timeouts racing execution, stop during startup, failing startup or iteration, thread ownership |
| `OperationDispatcher`, `ComponentState` | leases per component, timed-out calls, the reaper thread, drain flag | method calls, timeout and retention, reaping, drain, deactivation | late completion, retention racing the drain, release while an operation runs |
| `ObjectModel` (`object_model.cpp`) | inventory, address space, failed publications, revision, shutdown | publication (full, selected), node creation and rollback, commit, shutdown | partial failure, timeout against commit, shutdown against publication, lock needed by an operation that is waited for |
| `ClientSession` | connection state, interface gate, request mutex | connect, discovery, reads, writes, calls, gate | answers of unknown outcome, gate closed while requests run |
| `TaskContextProxy`, `RemotePortAdapter` | mirrored interface, adapters and their unacknowledged samples, pump thread, ready/stale flags, quarantine | create, control calls, synchronize, pump, destroy | replacement while samples are pending, failure at every step, three kinds of threads on three locks |
| `RemoteOperation` | threads and shared futures of sent operations, handles and collections that refer to them | call, send, collect, copy, destruction | one result shared by several collections, a reference dropped while the call runs, lost answers, a closing interface |
| Publication plan (`publication_selector.cpp`, `node_id.cpp`, inventory and bundles of `object_model.cpp`) | the discovered inventory, the effective set, the nodes of a candidate | discover, match, plan, map, create | selections deep below unselected services, cycles, names written alike, a component that changes under the plan |
| `DataTypeRegistry`, `EndpointTypeRegistry` | providers and their order, frozen flag; per endpoint namespace table, materialized types, codecs | register, freeze, bind, publish datatype nodes | order of dependencies, registration racing freeze, the mutex taken twice by one binding |
| `ServerOptions`, `PortBridge`, type protocols | none or a single pointer | validation, forwarding, conversion | - |

How they interact: application threads call `Server`, `ObjectModel` and the
proxy. `ObjectModel` has its transactions executed by `Server::invoke` on the
server thread; that thread also runs the handlers of client requests, which
enter the `OperationDispatcher` with a lease on the component. Destroying the
model closes admission, drains the dispatcher, deactivates the components and
only then returns. On the client, the proxy's users and its pump thread share
one `ClientSession`; so do the threads of sent operations. The server thread
and every client session bind the process-wide `DataTypeRegistry` when they
start.

## Modules

| Module | Models | State and actions |
| --- | --- | --- |
| `Server` | `server.cpp` | one variable per member that is shared between threads; one action per critical section or atomic access; callers and the server thread have program counters |
| `TaskContract` | the promise of `post` and `invoke` | stages of a task and the answer of its caller; `Server` refines it (`ImplementsTaskContract`) |
| `OperationDispatcher` | `operation_dispatcher.cpp`, `component_state.hpp`, `ObjectModelImpl::shutdown` as far as it concerns leases | calls go through phases; the reaper and the destroying thread are processes of their own |
| `ObjectModel` | `publishComponentInternal`, candidate creation, rollback, commit, shutdown of `object_model.cpp` | publishers, the server thread's transaction, one client operation, the destroying thread; it uses the contract of `Server::invoke` (a task that was cancelled never runs, one that started is waited for) |
| `ClientSession` | `client_session.cpp` | session state, gate and request mutex, and operators for the two halves of a request |
| `TaskContextProxy` | `task_context_proxy.cpp`, `remote_port.cpp` | composes `ClientSession` with users and the pump thread |
| `RemoteOperation` | `remote_operation.cpp` | composes `ClientSession` with application threads, one thread per sent call, and the proxy's gate; an invocation (the shared future) is a number, handles and collections hold such numbers, and dropping the last one waits as the destructor of the future does |
| `DataTypeRegistry` | `datatype_registry.cpp`, `endpoint_type_registry.cpp` | the registry's members, and one process per endpoint that goes through `create` and `bind`; a server also publishes the datatype nodes |
| `PublicationPlan` | `publication_selector.cpp`, `node_id.cpp`, and discovery, plan, bundles and creation order of `object_model.cpp` | one publication in phases, and the application that changes the component meanwhile; the depth-first discovery is a function of the depth, and the plan is set algebra on paths |
| `ServerProofs`, `OperationDispatcherProofs`, `ObjectModelProofs`, `TaskContextProxyProofs`, `RemoteOperationProofs`, `DataTypeRegistryProofs`, `PublicationPlanProofs` | - | the inductive invariant of the module, its lemmas and the theorems |
| `InductionLemmas` | - | two facts of induction on natural numbers that the last two use |
| `MCServer`, `MCObjectModel`, `MCProxy`, `MCRegistry`, `MCPublicationPlan` | - | symmetry sets and constants for TLC |

Operators introduced by a comment `Mutant:` are deliberate faults. Nothing
uses them; each one, put in the place of the definition that follows it, must
break the property `PROJECT.json` names.

Every module that is a specification of its own states its types (`TypeOK`),
and that they are kept is proved. The runs spend their properties on more than
types.

Abstractions. Error texts and payloads are left out. Names and the layout of the
address space appear only in `PublicationPlan`, where a path is a sequence of
segments, selectors come split into segments, and escaping is what it tells
apart: it is one to one except that the empty name and a single NUL character
are both written `%00`. In `DataTypeRegistry` a name is a number in the order of
the strings. In `RemoteOperation` the values of an operation are the number of
outputs assigned so far. The OPC UA library and RTT are external: setting up, iterating
and connecting may fail, any request may be answered, refused, or lost, and an
application operation ends (fairness) but at an arbitrary time. Timeouts are
nondeterministic: a bounded wait may expire at any moment. In
`ObjectModel` a component is a short list of nodes, parents first; that a plan
can be created in this order is what `PublicationPlan` shows. The server is not restarted
under one `ObjectModel`, as the repository's README demands ("requires endpoint
teardown and restart with a new `ObjectModel`"). Discovery of a remote
interface is one step per category; the ports are read in one of them, so an
interface that changes while its ports are being listed is seen before or
after the change.

In `PublicationPlan` the discovery of the component to be published is one step.
The code lists the names of a service and then looks them up one by one
(`object_model.cpp` 1047-1120); a change in the middle of that is left out, and
a change before or after it, while resources are being mapped, is modelled. An
entry says how often its name is listed, because a service may list one twice,
and whether looking it up finds anything: the code handles a missing child
service, operation, property, attribute and port. The provider `this` is
skipped. A component without root service (1128-1133) is left out, because an RTT
`TaskContext` always has one.

`discardPendingPortState` gives up when it cannot copy the list of adapters
(`task_context_proxy.cpp` 655-660: out of memory, or a mutex that fails). The
pending samples then stay with a stale interface, and one may be sent again
later. This is not modelled; it is a limit of `StaleIsQuiet` and
`SampleAtMostOnce`.

A request of the mirrored interface is a call, the acquisition of the session
mutex under which the gate is looked at, and the answer (`AccessCall`,
`AccessRequest`, `AccessEnd`; `CallRead`, `CallBegin` or `CallRefused`,
`CallEnd`). Arguments that cannot be encoded end a call before it waits for the
mutex (`CallUnprepared`).

## Runs

| Run | Module, config | Shows |
| --- | --- | --- |
| `server_safety` | `MCServer`, `MCServer.cfg` | Two callers, four calls, three tasks, callbacks that call back. Captures of `invoke` stay valid, its outcome tells what happened, the server thread has exactly one owner, stop requests are not undone, a stopped server holds no task, callbacks never see a dead native server; `Server` implements `TaskContract` |
| `server_liveness` | `MCServer`, `MCServerLive.cfg` | Every call returns and a stop request ends the thread |
| `dispatcher` | `OperationDispatcher`, `MCDispatcher.cfg` | Three calls on two components: leases are counted exactly, keep the component, are all given back; no component is released under an operation whose collection was prepared; nothing is retained after the drain; shutdown ends |
| `dispatcher_failed_send` | `OperationDispatcher`, `MCDispatcherFailedSend.cfg` | Violation: if preparing the collection of a sent operation fails, the component is released under it (see Findings) |
| `object_model` | `MCObjectModel`, `MCObjectModel.cfg` | Two publishers, two instances of one name, two selections, three calls: publication is atomic, reported as it happened, counted once, never replaced; a destroyed model is closed |
| `object_model_liveness` | `MCObjectModel`, `MCObjectModelLive.cfg` | Publications and destruction end although an operation needs the mutex a publisher holds |
| `proxy_safety` | `MCProxy`, `MCProxy.cfg` | Two users, one input and one output port, three calls, two samples, one change of the endpoint: a sample is accepted at most once and never lost silently; the pump is quiet while adapters are replaced; after every call the proxy is wholly usable or wholly stale; registered ports keep their adapters |
| `proxy_liveness` | `MCProxy`, `MCProxyLive.cfg` | Every call on the proxy returns, the destructor too |
| `remote_operation` | `RemoteOperation`, `MCRemoteOperation.cfg` | Two threads call, send twice, assign handles, copy and collect: a success that is collected was executed exactly once and has all its outputs; a running call always has an owner or somebody who waits for it; every use of a data source returns |
| `datatype_registry` | `MCRegistry`, `MCRegistry.cfg` | Thirteen definitions of four providers, one server, one client: freezing succeeds exactly if a topological order exists and takes the alphabetically least one, whatever the order of registration; all bound endpoints have the same types; a server finds its namespaces and free NodeIds |
| `publication_plan` | `MCPublicationPlan`, `MCPublicationPlan.cfg` | A component with nested and cyclic services, published in full or by up to two of thirteen selectors, changing once: parents are created first, what is created is exactly what was asked for, no node stands for two resources, and a rejection has a reason in what was asked for or in two resources that share a path; a cycle, a depth, a failed lookup or a missing codec outside the selection never counts |
| `publication_plan_collision` | `MCPublicationPlan`, `MCPublicationPlanCollision.cfg` | Violation: two resources outside the selection that share a path reject it (see Findings) |

Bounds. Two threads of a kind are what a race needs; a third caller finds the
same mutexes taken. Four server calls allow start, stop and a restart against
an `invoke`. Three tasks show order and a task behind a cancelled one. Three
publication calls let a third one meet the outcome of a failed second one. Two
nodes per component make a creation fail in the middle. Three calls of the
proxy's users allow a failed synchronization, a control call and another
synchronization; two samples show a retry overtaken by the next sample. Two
sends over one handle make the second replace the first while it runs, and two
collections share or copy one invocation. Three bindings allow a server to stop
and bind again beside a client; the catalogue has a chain of three providers, a
cycle, a missing dependency, a NodeId taken across providers and each kind of
invalid definition. A service depth of two is enough for an ancestor that is
neither the root nor the owner, and for a service beyond the limit; the
selectors include both wildcards at every position that matters, and each way to
be malformed or to match nothing.
Symmetry is used for safety only.

Deadlock is checked in every run but two. A publication of `publication_plan`
ends, and the behaviour with it. In `server_safety`, a callback that calls
`stop()` while another thread is inside `stop()` makes both wait forever.
No document of the repository promises otherwise, so that is listed as a
hazard and `server_liveness` excludes it (`StopFromCallback = FALSE`).

Fairness. Weak fairness of every thread's own steps: the operating system
schedules it and bounded waits expire. Starting a call, failing, and what a
callback chooses to do are never fair. Client operations are assumed to
return, the one thing the code does not bound. The only strong fairness is
that of a control call or an access waiting for the session mutex: the pump
sleeps `port_poll_interval` between its passes. In `remote_operation`, the threads of
sent calls, the gate and the steps a user has to finish are weakly fair, and
nothing more is needed: a finite number of requests competes for the session
mutex, each bounded by `request_timeout`. `setInterfaceAccessEnabled(false)`
needs none because it closes the gate before it waits; the mutant of
`CallsReturn` that removes this first store starves `synchronize`.

## Proofs

Every invariant and action property that a run checks, and the refinement of
`TaskContract`, is also a theorem that TLAPS checks for every value of the
constants. The proofs have one shape: an inductive invariant, one lemma (or one
step) per action that preserves it, and theorems that follow from it. Each
invariant was first checked by TLC on the instance of its run.

| Module | Inductive invariant (states TLC checked it on) | Assumption on the constants |
| --- | --- | --- |
| `ServerProofs` | `ServerInv` (2.37 million) | `ServerAssumption`: the bounds are numbers |
| `OperationDispatcherProofs` | `TypeOK` with each of the four below | `DispatcherAssumption`: finitely many calls |
| `ObjectModelProofs` | `ModelInv` (582 609) | `ObjectModelAssumption`: each instance has a name, a component has a node, there are an instance and a selection, the bounds are numbers |
| `TaskContextProxyProofs` | `ProxyInv` (854 497) | `ProxyAssumption`: input and output ports are different, the pump is no user, a port may have a sample, the bounds are numbers |
| `RemoteOperationProofs` | `OperationInv` (those of its run) | `RemoteOperationAssumption`: the bounds are numbers |
| `DataTypeRegistryProofs` | `RegistryInv` (179 392) | `DataTypeRegistryAssumption`: a finite catalogue of well-typed providers, servers are no clients, namespace tables are sequences |
| `PublicationPlanProofs` | `PlanInv` (114 019) | `PublicationPlanAssumption`: a service has one resource of each kind and name (it may list the name several times), no written name is a wildcard, mandatory operations have ordinary names, selectors are sequences of strings, the bounds are numbers |

TLC evaluates every assumption on the instance of the run. The bounds on calls,
tasks, samples and changes are constants of which the proofs use no more than
that they are numbers, so a theorem holds for histories of any length.

### Server

- `ServerTypeCorrect`. `TypeOK` alone is not inductive: the thread takes the
  tail of the tasks it swapped out, and that there is one is `ExecInv`.
- `OneOwner`, `NativeServerSafety`, `StopIsNotUndone`, `StoppedIsEmpty` follow
  from what is known of the threads (`ThreadInv`): which program points hold
  which mutex (`MutexInv`), where the handle of the thread is and that whoever
  makes a new thread has joined the old one (`OwnerInv`), between which points
  the native server and the registry exist (`NativeInv`), and what a request to
  stop rules out from each point on (`StopInv`, `EmptyInv`).
- `CapturesSafety` and `OutcomeSafety` follow from what is known of the tasks
  (`TaskInv`): tasks wait in the order of acceptance (`QueueOrder`), the state
  of a task says where it is and whether it was entered (`TaskStateInv`), the
  task in execution is the first of those taken (`ExecInv`), when completions
  and answers are stored (`CompletionInv`), and whom a caller waits for
  (`WaiterInv`).
- `ServerKeepsContract`: `Server` implements `TaskContract`. The initial state
  maps to the initial state; under the invariant each action maps to the step
  of the contract that matches it (`Accept`, `Begin`, `End`, `RunInline`,
  `Discard`, `TimeOut`, `Answer`) or to a stutter. That tasks begin in the order
  of acceptance needs `QueueOrder`.

### OperationDispatcher

- `TypeCorrect`: `TypeOK` is inductive. The other theorems rest on it.
- `LeaseCount`: the counter `users` equals the number of calls that own a
  lease. The work is in how the cardinality of the set of holders changes when
  one call is admitted or released, and when the reaper releases several.
- `LeaseSafety`: no component is released under a lease. A released component
  must also be inactive, so that nobody takes a new lease (`ReleasedIsIdle`);
  the step needs `LeaseCount`, because the code decides on the counter.
- `OperationSafety`: no component is released under a running operation, except
  one that was given up because its collection could not be prepared; the
  strengthening is `RunningHoldsLease`.
- `DrainIsFinal`: nothing is retained after the drain; the strengthening is
  that the drain flag is set before the reaper is joined.

### ObjectModel

`ModelInv` says which points of a publication hold `command_mutex` and that one
transaction at a time is in the server (`LockInv`), what is known of an attempt
before, during and after its transaction (`CommitInv`), who has a lease
(`LeaseInv`), how far the revision is ahead of the reports (`RevisionInv`), to
whom every node belongs (`SpaceInv`), and where a state that is not closed can
be (`ShutdownInv`). From it: `AtomicPublication`, `HonestReport`,
`RevisionCounts`, `DestroyedIsClosed`, and the action property `FirstWins`.
That the revision stays within its type needs `RevisionInv` too: there are never
more successful calls than attempts (`RevisionRoom`).

### TaskContextProxy

`ProxyInv` has a part for each question one asks of a point of the program: who
creates and destroys (`LifeInv`), that no more interfaces are staged than calls
were made (`CountInv`), who holds `synchronize_mutex` (`MutexInv`) and the session's
mutex (`HolderInv`), whether the gate is closed (`GateInv`) and the ports are
paused (`PauseInv`), what the pump has in its hands (`PumpInv`), what the flags
say (`FlagInv`, `SettledInv`, `FreshInv`), which adapters own the registered
ports (`OwnerInv`), and which samples the endpoint may have (`SampleInv`). The
eight theorems (`AtMostOnce`, `NothingLostSilently`, `QuietReplacement`,
`StaleQuiet`, `FreshUsable`, `ExclusiveReplacement`, `PortsOwned`,
`ProxyTypeCorrect`) follow. The argument for the samples goes through both
others: the pump is quiet while adapters are replaced because of the pause, and
nobody else has a request in progress because of the gate and the mutex, so a
pending sample is moved to its new adapter and to no other.

### RemoteOperation

`ExecutedOnce`: a result is stored with the execution it stands for
(`ResultInv`) and a collection only ever holds what it read from its own
invocation (`CollectInv`, `WaitInv`). `NothingAbandoned` is inductive with these:
whoever drops the last reference to a call that is not over waits for it.

### DataTypeRegistry

- `LeastOrder`: freezing succeeds exactly if the registered providers can be
  ordered, and its result is the alphabetically least topological order. The
  loop of the code is the recursive function `OrderAfter`. The proof shows that
  it exists (`OrderAfterExists`), that each round adds the least provider whose
  dependencies have been placed, that such a greedy order is topological and
  least (the first place at which a smaller order would differ is a round that
  could have chosen better), and that a round without candidate means that no
  order exists at all.
- `SameTypesEverywhere` and `PublicationFindsNoCollision`: an endpoint that has
  seen the frozen registry keeps a copy of it, and the registry does not change
  any more (`EndpointInv`, and `FrozenForGood` as an action property); a server
  has entered the namespaces before it publishes, and NodeIds are checked when
  a provider is registered (`NodeIdsInv`).

### PublicationPlan

- `ParentsAlwaysFirst`: the effective set is closed under the owners of its
  members, so the parent of each node is a node of the plan
  (`NodesHaveParents`), and of the nodes left the shallowest has its parent
  already. The closure is proved from the discovery: a visit at depth d has a
  path of d services, each of which has a record (`VisitsAreServices`, by
  induction on the depth).
- `PublishesWhatWasAsked`: the effective set is exactly what the caller asked
  for (`EffectiveIsAsked`). It rests on `CoversIsMatch`, that the matcher of
  `publication_selector.cpp` agrees with the expansion of wildcards for all
  selectors and all paths, and on the invariant that every node belongs to a
  resource of the plan (`NodesInv`), or to one that has replaced it.
- `UnambiguousNodes` and `JustifiedRejection`: a plan has diagnostics exactly if
  there is one of the reasons (`DiagnosticReasons`), and a resource that could
  not be mapped is unfit or was removed (`UnmappableIsUnfit`). The reasons lie in
  what was asked for (`ReasonInSelection`), with one exception: a path that is
  shared anywhere in the component rejects every publication. Without the
  exception the statement is false, which is the second finding.

Writing these proofs changed the models where they said less than they meant:
`PlanDiagnostics` had two cases that were both true for a full publication, of
which TLC silently takes the first; names of resources in `PublicationPlan` are
now said to be in their written form; providers and tables of
`DataTypeRegistry` are typed; and `NoCallIsAbandoned` is stated for every call
that is not over.

### Induction

The induction theorems of the library take a predicate as parameter, which the
installed provers cannot instantiate. `InductionLemmas` derives from the
well-foundedness of the natural numbers that a set of them that is not empty has
a least element, and induction up to a bound for a *set*. A proof by induction
then defines the set of the numbers for which its statement holds. The recursive
functions are shown to exist in this way before their equations are used.

### Only model-checked

`CallsReturn`, `StopEndsThread`, `ShutdownCompletes`, `EveryLeaseReturns`,
`PublishReturns` and `OperationsReturn`: liveness under fairness, which the
prover does not reach (nor `ENABLED`). They hold on the instances of their runs.

## Findings

`OperationDispatcher::invoke` returns after `caller.send()` when the collection
of the sent operation cannot be prepared (`operation_dispatcher.cpp` 489-506,
and the handlers at 522-526). Its lease is given back while the operation is in
flight, so destroying the model does not wait for it, against
`object_model.hpp:72`, "Destruction still drains admitted operations before
releasing components." Run `dispatcher_failed_send` shows the schedule. For every
other operation the promise is proved (`OperationSafety`).

`addInventoryRecord` (`object_model.cpp` 1026-1036) reports every path that is
already taken, and `buildPublicationPlan` starts every plan with these
diagnostics (1169). A selected publication is therefore rejected because two
resources far from the selection share a path, whereas the repository's
`README.md:79-81` says "Validation covers only those selected resource bundles,
their required service ancestors, and the mandatory proxy baseline below." Run
`publication_plan_collision` shows it. The same paragraph lists inventory
diagnostics among those reported, so the text may be what is to be changed; the
proved `JustifiedRejection` states what the code does.

## Not modelled

The type protocols, descriptors, the transport plugin and the connection policy
are conversion tables between RTT values and OPC UA variants, without control
state; a conversion that fails is a choice in the models that use it.
`ServerOptions` is one guard of `Server`. `PortBridge` is what answers a port
write. `rtt_thread_context.hpp` attaches a thread to the real-time run time. The
callbacks of single property, attribute and port nodes hold a lease for their
duration and appear in `OperationDispatcher` only as calls that are admitted and
rejected. `RemoteOperation` checks the number and types of arguments when an
action is built; this throws before there is any state, and is left out. Of
`EndpointTypeRegistry`, the factories are external and the lookups in the
finished registry, which is immutable, are left out.

## Plan

1. Done: `Server`, `TaskContract`, `OperationDispatcher` with its proofs,
   `ObjectModel`, `ClientSession`, `TaskContextProxy`.
2. Done: `RemoteOperation`, `DataTypeRegistry` with the endpoints that bind it,
   `PublicationPlan` with the selectors and the escaping of names.
3. Done: proofs of all invariants, of `FirstPublicationWins`, of the refinement
   of `TaskContract`, and of what freezing and matching compute.
4. Left: action properties that say more than the invariants and are within
   reach of the same inductive invariants (what a step of `Server` may never do
   to a task that was answered; that a proxy leaves the stale state only through
   `synchronize`), and a closer model of the callbacks of single value nodes.
