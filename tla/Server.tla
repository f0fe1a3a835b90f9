-------------------------------- MODULE Server --------------------------------
(***************************************************************************)
(* The endpoint server of rtt_opcua: class Server::Impl of                 *)
(* src/src/server.cpp.  Application threads (Callers) call start(),        *)
(* stop(), requestStop(), post() and invoke(); one server thread executes  *)
(* run(), owns the native open62541 server and runs the queued tasks.      *)
(*                                                                         *)
(* One action is one critical section, or one atomic access, of one        *)
(* thread.  A thread's program counter names the point it has reached.     *)
(* Error texts and the namespace index (stored and never read back) are    *)
(* left out.                                                               *)
(***************************************************************************)
EXTENDS Integers, Sequences, SequencesExt

CONSTANTS
  Callers,          \* the application threads
  MaxCalls,         \* bound: public calls made in a behaviour
  MaxTasks,         \* bound: tasks accepted in a behaviour
  StopFromCallback  \* whether a task callback may call Server::stop()

ASSUME ServerAssumption ==
  /\ MaxCalls \in Nat
  /\ MaxTasks \in Nat
  /\ StopFromCallback \in BOOLEAN

VARIABLES
  validOptions,  \* whether validateServerOptions(options) accepts; never changes
  state,         \* current_state
  stopRequested, \* stop_requested
  transition,    \* holder of transition_mutex: a set with at most one thread
  lifecycle,     \* holder of lifecycle_mutex between two modelled steps
  joinable,      \* server_thread.joinable()
  srv,           \* where run() is; "none" = no thread, "done" = not yet joined
  native,        \* native_server != nullptr
  registry,      \* type_registry != nullptr
  queue,         \* tasks
  pending,       \* the local deque of drainTasks()
  exec,          \* the task whose callback runs on the server thread, or 0
  pc,            \* where each caller is in its public call
  mine,          \* the task a caller waits for in invoke(), or 0
  calls,         \* calls made so far (bounded by MaxCalls)
  accepted,      \* tasks accepted so far; the next task is accepted + 1
  taskState,     \* QueuedTask::state
  waited,        \* whether the task has a Completion (invoke) or not (post)
  done,          \* Completion: "no", "ok" or "error"
  outcome,       \* what invoke() returned for the task; "none" before
  runs           \* history: how often the task's callback was entered

lifeVars == <<validOptions, state, stopRequested, transition, lifecycle, joinable>>
threadVars == <<srv, native, registry>>
callerVars == <<pc, mine, calls>>
taskVars == <<accepted, taskState, waited, done, outcome, runs>>
queueVars == <<queue, pending, exec>>
vars == <<lifeVars, threadVars, callerVars, taskVars, queueVars>>

TaskId == 1..MaxTasks
ServerState == {"stopped", "starting", "running", "stopping", "failed"}
QueuedTaskState == {"unused", "queued", "running", "cancelled", "inline"}

\* The caller runs while it owns the thread handle it moved out of server_thread.
JoinPoints == {"startStale", "startJoin", "stopJoin"}
StartPoints == {"start", "startStale", "startSpawn", "startWait", "startJoin"}
StopPoints == {"stop", "stopRequesting", "stopBody", "stopJoin", "stopFail",
               "stopEnd"}
CallerPoints == {"idle", "startCall", "stopCall", "requestStop", "invoke",
                 "invokeLate"} \cup StartPoints \cup StopPoints
ServerPoints == {"none", "entry", "setup", "publishRegistry", "firstIterate",
                 "announce", "loop", "drain", "drainStop", "iterate",
                 "iterateStop", "finalDrain", "finalDrainStop", "teardown", "clearRegistry", "failPending",
                 "setStopped", "failReset", "failClearRegistry",
                 "failFailPending", "setFailure", "exit", "done"}

Init ==
  /\ validOptions \in BOOLEAN
  /\ state = "stopped" /\ stopRequested = FALSE
  /\ transition = {} /\ lifecycle = {} /\ joinable = FALSE
  /\ srv = "none" /\ native = FALSE /\ registry = FALSE
  /\ queue = <<>> /\ pending = <<>> /\ exec = 0
  /\ pc = [c \in Callers |-> "idle"] /\ mine = [c \in Callers |-> 0]
  /\ calls = 0 /\ accepted = 0
  /\ taskState = [t \in TaskId |-> "unused"]
  /\ waited = [t \in TaskId |-> FALSE]
  /\ done = [t \in TaskId |-> "no"]
  /\ outcome = [t \in TaskId |-> "none"]
  /\ runs = [t \in TaskId |-> 0]

-----------------------------------------------------------------------------
(* Helpers shared by the actions.                                          *)

\* A caller enters a public call.
Enter(c, point) ==
  /\ pc[c] = "idle" /\ calls < MaxCalls
  /\ calls' = calls + 1
  /\ pc' = [pc EXCEPT ![c] = point]

Goto(c, from, to) ==
  /\ pc[c] = from
  /\ pc' = [pc EXCEPT ![c] = to]
  /\ UNCHANGED calls

ServerGoto(from, to) == srv = from /\ srv' = to

LifecycleFree == lifecycle = {}

\* The state that a stop request leaves: running and starting become stopping.
StoppingState == IF state \in {"running", "starting"} THEN "stopping" ELSE state

\* Mutant: the newest task goes to the front.
PushFront(waits) ==
  /\ accepted < MaxTasks
  /\ accepted' = accepted + 1
  /\ queue' = <<accepted + 1>> \o queue
  /\ taskState' = [taskState EXCEPT ![accepted + 1] = "queued"]
  /\ waited' = [waited EXCEPT ![accepted + 1] = waits]
  /\ UNCHANGED <<pending, exec, done, outcome, runs>>

\* Task t = accepted + 1 enters the queue; it has a Completion iff `waits`.
Push(waits) ==
  /\ accepted < MaxTasks
  /\ accepted' = accepted + 1
  /\ queue' = Append(queue, accepted + 1)
  /\ taskState' = [taskState EXCEPT ![accepted + 1] = "queued"]
  /\ waited' = [waited EXCEPT ![accepted + 1] = waits]
  /\ UNCHANGED <<pending, exec, done, outcome, runs>>

\* Mutant: only a callback that succeeds wakes its caller.
CompletedIfOk(S, result) ==
  [t \in TaskId |-> IF t \in S /\ waited[t] /\ result = "ok" THEN result ELSE done[t]]

\* complete() on every task of S; a task without a Completion ignores it.
Completed(S, result) ==
  [t \in TaskId |-> IF t \in S /\ waited[t] THEN result ELSE done[t]]

\* Mutant: the tasks are completed and left in the queue.
FailAndKeepTasks ==
  /\ done' = Completed(ToSet(queue), "error")
  /\ UNCHANGED <<queue, pending, exec, accepted, taskState, waited, outcome, runs>>

\* failPendingTasks(): take the whole queue and complete each task with an
\* error.  No QueuedTask::state is touched.
FailPendingTasks ==
  /\ queue' = <<>>
  /\ done' = Completed(ToSet(queue), "error")
  /\ UNCHANGED <<pending, exec, accepted, taskState, waited, outcome, runs>>

-----------------------------------------------------------------------------
(* start()                                                                 *)

StartCall(c) ==
  /\ Enter(c, "startCall")
  /\ UNCHANGED <<lifeVars, mine, threadVars, taskVars, queueVars>>

\* Options that fail validation end the call before any thread exists.
StartInvalid(c) ==
  /\ Goto(c, "startCall", "idle") /\ transition = {} /\ ~validOptions
  /\ LifecycleFree /\ state' = "failed"
  /\ UNCHANGED <<validOptions, stopRequested, transition, lifecycle, joinable,
                 mine, threadVars, taskVars, queueVars>>

\* Take transition_mutex with valid options.
StartLock(c) ==
  /\ Goto(c, "startCall", "start") /\ transition = {} /\ validOptions
  /\ transition' = {c}
  /\ UNCHANGED <<validOptions, state, stopRequested, lifecycle, joinable, mine, threadVars,
                 taskVars, queueVars>>

StartAlreadyRunning(c) ==
  /\ Goto(c, "start", "idle") /\ LifecycleFree
  /\ state = "running"
  /\ transition' = {}
  /\ UNCHANGED <<validOptions, state, stopRequested, lifecycle, joinable, mine, threadVars,
                 taskVars, queueVars>>

\* A handle left by a thread that ended, or by stop() on the server thread,
\* is moved out and joined without lifecycle_mutex.
StartTakeStale(c) ==
  /\ Goto(c, "start", "startStale") /\ LifecycleFree
  /\ state # "running" /\ joinable
  /\ joinable' = FALSE
  /\ UNCHANGED <<validOptions, state, stopRequested, transition, lifecycle, mine, threadVars,
                 taskVars, queueVars>>

Join(c, from, to) ==
  /\ srv = "done" /\ srv' = "none"
  /\ Goto(c, from, to)

StartStaleJoined(c) ==
  /\ Join(c, "startStale", "startSpawn")
  /\ UNCHANGED <<lifeVars, mine, native, registry, taskVars, queueVars>>

StartSpawn(c) ==
  /\ \/ Goto(c, "start", "startWait") /\ state # "running" /\ ~joinable
     \/ Goto(c, "startSpawn", "startWait")
  /\ LifecycleFree
  /\ stopRequested' = FALSE /\ state' = "starting"
  /\ srv' = "entry" /\ joinable' = TRUE
  /\ UNCHANGED <<validOptions, transition, lifecycle, mine, native, registry, taskVars,
                 queueVars>>

\* The wait on lifecycle_condition ends because the state left starting.
StartRunning(c) ==
  /\ Goto(c, "startWait", "idle") /\ LifecycleFree
  /\ state = "running"
  /\ transition' = {}
  /\ UNCHANGED <<validOptions, state, stopRequested, lifecycle, joinable, mine, threadVars,
                 taskVars, queueVars>>

StartNotRunning(c) ==
  /\ Goto(c, "startWait", "startJoin") /\ LifecycleFree
  /\ state \notin {"starting", "running"}
  /\ joinable /\ joinable' = FALSE
  /\ UNCHANGED <<validOptions, state, stopRequested, transition, lifecycle, mine, threadVars,
                 taskVars, queueVars>>

\* kStartupTimeout passes with the state still starting.
StartTimeout(c) ==
  /\ Goto(c, "startWait", "startJoin") /\ LifecycleFree
  /\ state = "starting"
  /\ state' = "failed" /\ stopRequested' = TRUE
  /\ joinable /\ joinable' = FALSE
  /\ UNCHANGED <<validOptions, transition, lifecycle, mine, threadVars, taskVars, queueVars>>

StartJoined(c) ==
  /\ Join(c, "startJoin", "idle")
  /\ transition' = {}
  /\ UNCHANGED <<validOptions, state, stopRequested, lifecycle, joinable, mine, native,
                 registry, taskVars, queueVars>>

-----------------------------------------------------------------------------
(* requestStop() and stop()                                                *)

\* Under lifecycle_mutex, stop_requested is stored before the state: the
\* server thread reads it without the mutex, so the two stores are two steps.
RequestStopStore(c) ==
  /\ LifecycleFree /\ lifecycle' = {c}
  /\ stopRequested' = TRUE
  /\ UNCHANGED <<validOptions, state, joinable, mine, threadVars, taskVars, queueVars>>

RequestStop(c) ==
  /\ Enter(c, "requestStop")
  /\ RequestStopStore(c)
  /\ UNCHANGED transition

RequestStopEnd(c) ==
  /\ Goto(c, "requestStop", "idle")
  /\ state' = StoppingState /\ lifecycle' = {}
  /\ UNCHANGED <<validOptions, stopRequested, transition, joinable, mine, threadVars,
                 taskVars, queueVars>>

StopCall(c) ==
  /\ Enter(c, "stopCall")
  /\ UNCHANGED <<lifeVars, mine, threadVars, taskVars, queueVars>>

StopLock(c) ==
  /\ Goto(c, "stopCall", "stop") /\ transition = {}
  /\ transition' = {c}
  /\ UNCHANGED <<validOptions, state, stopRequested, lifecycle, joinable, mine, threadVars,
                 taskVars, queueVars>>

StopRequest(c) ==
  /\ Goto(c, "stop", "stopRequesting")
  /\ RequestStopStore(c)
  /\ UNCHANGED transition

StopRequested(c) ==
  /\ Goto(c, "stopRequesting", "stopBody")
  /\ state' = StoppingState /\ lifecycle' = {}
  /\ UNCHANGED <<validOptions, stopRequested, transition, joinable, mine, threadVars,
                 taskVars, queueVars>>

StopNothing(c) ==
  /\ Goto(c, "stopBody", "idle") /\ LifecycleFree
  /\ state = "stopped" /\ ~joinable
  /\ transition' = {}
  /\ UNCHANGED <<validOptions, state, stopRequested, lifecycle, joinable, mine, threadVars,
                 taskVars, queueVars>>

\* Mutant: the member handle is joined in place, without the move.
StopJoinInPlace(c) ==
  /\ LifecycleFree /\ ~(state = "stopped" /\ ~joinable)
  /\ Goto(c, "stopBody", IF joinable THEN "stopJoin" ELSE "stopFail")
  /\ stopRequested' = TRUE /\ state' = StoppingState
  /\ UNCHANGED <<validOptions, transition, lifecycle, joinable, mine, threadVars,
                 taskVars, queueVars>>

StopTakeThread(c) ==
  /\ LifecycleFree /\ ~(state = "stopped" /\ ~joinable)
  /\ Goto(c, "stopBody", IF joinable THEN "stopJoin" ELSE "stopFail")
  /\ stopRequested' = TRUE /\ state' = StoppingState
  /\ joinable' = FALSE
  /\ UNCHANGED <<validOptions, transition, lifecycle, mine, threadVars, taskVars, queueVars>>

StopJoined(c) ==
  /\ Join(c, "stopJoin", "stopFail")
  /\ UNCHANGED <<lifeVars, mine, native, registry, taskVars, queueVars>>

StopFailPending(c) ==
  /\ Goto(c, "stopFail", "stopEnd")
  /\ FailPendingTasks
  /\ UNCHANGED <<lifeVars, mine, threadVars>>

\* The last store is made without lifecycle_mutex.
StopEnd(c) ==
  /\ Goto(c, "stopEnd", "idle")
  /\ state' = "stopped" /\ transition' = {}
  /\ UNCHANGED <<validOptions, stopRequested, lifecycle, joinable, mine, threadVars,
                 taskVars, queueVars>>

-----------------------------------------------------------------------------
(* post() and invoke()                                                     *)

\* enqueue(): the state is read again under tasks_mutex before the push.
Post(c) ==
  /\ pc[c] = "idle" /\ calls < MaxCalls /\ calls' = calls + 1
  /\ state = "running"
  /\ Push(FALSE)
  /\ UNCHANGED <<lifeVars, threadVars, pc, mine>>

InvokePush(c) ==
  /\ Enter(c, "invoke")
  /\ state = "running"
  /\ Push(TRUE)
  /\ mine' = [mine EXCEPT ![c] = accepted + 1]
  /\ UNCHANGED <<lifeVars, threadVars>>

\* invoke() returns `result` to the caller.
InvokeReturn(c, from, result) ==
  /\ Goto(c, from, "idle")
  /\ outcome' = [outcome EXCEPT ![mine[c]] = result]
  /\ mine' = [mine EXCEPT ![c] = 0]
  /\ UNCHANGED <<lifeVars, threadVars, queueVars, accepted, waited, done, runs>>

InvokeDone(c) ==
  /\ pc[c] \in {"invoke", "invokeLate"}
  /\ mine[c] # 0 /\ done[mine[c]] # "no"
  /\ InvokeReturn(c, pc[c], done[mine[c]])
  /\ UNCHANGED taskState

\* Mutant: the timeout does not look at the task's state.
CancelAlways(t) == TRUE

\* compare_exchange_strong(queued, cancelled) succeeds.
CancelWins(t) == taskState[t] = "queued"

\* The timeout wins the exchange queued -> cancelled and the call returns ...
InvokeTimeout(c) ==
  /\ pc[c] = "invoke" /\ mine[c] # 0 /\ done[mine[c]] = "no"
  /\ CancelWins(mine[c])
  /\ taskState' = [taskState EXCEPT ![mine[c]] = "cancelled"]
  /\ InvokeReturn(c, "invoke", "timedOut")

\* ... or loses it to the server thread and waits for the Completion.
InvokeTimeoutLate(c) ==
  /\ pc[c] = "invoke" /\ mine[c] # 0 /\ done[mine[c]] = "no"
  /\ ~CancelWins(mine[c])
  /\ Goto(c, "invoke", "invokeLate")
  /\ UNCHANGED <<lifeVars, threadVars, queueVars, mine, taskVars>>

-----------------------------------------------------------------------------
(* run(): the server thread                                                *)

SrvEntry ==
  /\ ServerGoto("entry", "setup") /\ LifecycleFree
  /\ UNCHANGED <<lifeVars, native, registry, callerVars, taskVars, queueVars>>

SrvSetup ==
  /\ ServerGoto("setup", "publishRegistry")
  /\ native' = TRUE
  /\ UNCHANGED <<lifeVars, registry, callerVars, taskVars, queueVars>>

\* Setup throws before or after the native server exists.
SrvSetupThrow ==
  /\ ServerGoto("setup", "failReset")
  /\ native' \in BOOLEAN
  /\ UNCHANGED <<lifeVars, registry, callerVars, taskVars, queueVars>>

SrvPublishRegistry ==
  /\ ServerGoto("publishRegistry", "firstIterate") /\ LifecycleFree
  /\ registry' = TRUE
  /\ UNCHANGED <<lifeVars, native, callerVars, taskVars, queueVars>>

\* runIterate() returns, before the server is announced and in the loop.
SrvIterate ==
  /\ \/ ServerGoto("firstIterate", "announce")
     \/ ServerGoto("iterate", "loop")
  /\ UNCHANGED <<lifeVars, native, registry, callerVars, taskVars, queueVars>>

\* runIterate() or native_server->stop() throws into run()'s handler.
SrvThrow ==
  /\ srv \in {"firstIterate", "iterate", "teardown"} /\ srv' = "failReset"
  /\ UNCHANGED <<lifeVars, native, registry, callerVars, taskVars, queueVars>>

\* Mutant: readiness is announced whatever was requested meanwhile.
AlwaysRunning == "running"

\* A stop requested during startup keeps the state it left.
AnnouncedState == IF stopRequested THEN state ELSE "running"

SrvAnnounce ==
  /\ ServerGoto("announce", "loop") /\ LifecycleFree
  /\ state' = AnnouncedState
  /\ UNCHANGED <<validOptions, stopRequested, transition, lifecycle, joinable, native,
                 registry, callerVars, taskVars, queueVars>>

\* Mutant: the loop ends on the state instead of on the request.
LeaveIfStopping == IF state = "stopping" THEN "finalDrain" ELSE "drain"

LoopExit == IF stopRequested THEN "finalDrain" ELSE "drain"

\* The loop condition, and the swap that begins drainTasks().
SrvLoop ==
  /\ ServerGoto("loop", LoopExit)
  /\ pending' = queue /\ queue' = <<>>
  /\ UNCHANGED <<lifeVars, native, registry, exec, callerVars, taskVars>>

\* Mutant: the task is run without the exchange.
RunAlways(t) == TRUE

\* compare_exchange_strong(queued, running) succeeds.
RunWins(t) == taskState[t] = "queued"

\* The exchange queued -> running decides whether the callback is entered.
SrvTakeTask ==
  /\ srv \in {"drain", "finalDrain"} /\ exec = 0 /\ pending # <<>>
  /\ IF RunWins(Head(pending))
       THEN /\ taskState' = [taskState EXCEPT ![Head(pending)] = "running"]
            /\ runs' = [runs EXCEPT ![Head(pending)] = @ + 1]
            /\ exec' = Head(pending)
            /\ UNCHANGED <<pending, done>>
       ELSE /\ done' = Completed({Head(pending)}, "error")
            /\ pending' = Tail(pending)
            /\ UNCHANGED <<taskState, runs, exec>>
  /\ UNCHANGED <<lifeVars, threadVars, queue, callerVars, accepted, waited,
                 outcome>>

\* The callback returns or throws; its task is completed accordingly.
SrvFinishTask ==
  /\ srv \in {"drain", "finalDrain"} /\ exec # 0
  /\ \E result \in {"ok", "error"} : done' = Completed({exec}, result)
  /\ pending' = Tail(pending) /\ exec' = 0
  /\ UNCHANGED <<lifeVars, threadVars, queue, callerVars, accepted, taskState,
                 waited, outcome, runs>>

SrvDrained ==
  /\ exec = 0 /\ pending = <<>>
  /\ \/ ServerGoto("drain", "iterate")
     \/ ServerGoto("finalDrain", "teardown")
  /\ UNCHANGED <<lifeVars, native, registry, callerVars, taskVars, queueVars>>

\* native_server.reset(), on the normal path and in the handler.
SrvDestroyNative ==
  /\ \/ ServerGoto("teardown", "clearRegistry")
     \/ ServerGoto("failReset", "failClearRegistry")
  /\ native' = FALSE
  /\ UNCHANGED <<lifeVars, registry, callerVars, taskVars, queueVars>>

\* Mutant: the failure path forgets type_registry.
SrvClearRegistryUnlessFailed ==
  /\ LifecycleFree
  /\ \/ ServerGoto("clearRegistry", "failPending") /\ registry' = FALSE
     \/ ServerGoto("failClearRegistry", "failFailPending") /\ UNCHANGED registry
  /\ UNCHANGED <<lifeVars, native, callerVars, taskVars, queueVars>>

SrvClearRegistry ==
  /\ \/ ServerGoto("clearRegistry", "failPending")
     \/ ServerGoto("failClearRegistry", "failFailPending")
  /\ LifecycleFree
  /\ registry' = FALSE
  /\ UNCHANGED <<lifeVars, native, callerVars, taskVars, queueVars>>

SrvFailPending ==
  /\ \/ ServerGoto("failPending", "setStopped")
     \/ ServerGoto("failFailPending", "setFailure")
  /\ FailPendingTasks
  /\ UNCHANGED <<lifeVars, native, registry, callerVars>>

\* Stored without lifecycle_mutex.
SrvSetStopped ==
  /\ ServerGoto("setStopped", "exit")
  /\ state' = "stopped"
  /\ UNCHANGED <<validOptions, stopRequested, transition, lifecycle, joinable, native,
                 registry, callerVars, taskVars, queueVars>>

SrvSetFailure ==
  /\ ServerGoto("setFailure", "exit") /\ LifecycleFree
  /\ state' = "failed"
  /\ UNCHANGED <<validOptions, stopRequested, transition, lifecycle, joinable, native,
                 registry, callerVars, taskVars, queueVars>>

SrvExit ==
  /\ ServerGoto("exit", "done") /\ LifecycleFree
  /\ UNCHANGED <<lifeVars, native, registry, callerVars, taskVars, queueVars>>

-----------------------------------------------------------------------------
(* What a callback on the server thread may call back: a queued task, or a *)
(* method handler run by runIterate().                                     *)

InCallback == exec # 0 \/ srv = "iterate"

\* No other thread reads stop_requested without the mutex: one step.
CallbackRequestStop ==
  /\ InCallback /\ srv \in {"drain", "finalDrain", "iterate"} /\ LifecycleFree
  /\ stopRequested' = TRUE /\ state' = StoppingState
  /\ UNCHANGED <<validOptions, transition, lifecycle, joinable, threadVars,
                 callerVars, taskVars, queueVars>>

CallbackPost ==
  /\ InCallback /\ srv \in {"drain", "finalDrain", "iterate"}
  /\ state = "running"
  /\ Push(FALSE)
  /\ UNCHANGED <<lifeVars, threadVars, callerVars>>

\* invoke() on the server thread runs its task at once, without the queue.
CallbackInvoke ==
  /\ InCallback /\ srv \in {"drain", "finalDrain", "iterate"}
  /\ native /\ accepted < MaxTasks
  /\ accepted' = accepted + 1
  /\ taskState' = [taskState EXCEPT ![accepted + 1] = "inline"]
  /\ runs' = [runs EXCEPT ![accepted + 1] = 1]
  /\ \E result \in {"ok", "error"} :
       outcome' = [outcome EXCEPT ![accepted + 1] = result]
  /\ UNCHANGED <<lifeVars, threadVars, callerVars, queueVars, waited, done>>

\* stop() on the server thread waits for transition_mutex, requests the stop
\* and returns without joining itself.
CallbackStop ==
  /\ StopFromCallback /\ InCallback
  /\ \/ ServerGoto("drain", "drainStop")
     \/ ServerGoto("iterate", "iterateStop")
     \/ ServerGoto("finalDrain", "finalDrainStop")
  /\ UNCHANGED <<lifeVars, native, registry, callerVars, taskVars, queueVars>>

CallbackStopReturn ==
  /\ transition = {} /\ LifecycleFree
  /\ \/ ServerGoto("drainStop", "drain")
     \/ ServerGoto("iterateStop", "iterate")
     \/ ServerGoto("finalDrainStop", "finalDrain")
  /\ stopRequested' = TRUE /\ state' = StoppingState
  /\ UNCHANGED <<validOptions, transition, lifecycle, joinable, native, registry,
                 callerVars, taskVars, queueVars>>

-----------------------------------------------------------------------------

\* A caller begins a public call.
CallerCall(c) ==
  \/ StartCall(c) \/ StopCall(c) \/ RequestStop(c)
  \/ Post(c) \/ InvokePush(c)

\* A caller continues the call it is in.
CallerStep(c) ==
  \/ StartInvalid(c) \/ StartLock(c) \/ StopLock(c)
  \/ StartAlreadyRunning(c) \/ StartTakeStale(c)
  \/ StartStaleJoined(c) \/ StartSpawn(c) \/ StartRunning(c)
  \/ StartNotRunning(c) \/ StartTimeout(c) \/ StartJoined(c)
  \/ RequestStopEnd(c) \/ StopRequest(c) \/ StopRequested(c)
  \/ StopNothing(c) \/ StopTakeThread(c) \/ StopJoined(c)
  \/ StopFailPending(c) \/ StopEnd(c)
  \/ InvokeDone(c) \/ InvokeTimeout(c) \/ InvokeTimeoutLate(c)

\* run() takes its next step.
SrvStep ==
  \/ SrvEntry \/ SrvSetup \/ SrvSetupThrow \/ SrvPublishRegistry
  \/ SrvIterate \/ SrvThrow \/ SrvAnnounce \/ SrvLoop \/ SrvTakeTask
  \/ SrvFinishTask \/ SrvDrained \/ SrvDestroyNative \/ SrvClearRegistry
  \/ SrvFailPending \/ SrvSetStopped \/ SrvSetFailure \/ SrvExit
  \/ CallbackStopReturn

\* What callbacks on the server thread choose to do.
CallbackStep ==
  CallbackRequestStop \/ CallbackPost \/ CallbackInvoke \/ CallbackStop

\* Every call the bound allows was made and has returned, and no thread runs.
Quiescent ==
  /\ calls = MaxCalls /\ \A c \in Callers : pc[c] = "idle"
  /\ srv \in {"none", "done"}
  /\ UNCHANGED vars

Next ==
  \/ \E c \in Callers : CallerCall(c) \/ CallerStep(c)
  \/ SrvStep
  \/ CallbackStep
  \/ Quiescent

Spec == Init /\ [][Next]_vars

\* Every thread that can run keeps running: the operating system schedules
\* it, callbacks return, and bounded waits expire.
FairSpec ==
  Spec /\ WF_vars(SrvStep) /\ \A c \in Callers : WF_vars(CallerStep(c))

-----------------------------------------------------------------------------
(* Properties                                                              *)

\* Every variable keeps its type; the mutexes are held by application threads
\* only when the server thread is not inside a critical section.
TypeOK ==
  /\ validOptions \in BOOLEAN
  /\ state \in ServerState /\ stopRequested \in BOOLEAN
  /\ transition \in SUBSET Callers
  /\ lifecycle \in SUBSET Callers
  /\ joinable \in BOOLEAN
  /\ srv \in ServerPoints /\ native \in BOOLEAN /\ registry \in BOOLEAN
  /\ queue \in Seq(TaskId) /\ pending \in Seq(TaskId) /\ exec \in {0} \cup TaskId
  /\ pc \in [Callers -> CallerPoints] /\ mine \in [Callers -> {0} \cup TaskId]
  /\ calls \in 0..MaxCalls /\ accepted \in 0..MaxTasks
  /\ taskState \in [TaskId -> QueuedTaskState]
  /\ waited \in [TaskId -> BOOLEAN]
  /\ done \in [TaskId -> {"no", "ok", "error"}]
  /\ outcome \in [TaskId -> {"none", "ok", "error", "timedOut"}]
  /\ runs \in [TaskId -> Nat]

\* "Once execution starts, invoke() waits for the callback's result so
\* synchronous captures remain valid" (server.hpp): from the moment invoke()
\* has returned, the task's callback is not executing, now or later.
CapturesStayValid == \A t \in TaskId : outcome[t] # "none" => exec # t

\* What invoke() returned is what happened: success means the callback was
\* entered exactly once and a timeout means it was not and will not be entered;
\* no task, waited for or posted, is ever entered twice.
OutcomeMatchesExecution ==
  \A t \in TaskId :
    /\ runs[t] <= 1
    /\ outcome[t] = "ok" => runs[t] = 1
    /\ outcome[t] = "timedOut" => runs[t] = 0

\* A server thread that exists is always reachable by exactly one joiner: the
\* member handle or the one call that moved it out.  Otherwise assigning
\* server_thread would terminate the process, or a thread would outlive stop().
ThreadHasOneOwner ==
  LET joiners == {c \in Callers : pc[c] \in JoinPoints}
  IN  IF srv = "none" THEN ~joinable /\ joiners = {}
      ELSE IF joinable THEN joiners = {} ELSE \E c \in Callers : joiners = {c}

\* A callback is only ever given a live native server, and the registry handed
\* out by typeRegistry() never outlives the thread that published it.
NativeServerOutlivesCallbacks ==
  /\ exec # 0 => native
  /\ native \/ registry => srv \notin {"none", "done"}

\* A stop request made after startup began is not undone: when no request is
\* being stored, a running server has none pending (the test
\* stop_request_during_startup_does_not_restore_running).
StopRequestSticks == state = "running" /\ LifecycleFree => ~stopRequested

\* A server that reports stopped holds no task: whoever posted before the stop
\* was either served or failed, and nothing is carried into the next start.
StoppedHoldsNoTask == state = "stopped" => queue = <<>> /\ pending = <<>>

\* What a client of post() and invoke() may rely on (module TaskContract):
\* tasks start in the order they were accepted, one at a time, at most once, and
\* an answer tells what happened.  A queued task is pending until the server
\* thread takes it, a caller gives it up or failPendingTasks() discards it.
Stage(t) ==
  CASE taskState[t] = "unused" -> "none"
    [] taskState[t] = "inline" -> "ran"
    [] taskState[t] = "running" -> IF exec = t THEN "running" ELSE "ran"
    [] taskState[t] = "cancelled" -> "dropped"
    [] OTHER -> IF t \in ToSet(queue) \cup ToSet(pending) THEN "pending"
                ELSE "dropped"

Contract == INSTANCE TaskContract WITH
  Tasks <- TaskId, stage <- [t \in TaskId |-> Stage(t)], answer <- outcome

ImplementsTaskContract == Contract!Spec

\* Every call into the server returns: no join, wait or mutex holds a caller
\* forever once its turn comes.
CallsReturn == \A c \in Callers : pc[c] # "idle" ~> pc[c] = "idle"

\* A requested stop ends the server thread (or a later start() revokes it).
StopEndsThread == stopRequested ~> (srv \in {"none", "done"} \/ ~stopRequested)

=============================================================================
