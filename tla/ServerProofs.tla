----------------------------- MODULE ServerProofs -----------------------------
(***************************************************************************)
(* Machine-checked proofs about Server, for every set of callers and every *)
(* bound on calls and tasks: the ownership of the server thread, the fate  *)
(* of stop requests and of queued tasks, and the refinement of             *)
(* TaskContract.                                                           *)
(***************************************************************************)
EXTENDS Server, SequenceTheorems, TLAPS

-----------------------------------------------------------------------------
(* The inductive invariant: locks and the server thread                    *)

\* transition_mutex is held exactly over the bodies of start() and stop(), and
\* lifecycle_mutex between the two stores of a stop request; by one caller.
MutexInv ==
  /\ \A c \in Callers : c \in transition <=> pc[c] \in StartPoints \cup StopPoints
  /\ \A c \in Callers : c \in lifecycle <=> pc[c] \in {"requestStop", "stopRequesting"}
  /\ \A c, d \in transition : c = d
  /\ \A c, d \in lifecycle : c = d

Joiners == {c \in Callers : pc[c] \in JoinPoints}

\* The handle of the server thread is in one place; who is about to make a new
\* thread has joined the old one, and so has a stop() that fails the tasks.
OwnerInv ==
  /\ srv = "none" => ~joinable /\ Joiners = {}
  /\ srv # "none" /\ joinable => Joiners = {}
  /\ srv # "none" /\ ~joinable => Joiners # {}
  /\ \A c \in Callers : pc[c] \in {"startSpawn", "stopFail", "stopEnd"} => srv = "none"

\* Where run() has a native server, and where it may have published the registry.
NativePoints ==
  {"publishRegistry", "firstIterate", "announce", "loop", "drain", "drainStop",
   "iterate", "iterateStop", "finalDrain", "finalDrainStop", "teardown"}
DrainPoints == {"drain", "drainStop", "finalDrain", "finalDrainStop"}

NativeInv ==
  /\ srv \in NativePoints => native
  /\ native => srv \in NativePoints \cup {"failReset"}
  /\ registry => srv \in (NativePoints \ {"publishRegistry"}) \cup
                   {"clearRegistry", "failReset", "failClearRegistry"}
  /\ exec # 0 => srv \in DrainPoints

\* From the last drain on a stop has been requested, and once the request is
\* complete the server cannot be running again.
StopInv ==
  /\ StopRequestSticks
  /\ srv \in {"finalDrain", "finalDrainStop", "teardown", "clearRegistry",
              "failPending", "setStopped"} => stopRequested
  /\ srv \in {"failPending", "setStopped"} => state # "running"
  /\ \A c \in Callers :
       /\ pc[c] \in {"stopRequesting", "stopBody", "stopJoin", "stopFail", "stopEnd"}
            => stopRequested
       /\ pc[c] \in {"stopJoin", "stopFail", "stopEnd"} => state # "running"

\* Nothing is queued where a stored "stopped" follows.
EmptyInv ==
  /\ StoppedHoldsNoTask
  /\ srv = "setStopped" => queue = <<>>
  /\ \A c \in Callers : pc[c] = "stopEnd" => queue = <<>>
  /\ srv \notin DrainPoints => pending = <<>>

ThreadInv == MutexInv /\ OwnerInv /\ NativeInv /\ StopInv /\ EmptyInv

-----------------------------------------------------------------------------
(* The inductive invariant: tasks                                          *)

Waiting == ToSet(queue) \cup ToSet(pending)

Increasing(s) == \A i, j \in DOMAIN s : i < j => s[i] < s[j]

\* Tasks wait in the order of their acceptance.
QueueOrder ==
  /\ Increasing(queue) /\ Increasing(pending)
  /\ \A t \in ToSet(pending), u \in ToSet(queue) : t < u

\* What the state of a task says about where it is and whether it was entered.
TaskStateInv ==
  \A t \in TaskId :
    /\ taskState[t] = "unused" <=> t > accepted
    /\ t \in Waiting => taskState[t] \in {"queued", "running", "cancelled"}
    /\ t \in Waiting /\ taskState[t] = "running" => exec = t
    /\ runs[t] = IF taskState[t] \in {"running", "inline"} THEN 1 ELSE 0

\* The task in execution is the first of those taken from the queue.
ExecInv ==
  exec # 0 => pending # <<>> /\ exec = Head(pending) /\ taskState[exec] = "running"

\* When a task is completed, and what the completion and the answer mean.
CompletionInv ==
  \A t \in TaskId :
    /\ done[t] # "no" => t \notin Waiting /\ taskState[t] # "unused"
    /\ done[t] = "ok" => taskState[t] = "running"
    /\ waited[t] /\ taskState[t] = "queued" /\ done[t] = "no" => t \in Waiting
    /\ taskState[t] = "unused" => ~waited[t]
    /\ outcome[t] # "none" => \/ done[t] # "no"
                              \/ taskState[t] \in {"cancelled", "inline"}
    /\ outcome[t] = "ok" => taskState[t] \in {"running", "inline"}
    /\ outcome[t] = "timedOut" <=> taskState[t] = "cancelled"

\* invoke() waits for one task of its own, not yet answered.
WaiterInv ==
  \A c \in Callers :
    /\ mine[c] # 0 <=> pc[c] \in {"invoke", "invokeLate"}
    /\ mine[c] # 0 => /\ waited[mine[c]] /\ outcome[mine[c]] = "none"
                      /\ taskState[mine[c]] \in {"queued", "running"}
    /\ \A d \in Callers : mine[c] # 0 /\ mine[c] = mine[d] => c = d

TaskInv ==
  QueueOrder /\ TaskStateInv /\ ExecInv /\ CompletionInv /\ WaiterInv

-----------------------------------------------------------------------------
(* Types                                                                   *)

\* complete() stores a result.
LEMMA CompletedType ==
  ASSUME TypeOK, NEW S, NEW r \in {"ok", "error"}
  PROVE  Completed(S, r) \in [TaskId -> {"no", "ok", "error"}]
  BY DEF TypeOK, Completed

\* Types are preserved; that Tail is only taken of a sequence that is not empty
\* rests on ExecInv.
LEMMA TypeStep == TypeOK /\ ExecInv /\ [Next]_vars => TypeOK'
  <1> SUFFICES ASSUME TypeOK, ExecInv, [Next]_vars PROVE TypeOK'
    OBVIOUS
  <1> USE ServerAssumption DEF TypeOK, TaskId, ServerState, QueuedTaskState,
      CallerPoints,
        StartPoints, StopPoints, ServerPoints, lifeVars, threadVars, callerVars,
        taskVars, queueVars, Enter, Goto, ServerGoto, LifecycleFree
  <1>1. CASE UNCHANGED vars
    BY <1>1 DEF vars
  <1>2. ASSUME NEW c \in Callers, CallerCall(c) PROVE TypeOK'
    <2>1. CASE StartCall(c) BY <2>1 DEF StartCall
    <2>2. CASE StopCall(c) BY <2>2 DEF StopCall
    <2>3. CASE RequestStop(c) BY <2>3 DEF RequestStop, RequestStopStore
    <2>4. CASE Post(c) BY <2>4 DEF Post, Push
    <2>5. CASE InvokePush(c) BY <2>5 DEF InvokePush, Push
    <2> QED BY <1>2, <2>1, <2>2, <2>3, <2>4, <2>5 DEF CallerCall
  <1>3. ASSUME NEW c \in Callers, CallerStep(c) PROVE TypeOK'
    <2>1. CASE StartInvalid(c) BY <2>1 DEF StartInvalid
    <2>2. CASE StartLock(c) BY <2>2 DEF StartLock
    <2>3. CASE StopLock(c) BY <2>3 DEF StopLock
    <2>4. CASE StartAlreadyRunning(c) BY <2>4 DEF StartAlreadyRunning
    <2>5. CASE StartTakeStale(c)
      <3>1. pc' \in [Callers -> CallerPoints] /\ calls' = calls
        BY <2>5 DEF StartTakeStale
      <3> HIDE DEF Goto, CallerPoints, StartPoints, StopPoints, ServerPoints,
          TaskId,
                   ServerState, QueuedTaskState
      <3> QED BY <2>5, <3>1, Zenon DEF StartTakeStale
    <2>6. CASE StartStaleJoined(c) BY <2>6 DEF StartStaleJoined, Join
    <2>7. CASE StartSpawn(c) BY <2>7 DEF StartSpawn
    <2>8. CASE StartRunning(c) BY <2>8 DEF StartRunning
    <2>9. CASE StartNotRunning(c)
      <3>1. pc' \in [Callers -> CallerPoints] /\ calls' = calls
        BY <2>9 DEF StartNotRunning
      <3> HIDE DEF Goto, CallerPoints, StartPoints, StopPoints, ServerPoints,
          TaskId,
                   ServerState, QueuedTaskState
      <3> QED BY <2>9, <3>1, Zenon DEF StartNotRunning
    <2>10. CASE StartTimeout(c) BY <2>10 DEF StartTimeout
    <2>11. CASE StartJoined(c) BY <2>11 DEF StartJoined, Join
    <2>12. CASE RequestStopEnd(c) BY <2>12 DEF RequestStopEnd, StoppingState
    <2>13. CASE StopRequest(c) BY <2>13 DEF StopRequest, RequestStopStore
    <2>14. CASE StopRequested(c) BY <2>14 DEF StopRequested, StoppingState
    <2>15. CASE StopNothing(c) BY <2>15 DEF StopNothing
    <2>16. CASE StopTakeThread(c)
      <3>1. pc' \in [Callers -> CallerPoints] /\ calls' = calls
        BY <2>16 DEF StopTakeThread
      <3>2. state' \in ServerState
        BY <2>16 DEF StopTakeThread, StoppingState
      <3> HIDE DEF Goto, CallerPoints, StartPoints, StopPoints, ServerPoints,
          TaskId, ServerState, QueuedTaskState
      <3> QED BY <2>16, <3>1, <3>2, Zenon DEF StopTakeThread
    <2>17. CASE StopJoined(c) BY <2>17 DEF StopJoined, Join
    <2>18. CASE StopFailPending(c) BY <2>18 DEF StopFailPending,
        FailPendingTasks, Completed
    <2>19. CASE StopEnd(c) BY <2>19 DEF StopEnd
    <2>20. CASE InvokeDone(c) BY <2>20 DEF InvokeDone, InvokeReturn
    <2>21. CASE InvokeTimeout(c)
      <3>1. mine[c] \in TaskId
        BY <2>21 DEF InvokeTimeout
      <3>2. taskState' \in [TaskId -> QueuedTaskState]
        BY <2>21, <3>1 DEF InvokeTimeout
      <3>3. /\ outcome' \in [TaskId -> {"none", "ok", "error", "timedOut"}]
            /\ mine' \in [Callers -> {0} \cup TaskId]
            /\ pc' \in [Callers -> CallerPoints] /\ calls' \in 0..MaxCalls
        BY <2>21, <3>1 DEF InvokeTimeout, InvokeReturn
      <3> QED BY <2>21, <3>2, <3>3 DEF InvokeTimeout, InvokeReturn
    <2>22. CASE InvokeTimeoutLate(c) BY <2>22 DEF InvokeTimeoutLate, CancelWins
    <2> QED BY <1>3, <2>1, <2>2, <2>3, <2>4, <2>5, <2>6, <2>7, <2>8, <2>9,
        <2>10, <2>11, <2>12, <2>13, <2>14, <2>15, <2>16, <2>17, <2>18, <2>19,
        <2>20, <2>21, <2>22 DEF CallerStep
  <1>4. ASSUME SrvStep PROVE TypeOK'
    <2>1. CASE SrvEntry BY <2>1 DEF SrvEntry
    <2>2. CASE SrvSetup BY <2>2 DEF SrvSetup
    <2>3. CASE SrvSetupThrow BY <2>3 DEF SrvSetupThrow
    <2>4. CASE SrvPublishRegistry BY <2>4 DEF SrvPublishRegistry
    <2>5. CASE SrvIterate BY <2>5 DEF SrvIterate
    <2>6. CASE SrvThrow BY <2>6 DEF SrvThrow
    <2>7. CASE SrvAnnounce BY <2>7 DEF SrvAnnounce, AnnouncedState
    <2>8. CASE SrvLoop BY <2>8 DEF SrvLoop, LoopExit
    <2>9. CASE SrvTakeTask
      <3>1. Head(pending) \in TaskId /\ Tail(pending) \in Seq(TaskId)
        BY <2>9 DEF SrvTakeTask
      <3>2. Completed({Head(pending)}, "error") \in [TaskId -> {"no", "ok", "error"}]
        BY CompletedType
      <3>3. CASE RunWins(Head(pending))
        <4>1. taskState' \in [TaskId -> QueuedTaskState]
          BY <2>9, <3>1, <3>3 DEF SrvTakeTask
        <4>2. runs' = [runs EXCEPT ![Head(pending)] = @ + 1]
          BY <2>9, <3>3 DEF SrvTakeTask
        <4>3. runs' \in [TaskId -> Nat]
          BY <3>1, <4>2
        <4> QED BY <2>9, <3>1, <3>3, <4>1, <4>3 DEF SrvTakeTask
      <3>4. CASE ~RunWins(Head(pending))
        BY <2>9, <3>1, <3>2, <3>4 DEF SrvTakeTask
      <3> QED BY <3>3, <3>4
    <2>10. CASE SrvFinishTask
      <3>1. pending # <<>>
        BY <2>10, Zenon DEF SrvFinishTask, ExecInv
      <3>2. Tail(pending) \in Seq(TaskId)
        BY <3>1
      <3>3. PICK result \in {"ok", "error"} : done' = Completed({exec}, result)
        BY <2>10 DEF SrvFinishTask
      <3>4. done' \in [TaskId -> {"no", "ok", "error"}]
        BY <3>3, CompletedType
      <3> QED BY <2>10, <3>2, <3>4 DEF SrvFinishTask
    <2>11. CASE SrvDrained BY <2>11 DEF SrvDrained
    <2>12. CASE SrvDestroyNative BY <2>12 DEF SrvDestroyNative
    <2>13. CASE SrvClearRegistry BY <2>13 DEF SrvClearRegistry
    <2>14. CASE SrvFailPending BY <2>14 DEF SrvFailPending, FailPendingTasks,
        Completed
    <2>15. CASE SrvSetStopped BY <2>15 DEF SrvSetStopped
    <2>16. CASE SrvSetFailure BY <2>16 DEF SrvSetFailure
    <2>17. CASE SrvExit BY <2>17 DEF SrvExit
    <2>18. CASE CallbackStopReturn BY <2>18 DEF CallbackStopReturn,
        StoppingState
    <2> QED BY <1>4, <2>1, <2>2, <2>3, <2>4, <2>5, <2>6, <2>7, <2>8, <2>9,
        <2>10, <2>11, <2>12, <2>13, <2>14, <2>15, <2>16, <2>17,
        <2>18 DEF SrvStep
  <1>5. ASSUME CallbackStep PROVE TypeOK'
    <2>1. CASE CallbackRequestStop BY <2>1 DEF CallbackRequestStop,
        StoppingState, InCallback
    <2>2. CASE CallbackPost BY <2>2 DEF CallbackPost, Push, InCallback
    <2>3. CASE CallbackInvoke BY <2>3 DEF CallbackInvoke, InCallback
    <2>4. CASE CallbackStop BY <2>4 DEF CallbackStop, InCallback
    <2> QED BY <1>5, <2>1, <2>2, <2>3, <2>4 DEF CallbackStep
  <1>6. CASE Quiescent
    BY <1>1, <1>6 DEF Quiescent
  <1> QED BY <1>1, <1>2, <1>3, <1>4, <1>5, <1>6 DEF Next
-----------------------------------------------------------------------------
(* What the steps of one side leave alone                                  *)

\* The server thread never touches the locks between two of its steps, nor what
\* belongs to the callers; it exists before and after.
LEMMA ServerFrame ==
  ASSUME SrvStep \/ CallbackStep
  PROVE  /\ UNCHANGED <<validOptions, transition, lifecycle, joinable, callerVars>>
         /\ srv # "none" /\ srv' # "none"
  <1> USE DEF lifeVars, threadVars, callerVars, taskVars, queueVars,
      ServerGoto,
              Push, FailPendingTasks
  <1>1. CASE SrvStep
    BY <1>1 DEF SrvStep, SrvEntry, SrvSetup, SrvSetupThrow, SrvPublishRegistry,
         SrvIterate, SrvThrow, SrvAnnounce, SrvLoop, LoopExit, SrvTakeTask, SrvFinishTask,
         SrvDrained, SrvDestroyNative, SrvClearRegistry, SrvFailPending,
         SrvSetStopped, SrvSetFailure, SrvExit, CallbackStopReturn
  <1>2. CASE CallbackStep
    BY <1>2 DEF CallbackStep, CallbackRequestStop, CallbackPost,
        CallbackInvoke,
         CallbackStop
  <1> QED BY <1>1, <1>2

\* Callers never touch what belongs to the server thread, except that they start
\* and join it.
LEMMA CallerFrame ==
  ASSUME NEW c \in Callers, CallerCall(c) \/ CallerStep(c)
  PROVE  /\ UNCHANGED <<native, registry, pending, exec>>
         /\ \/ UNCHANGED srv
            \/ StartSpawn(c)
            \/ StartStaleJoined(c) \/ StartJoined(c) \/ StopJoined(c)
  <1> USE DEF lifeVars, threadVars, callerVars, taskVars, queueVars, Push,
              FailPendingTasks
  <1>1. CASE CallerCall(c)
    BY <1>1 DEF CallerCall, StartCall, StopCall, RequestStop, RequestStopStore,
         Post, InvokePush
  <1>2. CASE CallerStep(c)
    BY <1>2 DEF CallerStep, StartInvalid, StartLock, StopLock,
        StartAlreadyRunning,
         StartTakeStale, StartStaleJoined, StartSpawn, StartRunning,
         StartNotRunning, StartTimeout, StartJoined, RequestStopEnd, StopRequest,
         RequestStopStore, StopRequested, StopNothing, StopTakeThread, StopJoined,
         StopFailPending, StopEnd, InvokeDone, InvokeTimeout, InvokeTimeoutLate,
         InvokeReturn
  <1> QED BY <1>1, <1>2

-----------------------------------------------------------------------------
(* Locks and the server thread                                             *)

\* Both mutexes are taken and given back where MutexInv says.
LEMMA MutexStep == TypeOK /\ MutexInv /\ [Next]_vars => MutexInv'
  <1> SUFFICES ASSUME TypeOK, MutexInv, [Next]_vars PROVE MutexInv'
    OBVIOUS
  <1> USE DEF TypeOK, MutexInv, StartPoints, StopPoints, lifeVars, threadVars,
              callerVars, taskVars, queueVars, Enter, Goto, LifecycleFree
  <1>1. ASSUME NEW c \in Callers, CallerCall(c) PROVE MutexInv'
    <2>1. CASE StartCall(c) BY <2>1 DEF StartCall
    <2>2. CASE StopCall(c) BY <2>2 DEF StopCall
    <2>3. CASE RequestStop(c) BY <2>3 DEF RequestStop, RequestStopStore
    <2>4. CASE Post(c) BY <2>4 DEF Post, Push
    <2>5. CASE InvokePush(c) BY <2>5 DEF InvokePush, Push
    <2> QED BY <1>1, <2>1, <2>2, <2>3, <2>4, <2>5 DEF CallerCall
  <1>2. ASSUME NEW c \in Callers, CallerStep(c) PROVE MutexInv'
    <2>1. CASE StartInvalid(c) BY <2>1 DEF StartInvalid
    <2>2. CASE StartLock(c) BY <2>2 DEF StartLock
    <2>3. CASE StopLock(c) BY <2>3 DEF StopLock
    <2>4. CASE StartAlreadyRunning(c) BY <2>4 DEF StartAlreadyRunning
    <2>5. CASE StartTakeStale(c) BY <2>5 DEF StartTakeStale
    <2>6. CASE StartStaleJoined(c) BY <2>6 DEF StartStaleJoined, Join
    <2>7. CASE StartSpawn(c) BY <2>7 DEF StartSpawn
    <2>8. CASE StartRunning(c) BY <2>8 DEF StartRunning
    <2>9. CASE StartNotRunning(c) BY <2>9 DEF StartNotRunning
    <2>10. CASE StartTimeout(c) BY <2>10 DEF StartTimeout
    <2>11. CASE StartJoined(c) BY <2>11 DEF StartJoined, Join
    <2>12. CASE RequestStopEnd(c) BY <2>12 DEF RequestStopEnd, StoppingState
    <2>13. CASE StopRequest(c) BY <2>13 DEF StopRequest, RequestStopStore
    <2>14. CASE StopRequested(c) BY <2>14 DEF StopRequested, StoppingState
    <2>15. CASE StopNothing(c) BY <2>15 DEF StopNothing
    <2>16. CASE StopTakeThread(c) BY <2>16 DEF StopTakeThread, StoppingState
    <2>17. CASE StopJoined(c) BY <2>17 DEF StopJoined, Join
    <2>18. CASE StopFailPending(c) BY <2>18 DEF StopFailPending,
        FailPendingTasks, Completed
    <2>19. CASE StopEnd(c) BY <2>19 DEF StopEnd
    <2>20. CASE InvokeDone(c) BY <2>20 DEF InvokeDone, InvokeReturn
    <2>21. CASE InvokeTimeout(c) BY <2>21 DEF InvokeTimeout, InvokeReturn,
        CancelWins
    <2>22. CASE InvokeTimeoutLate(c) BY <2>22 DEF InvokeTimeoutLate, CancelWins
    <2> QED BY <1>2, <2>1, <2>2, <2>3, <2>4, <2>5, <2>6, <2>7, <2>8, <2>9,
        <2>10, <2>11, <2>12, <2>13, <2>14, <2>15, <2>16, <2>17, <2>18, <2>19,
        <2>20, <2>21, <2>22 DEF CallerStep
  <1>3. CASE SrvStep \/ CallbackStep
    BY <1>3, ServerFrame
  <1>4. CASE UNCHANGED vars \/ Quiescent
    BY <1>4 DEF vars, Quiescent
  <1> QED BY <1>1, <1>2, <1>3, <1>4 DEF Next

\* The handle of the server thread is moved, joined and replaced by whoever holds
\* transition_mutex, so never twice and never while a thread runs.
LEMMA OwnerStep == TypeOK /\ MutexInv /\ OwnerInv /\ [Next]_vars => OwnerInv'
  <1> SUFFICES ASSUME TypeOK, MutexInv, OwnerInv, [Next]_vars PROVE OwnerInv'
    OBVIOUS
  <1> USE DEF TypeOK, MutexInv, OwnerInv, Joiners, JoinPoints, StartPoints,
      StopPoints,
              lifeVars, threadVars, callerVars, taskVars, queueVars, Enter, Goto
  <1>1. ASSUME NEW c \in Callers, CallerCall(c) PROVE OwnerInv'
    <2>1. CASE StartCall(c) BY <2>1 DEF StartCall
    <2>2. CASE StopCall(c) BY <2>2 DEF StopCall
    <2>3. CASE RequestStop(c) BY <2>3 DEF RequestStop, RequestStopStore
    <2>4. CASE Post(c) BY <2>4 DEF Post, Push
    <2>5. CASE InvokePush(c) BY <2>5 DEF InvokePush, Push
    <2> QED BY <1>1, <2>1, <2>2, <2>3, <2>4, <2>5 DEF CallerCall
  <1>2. ASSUME NEW c \in Callers, CallerStep(c) PROVE OwnerInv'
    <2>1. CASE StartInvalid(c) BY <2>1 DEF StartInvalid
    <2>2. CASE StartLock(c) BY <2>2 DEF StartLock
    <2>3. CASE StopLock(c) BY <2>3 DEF StopLock
    <2>4. CASE StartAlreadyRunning(c) BY <2>4 DEF StartAlreadyRunning
    <2>5. CASE StartTakeStale(c) BY <2>5 DEF StartTakeStale
    <2>6. CASE StartStaleJoined(c) BY <2>6 DEF StartStaleJoined, Join
    <2>7. CASE StartSpawn(c)
      <3>1. c \in transition /\ pc' = [pc EXCEPT ![c] = "startWait"]
        BY <2>7 DEF StartSpawn
      <3>2. \A e \in Callers : e # c => pc[e] \notin StartPoints \cup StopPoints
        BY <3>1
      <3>3. Joiners' = {}
        BY <3>1, <3>2
      <3>4. \A e \in Callers : pc'[e] \notin {"startSpawn", "stopFail", "stopEnd"}
        BY <3>1, <3>2
      <3>5. srv' # "none" /\ joinable'
        BY <2>7 DEF StartSpawn
      <3> HIDE DEF Joiners
      <3> QED BY <3>3, <3>4, <3>5
    <2>8. CASE StartRunning(c) BY <2>8 DEF StartRunning
    <2>9. CASE StartNotRunning(c) BY <2>9 DEF StartNotRunning
    <2>10. CASE StartTimeout(c) BY <2>10 DEF StartTimeout
    <2>11. CASE StartJoined(c) BY <2>11 DEF StartJoined, Join
    <2>12. CASE RequestStopEnd(c) BY <2>12 DEF RequestStopEnd, StoppingState
    <2>13. CASE StopRequest(c) BY <2>13 DEF StopRequest, RequestStopStore
    <2>14. CASE StopRequested(c) BY <2>14 DEF StopRequested, StoppingState
    <2>15. CASE StopNothing(c) BY <2>15 DEF StopNothing
    <2>16. CASE StopTakeThread(c) BY <2>16 DEF StopTakeThread, StoppingState
    <2>17. CASE StopJoined(c) BY <2>17 DEF StopJoined, Join
    <2>18. CASE StopFailPending(c) BY <2>18 DEF StopFailPending,
        FailPendingTasks, Completed
    <2>19. CASE StopEnd(c) BY <2>19 DEF StopEnd
    <2>20. CASE InvokeDone(c) BY <2>20 DEF InvokeDone, InvokeReturn
    <2>21. CASE InvokeTimeout(c) BY <2>21 DEF InvokeTimeout, InvokeReturn,
        CancelWins
    <2>22. CASE InvokeTimeoutLate(c) BY <2>22 DEF InvokeTimeoutLate, CancelWins
    <2> QED BY <1>2, <2>1, <2>2, <2>3, <2>4, <2>5, <2>6, <2>7, <2>8, <2>9,
        <2>10, <2>11, <2>12, <2>13, <2>14, <2>15, <2>16, <2>17, <2>18, <2>19,
        <2>20, <2>21, <2>22 DEF CallerStep
  <1>3. CASE SrvStep \/ CallbackStep
    BY <1>3, ServerFrame
  <1>4. CASE UNCHANGED vars \/ Quiescent
    BY <1>4 DEF vars, Quiescent
  <1> QED BY <1>1, <1>2, <1>3, <1>4 DEF Next

\* run() creates and destroys the native server and its registry in this order, and
\* executes callbacks only while it drains.
LEMMA NativeStep == TypeOK /\ MutexInv /\ OwnerInv /\ NativeInv /\ [Next]_vars => NativeInv'
  <1> SUFFICES ASSUME TypeOK, MutexInv, OwnerInv, NativeInv, [Next]_vars PROVE NativeInv'
    OBVIOUS
  <1>1. ASSUME NEW c \in Callers, CallerCall(c) \/ CallerStep(c) PROVE NativeInv'
    <2>1. UNCHANGED <<native, registry, exec>>
      BY <1>1, CallerFrame
    <2>2. CASE UNCHANGED srv
      BY <2>1, <2>2 DEF NativeInv
    <2>3. CASE StartSpawn(c)
      <3>1. srv = "none" /\ srv' = "entry"
        BY <2>3 DEF StartSpawn, Goto, TypeOK, MutexInv, OwnerInv, Joiners,
            JoinPoints,
                    StartPoints, StopPoints
      <3> QED BY <2>1, <3>1 DEF NativeInv, NativePoints, DrainPoints
    <2>4. CASE StartStaleJoined(c) \/ StartJoined(c) \/ StopJoined(c)
      <3>1. srv = "done" /\ srv' = "none"
        BY <2>4 DEF StartStaleJoined, StartJoined, StopJoined, Join
      <3> QED BY <2>1, <3>1 DEF NativeInv, NativePoints, DrainPoints
    <2> QED BY <1>1, <2>2, <2>3, <2>4, CallerFrame
  <1> USE DEF TypeOK, NativeInv, NativePoints, DrainPoints, lifeVars,
      threadVars,
              callerVars, taskVars, queueVars, ServerGoto
  <1>2. ASSUME SrvStep PROVE NativeInv'
    <2>1. CASE SrvEntry BY <2>1 DEF SrvEntry
    <2>2. CASE SrvSetup BY <2>2 DEF SrvSetup
    <2>3. CASE SrvSetupThrow BY <2>3 DEF SrvSetupThrow
    <2>4. CASE SrvPublishRegistry BY <2>4 DEF SrvPublishRegistry
    <2>5. CASE SrvIterate BY <2>5 DEF SrvIterate
    <2>6. CASE SrvThrow BY <2>6 DEF SrvThrow
    <2>7. CASE SrvAnnounce BY <2>7 DEF SrvAnnounce, AnnouncedState
    <2>8. CASE SrvLoop BY <2>8 DEF SrvLoop, LoopExit
    <2>9. CASE SrvTakeTask BY <2>9 DEF SrvTakeTask, RunWins, Completed
    <2>10. CASE SrvFinishTask BY <2>10 DEF SrvFinishTask, Completed
    <2>11. CASE SrvDrained BY <2>11 DEF SrvDrained
    <2>12. CASE SrvDestroyNative BY <2>12 DEF SrvDestroyNative
    <2>13. CASE SrvClearRegistry BY <2>13 DEF SrvClearRegistry
    <2>14. CASE SrvFailPending BY <2>14 DEF SrvFailPending, FailPendingTasks,
        Completed
    <2>15. CASE SrvSetStopped BY <2>15 DEF SrvSetStopped
    <2>16. CASE SrvSetFailure BY <2>16 DEF SrvSetFailure
    <2>17. CASE SrvExit BY <2>17 DEF SrvExit
    <2>18. CASE CallbackStopReturn BY <2>18 DEF CallbackStopReturn,
        StoppingState
    <2> QED BY <1>2, <2>1, <2>2, <2>3, <2>4, <2>5, <2>6, <2>7, <2>8, <2>9,
        <2>10, <2>11, <2>12, <2>13, <2>14, <2>15, <2>16, <2>17,
        <2>18 DEF SrvStep
  <1>3. ASSUME CallbackStep PROVE NativeInv'
    <2>1. CASE CallbackRequestStop BY <2>1 DEF CallbackRequestStop,
        StoppingState, InCallback
    <2>2. CASE CallbackPost BY <2>2 DEF CallbackPost, Push, InCallback
    <2>3. CASE CallbackInvoke BY <2>3 DEF CallbackInvoke, InCallback
    <2>4. CASE CallbackStop BY <2>4 DEF CallbackStop, InCallback
    <2> QED BY <1>3, <2>1, <2>2, <2>3, <2>4 DEF CallbackStep
  <1>4. CASE UNCHANGED vars \/ Quiescent
    BY <1>4 DEF vars, Quiescent
  <1> QED BY <1>1, <1>2, <1>3, <1>4 DEF Next

\* A stop request is not undone before the next start().
LEMMA StopStep ==
  TypeOK /\ MutexInv /\ OwnerInv /\ StopInv /\ [Next]_vars => StopInv'
  <1> SUFFICES ASSUME TypeOK, MutexInv, OwnerInv, StopInv, [Next]_vars PROVE StopInv'
    OBVIOUS
  <1> USE DEF TypeOK, MutexInv, OwnerInv, Joiners, JoinPoints, StartPoints,
      StopPoints,
              StopInv, StopRequestSticks, LifecycleFree, lifeVars, threadVars,
              callerVars, taskVars, queueVars, Enter, Goto, ServerGoto
  <1>1. ASSUME NEW c \in Callers, CallerCall(c) PROVE StopInv'
    <2>1. CASE StartCall(c) BY <2>1 DEF StartCall
    <2>2. CASE StopCall(c) BY <2>2 DEF StopCall
    <2>3. CASE RequestStop(c) BY <2>3 DEF RequestStop, RequestStopStore
    <2>4. CASE Post(c) BY <2>4 DEF Post, Push
    <2>5. CASE InvokePush(c) BY <2>5 DEF InvokePush, Push
    <2> QED BY <1>1, <2>1, <2>2, <2>3, <2>4, <2>5 DEF CallerCall
  <1>2. ASSUME NEW c \in Callers, CallerStep(c) PROVE StopInv'
    <2>1. CASE StartInvalid(c) BY <2>1 DEF StartInvalid
    <2>2. CASE StartLock(c) BY <2>2 DEF StartLock
    <2>3. CASE StopLock(c) BY <2>3 DEF StopLock
    <2>4. CASE StartAlreadyRunning(c) BY <2>4 DEF StartAlreadyRunning
    <2>5. CASE StartTakeStale(c) BY <2>5 DEF StartTakeStale
    <2>6. CASE StartStaleJoined(c) BY <2>6 DEF StartStaleJoined, Join
    <2>7. CASE StartSpawn(c) BY <2>7 DEF StartSpawn
    <2>8. CASE StartRunning(c) BY <2>8 DEF StartRunning
    <2>9. CASE StartNotRunning(c) BY <2>9 DEF StartNotRunning
    <2>10. CASE StartTimeout(c) BY <2>10 DEF StartTimeout
    <2>11. CASE StartJoined(c) BY <2>11 DEF StartJoined, Join
    <2>12. CASE RequestStopEnd(c) BY <2>12 DEF RequestStopEnd, StoppingState
    <2>13. CASE StopRequest(c) BY <2>13 DEF StopRequest, RequestStopStore
    <2>14. CASE StopRequested(c) BY <2>14 DEF StopRequested, StoppingState
    <2>15. CASE StopNothing(c) BY <2>15 DEF StopNothing
    <2>16. CASE StopTakeThread(c) BY <2>16 DEF StopTakeThread, StoppingState
    <2>17. CASE StopJoined(c) BY <2>17 DEF StopJoined, Join
    <2>18. CASE StopFailPending(c) BY <2>18 DEF StopFailPending,
        FailPendingTasks, Completed
    <2>19. CASE StopEnd(c) BY <2>19 DEF StopEnd
    <2>20. CASE InvokeDone(c) BY <2>20 DEF InvokeDone, InvokeReturn
    <2>21. CASE InvokeTimeout(c) BY <2>21 DEF InvokeTimeout, InvokeReturn,
        CancelWins
    <2>22. CASE InvokeTimeoutLate(c) BY <2>22 DEF InvokeTimeoutLate, CancelWins
    <2> QED BY <1>2, <2>1, <2>2, <2>3, <2>4, <2>5, <2>6, <2>7, <2>8, <2>9,
        <2>10, <2>11, <2>12, <2>13, <2>14, <2>15, <2>16, <2>17, <2>18, <2>19,
        <2>20, <2>21, <2>22 DEF CallerStep
  <1>3. ASSUME SrvStep PROVE StopInv'
    <2>1. CASE SrvEntry BY <2>1 DEF SrvEntry
    <2>2. CASE SrvSetup BY <2>2 DEF SrvSetup
    <2>3. CASE SrvSetupThrow BY <2>3 DEF SrvSetupThrow
    <2>4. CASE SrvPublishRegistry BY <2>4 DEF SrvPublishRegistry
    <2>5. CASE SrvIterate BY <2>5 DEF SrvIterate
    <2>6. CASE SrvThrow BY <2>6 DEF SrvThrow
    <2>7. CASE SrvAnnounce BY <2>7 DEF SrvAnnounce, AnnouncedState
    <2>8. CASE SrvLoop BY <2>8 DEF SrvLoop, LoopExit
    <2>9. CASE SrvTakeTask BY <2>9 DEF SrvTakeTask, RunWins, Completed
    <2>10. CASE SrvFinishTask BY <2>10 DEF SrvFinishTask, Completed
    <2>11. CASE SrvDrained BY <2>11 DEF SrvDrained
    <2>12. CASE SrvDestroyNative BY <2>12 DEF SrvDestroyNative
    <2>13. CASE SrvClearRegistry BY <2>13 DEF SrvClearRegistry
    <2>14. CASE SrvFailPending BY <2>14 DEF SrvFailPending, FailPendingTasks,
        Completed
    <2>15. CASE SrvSetStopped BY <2>15 DEF SrvSetStopped
    <2>16. CASE SrvSetFailure BY <2>16 DEF SrvSetFailure
    <2>17. CASE SrvExit BY <2>17 DEF SrvExit
    <2>18. CASE CallbackStopReturn BY <2>18 DEF CallbackStopReturn,
        StoppingState
    <2> QED BY <1>3, <2>1, <2>2, <2>3, <2>4, <2>5, <2>6, <2>7, <2>8, <2>9,
        <2>10, <2>11, <2>12, <2>13, <2>14, <2>15, <2>16, <2>17,
        <2>18 DEF SrvStep
  <1>4. ASSUME CallbackStep PROVE StopInv'
    <2>1. CASE CallbackRequestStop BY <2>1 DEF CallbackRequestStop,
        StoppingState, InCallback
    <2>2. CASE CallbackPost BY <2>2 DEF CallbackPost, Push, InCallback
    <2>3. CASE CallbackInvoke BY <2>3 DEF CallbackInvoke, InCallback
    <2>4. CASE CallbackStop BY <2>4 DEF CallbackStop, InCallback
    <2> QED BY <1>4, <2>1, <2>2, <2>3, <2>4 DEF CallbackStep
  <1>5. CASE UNCHANGED vars \/ Quiescent
    BY <1>5 DEF vars, Quiescent
  <1> QED BY <1>1, <1>2, <1>3, <1>4, <1>5 DEF Next

\* The queue is empty whenever "stopped" is stored, and stays so.
LEMMA EmptyStep ==
  TypeOK /\ MutexInv /\ OwnerInv /\ NativeInv /\ StopInv /\ EmptyInv /\ ExecInv /\ [Next]_vars
    => EmptyInv'
  <1> SUFFICES ASSUME TypeOK, MutexInv, OwnerInv, NativeInv, StopInv, EmptyInv, ExecInv,
                      [Next]_vars
               PROVE  EmptyInv'
    OBVIOUS
  <1> USE DEF TypeOK, MutexInv, OwnerInv, NativeInv, StopInv, EmptyInv,
      Joiners, JoinPoints,
              StartPoints, StopPoints, DrainPoints, StoppedHoldsNoTask, lifeVars, threadVars,
              callerVars, taskVars, queueVars, Enter, Goto, ServerGoto
  <1>1. ASSUME NEW c \in Callers, CallerCall(c) PROVE EmptyInv'
    <2>1. CASE StartCall(c) BY <2>1 DEF StartCall
    <2>2. CASE StopCall(c) BY <2>2 DEF StopCall
    <2>3. CASE RequestStop(c) BY <2>3 DEF RequestStop, RequestStopStore
    <2>4. CASE Post(c) BY <2>4 DEF Post, Push
    <2>5. CASE InvokePush(c) BY <2>5 DEF InvokePush, Push
    <2> QED BY <1>1, <2>1, <2>2, <2>3, <2>4, <2>5 DEF CallerCall
  <1>2. ASSUME NEW c \in Callers, CallerStep(c) PROVE EmptyInv'
    <2>1. CASE StartInvalid(c) BY <2>1 DEF StartInvalid
    <2>2. CASE StartLock(c) BY <2>2 DEF StartLock
    <2>3. CASE StopLock(c) BY <2>3 DEF StopLock
    <2>4. CASE StartAlreadyRunning(c) BY <2>4 DEF StartAlreadyRunning
    <2>5. CASE StartTakeStale(c) BY <2>5 DEF StartTakeStale
    <2>6. CASE StartStaleJoined(c) BY <2>6 DEF StartStaleJoined, Join
    <2>7. CASE StartSpawn(c) BY <2>7 DEF StartSpawn
    <2>8. CASE StartRunning(c) BY <2>8 DEF StartRunning
    <2>9. CASE StartNotRunning(c) BY <2>9 DEF StartNotRunning
    <2>10. CASE StartTimeout(c) BY <2>10 DEF StartTimeout
    <2>11. CASE StartJoined(c) BY <2>11 DEF StartJoined, Join
    <2>12. CASE RequestStopEnd(c) BY <2>12 DEF RequestStopEnd, StoppingState
    <2>13. CASE StopRequest(c) BY <2>13 DEF StopRequest, RequestStopStore
    <2>14. CASE StopRequested(c) BY <2>14 DEF StopRequested, StoppingState
    <2>15. CASE StopNothing(c) BY <2>15 DEF StopNothing
    <2>16. CASE StopTakeThread(c) BY <2>16 DEF StopTakeThread, StoppingState
    <2>17. CASE StopJoined(c) BY <2>17 DEF StopJoined, Join
    <2>18. CASE StopFailPending(c) BY <2>18 DEF StopFailPending,
        FailPendingTasks, Completed
    <2>19. CASE StopEnd(c) BY <2>19 DEF StopEnd
    <2>20. CASE InvokeDone(c) BY <2>20 DEF InvokeDone, InvokeReturn
    <2>21. CASE InvokeTimeout(c) BY <2>21 DEF InvokeTimeout, InvokeReturn,
        CancelWins
    <2>22. CASE InvokeTimeoutLate(c) BY <2>22 DEF InvokeTimeoutLate, CancelWins
    <2> QED BY <1>2, <2>1, <2>2, <2>3, <2>4, <2>5, <2>6, <2>7, <2>8, <2>9,
        <2>10, <2>11, <2>12, <2>13, <2>14, <2>15, <2>16, <2>17, <2>18, <2>19,
        <2>20, <2>21, <2>22 DEF CallerStep
  <1>3. ASSUME SrvStep PROVE EmptyInv'
    <2>1. CASE SrvEntry BY <2>1 DEF SrvEntry
    <2>2. CASE SrvSetup BY <2>2 DEF SrvSetup
    <2>3. CASE SrvSetupThrow BY <2>3 DEF SrvSetupThrow
    <2>4. CASE SrvPublishRegistry BY <2>4 DEF SrvPublishRegistry
    <2>5. CASE SrvIterate BY <2>5 DEF SrvIterate
    <2>6. CASE SrvThrow BY <2>6 DEF SrvThrow
    <2>7. CASE SrvAnnounce BY <2>7 DEF SrvAnnounce, AnnouncedState
    <2>8. CASE SrvLoop BY <2>8 DEF SrvLoop, LoopExit
    <2>9. CASE SrvTakeTask BY <2>9 DEF SrvTakeTask, RunWins, Completed
    <2>10. CASE SrvFinishTask BY <2>10 DEF SrvFinishTask, Completed
    <2>11. CASE SrvDrained BY <2>11 DEF SrvDrained
    <2>12. CASE SrvDestroyNative BY <2>12 DEF SrvDestroyNative
    <2>13. CASE SrvClearRegistry BY <2>13 DEF SrvClearRegistry
    <2>14. CASE SrvFailPending BY <2>14 DEF SrvFailPending, FailPendingTasks,
        Completed
    <2>15. CASE SrvSetStopped BY <2>15 DEF SrvSetStopped
    <2>16. CASE SrvSetFailure BY <2>16 DEF SrvSetFailure
    <2>17. CASE SrvExit BY <2>17 DEF SrvExit
    <2>18. CASE CallbackStopReturn BY <2>18 DEF CallbackStopReturn,
        StoppingState
    <2> QED BY <1>3, <2>1, <2>2, <2>3, <2>4, <2>5, <2>6, <2>7, <2>8, <2>9,
        <2>10, <2>11, <2>12, <2>13, <2>14, <2>15, <2>16, <2>17,
        <2>18 DEF SrvStep
  <1>4. ASSUME CallbackStep PROVE EmptyInv'
    <2>1. CASE CallbackRequestStop BY <2>1 DEF CallbackRequestStop,
        StoppingState, InCallback
    <2>2. CASE CallbackPost BY <2>2 DEF CallbackPost, Push, InCallback
    <2>3. CASE CallbackInvoke BY <2>3 DEF CallbackInvoke, InCallback
    <2>4. CASE CallbackStop BY <2>4 DEF CallbackStop, InCallback
    <2> QED BY <1>4, <2>1, <2>2, <2>3, <2>4 DEF CallbackStep
  <1>5. CASE UNCHANGED vars \/ Quiescent
    BY <1>5 DEF vars, Quiescent
  <1> QED BY <1>1, <1>2, <1>3, <1>4, <1>5 DEF Next

-----------------------------------------------------------------------------
(* Sequences of tasks                                                      *)

\* Appending a task adds it to the set of those in the sequence; a task larger
\* than all keeps the order.
LEMMA AppendTask ==
  ASSUME NEW s \in Seq(TaskId), NEW t \in TaskId
  PROVE  /\ ToSet(Append(s, t)) = ToSet(s) \cup {t}
         /\ Increasing(s) /\ (\A u \in ToSet(s) : u < t) => Increasing(Append(s, t))
  <1>0. /\ DOMAIN Append(s, t) = 1..(Len(s) + 1) /\ DOMAIN s = 1..Len(s) /\ Len(s) \in Nat
        /\ \A i \in 1..Len(s) : Append(s, t)[i] = s[i]
        /\ Append(s, t)[Len(s) + 1] = t
    BY AppendProperties
  <1>1. ToSet(Append(s, t)) = ToSet(s) \cup {t}
    <2>1. ASSUME NEW x \in ToSet(Append(s, t)) PROVE x \in ToSet(s) \cup {t}
      BY <1>0, <2>1 DEF ToSet
    <2>2. ASSUME NEW x \in ToSet(s) PROVE x \in ToSet(Append(s, t))
      BY <1>0, <2>2 DEF ToSet
    <2>3. t \in ToSet(Append(s, t))
      BY <1>0 DEF ToSet
    <2> QED BY <2>1, <2>2, <2>3
  <1>2. ASSUME Increasing(s), \A u \in ToSet(s) : u < t
        PROVE  Increasing(Append(s, t))
    <2> SUFFICES ASSUME NEW i \in DOMAIN Append(s, t), NEW j \in DOMAIN Append(s, t), i < j
                 PROVE  Append(s, t)[i] < Append(s, t)[j]
      BY DEF Increasing
    <2>1. i \in 1..Len(s) /\ j \in 1..(Len(s) + 1)
      OBVIOUS
    <2>2. CASE j = Len(s) + 1
      BY <1>2, <2>1, <2>2 DEF ToSet
    <2>3. CASE j # Len(s) + 1
      BY <1>2, <2>1, <2>3 DEF Increasing
    <2> QED BY <2>2, <2>3
  <1> QED BY <1>1, <1>2

\* The first of an ordered sequence is smaller than the others, so dropping it
\* takes it out of the set.
LEMMA DropFirst ==
  ASSUME NEW s \in Seq(TaskId), s # <<>>, Increasing(s)
  PROVE  /\ ToSet(Tail(s)) = ToSet(s) \ {Head(s)}
         /\ Head(s) \in ToSet(s) /\ \A t \in ToSet(s) : Head(s) <= t
         /\ Increasing(Tail(s))
  <1> USE DEF TaskId
  <1>1. Len(s) \in Nat /\ Len(s) >= 1 /\ DOMAIN s = 1..Len(s) /\ Head(s) = s[1]
    OBVIOUS
  <1>2. /\ Tail(s) \in Seq(TaskId) /\ DOMAIN Tail(s) = 1..(Len(s) - 1)
        /\ \A i \in 1..(Len(s) - 1) : Tail(s)[i] = s[i + 1]
    BY <1>1, HeadTailProperties
  <1>3. \A i \in 2..Len(s) : s[1] < s[i]
    BY <1>1 DEF Increasing
  <1>4. \A i \in 1..Len(s) : s[i] \in Int
    <2>1. \A i \in 1..Len(s) : s[i] \in TaskId
      BY <1>1, ElementOfSeq
    <2> QED BY <2>1, ServerAssumption
  <1>5. ToSet(Tail(s)) = {s[i] : i \in 2..Len(s)}
    <2>1. ASSUME NEW x \in ToSet(Tail(s)) PROVE x \in {s[i] : i \in 2..Len(s)}
      <3>1. PICK i \in 1..(Len(s) - 1) : x = Tail(s)[i]
        BY <1>2, <2>1 DEF ToSet
      <3>2. x = s[i + 1] /\ i + 1 \in 2..Len(s)
        BY <1>1, <1>2, <3>1
      <3> QED BY <3>2
    <2>2. ASSUME NEW i \in 2..Len(s) PROVE s[i] \in ToSet(Tail(s))
      <3>1. i - 1 \in DOMAIN Tail(s) /\ Tail(s)[i - 1] = s[i]
        BY <1>1, <1>2
      <3> QED BY <3>1 DEF ToSet
    <2> QED BY <2>1, <2>2
  <1>6. ToSet(Tail(s)) = ToSet(s) \ {Head(s)}
    <2>1. ASSUME NEW x \in ToSet(s), x # s[1] PROVE x \in {s[i] : i \in 2..Len(s)}
      <3>1. PICK i \in 1..Len(s) : x = s[i]
        BY <1>1, <2>1 DEF ToSet
      <3> QED BY <1>1, <2>1, <3>1
    <2>2. ASSUME NEW i \in 2..Len(s) PROVE s[i] \in ToSet(s) /\ s[i] # s[1]
      BY <1>1, <1>3, <1>4 DEF ToSet
    <2> QED BY <1>1, <1>5, <2>1, <2>2
  <1>7. Head(s) \in ToSet(s) /\ \A t \in ToSet(s) : Head(s) <= t
    BY <1>1, <1>3, <1>4 DEF ToSet
  <1>8. Increasing(Tail(s))
    BY <1>1, <1>2 DEF Increasing
  <1> QED BY <1>6, <1>7, <1>8

\* Nothing is in the empty sequence.
LEMMA NoTask == ToSet(<<>>) = {} /\ Increasing(<<>>)
  BY DEF ToSet, Increasing

-----------------------------------------------------------------------------
(* The steps that concern tasks                                            *)

SameWaiters ==
  /\ UNCHANGED mine
  /\ \A c \in Callers :
       pc'[c] \in {"invoke", "invokeLate"} <=> pc[c] \in {"invoke", "invokeLate"}

TaskQuiet == UNCHANGED <<taskVars, queueVars>> /\ SameWaiters
Posted == Push(FALSE) /\ SameWaiters
Discarded == FailPendingTasks /\ pending = <<>> /\ SameWaiters

\* A step leaves the tasks alone, or posts one, or fails those in the queue, or is
\* one of a few others.
LEMMA TaskCases ==
  ASSUME TypeOK, ThreadInv, [Next]_vars
  PROVE  \/ TaskQuiet \/ Posted \/ Discarded
         \/ \E c \in Callers : InvokePush(c) \/ InvokeDone(c) \/ InvokeTimeout(c)
         \/ SrvLoop \/ SrvTakeTask \/ SrvFinishTask \/ CallbackInvoke
  <1> USE DEF TypeOK, TaskQuiet, SameWaiters, lifeVars, threadVars,
      callerVars, taskVars,
              queueVars, Enter, Goto
  <1>1. ASSUME NEW c \in Callers, CallerCall(c)
        PROVE  TaskQuiet \/ Posted \/ InvokePush(c)
    BY <1>1 DEF CallerCall, StartCall, StopCall, RequestStop,
        RequestStopStore, Post, Posted
  <1>2. ASSUME NEW c \in Callers, CallerStep(c)
        PROVE  TaskQuiet \/ Discarded \/ InvokeDone(c) \/ InvokeTimeout(c)
    <2>1. CASE StopFailPending(c)
      <3>1. srv = "none"
        BY <2>1 DEF StopFailPending, ThreadInv, OwnerInv
      <3>2. pending = <<>>
        BY <3>1 DEF ThreadInv, EmptyInv, DrainPoints
      <3> QED BY <2>1, <3>2 DEF StopFailPending, Discarded
    <2>2. CASE ~StopFailPending(c) /\ ~InvokeDone(c) /\ ~InvokeTimeout(c)
      BY <1>2, <2>2 DEF CallerStep, StartInvalid, StartLock, StopLock,
           StartAlreadyRunning, StartTakeStale, StartStaleJoined, StartSpawn,
           StartRunning, StartNotRunning, StartTimeout, StartJoined, Join,
           RequestStopEnd, StopRequest, RequestStopStore, StopRequested, StopNothing,
           StopTakeThread, StopJoined, StopEnd, InvokeTimeoutLate
    <2> QED BY <2>1, <2>2
  <1>3. ASSUME SrvStep
        PROVE  TaskQuiet \/ Discarded \/ SrvLoop \/ SrvTakeTask \/ SrvFinishTask
    <2>1. CASE SrvFailPending
      <3>1. srv \in {"failPending", "failFailPending"} /\ FailPendingTasks /\ UNCHANGED callerVars
        BY <2>1 DEF SrvFailPending, ServerGoto
      <3>2. pending = <<>>
        BY <3>1 DEF ThreadInv, EmptyInv, DrainPoints
      <3> QED BY <3>1, <3>2 DEF Discarded
    <2>2. CASE ~SrvFailPending /\ ~SrvLoop /\ ~SrvTakeTask /\ ~SrvFinishTask
      BY <1>3, <2>2 DEF SrvStep, SrvEntry, SrvSetup, SrvSetupThrow,
           SrvPublishRegistry, SrvIterate, SrvThrow, SrvAnnounce, SrvDrained,
           SrvDestroyNative, SrvClearRegistry, SrvSetStopped, SrvSetFailure,
           SrvExit, CallbackStopReturn
    <2> QED BY <2>1, <2>2
  <1>4. ASSUME CallbackStep PROVE TaskQuiet \/ Posted \/ CallbackInvoke
    BY <1>4 DEF CallbackStep, CallbackRequestStop, CallbackPost, CallbackStop,
        Posted
  <1>5. ASSUME UNCHANGED vars \/ Quiescent PROVE TaskQuiet
    BY <1>5 DEF vars, Quiescent
  <1> HIDE DEF TypeOK, TaskQuiet, SameWaiters, Enter, Goto
  <1> QED BY <1>1, <1>2, <1>3, <1>4, <1>5 DEF Next

\* Task accepted + 1 becomes the last of those that wait.
LEMMA PushEffect ==
  ASSUME TypeOK, QueueOrder, TaskStateInv, NEW w \in BOOLEAN, Push(w)
  PROVE  /\ accepted + 1 \in TaskId /\ accepted + 1 \notin Waiting
         /\ Waiting' = Waiting \cup {accepted + 1} /\ QueueOrder'
  <1>1. accepted + 1 \in TaskId /\ accepted \in Nat
    BY ServerAssumption DEF TypeOK, Push, TaskId
  <1>2. queue' = Append(queue, accepted + 1) /\ pending' = pending
    BY DEF Push
  <1>3. queue \in Seq(TaskId) /\ pending \in Seq(TaskId)
    BY DEF TypeOK
  <1>4. Waiting \subseteq TaskId
    BY <1>3 DEF Waiting, ToSet
  <1>5. \A t \in Waiting : t < accepted + 1
    BY <1>1, <1>4 DEF TaskStateInv, TaskId
  <1>6. ToSet(queue') = ToSet(queue) \cup {accepted + 1}
    BY <1>1, <1>2, <1>3, AppendTask
  <1>7. Increasing(queue')
    BY <1>1, <1>2, <1>3, <1>5, AppendTask DEF QueueOrder, Waiting
  <1>8. QueueOrder'
    BY <1>2, <1>5, <1>6, <1>7 DEF QueueOrder, Waiting
  <1> QED BY <1>1, <1>2, <1>5, <1>6, <1>8 DEF Waiting

\* The first of the tasks swapped out was accepted before all others that wait.
LEMMA FirstWaits ==
  ASSUME TypeOK, QueueOrder, pending # <<>>
  PROVE  /\ Head(pending) \in TaskId \cap Waiting
         /\ Head(pending) \notin ToSet(queue)
         /\ \A t \in Waiting : Head(pending) <= t
  <1>1. queue \in Seq(TaskId) /\ pending \in Seq(TaskId)
    BY DEF TypeOK
  <1>2. Head(pending) \in ToSet(pending) /\ \A t \in ToSet(pending) : Head(pending) <= t
    BY <1>1, DropFirst DEF QueueOrder
  <1>3. ToSet(pending) \subseteq TaskId /\ ToSet(queue) \subseteq TaskId
    BY <1>1 DEF ToSet
  <1>4. \A u \in ToSet(queue) : Head(pending) < u
    BY <1>2 DEF QueueOrder
  <1>5. Head(pending) \notin ToSet(queue)
    BY <1>2, <1>3, <1>4, ServerAssumption DEF TaskId
  <1>6. \A t \in Waiting : Head(pending) <= t
    BY <1>2, <1>3, <1>4, ServerAssumption DEF Waiting, TaskId
  <1> QED BY <1>2, <1>3, <1>5, <1>6 DEF Waiting

\* Taking it leaves the others in order.
LEMMA DropEffect ==
  ASSUME TypeOK, QueueOrder, pending # <<>>, pending' = Tail(pending), queue' = queue
  PROVE  Waiting' = Waiting \ {Head(pending)} /\ QueueOrder'
  <1>1. pending \in Seq(TaskId)
    BY DEF TypeOK
  <1>2. /\ ToSet(pending') = ToSet(pending) \ {Head(pending)}
        /\ Increasing(pending')
    BY <1>1, DropFirst DEF QueueOrder
  <1>3. QueueOrder'
    BY <1>2 DEF QueueOrder
  <1> QED BY <1>2, <1>3, FirstWaits DEF Waiting

\* The invariant of the tasks without their order, which the lemmas above settle.
TaskRest == TaskStateInv /\ ExecInv /\ CompletionInv /\ WaiterInv

\* TaskInv is preserved by every step.
LEMMA TaskStep ==
  TypeOK /\ TypeOK' /\ ThreadInv /\ TaskInv /\ [Next]_vars => TaskInv'
  <1> SUFFICES ASSUME TypeOK, TypeOK', ThreadInv, TaskInv, [Next]_vars PROVE TaskInv'
    OBVIOUS
  <1>a. QueueOrder /\ TaskStateInv /\ ExecInv /\ CompletionInv /\ WaiterInv
    BY DEF TaskInv
  <1>b. /\ accepted \in Nat /\ exec \in {0} \cup TaskId
        /\ TaskId \subseteq Nat \ {0}
        /\ mine \in [Callers -> {0} \cup TaskId] /\ pc \in [Callers -> CallerPoints]
        /\ taskState \in [TaskId -> QueuedTaskState]
        /\ waited \in [TaskId -> BOOLEAN]
        /\ done \in [TaskId -> {"no", "ok", "error"}]
        /\ outcome \in [TaskId -> {"none", "ok", "error", "timedOut"}]
        /\ runs \in [TaskId -> Nat]
    BY ServerAssumption DEF TypeOK, TaskId
  <1>c. Waiting \subseteq TaskId
    BY DEF Waiting, ToSet, TypeOK
  <1>d. SUFFICES QueueOrder' /\ TaskRest'
    BY DEF TaskInv, TaskRest
  <1>1. CASE TaskQuiet
    BY <1>1, <1>a DEF TaskQuiet, SameWaiters, taskVars, queueVars, TaskRest,
        QueueOrder,
         TaskStateInv, ExecInv, CompletionInv, WaiterInv, Waiting
  <1>2. ASSUME NEW w \in BOOLEAN, Push(w)
        PROVE  QueueOrder' /\ TaskStateInv' /\ ExecInv' /\ CompletionInv'
    <2>1. /\ accepted + 1 \in TaskId /\ accepted + 1 \notin Waiting
          /\ Waiting' = Waiting \cup {accepted + 1} /\ QueueOrder'
      BY <1>2, <1>a, PushEffect
    <2>2. taskState[accepted + 1] = "unused"
      BY <1>a, <1>b, <2>1 DEF TaskStateInv
    <2>3. TaskStateInv'
      BY <1>2, <1>a, <1>b, <2>1, <2>2 DEF TaskStateInv, Push
    <2>4. ExecInv'
      BY <1>2, <1>a, <1>b, <2>1, <2>2 DEF ExecInv, Push
    <2>5. CompletionInv'
      BY <1>2, <1>a, <1>b, <2>1, <2>2 DEF CompletionInv, Push
    <2> QED BY <2>1, <2>3, <2>4, <2>5
  <1>3. CASE Posted
    <2>0. accepted + 1 \in TaskId
      BY <1>3, <1>a, PushEffect DEF Posted
    <2>1. taskState[accepted + 1] = "unused" /\ accepted + 1 \in TaskId
      BY <1>a, <1>b, <2>0 DEF TaskStateInv
    <2>2. WaiterInv'
      BY <1>3, <1>a, <1>b, <2>1 DEF Posted, Push, SameWaiters, WaiterInv
    <2> QED BY <1>2, <1>3, <2>2 DEF Posted, TaskRest
  <1>4. ASSUME NEW c \in Callers, InvokePush(c) PROVE QueueOrder' /\ TaskRest'
    <2>0. accepted + 1 \in TaskId
      BY <1>4, <1>a, PushEffect DEF InvokePush
    <2>1. taskState[accepted + 1] = "unused" /\ accepted + 1 \in TaskId
      BY <1>a, <1>b, <2>0 DEF TaskStateInv
    <2>2. outcome[accepted + 1] = "none"
      BY <1>a, <1>b, <2>1 DEF CompletionInv
    <2>3. WaiterInv'
      BY <1>4, <1>a, <1>b, <2>1, <2>2 DEF InvokePush, Enter, Push, WaiterInv
    <2> QED BY <1>2, <1>4, <2>3 DEF InvokePush, TaskRest
  <1>5. CASE Discarded
    <2>1. Waiting' = {} /\ QueueOrder' /\ Waiting = ToSet(queue)
      BY <1>5, NoTask DEF Discarded, FailPendingTasks, Waiting, QueueOrder
    <2>2. TaskStateInv'
      BY <1>5, <1>a, <1>b, <2>1 DEF Discarded, FailPendingTasks, TaskStateInv
    <2>3. ExecInv'
      BY <1>5, <1>a DEF Discarded, FailPendingTasks, ExecInv
    <2>4. CompletionInv'
      BY <1>5, <1>a, <1>b, <2>1 DEF Discarded, FailPendingTasks, Completed,
           CompletionInv, TaskStateInv, ExecInv
    <2>5. WaiterInv'
      BY <1>5, <1>a DEF Discarded, FailPendingTasks, SameWaiters, WaiterInv
    <2> QED BY <2>1, <2>2, <2>3, <2>4, <2>5 DEF TaskRest
  <1>6. ASSUME NEW c \in Callers, InvokeDone(c) PROVE QueueOrder' /\ TaskRest'
    <2>1. mine[c] \in TaskId /\ done[mine[c]] # "no" /\ outcome[mine[c]] = "none"
      BY <1>6, <1>a, <1>b DEF InvokeDone, WaiterInv
    <2>2. QueueOrder' /\ TaskStateInv' /\ ExecInv' /\ Waiting' = Waiting
      BY <1>6, <1>a DEF InvokeDone, InvokeReturn, queueVars, QueueOrder,
          TaskStateInv,
           ExecInv, Waiting
    <2>3. CompletionInv'
      BY <1>6, <1>a, <1>b, <2>1, <2>2 DEF InvokeDone, InvokeReturn,
          CompletionInv, WaiterInv
    <2>4. WaiterInv'
      BY <1>6, <1>a, <1>b, <2>1 DEF InvokeDone, InvokeReturn, Goto, WaiterInv
    <2> QED BY <2>2, <2>3, <2>4 DEF TaskRest
  <1>7. ASSUME NEW c \in Callers, InvokeTimeout(c) PROVE QueueOrder' /\ TaskRest'
    <2>1. /\ mine[c] \in TaskId /\ outcome[mine[c]] = "none"
          /\ taskState[mine[c]] = "queued"
      BY <1>7, <1>a, <1>b DEF InvokeTimeout, CancelWins, WaiterInv
    <2>2. QueueOrder' /\ Waiting' = Waiting
      BY <1>7, <1>a DEF InvokeTimeout, InvokeReturn, queueVars, QueueOrder,
          Waiting
    <2>3. TaskStateInv'
      BY <1>7, <1>a, <1>b, <2>1, <2>2 DEF InvokeTimeout, InvokeReturn,
          queueVars,
           TaskStateInv
    <2>4. ExecInv'
      BY <1>7, <1>a, <1>b, <2>1 DEF InvokeTimeout, InvokeReturn, queueVars,
          ExecInv
    <2>5. CompletionInv'
      BY <1>7, <1>a, <1>b, <2>1, <2>2 DEF InvokeTimeout, InvokeReturn,
          CompletionInv
    <2>6. WaiterInv'
      BY <1>7, <1>a, <1>b, <2>1 DEF InvokeTimeout, InvokeReturn, Goto,
          WaiterInv
    <2> QED BY <2>2, <2>3, <2>4, <2>5, <2>6 DEF TaskRest
  <1>8. CASE SrvLoop
    <2>1. srv = "loop" /\ pending' = queue /\ queue' = <<>>
      BY <1>8 DEF SrvLoop, ServerGoto
    <2>2. pending = <<>> /\ exec = 0
      BY <2>1 DEF ThreadInv, EmptyInv, NativeInv, DrainPoints
    <2>3. QueueOrder' /\ Waiting' = Waiting
      BY <1>a, <2>1, <2>2, NoTask DEF QueueOrder, Waiting
    <2> QED BY <1>8, <1>a, <2>2, <2>3 DEF SrvLoop, callerVars, taskVars,
        TaskRest,
              TaskStateInv, ExecInv, CompletionInv, WaiterInv
  <1>9. CASE SrvTakeTask
    <2>1. exec = 0 /\ pending # <<>> /\ UNCHANGED <<mine, pc, queue, accepted, waited, outcome>>
      BY <1>9 DEF SrvTakeTask, callerVars
    <2>2. Head(pending) \in TaskId \cap Waiting
      BY <1>a, <2>1, FirstWaits
    <2>3. CASE RunWins(Head(pending))
      <3>1. /\ taskState[Head(pending)] = "queued"
            /\ taskState' = [taskState EXCEPT ![Head(pending)] = "running"]
            /\ runs' = [runs EXCEPT ![Head(pending)] = @ + 1]
            /\ exec' = Head(pending) /\ UNCHANGED <<pending, done>>
        BY <1>9, <2>3 DEF SrvTakeTask, RunWins
      <3>2. QueueOrder' /\ Waiting' = Waiting
        BY <1>a, <2>1, <3>1 DEF QueueOrder, Waiting
      <3>3. TaskStateInv'
        BY <1>a, <1>b, <2>1, <2>2, <3>1, <3>2 DEF TaskStateInv
      <3>4. ExecInv'
        BY <1>b, <2>1, <2>2, <3>1 DEF ExecInv
      <3>5. CompletionInv'
        BY <1>a, <1>b, <2>1, <2>2, <3>1, <3>2 DEF CompletionInv
      <3>6. WaiterInv'
        BY <1>a, <1>b, <2>1, <2>2, <3>1 DEF WaiterInv
      <3> QED BY <3>2, <3>3, <3>4, <3>5, <3>6 DEF TaskRest
    <2>4. CASE ~RunWins(Head(pending))
      <3>1. /\ taskState[Head(pending)] # "queued"
            /\ done' = Completed({Head(pending)}, "error") /\ pending' = Tail(pending)
            /\ UNCHANGED <<taskState, runs, exec>>
        BY <1>9, <2>4 DEF SrvTakeTask, RunWins
      <3>2. QueueOrder' /\ Waiting' = Waiting \ {Head(pending)}
        BY <1>a, <2>1, <3>1, DropEffect
      <3>3. taskState[Head(pending)] = "cancelled"
        BY <1>a, <1>b, <2>1, <2>2, <3>1 DEF TaskStateInv
      <3>4. TaskStateInv'
        BY <1>a, <1>b, <2>1, <2>2, <3>1, <3>2 DEF TaskStateInv
      <3>5. ExecInv'
        BY <2>1, <3>1 DEF ExecInv
      <3>6. CompletionInv'
        BY <1>a, <1>b, <2>1, <2>2, <3>1, <3>2, <3>3 DEF CompletionInv,
            Completed
      <3>7. WaiterInv'
        BY <1>a, <2>1, <3>1 DEF WaiterInv
      <3> QED BY <3>2, <3>4, <3>5, <3>6, <3>7 DEF TaskRest
    <2> QED BY <2>3, <2>4
  <1>10. CASE SrvFinishTask
    <2>1. /\ exec # 0 /\ pending' = Tail(pending) /\ exec' = 0
          /\ UNCHANGED <<mine, pc, queue, accepted, taskState, waited, outcome, runs>>
      BY <1>10 DEF SrvFinishTask, callerVars
    <2>2. PICK result \in {"ok", "error"} : done' = Completed({exec}, result)
      BY <1>10 DEF SrvFinishTask
    <2>3. pending # <<>> /\ exec = Head(pending) /\ taskState[exec] = "running" /\ exec \in TaskId
      BY <1>a, <1>b, <2>1 DEF ExecInv
    <2>4. QueueOrder' /\ Waiting' = Waiting \ {exec}
      BY <1>a, <2>1, <2>3, DropEffect
    <2>5. TaskStateInv'
      BY <1>a, <1>b, <2>1, <2>3, <2>4 DEF TaskStateInv
    <2>6. ExecInv'
      BY <2>1 DEF ExecInv
    <2>7. CompletionInv'
      BY <1>a, <1>b, <2>1, <2>2, <2>3, <2>4 DEF CompletionInv, Completed
    <2>8. WaiterInv'
      BY <1>a, <2>1 DEF WaiterInv
    <2> QED BY <2>4, <2>5, <2>6, <2>7, <2>8 DEF TaskRest
  <1>11. CASE CallbackInvoke
    <2>1. /\ accepted + 1 \in TaskId /\ accepted' = accepted + 1
          /\ UNCHANGED <<pc, mine, queue, pending, exec, waited, done>>
          /\ taskState' = [taskState EXCEPT ![accepted + 1] = "inline"]
          /\ runs' = [runs EXCEPT ![accepted + 1] = 1]
      BY <1>11, <1>b, ServerAssumption DEF CallbackInvoke, callerVars,
          queueVars, TaskId, TypeOK
    <2>2. PICK result \in {"ok", "error"} : outcome' = [outcome EXCEPT ![accepted + 1] = result]
      BY <1>11 DEF CallbackInvoke
    <2>3. QueueOrder' /\ Waiting' = Waiting
      BY <1>a, <2>1 DEF QueueOrder, Waiting
    <2>4. taskState[accepted + 1] = "unused"
      BY <1>a, <1>b, <2>1 DEF TaskStateInv
    <2>5. TaskStateInv'
      BY <1>a, <1>b, <2>1, <2>3, <2>4 DEF TaskStateInv
    <2>6. ExecInv'
      BY <1>a, <1>b, <2>1, <2>4 DEF ExecInv
    <2>7. CompletionInv'
      BY <1>a, <1>b, <2>1, <2>2, <2>3, <2>4 DEF CompletionInv
    <2>8. WaiterInv'
      BY <1>a, <1>b, <2>1, <2>2, <2>4 DEF WaiterInv
    <2> QED BY <2>3, <2>5, <2>6, <2>7, <2>8 DEF TaskRest
  <1> QED BY <1>1, <1>3, <1>4, <1>5, <1>6, <1>7, <1>8, <1>9, <1>10, <1>11,
      TaskCases

-----------------------------------------------------------------------------
(* Theorems                                                                *)

\* All that is known of every reachable state.
ServerInv == TypeOK /\ ThreadInv /\ TaskInv

\* The invariant holds initially and every step preserves it.
LEMMA ServerInvariant == Spec => []ServerInv
  <1>1. Init => ServerInv
    <2> SUFFICES ASSUME Init PROVE ServerInv
      OBVIOUS
    <2>1. TypeOK
      <3>1. /\ pc \in [Callers -> CallerPoints] /\ mine \in [Callers -> {0} \cup TaskId]
            /\ calls \in 0..MaxCalls /\ accepted \in 0..MaxTasks
        BY ServerAssumption DEF Init, CallerPoints
      <3>2. /\ taskState \in [TaskId -> QueuedTaskState]
            /\ waited \in [TaskId -> BOOLEAN]
            /\ done \in [TaskId -> {"no", "ok", "error"}]
            /\ outcome \in [TaskId -> {"none", "ok", "error", "timedOut"}]
            /\ runs \in [TaskId -> Nat]
        BY DEF Init, QueuedTaskState
      <3>3. /\ validOptions \in BOOLEAN /\ stopRequested \in BOOLEAN /\ joinable \in BOOLEAN
            /\ native \in BOOLEAN /\ registry \in BOOLEAN
        BY DEF Init
      <3>4. /\ state \in ServerState /\ srv \in ServerPoints
            /\ transition \in SUBSET Callers /\ lifecycle \in SUBSET Callers
            /\ queue \in Seq(TaskId) /\ pending \in Seq(TaskId) /\ exec \in {0} \cup TaskId
        BY DEF Init, ServerState, ServerPoints
      <3> QED BY <3>1, <3>2, <3>3, <3>4 DEF TypeOK
    <2>2. ThreadInv
      BY DEF Init, ThreadInv, MutexInv, OwnerInv, Joiners, JoinPoints,
          StartPoints,
           StopPoints, NativeInv, NativePoints, DrainPoints, StopInv, StopRequestSticks,
           EmptyInv, StoppedHoldsNoTask
    <2>3. Waiting = {} /\ QueueOrder
      BY NoTask DEF Init, Waiting, QueueOrder
    <2>4. TaskStateInv /\ ExecInv /\ CompletionInv /\ WaiterInv
      BY <2>3, ServerAssumption DEF Init, TaskStateInv, ExecInv,
          CompletionInv, WaiterInv,
           TaskId
    <2> QED BY <2>1, <2>2, <2>3, <2>4 DEF ServerInv, TaskInv
  <1>2. ServerInv /\ [Next]_vars => ServerInv'
    <2> SUFFICES ASSUME ServerInv, [Next]_vars PROVE ServerInv'
      OBVIOUS
    <2>1. TypeOK /\ TypeOK'
      BY TypeStep DEF ServerInv, TaskInv
    <2>2. ThreadInv'
      BY <2>1, MutexStep, OwnerStep, NativeStep, StopStep, EmptyStep
         DEF ServerInv, ThreadInv, TaskInv
    <2>3. TaskInv'
      BY <2>1, TaskStep DEF ServerInv
    <2> QED BY <2>1, <2>2, <2>3 DEF ServerInv
  <1> QED BY <1>1, <1>2, PTL DEF Spec

\* Every variable of the server keeps its type.
THEOREM ServerTypeCorrect == Spec => []TypeOK
  <1>1. ServerInv => TypeOK
    BY DEF ServerInv
  <1> QED BY <1>1, ServerInvariant, PTL

\* The server thread always has exactly one owner: the member handle or the one
\* start() or stop() that moved it out to join it.
THEOREM OneOwner == Spec => []ThreadHasOneOwner
  <1>1. ServerInv => ThreadHasOneOwner
    <2> SUFFICES ASSUME ServerInv PROVE ThreadHasOneOwner
      OBVIOUS
    <2> USE DEF ServerInv, ThreadInv, MutexInv, OwnerInv, Joiners
    <2>1. \A c, d \in Joiners : c = d
      BY DEF JoinPoints, StartPoints, StopPoints
    <2>2. CASE srv = "none"
      BY <2>2 DEF ThreadHasOneOwner
    <2>3. CASE srv # "none" /\ joinable
      BY <2>3 DEF ThreadHasOneOwner
    <2>4. CASE srv # "none" /\ ~joinable
      <3>1. PICK c \in Callers : c \in Joiners
        BY <2>4
      <3>2. Joiners = {c}
        BY <2>1, <3>1
      <3> QED BY <2>4, <3>2 DEF ThreadHasOneOwner
    <2> QED BY <2>2, <2>3, <2>4
  <1> QED BY <1>1, ServerInvariant, PTL

\* Callbacks only run with a live native server, and neither it nor the type
\* registry outlives the server thread.
THEOREM NativeServerSafety == Spec => []NativeServerOutlivesCallbacks
  <1>1. ServerInv => NativeServerOutlivesCallbacks
    BY DEF ServerInv, ThreadInv, NativeInv, NativeServerOutlivesCallbacks,
        NativePoints,
           DrainPoints
  <1> QED BY <1>1, ServerInvariant, PTL

\* A stop request made since start() began is never undone by the server thread.
THEOREM StopIsNotUndone == Spec => []StopRequestSticks
  <1>1. ServerInv => StopRequestSticks
    BY DEF ServerInv, ThreadInv, StopInv
  <1> QED BY <1>1, ServerInvariant, PTL

\* A server that reports stopped has no task left, in the queue or swapped out.
THEOREM StoppedIsEmpty == Spec => []StoppedHoldsNoTask
  <1>1. ServerInv => StoppedHoldsNoTask
    BY DEF ServerInv, ThreadInv, EmptyInv
  <1> QED BY <1>1, ServerInvariant, PTL

\* The callback of a task never executes once invoke() has returned for it.
THEOREM CapturesSafety == Spec => []CapturesStayValid
  <1>1. ServerInv => CapturesStayValid
    <2> SUFFICES ASSUME ServerInv, NEW t \in TaskId, outcome[t] # "none", exec = t
                 PROVE  FALSE
      BY DEF CapturesStayValid
    <2>1. exec # 0 /\ TypeOK /\ TaskInv
      BY ServerAssumption DEF ServerInv, TaskId
    <2>2. pending # <<>> /\ t = Head(pending) /\ taskState[t] = "running"
      BY <2>1 DEF TaskInv, ExecInv
    <2>4. t \in Waiting
      BY <2>1, <2>2, FirstWaits DEF TaskInv
    <2> QED BY <2>1, <2>2, <2>4 DEF TaskInv, CompletionInv
  <1> QED BY <1>1, ServerInvariant, PTL

\* The answer of invoke() tells how often the callback was entered, and no task is
\* entered twice.
THEOREM OutcomeSafety == Spec => []OutcomeMatchesExecution
  <1>1. ServerInv => OutcomeMatchesExecution
    BY DEF ServerInv, TaskInv, TaskStateInv, CompletionInv,
        OutcomeMatchesExecution
  <1> QED BY <1>1, ServerInvariant, PTL

-----------------------------------------------------------------------------
(* Server implements TaskContract                                          *)

StageMap == [t \in TaskId |-> Stage(t)]

\* What Stage(t) says of a task: pending exactly while it is queued, neither taken
\* nor given up, and so on.
StageMeaning ==
  \A t \in TaskId :
    /\ Stage(t) = "none" <=> taskState[t] = "unused"
    /\ Stage(t) = "pending" <=> taskState[t] = "queued" /\ t \in Waiting
    /\ Stage(t) = "running" <=> exec = t
    /\ Stage(t) = "ran" <=> taskState[t] = "inline"
                             \/ (taskState[t] = "running" /\ exec # t)
    /\ Stage(t) = "dropped" <=> taskState[t] = "cancelled"
                             \/ (taskState[t] = "queued" /\ t \notin Waiting)
    /\ Stage(t) \in {"none", "pending", "running", "ran", "dropped"}

\* The stages mean this in every state that satisfies the invariant.
LEMMA StageOf == ServerInv => StageMeaning
  <1> SUFFICES ASSUME ServerInv, NEW t \in TaskId
               PROVE  /\ Stage(t) = "none" <=> taskState[t] = "unused"
                      /\ Stage(t) = "pending" <=> taskState[t] = "queued" /\ t \in Waiting
                      /\ Stage(t) = "running" <=> exec = t
                      /\ Stage(t) = "ran" <=> taskState[t] = "inline"
                               \/ (taskState[t] = "running" /\ exec # t)
                      /\ Stage(t) = "dropped" <=> taskState[t] = "cancelled"
                               \/ (taskState[t] = "queued" /\ t \notin Waiting)
                      /\ Stage(t) \in {"none", "pending", "running", "ran", "dropped"}
    BY DEF StageMeaning
  <1>1. taskState[t] \in QueuedTaskState
    BY DEF ServerInv, TypeOK
  <1>2. exec = t => taskState[t] = "running"
    BY ServerAssumption DEF ServerInv, TaskInv, ExecInv, TaskId
  <1> QED BY <1>1, <1>2 DEF Stage, Waiting, QueuedTaskState

\* Every step of the server is a step of the contract or leaves it alone.
LEMMA ContractStep ==
  ServerInv /\ ServerInv' /\ [Next]_vars => [Contract!Next]_(Contract!contractVars)
  <1>m. ServerInv' => StageMeaning'
    BY StageOf, PTL
  <1> SUFFICES ASSUME ServerInv, ServerInv', [Next]_vars
               PROVE  Contract!Next \/ UNCHANGED <<StageMap, outcome>>
    BY DEF Contract!contractVars, StageMap
  <1>a. TypeOK /\ ThreadInv /\ QueueOrder /\ TaskStateInv /\ ExecInv /\ CompletionInv /\ WaiterInv
    BY DEF ServerInv, TaskInv
  <1>b. /\ accepted \in Nat /\ exec \in {0} \cup TaskId
        /\ TaskId \subseteq Nat \ {0}
        /\ mine \in [Callers -> {0} \cup TaskId]
        /\ taskState \in [TaskId -> QueuedTaskState]
        /\ outcome \in [TaskId -> {"none", "ok", "error", "timedOut"}]
    BY ServerAssumption DEF TypeOK, TaskId, ServerInv
  <1>c. StageMeaning /\ StageMeaning'
    BY <1>m, StageOf
  <1>1. CASE TaskQuiet
    BY <1>1 DEF TaskQuiet, taskVars, queueVars, StageMap, Stage
  <1>2. ASSUME NEW w \in BOOLEAN, Push(w) PROVE Contract!Next
    <2>1. /\ accepted + 1 \in TaskId /\ Waiting' = Waiting \cup {accepted + 1}
      BY <1>2, <1>a, PushEffect
    <2>2. taskState[accepted + 1] = "unused"
      BY <1>a, <1>b, <2>1 DEF TaskStateInv
    <2>3. taskState' = [taskState EXCEPT ![accepted + 1] = "queued"] /\ UNCHANGED <<exec, outcome>>
      BY <1>2 DEF Push
    <2>4. \A t \in TaskId : Stage(t)' = IF t = accepted + 1 THEN "pending" ELSE Stage(t)
      BY <1>b, <1>c, <2>1, <2>2, <2>3 DEF StageMeaning
    <2>5. Stage(accepted + 1) = "none"
      BY <1>c, <2>1, <2>2 DEF StageMeaning
    <2>6. Contract!Accept(accepted + 1)
      BY <2>1, <2>3, <2>4, <2>5 DEF Contract!Accept, Contract!Move
    <2> QED BY <2>1, <2>6 DEF Contract!Next
  <1>3. CASE Discarded
    <2> DEFINE S == {t \in TaskId : taskState[t] = "queued" /\ t \in Waiting}
    <2>1. Waiting' = {} /\ UNCHANGED <<taskState, exec, outcome>>
      BY <1>3, NoTask DEF Discarded, FailPendingTasks, Waiting
    <2>2. \A t \in TaskId : Stage(t)' = IF t \in S THEN "dropped" ELSE Stage(t)
      BY <1>b, <1>c, <2>1 DEF StageMeaning
    <2>3. \A t \in S : Stage(t) = "pending"
      BY <1>c DEF StageMeaning
    <2> HIDE DEF S
    <2>4. CASE S = {}
      BY <2>1, <2>2, <2>4 DEF StageMap
    <2>5. CASE S # {}
      <3>1. S \in SUBSET TaskId
        BY DEF S
      <3>2. Contract!Discard(S)
        BY <2>1, <2>2, <2>3, <2>5, <3>1 DEF Contract!Discard
      <3> QED BY <3>1, <3>2 DEF Contract!Next
    <2> QED BY <2>4, <2>5
  <1>4. ASSUME NEW c \in Callers, InvokeDone(c) PROVE Contract!Next
    <2> DEFINE t == mine[c]
    <2>1. t \in TaskId /\ done[t] # "no" /\ outcome[t] = "none"
      BY <1>4, <1>a, <1>b DEF InvokeDone, WaiterInv
    <2>2. outcome' = [outcome EXCEPT ![t] = done[t]] /\ UNCHANGED StageMap
      BY <1>4 DEF InvokeDone, InvokeReturn, queueVars, StageMap, Stage
    <2>3. taskState[t] \in {"queued", "running"} /\ t \notin Waiting
      BY <1>4, <1>a, <1>b, <2>1 DEF InvokeDone, WaiterInv, CompletionInv
    <2>4. exec # t
      BY <1>a, <1>b, <2>1, <2>3, FirstWaits DEF ExecInv
    <2>5. done[t] \in {"ok", "error"} /\ (done[t] = "ok" => taskState[t] = "running")
      BY <1>a, <2>1 DEF CompletionInv, TypeOK
    <2> HIDE DEF t
    <2>6. Stage(t) = "ran" \/ (Stage(t) = "dropped" /\ done[t] = "error")
      BY <1>c, <2>1, <2>3, <2>4, <2>5 DEF StageMeaning
    <2>7. Contract!Answer(t)
      BY <2>1, <2>2, <2>5, <2>6 DEF Contract!Answer, Contract!Reply, StageMap
    <2> QED BY <2>1, <2>7 DEF Contract!Next
  <1>5. ASSUME NEW c \in Callers, InvokeTimeout(c) PROVE Contract!Next
    <2> DEFINE u == mine[c]
    <2>1. /\ u \in TaskId /\ outcome[u] = "none" /\ done[u] = "no" /\ waited[u]
          /\ taskState[u] = "queued"
      BY <1>5, <1>a, <1>b DEF InvokeTimeout, CancelWins, WaiterInv
    <2>2. /\ taskState' = [taskState EXCEPT ![u] = "cancelled"]
          /\ outcome' = [outcome EXCEPT ![u] = "timedOut"]
          /\ exec' = exec /\ Waiting' = Waiting
      BY <1>5 DEF InvokeTimeout, InvokeReturn, queueVars, Waiting
    <2> HIDE DEF u
    <2>3. Stage(u) = "pending"
      BY <1>a, <1>c, <2>1 DEF CompletionInv, StageMeaning
    <2>4. \A t \in TaskId : Stage(t)' = IF t = u THEN "dropped" ELSE Stage(t)
      BY <1>b, <1>c, <2>1, <2>2 DEF StageMeaning
    <2>5. Contract!TimeOut(u)
      BY <2>1, <2>2, <2>3, <2>4 DEF Contract!TimeOut, Contract!Move,
          Contract!Reply
    <2> QED BY <2>1, <2>5 DEF Contract!Next
  <1>6. CASE SrvLoop
    <2>1. srv = "loop" /\ pending' = queue /\ queue' = <<>> /\ UNCHANGED <<exec, taskVars>>
      BY <1>6 DEF SrvLoop, ServerGoto
    <2>2. pending = <<>>
      BY <1>a, <2>1 DEF ThreadInv, EmptyInv, DrainPoints
    <2>3. Waiting' = Waiting
      BY <2>1, <2>2, NoTask DEF Waiting
    <2> QED BY <2>1, <2>3 DEF StageMap, Stage, Waiting, taskVars
  <1>7. CASE SrvTakeTask
    <2> DEFINE h == Head(pending)
    <2>1. exec = 0 /\ pending # <<>> /\ UNCHANGED <<queue, outcome>>
      BY <1>7 DEF SrvTakeTask
    <2>2. h \in TaskId \cap Waiting /\ \A t \in Waiting : h <= t
      BY <1>a, <2>1, FirstWaits
    <2>3. CASE RunWins(h)
      <3>1. /\ taskState[h] = "queued" /\ taskState' = [taskState EXCEPT ![h] = "running"]
            /\ exec' = h /\ Waiting' = Waiting
        BY <1>7, <2>1, <2>3 DEF SrvTakeTask, RunWins, Waiting
      <3> HIDE DEF h
      <3>2. Stage(h) = "pending"
        BY <1>c, <2>2, <3>1 DEF StageMeaning
      <3>3. \A t \in TaskId : Stage(t)' = IF t = h THEN "running" ELSE Stage(t)
        BY <1>b, <1>c, <2>1, <2>2, <3>1 DEF StageMeaning
      <3>4. \A t \in TaskId : Stage(t) # "running" /\ (t < h => Stage(t) # "pending")
        BY <1>b, <1>c, <2>1, <2>2 DEF StageMeaning
      <3>5. Contract!Begin(h)
        BY <2>1, <2>2, <3>2, <3>3, <3>4 DEF Contract!Begin, Contract!Move
      <3> QED BY <2>2, <3>5 DEF Contract!Next
    <2>4. CASE ~RunWins(h)
      <3>1. /\ taskState[h] # "queued" /\ pending' = Tail(pending)
            /\ UNCHANGED <<taskState, exec>>
        BY <1>7, <2>4 DEF SrvTakeTask, RunWins
      <3>2. Waiting' = Waiting \ {h}
        BY <1>a, <2>1, <3>1, DropEffect
      <3> HIDE DEF h
      <3>3. \A t \in TaskId : Stage(t)' = Stage(t)
        BY <1>b, <1>c, <2>1, <2>2, <3>1, <3>2 DEF StageMeaning
      <3> QED BY <2>1, <3>3 DEF StageMap
    <2> QED BY <2>3, <2>4
  <1>8. CASE SrvFinishTask
    <2>1. /\ exec # 0 /\ pending' = Tail(pending) /\ exec' = 0
          /\ UNCHANGED <<queue, taskState, outcome>>
      BY <1>8 DEF SrvFinishTask
    <2>2. pending # <<>> /\ exec = Head(pending) /\ taskState[exec] = "running" /\ exec \in TaskId
      BY <1>a, <1>b, <2>1 DEF ExecInv
    <2>3. Waiting' = Waiting \ {exec}
      BY <1>a, <2>1, <2>2, DropEffect
    <2>4. Stage(exec) = "running"
      BY <1>c, <2>2 DEF StageMeaning
    <2>5. \A t \in TaskId : Stage(t)' = IF t = exec THEN "ran" ELSE Stage(t)
      BY <1>b, <1>c, <2>1, <2>2, <2>3 DEF StageMeaning
    <2>6. Contract!End(exec)
      BY <2>1, <2>2, <2>4, <2>5 DEF Contract!End, Contract!Move
    <2> QED BY <2>2, <2>6 DEF Contract!Next
  <1>9. CASE CallbackInvoke
    <2>1. /\ accepted + 1 \in TaskId /\ UNCHANGED <<queue, pending, exec>>
          /\ taskState' = [taskState EXCEPT ![accepted + 1] = "inline"]
      BY <1>9, <1>a, <1>b, ServerAssumption DEF CallbackInvoke, queueVars,
          TaskId, TypeOK
    <2>2. PICK result \in {"ok", "error"} : outcome' = [outcome EXCEPT ![accepted + 1] = result]
      BY <1>9 DEF CallbackInvoke
    <2>3. taskState[accepted + 1] = "unused" /\ outcome[accepted + 1] = "none"
      BY <1>a, <1>b, <2>1 DEF TaskStateInv, CompletionInv
    <2>4. Waiting' = Waiting
      BY <2>1 DEF Waiting
    <2>5. Stage(accepted + 1) = "none"
      BY <1>c, <2>1, <2>3 DEF StageMeaning
    <2>6. \A t \in TaskId : Stage(t)' = IF t = accepted + 1 THEN "ran" ELSE Stage(t)
      BY <1>b, <1>c, <2>1, <2>3, <2>4 DEF StageMeaning
    <2>7. Contract!RunInline(accepted + 1)
      BY <2>1, <2>2, <2>3, <2>5, <2>6 DEF Contract!RunInline, Contract!Move,
          Contract!Reply
    <2> QED BY <2>1, <2>7 DEF Contract!Next
  <1> QED BY <1>1, <1>2, <1>3, <1>4, <1>5, <1>6, <1>7, <1>8, <1>9, <1>a,
      TaskCases
         DEF Posted, InvokePush

\* The server keeps the contract of post() and invoke(): tasks start in the order of
\* acceptance, one at a time and at most once, what was given up never starts, and an
\* answer tells what happened.
THEOREM ServerKeepsContract == Spec => ImplementsTaskContract
  <1>1. Init => Contract!Init
    BY DEF Init, Contract!Init, Stage
  <1> QED BY <1>1, ContractStep, ServerInvariant, PTL
         DEF Spec, ImplementsTaskContract, Contract!Spec


===============================================================================
