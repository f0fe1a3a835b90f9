------------------------ MODULE RemoteOperationProofs -------------------------
(***************************************************************************)
(* Machine-checked proofs about RemoteOperation, for every number of       *)
(* threads, data sources, outputs and sends.                               *)
(***************************************************************************)
EXTENDS RemoteOperation, TLAPS

-----------------------------------------------------------------------------
(* The inductive invariant                                                 *)

\* A call begins with its send.  Before the future is ready it was not executed
\* and has no result; a success was executed once.
ResultInv ==
  /\ \A i \in Invocations : i > sends => phase[i] = "none"
  /\ \A i \in Invocations :
       /\ phase[i] # "done" => executed[i] = 0 /\ outcome[i] = "none"
       /\ outcome[i] = "success" => executed[i] = 1

\* A collection that waits for a future has one, has not been collected before
\* and is used by no other thread.
WaitInv ==
  \A u \in Users : pc[u] = "collect" =>
    /\ busy[u] \in Collects
    /\ col[busy[u]].inv # Nothing /\ col[busy[u]].status = "SendNotReady"
    /\ \A v \in Users : pc[v] = "collect" /\ v # u => busy[v] # busy[u]

\* What a collection got comes from the result of its invocation.
CollectInv ==
  \A k \in Collects :
    /\ col[k].status \in {"unmade", "SendNotReady"} => col[k].out = 0
    /\ col[k].status = "SendSuccess" => col[k].out = Outputs
    /\ col[k].status = "SendSuccess" \/ col[k].out > 0 =>
         col[k].inv # Nothing /\ outcome[col[k].inv] = "success"

OperationInv == TypeOK /\ ResultInv /\ WaitInv /\ CollectInv /\ NoCallIsAbandoned

-----------------------------------------------------------------------------
(* Frames                                                                  *)

\* The session is touched by requests and by the gate, always within its type.
LEMMA SessionTypes ==
  ASSUME NEW threads, SessionTypeOK(threads), NEW t \in threads
  PROVE  /\ RequestRefused(TRUE) => SessionTypeOK(threads)'
         /\ RequestBegin(t, TRUE) => SessionTypeOK(threads)'
         /\ \A answer \in Answers : RequestEnd(t, answer) => SessionTypeOK(threads)'
  BY DEF SessionTypeOK, RequestRefused, RequestBegin, RequestEnd, Invalidates,
         SessionState, sessionVars, Usable

\* Opening and closing the gate keeps the session's types.
LEMMA GateTypes ==
  ASSUME NEW threads, SessionTypeOK(threads)
  PROVE  /\ CloseGate => SessionTypeOK(threads)'
         /\ \A enabled \in BOOLEAN : SetGate(enabled) => SessionTypeOK(threads)'
         /\ UNCHANGED sessionVars => SessionTypeOK(threads)'
  BY DEF SessionTypeOK, CloseGate, SetGate, sessionVars

-----------------------------------------------------------------------------
(* Every action preserves the invariant                                    *)

\* Dropping a reference leaves the user idle or waiting for an invocation.
LEMMA ReleaseType ==
  ASSUME TypeOK, NEW u \in Users, NEW i \in 0..MaxSends, NEW d, Release(u, i, d)
  PROVE  /\ pc' \in [Users -> {"idle", "call", "calling", "release", "collect"}]
         /\ busy' \in [Users -> AllHandles \cup Collects \cup 0..MaxSends]
         /\ pc'[u] # "collect" /\ (busy'[u] = 0 \/ busy'[u] = i)
         /\ \A v \in Users : v # u => pc'[v] = pc[v] /\ busy'[v] = busy[v]
         /\ i # Nothing /\ phase[i] # "done" /\ OtherOwners(i, d) = {}
              => pc'[u] = "release" /\ busy'[u] = i
  BY RemoteOperationAssumption DEF TypeOK, Release, MustWait, At, Nothing

\* A result changes status and outputs of the collection and nothing else.
LEMMA ResultEffect ==
  ASSUME TypeOK, NEW k \in Collects, CollectResult(k)
  PROVE  /\ col' \in [Collects -> [inv : 0..MaxSends, out : 0..Outputs,
                        status : Final \cup {"unmade", "SendNotReady"}]]
         /\ \A j \in Collects : j # k => col'[j] = col[j]
         /\ col'[k].inv = col[k].inv /\ col'[k].status \in Final
         /\ col'[k].status = "SendSuccess" =>
              col'[k].out = Outputs /\ outcome[col[k].inv] = "success"
         /\ col'[k].out > 0 => outcome[col[k].inv] = "success"
  <1>1. PICK n \in 0..Outputs, s \in Final :
          /\ n > 0 => outcome[col[k].inv] = "success"
          /\ s = "SendSuccess" => n = Outputs /\ outcome[col[k].inv] = "success"
          /\ col' = [col EXCEPT ![k].status = s, ![k].out = n]
    BY DEF CollectResult, CanAssign
  <1>2. /\ col[k] \in [inv : 0..MaxSends, out : 0..Outputs,
                        status : Final \cup {"unmade", "SendNotReady"}]
        /\ col'[k] = [col[k] EXCEPT !.status = s, !.out = n]
        /\ \A j \in Collects : j # k => col'[j] = col[j]
    BY <1>1 DEF TypeOK
  <1>3. /\ col'[k].inv = col[k].inv /\ col'[k].status = s /\ col'[k].out = n
        /\ col'[k] \in [inv : 0..MaxSends, out : 0..Outputs,
                         status : Final \cup {"unmade", "SendNotReady"}]
    BY <1>2
  <1>4. col' \in [Collects -> [inv : 0..MaxSends, out : 0..Outputs,
                     status : Final \cup {"unmade", "SendNotReady"}]]
    BY <1>1, <1>3 DEF TypeOK
  <1> QED BY <1>1, <1>2, <1>3, <1>4

\* Types are preserved.
LEMMA OperationTypeStep == TypeOK /\ [Next]_vars => TypeOK'
  <1> SUFFICES ASSUME TypeOK, [Next]_vars PROVE TypeOK' OBVIOUS
  <1> USE RemoteOperationAssumption
          DEF TypeOK, AllHandles, Invocations, Nothing, NoCollect, Final,
              sendVars, userVars, gateVars, At
  <1>1. CASE UNCHANGED vars
    BY <1>1, GateTypes DEF vars
  <1>2. ASSUME NEW u \in Users, UserBegin(u) PROVE TypeOK'
    <2>1. CASE CallUnprepared(u) \/ CallRead(u)
      <3>1. CASE CallUnprepared(u)
        BY <3>1, GateTypes DEF CallUnprepared
      <3>2. CASE CallRead(u)
        BY <3>2, GateTypes DEF CallRead
      <3> QED BY <2>1, <3>1, <3>2
    <2>2. ASSUME NEW s \in Senders,
                 SendUnprepared(u, s) \/ SendLaunch(u, s) \/ SendFails(u, s)
          PROVE  TypeOK'
      <3>1. CASE SendUnprepared(u, s)
        BY <3>1, GateTypes DEF SendUnprepared, vars
      <3>2. CASE SendLaunch(u, s)
        <4>1. sends + 1 \in 1..MaxSends
          BY <3>2 DEF SendLaunch
        <4> QED BY <3>2, <4>1, GateTypes, ReleaseType DEF SendLaunch
      <3>3. CASE SendFails(u, s)
        BY <3>3, GateTypes, ReleaseType DEF SendFails
      <3> QED BY <2>2, <3>1, <3>2, <3>3
    <2>3. ASSUME NEW s \in Senders, NEW h \in Handles, AssignHandle(u, h, s)
          PROVE  TypeOK'
      BY <2>3, GateTypes, ReleaseType DEF AssignHandle
    <2>4. ASSUME NEW k \in Collects, NEW h \in Handles, MakeCollect(u, k, h)
          PROVE  TypeOK'
      BY <2>4, GateTypes DEF MakeCollect
    <2>5. ASSUME NEW k \in Collects, NEW from \in Collects, CopyCollect(u, k, from)
          PROVE  TypeOK'
      BY <2>5, GateTypes DEF CopyCollect
    <2>6. ASSUME NEW k \in Collects, CollectNothing(u, k) \/ CollectNotReady(u, k)
          PROVE  TypeOK'
      BY <2>6, GateTypes DEF CollectNothing, CollectNotReady, vars
    <2>7. ASSUME NEW k \in Collects, CollectReady(u, k)
          PROVE  TypeOK'
      BY <2>7, GateTypes, ResultEffect DEF CollectReady
    <2>8. ASSUME NEW k \in Collects, CollectWait(u, k)
          PROVE  TypeOK'
      BY <2>8, GateTypes DEF CollectWait
    <2>9. ASSUME NEW k \in Collects, CollectDrop(u, k)
          PROVE  TypeOK'
      BY <2>9, GateTypes, ReleaseType DEF CollectDrop
    <2> QED BY <1>2, <2>1, <2>2, <2>3, <2>4, <2>5, <2>6, <2>7, <2>8,
        <2>9 DEF UserBegin
  <1>3. ASSUME NEW u \in Users, UserStep(u) PROVE TypeOK'
    <2>1. CASE CallRefused(u)
      BY <2>1, GateTypes, SessionTypes DEF CallRefused
    <2>2. CASE CallBegin(u)
      BY <2>2, SessionTypes DEF CallBegin
    <2>3. CASE Released(u)
      BY <2>3, GateTypes DEF Released
    <2>4. ASSUME NEW answer \in Answers, CallEnd(u, answer) PROVE TypeOK'
      BY <2>4, SessionTypes DEF CallEnd
    <2>5. ASSUME NEW k \in Collects, CollectGet(u, k) PROVE TypeOK'
      BY <2>5, GateTypes, ResultEffect DEF CollectGet
    <2> QED BY <1>3, <2>1, <2>2, <2>3, <2>4, <2>5 DEF UserStep
  <1>4. ASSUME NEW i \in Invocations, AsyncStep(i) PROVE TypeOK'
    <2>1. CASE AsyncRefused(i)
      BY <2>1, SessionTypes DEF AsyncRefused, AsyncDone
    <2>2. CASE AsyncBegin(i)
      BY <2>2, SessionTypes DEF AsyncBegin
    <2>3. ASSUME NEW answer \in Answers, AsyncEnd(i, answer) PROVE TypeOK'
      <3>1. phase' \in [Invocations -> {"none", "launched", "calling", "done"}]
            /\ outcome' \in [Invocations -> {"none", "success", "failure"}]
        BY <2>3 DEF AsyncEnd, AsyncDone
      <3>2. executed' \in [Invocations -> Nat]
        BY <2>3 DEF AsyncEnd
      <3>3. SessionTypeOK(Users \cup Invocations)'
        BY <2>3, SessionTypes DEF AsyncEnd
      <3> QED BY <2>3, <3>1, <3>2, <3>3 DEF AsyncEnd
    <2> QED BY <1>4, <2>1, <2>2, <2>3 DEF AsyncStep
  <1>5. CASE GateClose
    BY <1>5, GateTypes DEF GateClose
  <1>6. CASE GateStep
    BY <1>6, GateTypes DEF GateStep, GateClosed, GateReopen
  <1> QED BY <1>1, <1>2, <1>3, <1>4, <1>5, <1>6 DEF Next

\* A step leaves the sent calls alone, sends one, or is a step of one of them.
LEMMA CallCases ==
  ASSUME TypeOK, [Next]_vars
  PROVE  \/ UNCHANGED <<phase, outcome, executed, sends>>
         \/ \E u \in Users, s \in Senders : SendLaunch(u, s)
         \/ \E i \in Invocations : AsyncStep(i)
  <1> USE DEF sendVars
  <1>1. ASSUME NEW u \in Users, UserBegin(u)
        PROVE  \/ UNCHANGED <<phase, outcome, executed, sends>>
               \/ \E s \in Senders : SendLaunch(u, s)
    BY <1>1 DEF UserBegin, CallUnprepared, CallRead, SendUnprepared, SendFails, AssignHandle,
         MakeCollect, CopyCollect, CollectNothing, CollectNotReady, CollectReady,
         CollectWait, CollectDrop, vars
  <1>2. ASSUME NEW u \in Users, UserStep(u)
        PROVE  UNCHANGED <<phase, outcome, executed, sends>>
    BY <1>2 DEF UserStep, CallRefused, CallBegin, CallEnd, Released, CollectGet
  <1>3. CASE GateClose \/ GateStep
    BY <1>3 DEF GateClose, GateStep, GateClosed, GateReopen
  <1>4. CASE UNCHANGED vars
    BY <1>4 DEF vars
  <1> QED BY <1>1, <1>2, <1>3, <1>4 DEF Next

\* Calls are executed and get their result once.
LEMMA ResultStep == TypeOK /\ ResultInv /\ [Next]_vars => ResultInv'
  <1> SUFFICES ASSUME TypeOK, ResultInv, [Next]_vars PROVE ResultInv' OBVIOUS
  <1> USE RemoteOperationAssumption DEF TypeOK, ResultInv, Invocations
  <1>1. CASE UNCHANGED <<phase, outcome, executed, sends>>
    BY <1>1
  <1>2. ASSUME NEW u \in Users, NEW s \in Senders, SendLaunch(u, s)
        PROVE  ResultInv'
    BY <1>2 DEF SendLaunch
  <1>3. ASSUME NEW i \in Invocations, AsyncStep(i) PROVE ResultInv'
    <2>1. CASE AsyncRefused(i)
      BY <2>1 DEF AsyncRefused, AsyncDone
    <2>2. CASE AsyncBegin(i)
      BY <2>2 DEF AsyncBegin
    <2>3. ASSUME NEW answer \in Answers, AsyncEnd(i, answer) PROVE ResultInv'
      <3>1. /\ phase' = [phase EXCEPT ![i] = "done"] /\ sends' = sends
            /\ phase[i] = "calling"
            /\ outcome'[i] = "success" => executed'[i] = 1
            /\ \A j \in Invocations \ {i} :
                 outcome'[j] = outcome[j] /\ executed'[j] = executed[j]
        BY <2>3 DEF AsyncEnd, AsyncDone, ResultOf
      <3> QED BY <3>1
    <2> QED BY <1>3, <2>1, <2>2, <2>3 DEF AsyncStep
  <1> QED BY <1>1, <1>2, <1>3, CallCases

-----------------------------------------------------------------------------
(* Collections                                                             *)

\* Collections and handles are left alone by the threads of the calls.
LEMMA AsyncFrame ==
  ASSUME NEW i \in Invocations, AsyncStep(i)
  PROVE  UNCHANGED <<handle, col, pc, busy, sends>>
  BY DEF AsyncStep, AsyncRefused, AsyncBegin, AsyncEnd, userVars

\* A thread that waits with a collection has it for itself.
LEMMA WaitStep == TypeOK /\ WaitInv /\ [Next]_vars => WaitInv'
  <1> SUFFICES ASSUME TypeOK, WaitInv, [Next]_vars PROVE WaitInv' OBVIOUS
  <1> USE RemoteOperationAssumption
          DEF TypeOK, WaitInv, AllHandles, Nothing, NoCollect, sendVars,
              userVars, At
  <1>1. CASE UNCHANGED vars
    BY <1>1 DEF vars
  <1>2. ASSUME NEW u \in Users, UserBegin(u) PROVE WaitInv'
    <2>1. CASE CallUnprepared(u) \/ CallRead(u)
      BY <2>1 DEF CallUnprepared, CallRead
    <2>2. ASSUME NEW s \in Senders,
                 SendUnprepared(u, s) \/ SendLaunch(u, s) \/ SendFails(u, s)
          PROVE  WaitInv'
      <3>1. CASE SendUnprepared(u, s)
        BY <3>1 DEF SendUnprepared, vars
      <3>2. CASE SendLaunch(u, s)
        BY <3>2, ReleaseType DEF SendLaunch, MayUse
      <3>3. CASE SendFails(u, s)
        BY <3>3, ReleaseType DEF SendFails, MayUse
      <3> QED BY <2>2, <3>1, <3>2, <3>3
    <2>3. ASSUME NEW s \in Senders, NEW h \in Handles, AssignHandle(u, h, s)
          PROVE  WaitInv'
      BY <2>3, ReleaseType DEF AssignHandle, MayUse
    <2>4. ASSUME NEW k \in Collects, NEW h \in Handles, MakeCollect(u, k, h)
          PROVE  WaitInv'
      BY <2>4 DEF MakeCollect, MayUse
    <2>5. ASSUME NEW k \in Collects, NEW from \in Collects, CopyCollect(u, k, from)
          PROVE  WaitInv'
      BY <2>5 DEF CopyCollect, MayUse
    <2>6. ASSUME NEW k \in Collects, CollectNothing(u, k) \/ CollectNotReady(u, k)
          PROVE  WaitInv'
      <3>1. CASE CollectNothing(u, k)
        BY <3>1 DEF CollectNothing, MayUse, CollectOpen
      <3>2. CASE CollectNotReady(u, k)
        BY <3>2 DEF CollectNotReady, vars
      <3> QED BY <2>6, <3>1, <3>2
    <2>7. ASSUME NEW k \in Collects, CollectReady(u, k)
          PROVE  WaitInv'
      BY <2>7, ResultEffect DEF CollectReady, MayUse
    <2>8. ASSUME NEW k \in Collects, CollectWait(u, k)
          PROVE  WaitInv'
      BY <2>8 DEF CollectWait, MayUse, CollectOpen
    <2>9. ASSUME NEW k \in Collects, CollectDrop(u, k)
          PROVE  WaitInv'
      BY <2>9, ReleaseType DEF CollectDrop, MayUse
    <2> QED BY <1>2, <2>1, <2>2, <2>3, <2>4, <2>5, <2>6, <2>7, <2>8,
        <2>9 DEF UserBegin
  <1>3. ASSUME NEW u \in Users, UserStep(u) PROVE WaitInv'
    <2>1. CASE CallRefused(u)
      BY <2>1 DEF CallRefused
    <2>2. CASE CallBegin(u)
      BY <2>2 DEF CallBegin
    <2>3. CASE Released(u)
      BY <2>3 DEF Released
    <2>4. ASSUME NEW answer \in Answers, CallEnd(u, answer) PROVE WaitInv'
      BY <2>4 DEF CallEnd
    <2>5. ASSUME NEW k \in Collects, CollectGet(u, k) PROVE WaitInv'
      BY <2>5, ResultEffect DEF CollectGet
    <2> QED BY <1>3, <2>1, <2>2, <2>3, <2>4, <2>5 DEF UserStep
  <1>4. ASSUME NEW i \in Invocations, AsyncStep(i) PROVE WaitInv'
    BY <1>4, AsyncFrame
  <1>5. CASE GateClose
    BY <1>5 DEF GateClose
  <1>6. CASE GateStep
    <2>1. UNCHANGED <<col, pc, busy>>
      BY <1>6 DEF GateStep, GateClosed, GateReopen
    <2> QED BY <2>1
  <1> QED BY <1>1, <1>2, <1>3, <1>4, <1>5, <1>6 DEF Next

\* A result does not change once the future has it.
LEMMA OutcomeStays ==
  ASSUME TypeOK, ResultInv, [Next]_vars, NEW i \in Invocations,
         outcome[i] = "success"
  PROVE  outcome'[i] = "success"
  <1> USE DEF TypeOK, ResultInv
  <1>1. ASSUME NEW j \in Invocations, AsyncStep(j) PROVE outcome'[i] = "success"
    BY <1>1 DEF AsyncStep, AsyncRefused, AsyncBegin, AsyncEnd, AsyncDone
  <1> QED BY <1>1, CallCases DEF SendLaunch

\* A step leaves a collection alone, makes or destroys it, or collects.
LEMMA CollectCases ==
  ASSUME TypeOK, WaitInv, [Next]_vars, NEW k \in Collects
  PROVE  \/ col'[k] = col[k]
         \/ col'[k] = NoCollect
         \/ col'[k].status = "SendNotReady" /\ col'[k].out = 0
         \/ /\ col[k].status = "SendNotReady" /\ col[k].inv = Nothing
            /\ col'[k] = [col[k] EXCEPT !.status = "SendFailure"]
         \/ /\ col[k].status = "SendNotReady" /\ col[k].inv # Nothing
            /\ CollectResult(k)
  <1> USE DEF TypeOK, NoCollect, CollectOpen
  <1> DEFINE Goal == \/ col'[k] = col[k]
                     \/ col'[k] = NoCollect
                     \/ col'[k].status = "SendNotReady" /\ col'[k].out = 0
                     \/ /\ col[k].status = "SendNotReady" /\ col[k].inv = Nothing
                        /\ col'[k] = [col[k] EXCEPT !.status = "SendFailure"]
                     \/ /\ col[k].status = "SendNotReady" /\ col[k].inv # Nothing
                        /\ CollectResult(k)
  <1>1. ASSUME NEW u \in Users, UserBegin(u) PROVE Goal
    <2>1. CASE CallUnprepared(u) \/ CallRead(u)
      BY <2>1 DEF CallUnprepared, CallRead
    <2>2. ASSUME NEW s \in Senders,
                 SendUnprepared(u, s) \/ SendLaunch(u, s) \/ SendFails(u, s)
          PROVE  Goal
      BY <2>2 DEF SendUnprepared, SendLaunch, SendFails, vars
    <2>3. ASSUME NEW s \in Senders, NEW h \in Handles, AssignHandle(u, h, s)
          PROVE  Goal
      BY <2>3 DEF AssignHandle
    <2>4. ASSUME NEW j \in Collects, NEW h \in Handles, MakeCollect(u, j, h)
          PROVE  Goal
      BY <2>4 DEF MakeCollect
    <2>5. ASSUME NEW j \in Collects, NEW from \in Collects, CopyCollect(u, j, from)
          PROVE  Goal
      BY <2>5 DEF CopyCollect
    <2>6. ASSUME NEW j \in Collects, CollectNothing(u, j) \/ CollectNotReady(u, j)
          PROVE  Goal
      BY <2>6 DEF CollectNothing, CollectNotReady, vars
    <2>7. ASSUME NEW j \in Collects, CollectReady(u, j) PROVE Goal
      BY <2>7, ResultEffect DEF CollectReady
    <2>8. ASSUME NEW j \in Collects, CollectWait(u, j) PROVE Goal
      BY <2>8 DEF CollectWait
    <2>9. ASSUME NEW j \in Collects, CollectDrop(u, j) PROVE Goal
      BY <2>9 DEF CollectDrop
    <2> QED BY <1>1, <2>1, <2>2, <2>3, <2>4, <2>5, <2>6, <2>7, <2>8,
        <2>9 DEF UserBegin
  <1>2. ASSUME NEW u \in Users, UserStep(u) PROVE Goal
    <2>1. ASSUME NEW j \in Collects, CollectGet(u, j) PROVE Goal
      BY <2>1, ResultEffect DEF CollectGet, WaitInv
    <2> QED BY <1>2, <2>1 DEF UserStep, CallRefused, CallBegin, CallEnd,
        Released
  <1>3. CASE GateClose \/ GateStep
    BY <1>3 DEF GateClose, GateStep, GateClosed, GateReopen
  <1>4. CASE UNCHANGED vars
    BY <1>4 DEF vars
  <1> QED BY <1>1, <1>2, <1>3, <1>4, AsyncFrame DEF Next

\* What a collection has reported stays true.
LEMMA CollectStep ==
  TypeOK /\ ResultInv /\ WaitInv /\ CollectInv /\ [Next]_vars => CollectInv'
  <1> SUFFICES ASSUME TypeOK, ResultInv, WaitInv, CollectInv, [Next]_vars,
                      NEW k \in Collects
               PROVE  /\ col'[k].status \in {"unmade", "SendNotReady"} => col'[k].out = 0
                      /\ col'[k].status = "SendSuccess" => col'[k].out = Outputs
                      /\ col'[k].status = "SendSuccess" \/ col'[k].out > 0 =>
                           /\ col'[k].inv # Nothing
                           /\ outcome'[col'[k].inv] = "success"
    BY DEF CollectInv
  <1> USE RemoteOperationAssumption DEF TypeOK, CollectInv, NoCollect, Final
  <1>0. \A i \in Invocations : outcome[i] = "success" => outcome'[i] = "success"
    BY OutcomeStays
  <1>1. col[k].inv # Nothing => col[k].inv \in Invocations
    BY DEF Nothing, Invocations
  <1>2. CASE col'[k] = col[k]
    BY <1>0, <1>1, <1>2
  <1>3. CASE col'[k] = NoCollect
    BY <1>3
  <1>4. CASE col'[k].status = "SendNotReady" /\ col'[k].out = 0
    BY <1>4
  <1>5. CASE /\ col[k].status = "SendNotReady"
             /\ col'[k] = [col[k] EXCEPT !.status = "SendFailure"]
    BY <1>5
  <1>6. CASE col[k].status = "SendNotReady" /\ col[k].inv # Nothing /\ CollectResult(k)
    BY <1>0, <1>1, <1>6, ResultEffect
  <1> QED BY <1>2, <1>3, <1>4, <1>5, <1>6, CollectCases

-----------------------------------------------------------------------------
(* References                                                              *)

\* The references to an invocation, and the users that wait for its end.
Kept(i) ==
  \/ \E h \in AllHandles : handle[h] = i
  \/ \E k \in Collects : col[k].inv = i
  \/ \E u \in Users : pc[u] = "release" /\ busy[u] = i

\* A user that waits for the end of a call goes on waiting.
LEMMA WaiterStays ==
  ASSUME TypeOK, [Next]_vars, NEW i \in Invocations, phase[i] # "done",
         NEW w \in Users, pc[w] = "release", busy[w] = i
  PROVE  pc'[w] = "release" /\ busy'[w] = i
  <1> USE DEF TypeOK, At, userVars
  <1>1. ASSUME NEW u \in Users, UserBegin(u)
        PROVE  pc'[w] = "release" /\ busy'[w] = i
    BY <1>1 DEF UserBegin, CallUnprepared, CallRead, SendUnprepared, SendLaunch, SendFails,
        AssignHandle,
         MakeCollect, CopyCollect, CollectNothing, CollectNotReady, CollectReady,
         CollectWait, CollectDrop, vars, MayUse, Release
  <1>2. ASSUME NEW u \in Users, UserStep(u)
        PROVE  pc'[w] = "release" /\ busy'[w] = i
    BY <1>2 DEF UserStep, CallRefused, CallBegin, CallEnd, Released, CollectGet
  <1>3. CASE GateClose \/ GateStep
    BY <1>3 DEF GateClose, GateStep, GateClosed, GateReopen
  <1>4. CASE UNCHANGED vars
    BY <1>4 DEF vars
  <1> QED BY <1>1, <1>2, <1>3, <1>4, AsyncFrame DEF Next

\* A handle keeps its invocation, or the invocation has other owners, or the user
\* that changed the handle waits.
LEMMA HandleStays ==
  ASSUME TypeOK, [Next]_vars, NEW i \in Invocations, phase[i] # "done",
         NEW h \in AllHandles, handle[h] = i
  PROVE  Kept(i)'
  <1> USE RemoteOperationAssumption DEF TypeOK, AllHandles, Invocations,
      Nothing
  <1>1. CASE handle'[h] = i
    BY <1>1 DEF Kept
  <1>2. ASSUME NEW u \in Users, Release(u, i, h), handle' = [handle EXCEPT ![h] = handle'[h]],
               UNCHANGED col
        PROVE  Kept(i)'
    <2>1. CASE OtherOwners(i, h) = {}
      BY <1>2, <2>1, ReleaseType DEF Kept
    <2>2. CASE OtherOwners(i, h) # {}
      BY <1>2, <2>2 DEF OtherOwners, Kept
    <2> QED BY <2>1, <2>2
  <1>3. CASE handle'[h] # i
    <2>1. \E u \in Users : UserBegin(u)
      BY <1>3, AsyncFrame DEF Next, UserStep, CallRefused, CallBegin, CallEnd,
           Released, CollectGet, GateClose, GateStep, GateClosed, GateReopen, vars,
           sendVars
    <2>2. PICK u \in Users : UserBegin(u)
      BY <2>1
    <2>3. \/ \E s \in Senders : SendLaunch(u, s) \/ SendFails(u, s)
          \/ \E s \in Senders, g \in Handles : AssignHandle(u, g, s)
      BY <1>3, <2>2 DEF UserBegin, CallUnprepared, CallRead, SendUnprepared, MakeCollect,
          CopyCollect,
           CollectNothing, CollectNotReady, CollectReady, CollectWait, CollectDrop,
           vars, sendVars
    <2>4. /\ Release(u, i, h) /\ UNCHANGED col
          /\ handle' = [handle EXCEPT ![h] = handle'[h]]
      BY <1>3, <2>3 DEF SendLaunch, SendFails, AssignHandle
    <2> QED BY <1>2, <2>4
  <1> QED BY <1>1, <1>3

\* A collection keeps its invocation until it is destroyed.
LEMMA CollectStays ==
  ASSUME TypeOK, [Next]_vars, NEW i \in Invocations, phase[i] # "done",
         NEW k \in Collects, col[k].inv = i
  PROVE  Kept(i)'
  <1> USE RemoteOperationAssumption DEF TypeOK, Invocations, Nothing
  <1>1. CASE col'[k].inv = i
    BY <1>1 DEF Kept
  <1>2. CASE col'[k].inv # i
    <2>1. \E u \in Users : UserBegin(u) \/ \E j \in Collects : CollectGet(u, j)
      BY <1>2, AsyncFrame DEF Next, UserStep, CallRefused, CallBegin, CallEnd,
           Released, GateClose, GateStep, GateClosed, GateReopen, vars
    <2>2. PICK u \in Users : UserBegin(u) \/ \E j \in Collects : CollectGet(u, j)
      BY <2>1
    <2>3. \A j \in Collects : ~CollectGet(u, j) /\ ~CollectReady(u, j)
      BY <1>2, ResultEffect DEF CollectGet, CollectReady
    <2>4. \A j \in Collects : ~CollectNothing(u, j)
      BY <1>2 DEF CollectNothing
    <2>0. col[k] # NoCollect
      BY DEF NoCollect
    <2>5. \A j, from \in Collects : ~CopyCollect(u, j, from)
      BY <1>2, <2>0 DEF CopyCollect
    <2>6. \A j \in Collects, h \in Handles : ~MakeCollect(u, j, h)
      BY <1>2, <2>0 DEF MakeCollect
    <2>7. \E j \in Collects : CollectDrop(u, j)
      BY <1>2, <2>2, <2>3, <2>4, <2>5, <2>6 DEF UserBegin, CallUnprepared, CallRead,
          SendUnprepared,
           SendLaunch, SendFails, AssignHandle, CollectNotReady, CollectWait, vars
    <2>8. CollectDrop(u, k)
      BY <1>2, <2>7 DEF CollectDrop
    <2>9. Release(u, i, k) /\ UNCHANGED handle /\ \A j \in Collects : j # k => col'[j] = col[j]
      BY <2>8 DEF CollectDrop, sendVars
    <2>10. CASE OtherOwners(i, k) = {}
      BY <2>9, <2>10, ReleaseType, SMTT(30) DEF Kept
    <2>11. CASE OtherOwners(i, k) # {}
      <3>1. CASE \E h \in AllHandles : handle[h] = i
        BY <2>9, <3>1 DEF Kept
      <3>2. CASE \E j \in Collects \ {k} : col[j].inv = i
        BY <2>9, <3>2 DEF Kept
      <3> QED BY <2>11, <3>1, <3>2 DEF OtherOwners
    <2> QED BY <2>10, <2>11
  <1> QED BY <1>1, <1>2

\* Nobody gives up the last reference to a call in progress without waiting.
LEMMA AbandonStep ==
  TypeOK /\ ResultInv /\ NoCallIsAbandoned /\ [Next]_vars => NoCallIsAbandoned'
  <1> SUFFICES ASSUME TypeOK, ResultInv, NoCallIsAbandoned, [Next]_vars,
                      NEW i \in Invocations, phase'[i] \in {"launched", "calling"}
               PROVE  Kept(i)'
    BY DEF NoCallIsAbandoned, Kept
  <1>1. CASE phase[i] \in {"launched", "calling"}
    <2>1. Kept(i)
      BY <1>1 DEF NoCallIsAbandoned, Kept
    <2>2. phase[i] # "done"
      BY <1>1
    <2>3. CASE \E h \in AllHandles : handle[h] = i
      BY <2>2, <2>3, HandleStays
    <2>4. CASE \E k \in Collects : col[k].inv = i
      BY <2>2, <2>4, CollectStays
    <2>5. CASE \E w \in Users : pc[w] = "release" /\ busy[w] = i
      BY <2>2, <2>5, WaiterStays DEF Kept
    <2> QED BY <2>1, <2>3, <2>4, <2>5 DEF Kept
  <1>2. CASE phase[i] \notin {"launched", "calling"}
    <2>1. PICK u \in Users, s \in Senders : SendLaunch(u, s)
      BY <1>2, CallCases DEF AsyncStep, AsyncRefused, AsyncBegin, AsyncEnd,
          AsyncDone,
           TypeOK
    <2>2. handle'[s] = i
      BY <1>2, <2>1 DEF SendLaunch, TypeOK, AllHandles
    <2> QED BY <2>2 DEF Kept, AllHandles
  <1> QED BY <1>1, <1>2

-----------------------------------------------------------------------------
(* Theorems                                                                *)

\* The invariant holds initially and every step preserves it.
LEMMA OperationInvariant == Spec => []OperationInv
  <1>1. Init => OperationInv
    <2> SUFFICES ASSUME Init PROVE OperationInv OBVIOUS
    <2> USE RemoteOperationAssumption DEF Init, Nothing, NoCollect
    <2>1. TypeOK
      BY DEF TypeOK, SessionTypeOK, SessionState
    <2>2. ResultInv /\ WaitInv /\ CollectInv
      BY DEF ResultInv, WaitInv, CollectInv
    <2>3. NoCallIsAbandoned
      BY DEF NoCallIsAbandoned
    <2> QED BY <2>1, <2>2, <2>3 DEF OperationInv
  <1>2. OperationInv /\ [Next]_vars => OperationInv'
    BY OperationTypeStep, ResultStep, WaitStep, CollectStep,
        AbandonStep DEF OperationInv
  <1> QED BY <1>1, <1>2, PTL DEF Spec

\* Every variable of the remote operations keeps its type.
THEOREM OperationTypeCorrect == Spec => []TypeOK
  <1>1. OperationInv => TypeOK
    BY DEF OperationInv
  <1> QED BY <1>1, OperationInvariant, PTL

\* A collection that reports success, or got any output, belongs to a call that the
\* endpoint executed exactly once.
THEOREM ExecutedOnce == Spec => []SuccessIsExecutedOnce
  <1>1. OperationInv => SuccessIsExecutedOnce
    BY DEF OperationInv, SuccessIsExecutedOnce, CollectInv, ResultInv, TypeOK,
           Invocations, Nothing
  <1> QED BY <1>1, OperationInvariant, PTL

\* A call in progress is referred to, or somebody waits for its end.
THEOREM NothingAbandoned == Spec => []NoCallIsAbandoned
  <1>1. OperationInv => NoCallIsAbandoned
    BY DEF OperationInv
  <1> QED BY <1>1, OperationInvariant, PTL

===============================================================================
