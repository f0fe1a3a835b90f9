---------------------------- MODULE RemoteOperation ----------------------------
(***************************************************************************)
(* Operations of a mirrored component: src/src/remote_operation.cpp over   *)
(* ClientSession.                                                          *)
(*                                                                         *)
(* A call runs on the thread that makes it.  A send starts a thread of its *)
(* own (std::async) that makes the call, and leaves a reference to its     *)
(* shared future, an invocation, in the handle of the send action, from    *)
(* where it is assigned to handles of the application.  A collection takes *)
(* the invocation out of a handle when it is produced and turns it into a  *)
(* send status and outputs.  Handles and collections share an invocation;  *)
(* whoever gives up the last reference waits in the destructor of the      *)
(* future until the call is over.                                          *)
(*                                                                         *)
(* A data source is used by one thread at a time, as RTT demands; an       *)
(* invocation is shared freely.  Values are left out: a collection counts  *)
(* the outputs it has assigned, and a synchronous call only returns.       *)
(***************************************************************************)
EXTENDS ClientSession, Sequences, FiniteSets

CONSTANTS
  Users,       \* application threads
  Senders,     \* send actions, each with a handle of its own
  Handles,     \* handles of the application
  Collects,    \* collection data sources
  Outputs,     \* an operation has the outputs 1..Outputs
  MaxSends,    \* bound: sends in a behaviour
  MaxCalls,    \* bound: synchronous calls in a behaviour
  MaxGates     \* bound: how often the proxy closes the interface

ASSUME RemoteOperationAssumption ==
  /\ Outputs \in Nat /\ MaxSends \in Nat /\ MaxCalls \in Nat /\ MaxGates \in Nat

VARIABLES
  handle,     \* the invocation each handle refers to, or 0
  phase,      \* none, launched, calling, done: where the sent call is
  outcome,    \* the result in the shared future: none, success or failure
  executed,   \* how often the endpoint executed it
  col,        \* collections: invocation, status and outputs assigned
  pc,         \* where each user is
  busy,       \* the data source it works on, or the invocation it waits for
  sends,      \* sends so far (bounded by MaxSends)
  calls,      \* calls so far (bounded by MaxCalls)
  gate,       \* where the proxy's control thread is
  gates       \* how often it closed the interface (bounded by MaxGates)

sendVars == <<handle, phase, outcome, executed, sends>>
userVars == <<pc, busy>>
gateVars == <<gate, gates>>
vars == <<sessionVars, sendVars, col, userVars, calls, gateVars>>

Invocations == 1..MaxSends
AllHandles == Senders \cup Handles
Nothing == 0
NoCollect == [inv |-> Nothing, status |-> "unmade", out |-> 0]
Final == {"SendSuccess", "SendFailure"}

\* A connected session whose interface is open: the proxy has been created.
Init ==
  /\ sess = "connected" /\ access = TRUE /\ holder = {}
  /\ handle = [h \in AllHandles |-> Nothing]
  /\ phase = [i \in Invocations |-> "none"]
  /\ outcome = [i \in Invocations |-> "none"]
  /\ executed = [i \in Invocations |-> 0]
  /\ col = [k \in Collects |-> NoCollect]
  /\ pc = [u \in Users |-> "idle"] /\ busy = [u \in Users |-> Nothing]
  /\ sends = 0 /\ calls = 0
  /\ gate = "open" /\ gates = 0

At(u, place, thing) ==
  /\ pc' = [pc EXCEPT ![u] = place]
  /\ busy' = [busy EXCEPT ![u] = thing]

\* Idle, and nobody else works on the data source.
MayUse(u, source) == pc[u] = "idle" /\ \A v \in Users : busy[v] # source

-----------------------------------------------------------------------------
(* RemoteCallAction                                                        *)

\* readArguments() cannot encode the arguments; execute() returns false at once.
CallUnprepared(u) ==
  /\ pc[u] = "idle" /\ calls < MaxCalls /\ calls' = calls + 1
  /\ UNCHANGED <<sessionVars, sendVars, col, userVars, gateVars>>

\* The arguments are encoded: execute() goes on to session->call().
CallRead(u) ==
  /\ pc[u] = "idle" /\ calls < MaxCalls /\ calls' = calls + 1
  /\ pc' = [pc EXCEPT ![u] = "call"]
  /\ UNCHANGED <<sessionVars, sendVars, col, busy, gateVars>>

\* session->call() is refused: execute() returns false.
CallRefused(u) ==
  /\ pc[u] = "call" /\ RequestRefused(TRUE)
  /\ pc' = [pc EXCEPT ![u] = "idle"]
  /\ UNCHANGED <<sendVars, col, busy, calls, gateVars>>

CallBegin(u) ==
  /\ pc[u] = "call" /\ RequestBegin(u, TRUE)
  /\ pc' = [pc EXCEPT ![u] = "calling"]
  /\ UNCHANGED <<sendVars, col, busy, calls, gateVars>>

\* The answer, and assignCallOutputs() into the caller's arguments.
CallEnd(u, answer) ==
  /\ pc[u] = "calling" /\ RequestEnd(u, answer)
  /\ pc' = [pc EXCEPT ![u] = "idle"]
  /\ UNCHANGED <<sendVars, col, busy, calls, gateVars>>

-----------------------------------------------------------------------------
(* RemoteSendAction                                                        *)

\* Those who refer to an invocation beside the data source d.
OtherOwners(i, d) ==
  {h \in AllHandles \ {d} : handle[h] = i} \cup {k \in Collects \ {d} : col[k].inv = i}

\* Mutant: giving up the last reference does not wait.
NeverWaits(i, d) == FALSE

\* The destructor of the last reference to a call in progress blocks.
MustWait(i, d) == i # Nothing /\ OtherOwners(i, d) = {} /\ phase[i] # "done"

\* A reference of d is dropped: go on, or wait for the call to end.
Release(u, i, d) ==
  IF MustWait(i, d) THEN At(u, "release", i) ELSE At(u, "idle", Nothing)

\* Not prepared: false, and the handle keeps what it had.
SendUnprepared(u, s) ==
  /\ MayUse(u, s) /\ sends < MaxSends
  /\ UNCHANGED vars

\* std::async starts the thread of a new invocation.
SendLaunch(u, s) ==
  /\ MayUse(u, s) /\ sends < MaxSends
  /\ sends' = sends + 1
  /\ phase' = [phase EXCEPT ![sends + 1] = "launched"]
  /\ handle' = [handle EXCEPT ![s] = sends + 1]
  /\ Release(u, handle[s], s)
  /\ UNCHANGED <<sessionVars, outcome, executed, col, calls, gateVars>>

\* The application keeps the invocation in a handle of its own.
AssignHandle(u, h, s) ==
  /\ MayUse(u, h) /\ MayUse(u, s) /\ handle[h] # handle[s]
  /\ handle' = [handle EXCEPT ![h] = handle[s]]
  /\ Release(u, handle[h], h)
  /\ UNCHANGED <<sessionVars, phase, outcome, executed, sends, col, calls,
                 gateVars>>

\* No thread can be started: the handle is emptied.
SendFails(u, s) ==
  /\ MayUse(u, s)
  /\ handle' = [handle EXCEPT ![s] = Nothing]
  /\ Release(u, handle[s], s)
  /\ UNCHANGED <<sessionVars, phase, outcome, executed, sends, col, calls,
                 gateVars>>

Released(u) ==
  /\ pc[u] = "release" /\ phase[busy[u]] = "done"
  /\ At(u, "idle", Nothing)
  /\ UNCHANGED <<sessionVars, sendVars, col, calls, gateVars>>

-----------------------------------------------------------------------------
(* The thread of an invocation: session->call()                            *)

\* Mutant: the future only becomes ready with the result of a good call.
DoneIfGood(i, result) ==
  /\ phase' = IF result = "success" THEN [phase EXCEPT ![i] = "done"] ELSE phase
  /\ outcome' = [outcome EXCEPT ![i] = result]

\* The shared future becomes ready.
AsyncDone(i, result) ==
  /\ phase' = [phase EXCEPT ![i] = "done"]
  /\ outcome' = [outcome EXCEPT ![i] = result]

AsyncRefused(i) ==
  /\ phase[i] = "launched" /\ RequestRefused(TRUE)
  /\ AsyncDone(i, "failure")
  /\ UNCHANGED <<handle, executed, sends, col, userVars, calls, gateVars>>

AsyncBegin(i) ==
  /\ phase[i] = "launched" /\ RequestBegin(i, TRUE)
  /\ phase' = [phase EXCEPT ![i] = "calling"]
  /\ UNCHANGED <<handle, outcome, executed, sends, col, userVars, calls,
                 gateVars>>

\* Mutant: a lost answer is taken for a success.
AnswerIsGood(answer) == answer # "refused"

ResultOf(answer) == answer = "good"

AsyncEnd(i, answer) ==
  /\ phase[i] = "calling" /\ RequestEnd(i, answer)
  /\ AsyncDone(i, IF ResultOf(answer) THEN "success" ELSE "failure")
  /\ \/ executed' = [executed EXCEPT ![i] = @ + 1]
     \/ answer # "good" /\ UNCHANGED executed
  /\ UNCHANGED <<handle, sends, col, userVars, calls, gateVars>>

-----------------------------------------------------------------------------
(* RemoteCollectDataSource                                                 *)

\* produceCollect() takes the invocation the handle has at that moment.
MakeCollect(u, k, h) ==
  /\ MayUse(u, k) /\ MayUse(u, h) /\ col[k] = NoCollect
  /\ col' = [col EXCEPT ![k] =
       [inv |-> handle[h], status |-> "SendNotReady", out |-> 0]]
  /\ UNCHANGED <<sessionVars, sendVars, userVars, calls, gateVars>>

\* copy(): the same invocation, to be collected anew.
CopyCollect(u, k, from) ==
  /\ MayUse(u, k) /\ MayUse(u, from) /\ col[k] = NoCollect
  /\ col[from] # NoCollect
  /\ col' = [col EXCEPT ![k] =
       [inv |-> col[from].inv, status |-> "SendNotReady", out |-> 0]]
  /\ UNCHANGED <<sessionVars, sendVars, userVars, calls, gateVars>>

\* get() returns a final status at once.
CollectOpen(k) == col[k].status = "SendNotReady"

\* Outputs are assigned in order if the call succeeded, until one fails.
CanAssign(k, n) ==
  /\ n \in 0..Outputs
  /\ n > 0 => outcome[col[k].inv] = "success"

CollectResult(k) ==
  \E n \in 0..Outputs :
    /\ CanAssign(k, n)
    /\ \E s \in Final :
         /\ s = "SendSuccess" => n = Outputs /\ outcome[col[k].inv] = "success"
         /\ col' = [col EXCEPT ![k].status = s, ![k].out = n]

\* A collection produced before anything was sent.
CollectNothing(u, k) ==
  /\ MayUse(u, k) /\ CollectOpen(k) /\ col[k].inv = Nothing
  /\ col' = [col EXCEPT ![k].status = "SendFailure"]
  /\ UNCHANGED <<sessionVars, sendVars, userVars, calls, gateVars>>

\* Without blocking, and not ready.
CollectNotReady(u, k) ==
  /\ MayUse(u, k) /\ CollectOpen(k) /\ col[k].inv # Nothing
  /\ phase[col[k].inv] # "done"
  /\ UNCHANGED vars

\* Blocking: the thread waits for the future.
CollectWait(u, k) ==
  /\ MayUse(u, k) /\ CollectOpen(k) /\ col[k].inv # Nothing
  /\ phase[col[k].inv] # "done"
  /\ At(u, "collect", k)
  /\ UNCHANGED <<sessionVars, sendVars, col, calls, gateVars>>

\* The future is ready when it is asked for the result ...
CollectReady(u, k) ==
  /\ MayUse(u, k) /\ CollectOpen(k) /\ col[k].inv # Nothing
  /\ phase[col[k].inv] = "done"
  /\ CollectResult(k)
  /\ UNCHANGED <<sessionVars, sendVars, userVars, calls, gateVars>>

\* ... or becomes so while the thread waits.
CollectGet(u, k) ==
  /\ pc[u] = "collect" /\ busy[u] = k
  /\ phase[col[k].inv] = "done"
  /\ CollectResult(k)
  /\ At(u, "idle", Nothing)
  /\ UNCHANGED <<sessionVars, sendVars, calls, gateVars>>

\* The collection is destroyed.
CollectDrop(u, k) ==
  /\ MayUse(u, k) /\ col[k] # NoCollect
  /\ col' = [col EXCEPT ![k] = NoCollect]
  /\ Release(u, col[k].inv, k)
  /\ UNCHANGED <<sessionVars, sendVars, calls, gateVars>>

-----------------------------------------------------------------------------
(* The proxy closes the interface to synchronize or for good               *)

GateClose ==
  /\ gate = "open" /\ gates < MaxGates /\ gates' = gates + 1
  /\ gate' = "closing" /\ CloseGate
  /\ UNCHANGED <<sendVars, col, userVars, calls>>

GateClosed ==
  /\ gate = "closing" /\ SetGate(FALSE)
  /\ gate' \in {"closed", "destroyed"}
  /\ UNCHANGED <<sendVars, col, userVars, calls, gates>>

\* Synchronized, and the session has not been lost.
GateReopen ==
  /\ gate = "closed" /\ SetGate(sess = "connected")
  /\ gate' = "open"
  /\ UNCHANGED <<sendVars, col, userVars, calls, gates>>

-----------------------------------------------------------------------------

\* What a user chooses to begin, and what it then has to finish.
UserBegin(u) ==
  \/ CallUnprepared(u) \/ CallRead(u)
  \/ \E s \in Senders : SendUnprepared(u, s) \/ SendLaunch(u, s) \/ SendFails(u, s)
  \/ \E s \in Senders, h \in Handles : AssignHandle(u, h, s)
  \/ \E k \in Collects, h \in Handles : MakeCollect(u, k, h)
  \/ \E k, from \in Collects : CopyCollect(u, k, from)
  \/ \E k \in Collects :
       CollectNothing(u, k) \/ CollectNotReady(u, k) \/ CollectReady(u, k)
         \/ CollectWait(u, k) \/ CollectDrop(u, k)

UserStep(u) ==
  \/ CallRefused(u) \/ CallBegin(u) \/ Released(u)
  \/ \E answer \in Answers : CallEnd(u, answer)
  \/ \E k \in Collects : CollectGet(u, k)

AsyncStep(i) ==
  \/ AsyncRefused(i) \/ AsyncBegin(i)
  \/ \E answer \in Answers : AsyncEnd(i, answer)

GateStep == GateClosed \/ GateReopen

Next ==
  \/ \E u \in Users : UserBegin(u) \/ UserStep(u)
  \/ \E i \in Invocations : AsyncStep(i)
  \/ GateClose \/ GateStep

Spec == Init /\ [][Next]_vars

\* Threads are scheduled and requests end (request_timeout).  A finite number of
\* requests competes for the session mutex, so weak fairness is enough.
FairSpec ==
  /\ Spec
  /\ \A u \in Users : WF_vars(UserStep(u))
  /\ \A i \in Invocations : WF_vars(AsyncStep(i))
  /\ WF_vars(GateStep)

-----------------------------------------------------------------------------
(* Properties                                                              *)

\* Every variable keeps its type.
TypeOK ==
  /\ SessionTypeOK(Users \cup Invocations)
  /\ handle \in [AllHandles -> 0..MaxSends]
  /\ phase \in [Invocations -> {"none", "launched", "calling", "done"}]
  /\ outcome \in [Invocations -> {"none", "success", "failure"}]
  /\ executed \in [Invocations -> Nat]
  /\ col \in [Collects -> [inv : 0..MaxSends, out : 0..Outputs,
                status : Final \cup {"unmade", "SendNotReady"}]]
  /\ pc \in [Users -> {"idle", "call", "calling", "release", "collect"}]
  /\ busy \in [Users -> AllHandles \cup Collects \cup 0..MaxSends]
  /\ sends \in 0..MaxSends /\ calls \in 0..MaxCalls
  /\ gate \in {"open", "closing", "closed", "destroyed"} /\ gates \in 0..MaxGates

\* A collection that reports success has all outputs of a call the endpoint has
\* executed exactly once, however often the invocation was copied, collected or
\* sent over; and one that got any output had such a call.
SuccessIsExecutedOnce ==
  \A k \in Collects :
    /\ col[k].status = "SendSuccess" => col[k].out = Outputs
    /\ col[k].status = "SendSuccess" \/ col[k].out > 0 =>
         col[k].inv # Nothing /\ executed[col[k].inv] = 1

\* Threads are never left behind: when nobody refers to a call any more, it is
\* over, or somebody waits for it to end.
NoCallIsAbandoned ==
  \A i \in Invocations : phase[i] \in {"launched", "calling"} =>
    \/ \E h \in AllHandles : handle[h] = i
    \/ \E k \in Collects : col[k].inv = i
    \/ \E u \in Users : pc[u] = "release" /\ busy[u] = i

\* Every call, send, collection and destruction of a data source returns,
\* although a send may have to wait for the call it replaces.
OperationsReturn == \A u \in Users : pc[u] # "idle" ~> pc[u] = "idle"

===============================================================================
