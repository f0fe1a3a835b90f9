--------------------------- MODULE TaskContextProxy ---------------------------
(***************************************************************************)
(* The client-side mirror of a remote component: TaskContextProxy          *)
(* (task_context_proxy.cpp), its port adapters (remote_port.cpp) and the   *)
(* thread that pumps them, over a ClientSession.                           *)
(*                                                                         *)
(* Users are application threads: they access mirrored values and          *)
(* operations, call the component's own operations (control calls),        *)
(* synchronize(), and destroy the proxy when nobody uses it.  A port       *)
(* adapter is named by its port and the synchronization (generation) that  *)
(* staged it.  The samples of an input port are numbered; of an output     *)
(* port only whether one waits to be written locally is kept.  The remote  *)
(* endpoint is external: it may gain and lose ports and give any answer.   *)
(***************************************************************************)
EXTENDS ClientSession

CONSTANTS
  Users,        \* application threads
  Inputs,       \* remote input ports: local samples flow to the endpoint
  Outputs,      \* remote output ports: samples flow from the endpoint
  MaxCalls,     \* bound: calls of the users after creation
  MaxSamples,   \* bound: samples per input port
  MaxChanges    \* bound: changes of the remote interface

ASSUME ProxyAssumption ==
  /\ MaxCalls \in Nat /\ MaxSamples \in Nat \ {0} /\ MaxChanges \in Nat
  /\ Inputs \cap Outputs = {} /\ "pump" \notin Users

VARIABLES
  life,        \* constructed, creating, created, destroyed
  pc,          \* where each user is
  calls,       \* calls so far
  syncs,       \* synchronizations so far: the generation of staged adapters
  syncMutex,   \* holder of synchronize_mutex: a set of at most one user
  after,       \* where markInterfaceStale() returns to
  restore,     \* can_restore_existing_interface
  ready,       \* interface_ready
  stale,       \* interface_stale
  paused,      \* ports_paused
  pumping,     \* ports_pumping
  stopping,    \* stop requested of port_thread
  pump,        \* where port_thread is
  todo,        \* ports left in its pass
  at,          \* the port it has a request for: a set of at most one
  adapters,    \* port_adapters: generation of each port's adapter, 0 = none
  pending,     \* the sample each adapter keeps, 0 = none
  raw,         \* ports whose pending sample is not encoded yet
  staged,      \* ports of the staged service
  registered,  \* generation of the adapter whose port is in the RTT interface
  quarantined, \* quarantined_port_adapters
  offers,      \* external: ports the endpoint exposes
  changes,     \* external: changes so far
  taken,       \* samples read from each local input port
  copies,      \* history: how often the endpoint accepted each input sample
  dropped      \* history: input samples discarded by the proxy

callVars == <<life, pc, calls, syncs, syncMutex, after, restore>>
flagVars == <<ready, stale>>
pumpVars == <<paused, pumping, stopping, pump, todo, at>>
portVars == <<adapters, pending, raw, staged, registered, quarantined>>
remoteVars == <<offers, changes>>
sampleVars == <<taken, copies, dropped>>
dataVars == <<portVars, remoteVars, sampleVars>>
vars == <<sessionVars, callVars, flagVars, pumpVars, dataVars>>

Ports == Inputs \cup Outputs
Sample == 1..MaxSamples
Nothing == [p \in Ports |-> 0]
PumpThread == "pump"

StagePoints == {"describe", "operations", "values", "ports", "services"}
ReplacePoints == {"check", "keep", "install", "swap"}
StalePoints == {"staleMark", "staleGate", "stalePause", "staleDiscard", "staleEnd"}
SyncPoints == {"syncGate", "syncPause", "syncEnter", "connect", "connecting",
               "fresh", "resume"} \cup StagePoints \cup ReplacePoints
Points == {"idle", "accessLock", "access", "controlLock", "control", "calling",
           "createConnect", "createConnecting", "syncLock", "destroyGate",
           "destroyStop", "destroyJoin"} \cup SyncPoints \cup StalePoints

Init ==
  /\ SessionInit
  /\ life = "constructed" /\ pc = [u \in Users |-> "idle"]
  /\ calls = 0 /\ syncs = 0 /\ syncMutex = {} /\ after = "return" /\ restore = FALSE
  /\ ready = FALSE /\ stale = FALSE
  /\ paused = TRUE /\ pumping = FALSE /\ stopping = FALSE
  /\ pump = "wait" /\ todo = {} /\ at = {}
  /\ adapters = Nothing /\ pending = Nothing /\ raw = {} /\ staged = {}
  /\ registered = Nothing /\ quarantined = {}
  /\ offers = Ports /\ changes = 0
  /\ taken = [p \in Inputs |-> 0] /\ dropped = [p \in Inputs |-> {}]
  /\ copies = [p \in Inputs |-> [s \in Sample |-> 0]]

Goto(u, from, to) == pc[u] = from /\ pc' = [pc EXCEPT ![u] = to]

\* Steps that change nothing but the session and the user's point.
OnlySession == UNCHANGED <<life, calls, syncs, syncMutex, after, restore, flagVars,
                           pumpVars, dataVars>>

\* Steps that only take or give back synchronize_mutex.
OnlyMutex == UNCHANGED <<sessionVars, life, calls, syncs, after, restore, flagVars,
                         pumpVars, dataVars>>

\* The beginning of a call of the public interface.
Call(u, to) ==
  /\ life = "created" /\ calls < MaxCalls /\ calls' = calls + 1
  /\ Goto(u, "idle", to)
  /\ UNCHANGED <<life, syncs, syncMutex, after, restore, flagVars, pumpVars,
                 dataVars>>

-----------------------------------------------------------------------------
(* Mirrored values and operations: a request with the interface gate       *)

AccessCall(u) == Call(u, "accessLock") /\ UNCHANGED sessionVars

\* The mutex is taken; the gate is looked at with it.
AccessRequest(u) ==
  /\ \/ Goto(u, "accessLock", "access") /\ RequestBegin(u, TRUE)
     \/ Goto(u, "accessLock", "idle") /\ RequestRefused(TRUE)
  /\ OnlySession

AccessEnd(u) ==
  /\ Goto(u, "access", "idle")
  /\ \E answer \in Answers : RequestEnd(u, answer)
  /\ OnlySession

-----------------------------------------------------------------------------
(* invokeOperation() and its siblings                                      *)

ControlCall(u) == Call(u, "controlLock") /\ UNCHANGED sessionVars

ControlLock(u) ==
  /\ Goto(u, "controlLock", "control")
  /\ syncMutex = {} /\ syncMutex' = {u}
  /\ OnlyMutex

\* The interface is not ready or stale: the fallback value is returned.
ControlFallback(u) ==
  /\ Goto(u, "control", "idle") /\ (~ready \/ stale)
  /\ syncMutex' = {}
  /\ OnlyMutex

\* callOperation() does not ask for interface access.
ControlRequest(u) ==
  /\ ready /\ ~stale
  /\ \/ Goto(u, "control", "calling") /\ RequestBegin(u, FALSE) /\ UNCHANGED after
     \/ /\ Goto(u, "control", "staleMark") /\ RequestRefused(FALSE)
        /\ after' = "return"
  /\ UNCHANGED <<life, calls, syncs, syncMutex, restore, flagVars, pumpVars,
                 dataVars>>

ControlDone(u) ==
  /\ Goto(u, "calling", "idle")
  /\ RequestEnd(u, "good")
  /\ syncMutex' = {}
  /\ UNCHANGED <<life, calls, syncs, after, restore, flagVars, pumpVars, dataVars>>

\* The call fails, or its answer does not have the form the proxy expects.
ControlFailed(u) ==
  /\ Goto(u, "calling", "staleMark")
  /\ \E answer \in Answers : RequestEnd(u, answer)
  /\ after' = "return"
  /\ UNCHANGED <<life, calls, syncs, syncMutex, restore, flagVars, pumpVars,
                 dataVars>>

-----------------------------------------------------------------------------
(* markInterfaceStale(); synchronize_mutex is held                         *)

\* The flag, and the first store of setInterfaceAccessEnabled(false).
StaleMark(u) ==
  /\ Goto(u, "staleMark", "staleGate")
  /\ stale' = TRUE /\ CloseGate
  /\ UNCHANGED <<life, calls, syncs, syncMutex, after, restore, ready, pumpVars,
                 dataVars>>

StaleGate(u) ==
  /\ Goto(u, "staleGate", "stalePause")
  /\ SetGate(FALSE)
  /\ OnlySession

\* pausePortPump() sets the flag, then waits for PumpIdle.
PausePortPump(u, from, to) ==
  /\ Goto(u, from, to)
  /\ paused' = TRUE
  /\ UNCHANGED <<sessionVars, life, calls, syncs, syncMutex, after, restore,
                 flagVars, pumping, stopping, pump, todo, at, dataVars>>

StalePause(u) == PausePortPump(u, "stalePause", "staleDiscard")

\* Mutant: pausing does not wait for the pass in progress.
PumpNotAwaited == TRUE

PumpIdle == ~pumping

\* The input samples that go when the adapters' pending state goes.
WithPending == [p \in Inputs |-> dropped[p] \cup ({pending[p]} \ {0})]

\* discardPendingPortState().
StaleDiscard(u) ==
  /\ Goto(u, "staleDiscard", "staleEnd") /\ PumpIdle
  /\ dropped' = WithPending /\ pending' = Nothing /\ raw' = {}
  /\ UNCHANGED <<sessionVars, life, calls, syncs, syncMutex, after, restore,
                 flagVars, pumpVars, adapters, staged, registered, quarantined,
                 remoteVars, taken, copies>>

\* Mutant: the pump is resumed whatever the interface's state.
ResumeAlways == TRUE

\* resumePortPump() leaves a stale interface paused.
ResumeAllowed == ~stale

ResumePortPump ==
  /\ paused' = (paused /\ ~ResumeAllowed)
  /\ UNCHANGED <<pumping, stopping, pump, todo, at>>

\* The control call returns, synchronize() returns false, or goes on.
StaleEnd(u) ==
  /\ \/ /\ after = "return" /\ Goto(u, "staleEnd", "idle")
        /\ syncMutex' = {} /\ UNCHANGED pumpVars
     \/ /\ after = "fail" /\ Goto(u, "staleEnd", "idle")
        /\ syncMutex' = {} /\ ResumePortPump
     \/ /\ after = "connect" /\ Goto(u, "staleEnd", "connect")
        /\ UNCHANGED <<syncMutex, pumpVars>>
  /\ UNCHANGED <<sessionVars, life, calls, syncs, after, restore, flagVars,
                 dataVars>>

-----------------------------------------------------------------------------
(* create() and synchronize()                                              *)

CreateCall(u) ==
  /\ life = "constructed" /\ life' = "creating"
  /\ Goto(u, "idle", "createConnect")
  /\ UNCHANGED <<sessionVars, calls, syncs, syncMutex, after, restore, flagVars,
                 pumpVars, dataVars>>

CreateConnect(u) ==
  /\ \/ ConnectBegin(u) /\ Goto(u, "createConnect", "createConnecting")
     \/ ConnectSucceeded(u) /\ Goto(u, "createConnecting", "syncLock")
     \/ ConnectFailed(u) /\ Goto(u, "createConnecting", "idle")
  /\ OnlySession

\* A thread without an RTT context returns before anything changes.
SyncCall(u) == Call(u, "syncLock") /\ UNCHANGED sessionVars

\* synchronize_mutex, and the first store of setInterfaceAccessEnabled(false).
SyncLock(u) ==
  /\ Goto(u, "syncLock", "syncGate")
  /\ syncMutex = {} /\ syncMutex' = {u}
  /\ syncs' = syncs + 1
  /\ CloseGate
  /\ UNCHANGED <<life, calls, after, restore, flagVars, pumpVars, dataVars>>

SyncGate(u) ==
  /\ Goto(u, "syncGate", "syncPause")
  /\ SetGate(FALSE)
  /\ OnlySession

SyncPause(u) == PausePortPump(u, "syncPause", "syncEnter")

\* The session's state on entry decides: discover, or mark the interface
\* stale if it is not yet and connect.
SyncEnter(u) ==
  /\ PumpIdle
  /\ restore' = (ready /\ ~stale /\ sess = "connected")
  /\ \/ /\ sess = "connected" /\ Goto(u, "syncEnter", "describe")
        /\ UNCHANGED after
     \/ /\ sess # "connected" /\ (~ready \/ stale)
        /\ Goto(u, "syncEnter", "connect") /\ UNCHANGED after
     \/ /\ sess # "connected" /\ ready /\ ~stale
        /\ Goto(u, "syncEnter", "staleMark") /\ after' = "connect"
  /\ UNCHANGED <<sessionVars, life, calls, syncs, syncMutex, flagVars, pumpVars,
                 dataVars>>

SyncConnect(u) ==
  /\ \/ ConnectBegin(u) /\ Goto(u, "connect", "connecting") /\ UNCHANGED after
     \/ ConnectSucceeded(u) /\ Goto(u, "connecting", "describe") /\ UNCHANGED after
     \/ ConnectFailed(u) /\ Goto(u, "connecting", "staleMark") /\ after' = "fail"
  /\ UNCHANGED <<life, calls, syncs, syncMutex, restore, flagVars, pumpVars,
                 dataVars>>

\* stageRemoteService() asks category after category; the root operations
\* the proxy needs are validated with the operations.  Nothing of the
\* installed interface is touched.
ReadDescription(u) == Goto(u, "describe", "operations") /\ Discovered /\ OnlySession
DiscoverOperations(u) == Goto(u, "operations", "values") /\ Discovered /\ OnlySession
DiscoverValues(u) == Goto(u, "values", "ports") /\ Discovered /\ OnlySession

DiscoverPorts(u) ==
  /\ Goto(u, "ports", "services") /\ Discovered
  /\ staged' = offers
  /\ UNCHANGED <<life, calls, syncs, syncMutex, after, restore, flagVars, pumpVars,
                 adapters, pending, raw, registered, quarantined, remoteVars,
                 sampleVars>>

DiscoverServices(u) == Goto(u, "services", "check") /\ Discovered /\ OnlySession

\* Discovery fails, or a description cannot be mirrored.
StageFailed(u) ==
  /\ \E point \in StagePoints : Goto(u, point, "staleMark")
  /\ DiscoveryFailed /\ after' = "fail" /\ staged' = {}
  /\ UNCHANGED <<life, calls, syncs, syncMutex, restore, flagVars, pumpVars,
                 adapters, pending, raw, registered, quarantined, remoteVars,
                 sampleVars>>

\* Mutant: unacknowledged samples are not looked at.
ReplaceAlways == TRUE

\* Every unacknowledged sample has a destination of the same identity.
CanReplacePortAdapters == \A p \in Ports : pending[p] # 0 => p \in staged

SyncCheck(u) ==
  /\ Goto(u, "check", IF CanReplacePortAdapters THEN "install" ELSE "keep")
  /\ UNCHANGED sessionVars
  /\ OnlySession

\* Mutant: the refused replacement leaves the gate closed.
KeepClosed == FALSE

RestoreAccess == restore /\ sess = "connected"

\* Refused: the installed interface is opened again and the pump resumes.
SyncKeep(u) ==
  /\ Goto(u, "keep", "idle") /\ syncMutex' = {} /\ staged' = {}
  /\ IF RestoreAccess THEN SetGate(TRUE) ELSE UNCHANGED sessionVars
  /\ ResumePortPump
  /\ UNCHANGED <<life, calls, syncs, after, restore, flagVars, adapters, pending,
                 raw, registered, quarantined, remoteVars, sampleVars>>

\* The old ports are removed, quarantined adapters released, the staged ones
\* registered.
SyncInstall(u) ==
  /\ Goto(u, "install", "swap")
  /\ ready' = FALSE /\ quarantined' = {}
  /\ registered' = [p \in Ports |-> IF p \in staged THEN syncs ELSE 0]
  /\ UNCHANGED <<sessionVars, life, calls, syncs, syncMutex, after, restore, stale,
                 pumpVars, adapters, pending, raw, staged, remoteVars, sampleVars>>

\* Mutant: adapters whose ports could not be removed are let go.
NoQuarantine(kept) == kept

\* quarantinePortAdapters() adds to the adapters it already keeps.
Quarantine(kept) == kept \cup {<<p, syncs>> : p \in staged}

\* Removing the old ports fails, or registering the staged ones does after
\* the quarantine was emptied.  The cleanup then removes every port, or
\* fails too and leaves some of them registered.
SyncInstallFailed(u) ==
  /\ Goto(u, "install", "staleMark") /\ after' = "fail"
  /\ ready' = FALSE /\ staged' = {}
  /\ \E old \in BOOLEAN, left \in SUBSET Ports :
       LET kept == IF old THEN quarantined ELSE {}
           there == [p \in Ports |-> IF old THEN registered[p]
                                     ELSE IF p \in staged THEN syncs ELSE 0]
       IN  /\ registered' = [p \in Ports |-> IF p \in left THEN there[p] ELSE 0]
           /\ quarantined' = IF left = {} THEN kept ELSE Quarantine(kept)
  /\ UNCHANGED <<sessionVars, life, calls, syncs, syncMutex, restore, stale,
                 pumpVars, adapters, pending, raw, remoteVars, sampleVars>>

\* replacePortAdapters(): transferPendingStateTo() the adapter of the same
\* identity.
SyncSwap(u) ==
  /\ Goto(u, "swap", "fresh")
  /\ adapters' = [p \in Ports |-> IF p \in staged THEN syncs ELSE 0]
  /\ pending' = [p \in Ports |-> IF p \in staged THEN pending[p] ELSE 0]
  /\ raw' = raw \cap staged
  /\ staged' = {} /\ ready' = TRUE
  /\ UNCHANGED <<sessionVars, life, calls, syncs, syncMutex, after, restore, stale,
                 pumpVars, registered, quarantined, remoteVars, sampleVars>>

\* markInterfaceFresh(): the gate, then the flag.
SyncFresh(u) ==
  /\ Goto(u, "fresh", "resume")
  /\ SetGate(TRUE)
  /\ OnlySession

SyncResume(u) ==
  /\ Goto(u, "resume", "idle") /\ syncMutex' = {}
  /\ stale' = FALSE /\ paused' = FALSE
  /\ life' = "created"
  /\ UNCHANGED <<sessionVars, calls, syncs, after, restore, ready, pumping, stopping,
                 pump, todo, at, dataVars>>

-----------------------------------------------------------------------------
(* port_thread: pumpPorts() and RemotePortAdapter::pump()                  *)

\* A step of the pump leaves the users alone.
OnlyPump == UNCHANGED <<callVars, flagVars, paused, stopping, adapters, staged,
                        registered, quarantined, remoteVars>>

PumpBegin ==
  /\ pump = "wait" /\ ~stopping /\ ~paused
  /\ pump' = "next" /\ pumping' = TRUE
  /\ todo' = {p \in Ports : adapters[p] # 0}
  /\ UNCHANGED <<sessionVars, at, pending, raw, sampleVars>>
  /\ OnlyPump

\* The pump turns to p, with a request to make or none.
Visit(p, to) ==
  /\ pump = "next" /\ ~stopping /\ p \in todo
  /\ todo' = todo \ {p} /\ pump' = to
  /\ at' = IF to = "send" THEN {p} ELSE {}
  /\ UNCHANGED <<sessionVars, pumping, copies, dropped>>
  /\ OnlyPump

\* pumpInput(): take a sample; encoding may fail, then it stays as it is.
PumpTake(p) ==
  /\ p \in Inputs /\ pending[p] = 0 /\ taken[p] < MaxSamples
  /\ taken' = [taken EXCEPT ![p] = @ + 1]
  /\ pending' = [pending EXCEPT ![p] = taken[p] + 1]
  /\ \/ Visit(p, "send") /\ UNCHANGED raw
     \/ Visit(p, "next") /\ raw' = raw \cup {p}

\* pumpInput(): encode and send, or send again, the sample that is kept.
PumpRetry(p) ==
  /\ p \in Inputs /\ pending[p] # 0
  /\ Visit(p, "send") /\ raw' = raw \ {p}
  /\ UNCHANGED <<pending, taken>>

\* pumpOutput(): write the sample that is kept.
PumpDeliver(p) ==
  /\ p \in Outputs /\ pending[p] # 0
  /\ Visit(p, "next") /\ pending' = [pending EXCEPT ![p] = 0]
  /\ UNCHANGED <<raw, taken>>

\* pumpOutput(): nothing is kept, read the next one.
PumpRead(p) ==
  /\ p \in Outputs /\ pending[p] = 0
  /\ Visit(p, "send")
  /\ UNCHANGED <<pending, raw, taken>>

\* Not connected locally, no new data, or encoding or writing fails again.
PumpSkip(p) ==
  /\ p \in Inputs => pending[p] = 0 \/ p \in raw
  /\ Visit(p, "next")
  /\ UNCHANGED <<pending, raw, taken>>

\* writePortValue() or readPortValue(): refused at once, or sent.
PumpSend ==
  /\ pump = "send"
  /\ \/ RequestRefused(TRUE) /\ pump' = "next" /\ at' = {}
     \/ RequestBegin(PumpThread, TRUE) /\ pump' = "reply" /\ UNCHANGED at
  /\ UNCHANGED <<pumping, todo, pending, raw, sampleVars>>
  /\ OnlyPump

\* An accepted input sample is done with.  One whose answer is lost is kept;
\* the endpoint may have accepted it.
PumpReplyInput(p) ==
  /\ pump = "reply" /\ at = {p} /\ p \in Inputs
  /\ \E answer \in Answers, executed \in BOOLEAN :
       /\ RequestEnd(PumpThread, answer)
       /\ answer = "good" => executed
       /\ answer = "refused" => ~executed
       /\ executed => p \in offers
       /\ copies' = IF executed THEN [copies EXCEPT ![p][pending[p]] = @ + 1]
                    ELSE copies
       /\ pending' = [pending EXCEPT ![p] = IF answer = "good" THEN 0 ELSE @]
  /\ pump' = "next" /\ at' = {}
  /\ UNCHANGED <<pumping, todo, raw, taken, dropped>>
  /\ OnlyPump

\* A value is written locally at once or kept; waiting and errors keep none.
PumpReplyOutput(p) ==
  /\ pump = "reply" /\ at = {p} /\ p \in Outputs
  /\ \E answer \in Answers :
       /\ RequestEnd(PumpThread, answer)
       /\ answer = "good" => p \in offers
       /\ \/ UNCHANGED pending
          \/ answer = "good" /\ pending' = [pending EXCEPT ![p] = 1]
  /\ pump' = "next" /\ at' = {}
  /\ UNCHANGED <<pumping, todo, raw, sampleVars>>
  /\ OnlyPump

PumpEnd ==
  /\ pump = "next" /\ (todo = {} \/ stopping)
  /\ pump' = "wait" /\ pumping' = FALSE /\ todo' = {}
  /\ UNCHANGED <<sessionVars, at, pending, raw, sampleVars>>
  /\ OnlyPump

PumpExit ==
  /\ pump = "wait" /\ stopping
  /\ pump' = "exited"
  /\ UNCHANGED <<sessionVars, pumping, todo, at, pending, raw, sampleVars>>
  /\ OnlyPump

PumpStep ==
  \/ PumpBegin \/ PumpSend \/ PumpEnd \/ PumpExit
  \/ \E p \in Ports :
       \/ PumpTake(p) \/ PumpRetry(p) \/ PumpDeliver(p) \/ PumpRead(p)
       \/ PumpSkip(p) \/ PumpReplyInput(p) \/ PumpReplyOutput(p)

-----------------------------------------------------------------------------
(* ~TaskContextProxy(), also after a failed create()                       *)

DestroyCall(u) ==
  /\ life \in {"creating", "created"} /\ \A v \in Users : pc[v] = "idle"
  /\ life' = "destroyed" /\ Goto(u, "idle", "destroyGate")
  /\ ready' = FALSE /\ CloseGate
  /\ UNCHANGED <<calls, syncs, syncMutex, after, restore, stale, pumpVars, dataVars>>

DestroyGate(u) ==
  /\ Goto(u, "destroyGate", "destroyStop")
  /\ SetGate(FALSE)
  /\ OnlySession

\* stopPortPump() requests the stop, then joins.
DestroyStop(u) ==
  /\ Goto(u, "destroyStop", "destroyJoin")
  /\ stopping' = TRUE
  /\ UNCHANGED <<sessionVars, life, calls, syncs, syncMutex, after, restore,
                 flagVars, paused, pumping, pump, todo, at, dataVars>>

\* The interface is cleared, or that fails and leaves some ports; all
\* adapters are released (~RemotePortAdapter() lets go of a registered port).
DestroyClear(u) ==
  /\ Goto(u, "destroyJoin", "idle") /\ pump = "exited"
  /\ \E left \in SUBSET Ports :
       registered' = [p \in Ports |-> IF p \in left THEN registered[p] ELSE 0]
  /\ quarantined' = {}
  /\ adapters' = Nothing /\ pending' = Nothing /\ raw' = {}
  /\ dropped' = WithPending
  /\ UNCHANGED <<sessionVars, life, calls, syncs, syncMutex, after, restore,
                 flagVars, pumpVars, staged, remoteVars, taken, copies>>

-----------------------------------------------------------------------------
(* The endpoint and the specification                                      *)

RemoteChange ==
  /\ changes < MaxChanges /\ changes' = changes + 1
  /\ \E p \in Ports : offers' = IF p \in offers THEN offers \ {p} ELSE offers \cup {p}
  /\ UNCHANGED <<sessionVars, callVars, flagVars, pumpVars, portVars, sampleVars>>

\* A call of the application; the rest of a call is UserStep.
UserCall(u) ==
  \/ CreateCall(u) \/ AccessCall(u) \/ ControlCall(u) \/ SyncCall(u)
  \/ DestroyCall(u)

UserStep(u) ==
  \/ AccessRequest(u) \/ AccessEnd(u)
  \/ ControlLock(u) \/ ControlFallback(u) \/ ControlRequest(u) \/ ControlDone(u)
  \/ ControlFailed(u)
  \/ StaleMark(u) \/ StaleGate(u) \/ StalePause(u) \/ StaleDiscard(u) \/ StaleEnd(u)
  \/ CreateConnect(u) \/ SyncLock(u) \/ SyncGate(u) \/ SyncPause(u) \/ SyncEnter(u)
  \/ SyncConnect(u) \/ ReadDescription(u) \/ DiscoverOperations(u)
  \/ DiscoverValues(u) \/ DiscoverPorts(u) \/ DiscoverServices(u) \/ StageFailed(u)
  \/ SyncCheck(u) \/ SyncKeep(u) \/ SyncInstall(u) \/ SyncInstallFailed(u)
  \/ SyncSwap(u) \/ SyncFresh(u) \/ SyncResume(u)
  \/ DestroyGate(u) \/ DestroyStop(u) \/ DestroyClear(u)

\* The proxy is gone.
Over ==
  /\ life = "destroyed" /\ \A u \in Users : pc[u] = "idle"
  /\ UNCHANGED vars

Next ==
  \/ \E u \in Users : UserCall(u) \/ UserStep(u)
  \/ PumpStep \/ RemoteChange \/ Over

Spec == Init /\ [][Next]_vars

\* Threads are scheduled and requests end (request_timeout).  The pump
\* sleeps port_poll_interval between passes, so an access or a control call
\* that waits for the session's mutex finds it free in the end: strong
\* fairness.  No other step needs it: the gate is closed before the mutex is
\* waited for.
FairSpec ==
  /\ Spec
  /\ WF_vars(PumpStep)
  /\ \A u \in Users :
       WF_vars(UserStep(u)) /\ SF_vars(AccessRequest(u)) /\ SF_vars(ControlRequest(u))

-----------------------------------------------------------------------------
(* Properties                                                              *)

\* Every variable has its type.
TypeOK ==
  /\ SessionTypeOK(Users \cup {PumpThread})
  /\ life \in {"constructed", "creating", "created", "destroyed"}
  /\ pc \in [Users -> Points] /\ calls \in 0..MaxCalls /\ syncs \in 0..(MaxCalls + 1)
  /\ syncMutex \in SUBSET Users
  /\ after \in {"return", "fail", "connect"} /\ restore \in BOOLEAN
  /\ ready \in BOOLEAN /\ stale \in BOOLEAN
  /\ paused \in BOOLEAN /\ pumping \in BOOLEAN /\ stopping \in BOOLEAN
  /\ pump \in {"wait", "next", "send", "reply", "exited"}
  /\ todo \in SUBSET Ports /\ at \in SUBSET Ports
  /\ adapters \in [Ports -> 0..(MaxCalls + 1)]
  /\ registered \in [Ports -> 0..(MaxCalls + 1)]
  /\ pending \in [Ports -> 0..MaxSamples] /\ raw \in SUBSET Inputs
  /\ staged \in SUBSET Ports
  /\ quarantined \in SUBSET (Ports \X (1..(MaxCalls + 1)))
  /\ offers \in SUBSET Ports /\ changes \in 0..MaxChanges
  /\ taken \in [Inputs -> 0..MaxSamples]
  /\ copies \in [Inputs -> [Sample -> Nat]]
  /\ dropped \in [Inputs -> SUBSET Sample]

\* The endpoint accepts a sample of a mirrored input port at most once,
\* although writePortValue() is retried until it succeeds: a write of unknown
\* outcome makes the session stale, and the sample is discarded before the
\* session is connected again.
SampleAtMostOnce == \A p \in Inputs, s \in Sample : copies[p][s] <= 1

\* A sample taken from a local connection was accepted, is still kept for
\* sending, or was discarded with a stale interface or the proxy; replacing
\* the adapters loses none.
NoSilentLoss ==
  \A p \in Inputs : \A s \in 1..taken[p] :
    copies[p][s] >= 1 \/ pending[p] = s \/ s \in dropped[p]

\* From the pause on, the pump does not touch adapters that synchronize()
\* or markInterfaceStale() read and replace without a lock.
PumpQuietDuringReplacement ==
  \A u \in Users :
    pc[u] \in StagePoints \cup ReplacePoints \cup {"connect", "connecting", "fresh",
                                                   "resume", "staleEnd"}
      => ~pumping

\* Between calls, a stale interface has its gate closed, its pump paused and
\* no unacknowledged sample.
StaleIsQuiet ==
  (syncMutex = {} /\ stale) =>
    ~access /\ paused /\ ~pumping /\ pending = Nothing

\* Between calls, a mirrored interface that is ready and not stale on a
\* connected session is open and pumped: also after a refused replacement.
FreshIsUsable ==
  (syncMutex = {} /\ life = "created" /\ ready /\ ~stale /\ sess = "connected") =>
    access /\ ~paused

\* Once synchronize() has closed the gate, no request of another thread is in
\* progress until it opens it again.
NoAccessWhileReplacing ==
  \A u \in Users : pc[u] \in SyncPoints \ {"syncGate", "resume"} => holder \subseteq {u}

\* While the proxy lives, the adapter of every port that is registered with
\* its RTT interface is kept alive: installed, quarantined, or held by the
\* running synchronize().
RegisteredPortsOwned ==
  \A p \in Ports : life # "destroyed" /\ registered[p] # 0 =>
    \/ adapters[p] = registered[p]
    \/ <<p, registered[p]>> \in quarantined
    \/ p \in staged /\ registered[p] = syncs

\* Every call returns, the destructor too: no thread waits forever for
\* synchronize_mutex, the session's mutex or the pump.
CallsReturn == \A u \in Users : pc[u] # "idle" ~> pc[u] = "idle"

=============================================================================
