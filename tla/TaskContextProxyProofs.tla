------------------------ MODULE TaskContextProxyProofs ------------------------
(***************************************************************************)
(* Machine-checked proofs about TaskContextProxy, for every number of      *)
(* threads, ports, samples and calls.                                      *)
(***************************************************************************)
EXTENDS TaskContextProxy, FiniteSetTheorems, TLAPS

-----------------------------------------------------------------------------
(* The inductive invariant                                                 *)

\* The parts of TypeOK.
CallType ==
  /\ life \in {"constructed", "creating", "created", "destroyed"}
  /\ pc \in [Users -> Points] /\ syncMutex \in SUBSET Users
  /\ after \in {"return", "fail", "connect"}
  /\ pump \in {"wait", "next", "send", "reply", "exited"}
  /\ todo \in SUBSET Ports /\ at \in SUBSET Ports

FlagType ==
  /\ SessionTypeOK(Users \cup {PumpThread})
  /\ restore \in BOOLEAN /\ ready \in BOOLEAN /\ stale \in BOOLEAN
  /\ paused \in BOOLEAN /\ pumping \in BOOLEAN /\ stopping \in BOOLEAN

CountType == calls \in 0..MaxCalls /\ syncs \in 0..(MaxCalls + 1)

PortType ==
  /\ adapters \in [Ports -> 0..(MaxCalls + 1)]
  /\ registered \in [Ports -> 0..(MaxCalls + 1)]
  /\ quarantined \in SUBSET (Ports \X (1..(MaxCalls + 1)))
  /\ staged \in SUBSET Ports
  /\ offers \in SUBSET Ports /\ changes \in 0..MaxChanges

SampleType ==
  /\ pending \in [Ports -> 0..MaxSamples] /\ raw \in SUBSET Inputs
  /\ taken \in [Inputs -> 0..MaxSamples]
  /\ copies \in [Inputs -> [Sample -> Nat]]
  /\ dropped \in [Inputs -> SUBSET Sample]

CreatePoints == {"createConnect", "createConnecting"}
DestroyPoints == {"destroyGate", "destroyStop", "destroyJoin"}
MutexPoints == {"control", "calling"} \cup SyncPoints \cup StalePoints

\* A proxy is created by one thread, and destroyed by one, with no other call
\* in progress.
LifeInv ==
  /\ life = "constructed" => \A u \in Users : pc[u] = "idle"
  /\ life = "creating" =>
       \A u, v \in Users : pc[u] # "idle" /\ pc[v] # "idle" => u = v
  /\ life = "destroyed" => \A u \in Users : pc[u] \in DestroyPoints \cup {"idle"}
  /\ \A u \in Users : pc[u] \in CreatePoints => life = "creating"
  /\ \A u \in Users : pc[u] \in DestroyPoints => life = "destroyed"
  /\ stopping => life = "destroyed"

\* Calls that have still to synchronize have been counted.
Syncing == {u \in Users : pc[u] \in CreatePoints \cup {"syncLock"}}

CountInv ==
  /\ IsFiniteSet(Syncing)
  /\ syncs + Cardinality(Syncing) <= calls + (IF life = "constructed" THEN 0 ELSE 1)
  /\ \A u \in Users : pc[u] \in SyncPoints => syncs > 0
  /\ after = "connect" => syncs > 0

\* synchronize_mutex is held over synchronize(), a control call and
\* markInterfaceStale(), by one user.
MutexInv ==
  /\ \A u \in Users : u \in syncMutex <=> pc[u] \in MutexPoints
  /\ \A u, v \in syncMutex : u = v

\* The session's mutex is held over a request, by one thread.
HolderInv ==
  /\ \A u \in Users : u \in holder <=>
       pc[u] \in {"access", "calling", "createConnecting", "connecting"}
  /\ PumpThread \in holder <=> pump = "reply"
  /\ \A t, v \in holder : t = v
  /\ pump = "reply" => sess = "connected"

\* From here on the gate is closed ...
ClosedPoints ==
  (SyncPoints \ {"resume"}) \cup (StalePoints \ {"staleMark"}) \cup DestroyPoints

\* ... from here on no other request is in progress ...
SolePoints ==
  (SyncPoints \ {"syncGate", "resume"}) \cup (StalePoints \ {"staleMark", "staleGate"})

\* ... and from here on the pump is paused, and then does nothing.
QuietPoints ==
  StagePoints \cup ReplacePoints
    \cup {"connect", "connecting", "fresh", "resume", "staleEnd"}

GateInv ==
  /\ \A u \in Users : pc[u] \in ClosedPoints => ~access
  /\ \A u \in Users : pc[u] \in SolePoints => holder \subseteq {u}
  /\ \A u \in Users : pc[u] = "resume" /\ sess = "connected" => access

PauseInv ==
  /\ \A u \in Users : pc[u] \in QuietPoints \cup {"syncEnter", "staleDiscard"} => paused
  /\ PumpQuietDuringReplacement

\* A pass has a port and, if that is an input, a sample of it in its hands.
PumpInv ==
  /\ pumping <=> pump \in {"next", "send", "reply"}
  /\ pump \in {"send", "reply"} =>
       \E p \in Ports : at = {p} /\ (p \in Inputs => pending[p] # 0)

\* What a stale interface, and one that never was ready, has in common.
Settled == paused /\ ~pumping /\ pending = Nothing

\* The flags of the interface at each point of a call.
FlagInv ==
  /\ \A u \in Users : pc[u] \in StalePoints \ {"staleMark"} => stale
  /\ \A u \in Users : pc[u] \in CreatePoints => ~ready /\ ~stale
  /\ life = "constructed" => ~ready /\ ~stale
  /\ \A u \in Users : pc[u] \in {"fresh", "resume"} => ready
  /\ \A u \in Users : pc[u] = "keep" => ready \/ stale
  /\ \A u \in Users : pc[u] \in StagePoints \cup {"check", "keep"} =>
       (restore <=> ready /\ ~stale)
  /\ \A u \in Users : pc[u] \in {"connect", "connecting"} =>
       ~restore /\ (~ready \/ stale)
  /\ \A u \in Users : pc[u] \in StalePoints /\ after = "connect" => ~restore

SettledInv ==
  /\ stale /\ (\A u \in Users : pc[u] \notin {"staleGate", "stalePause", "staleDiscard"})
       => Settled
  /\ stale /\ (\A u \in Users : pc[u] \notin {"staleGate", "stalePause", "staleDiscard",
                                              "resume"})
       => ~access
  /\ ~ready /\ ~stale /\ life # "destroyed"
       /\ (\A u \in Users : pc[u] \notin {"swap", "staleMark"})
       => Settled
  /\ \A u \in Users : pc[u] \in {"connect", "connecting"} => pending = Nothing

\* A fresh interface is open and pumped, but for a call that is about to change it.
FreshInv ==
  (/\ life = "created" /\ ready /\ ~stale /\ sess = "connected"
   /\ \A u \in Users : pc[u] \notin SyncPoints \cup StalePoints)
    => access /\ ~paused

\* Staged ports belong to a running synchronize(), which keeps what must be kept.
OwnerInv ==
  /\ (\A u \in Users : pc[u] \notin {"services"} \cup ReplacePoints) => staged = {}
  /\ \A u \in Users : pc[u] = "swap" =>
       \A p \in Ports : registered[p] = IF p \in staged THEN syncs ELSE 0
  /\ \A u \in Users : pc[u] \in {"install", "swap"} => CanReplacePortAdapters
  /\ life # "destroyed" /\ (\A u \in Users : pc[u] # "swap") =>
       \A p \in Ports : registered[p] # 0 =>
         adapters[p] = registered[p] \/ <<p, registered[p]>> \in quarantined

\* Samples are numbered; one that the endpoint may have is not sent again.
SampleInv ==
  /\ \A p \in Inputs : pending[p] <= taken[p]
  /\ \A p \in Inputs, s \in Sample : s > taken[p] => copies[p][s] = 0
  /\ SampleAtMostOnce
  /\ \A p \in Inputs : sess = "connected" /\ pending[p] # 0 => copies[p][pending[p]] = 0
  /\ NoSilentLoss

ProxyInv ==
  /\ TypeOK /\ LifeInv /\ CountInv /\ MutexInv /\ HolderInv /\ GateInv /\ PauseInv
  /\ PumpInv /\ FlagInv /\ SettledInv /\ FreshInv /\ OwnerInv /\ SampleInv

-----------------------------------------------------------------------------
(* Frames and the mutex                                                    *)

\* port_thread leaves the calls, the flags and the interface alone.
LEMMA PumpFrame ==
  PumpStep => UNCHANGED <<callVars, flagVars, paused, stopping, adapters, staged,
                          registered, quarantined, remoteVars>>
  <1> SUFFICES ASSUME PumpStep
               PROVE  UNCHANGED <<callVars, flagVars, paused, stopping, adapters,
                                  staged, registered, quarantined, remoteVars>>
    OBVIOUS
  <1> QED
    BY DEF PumpStep, PumpBegin, PumpSend, PumpEnd, PumpExit, PumpTake,
        PumpRetry, PumpDeliver, PumpRead, PumpSkip, PumpReplyInput,
        PumpReplyOutput, Visit, OnlyPump

\* A call leaves to port_thread what it keeps of its pass, and the history of
\* what it took and the endpoint accepted.
LEMMA UserFrame ==
  ASSUME NEW u \in Users, UserCall(u) \/ UserStep(u)
  PROVE  UNCHANGED <<pumping, pump, todo, at, taken, copies, offers, changes>>
  <1> USE DEF OnlySession, OnlyMutex, Call, sessionVars, callVars, flagVars,
      pumpVars, portVars, remoteVars, sampleVars, dataVars
  <1>1. CASE UserCall(u)
    BY <1>1 DEF UserCall, CreateCall, AccessCall, ControlCall, SyncCall,
        DestroyCall
  <1>2. CASE UserStep(u)
    <2>1. CASE AccessEnd(u)
      BY <2>1 DEF AccessEnd, RequestEnd
    <2>2. CASE ControlLock(u)
      BY <2>2 DEF ControlLock
    <2>3. CASE ControlFallback(u)
      BY <2>3 DEF ControlFallback
    <2>4. CASE ControlRequest(u)
      BY <2>4 DEF ControlRequest, RequestBegin, RequestRefused, Usable
    <2>5. CASE ControlDone(u)
      BY <2>5 DEF ControlDone, RequestEnd
    <2>6. CASE ControlFailed(u)
      BY <2>6 DEF ControlFailed, RequestEnd
    <2>7. CASE StaleMark(u)
      BY <2>7 DEF StaleMark, CloseGate
    <2>8. CASE StaleGate(u)
      BY <2>8 DEF StaleGate, SetGate, GateFree
    <2>9. CASE StalePause(u)
      BY <2>9 DEF StalePause, PausePortPump
    <2>10. CASE StaleDiscard(u)
      BY <2>10 DEF StaleDiscard, PumpIdle
    <2>11. CASE StaleEnd(u)
      BY <2>11 DEF StaleEnd, ResumePortPump, ResumeAllowed
    <2>12. CASE CreateConnect(u)
      BY <2>12 DEF CreateConnect, ConnectBegin, ConnectSucceeded, ConnectFailed
    <2>13. CASE SyncLock(u)
      BY <2>13 DEF SyncLock, CloseGate
    <2>14. CASE SyncGate(u)
      BY <2>14 DEF SyncGate, SetGate, GateFree
    <2>15. CASE SyncPause(u)
      BY <2>15 DEF SyncPause, PausePortPump
    <2>16. CASE SyncEnter(u)
      BY <2>16 DEF SyncEnter, PumpIdle
    <2>17. CASE SyncConnect(u)
      BY <2>17 DEF SyncConnect, ConnectBegin, ConnectSucceeded, ConnectFailed
    <2>18. CASE ReadDescription(u)
      BY <2>18 DEF ReadDescription, Discovered
    <2>19. CASE DiscoverOperations(u)
      BY <2>19 DEF DiscoverOperations, Discovered
    <2>20. CASE DiscoverValues(u)
      BY <2>20 DEF DiscoverValues, Discovered
    <2>21. CASE DiscoverPorts(u)
      BY <2>21 DEF DiscoverPorts, Discovered
    <2>22. CASE DiscoverServices(u)
      BY <2>22 DEF DiscoverServices, Discovered
    <2>23. CASE StageFailed(u)
      BY <2>23 DEF StageFailed, DiscoveryFailed
    <2>24. CASE SyncCheck(u)
      BY <2>24 DEF SyncCheck
    <2>25. CASE SyncKeep(u)
      BY <2>25 DEF SyncKeep, ResumePortPump, ResumeAllowed, SetGate, GateFree,
          RestoreAccess
    <2>26. CASE SyncInstall(u)
      BY <2>26 DEF SyncInstall
    <2>27. CASE SyncInstallFailed(u)
      BY <2>27 DEF SyncInstallFailed
    <2>28. CASE SyncSwap(u)
      BY <2>28 DEF SyncSwap
    <2>29. CASE SyncFresh(u)
      BY <2>29 DEF SyncFresh, SetGate, GateFree
    <2>30. CASE SyncResume(u)
      BY <2>30 DEF SyncResume
    <2>31. CASE DestroyGate(u)
      BY <2>31 DEF DestroyGate, SetGate, GateFree
    <2>32. CASE DestroyStop(u)
      BY <2>32 DEF DestroyStop
    <2>33. CASE DestroyClear(u)
      BY <2>33 DEF DestroyClear
    <2>34. CASE AccessRequest(u)
      BY <2>34 DEF AccessRequest, RequestBegin, RequestRefused, Usable
    <2> QED BY <1>2, <2>1, <2>2, <2>3, <2>4, <2>5, <2>6, <2>7, <2>8, <2>9,
        <2>10, <2>11, <2>12, <2>13, <2>14, <2>15, <2>16, <2>17, <2>18, <2>19,
        <2>20, <2>21, <2>22, <2>23, <2>24, <2>25, <2>26, <2>27, <2>28, <2>29,
        <2>30, <2>31, <2>32, <2>33, <2>34 DEF UserStep
  <1> QED BY <1>1, <1>2

\* A call moves its own thread.
LEMMA UserMoves ==
  ASSUME NEW u \in Users, UserCall(u) \/ UserStep(u), TypeOK
  PROVE  pc' = [pc EXCEPT ![u] = pc'[u]] /\ \A v \in Users \ {u} : pc'[v] = pc[v]
  <1>0. pc \in [Users -> Points]
    BY DEF TypeOK
  <1>1. ASSUME NEW from, NEW to, Goto(u, from, to)
        PROVE  pc' = [pc EXCEPT ![u] = pc'[u]] /\ \A v \in Users \ {u} : pc'[v] = pc[v]
    BY <1>0, <1>1 DEF Goto
  <1>2. CASE UserCall(u)
    BY <1>1, <1>2 DEF UserCall, Call, CreateCall, AccessCall, ControlCall,
        SyncCall, DestroyCall
  <1>3. CASE UserStep(u)
    <2>1. CASE AccessEnd(u)
      BY <1>1, <2>1 DEF AccessEnd
    <2>2. CASE ControlLock(u)
      BY <1>1, <2>2 DEF ControlLock
    <2>3. CASE ControlFallback(u)
      BY <1>1, <2>3 DEF ControlFallback
    <2>4. CASE ControlRequest(u)
      BY <1>1, <2>4 DEF ControlRequest
    <2>5. CASE ControlDone(u)
      BY <1>1, <2>5 DEF ControlDone
    <2>6. CASE ControlFailed(u)
      BY <1>1, <2>6 DEF ControlFailed
    <2>7. CASE StaleMark(u)
      BY <1>1, <2>7 DEF StaleMark
    <2>8. CASE StaleGate(u)
      BY <1>1, <2>8 DEF StaleGate
    <2>9. CASE StalePause(u)
      BY <1>1, <2>9 DEF StalePause, PausePortPump
    <2>10. CASE StaleDiscard(u)
      BY <1>1, <2>10 DEF StaleDiscard
    <2>11. CASE StaleEnd(u)
      BY <1>1, <2>11 DEF StaleEnd
    <2>12. CASE CreateConnect(u)
      BY <1>1, <2>12 DEF CreateConnect
    <2>13. CASE SyncLock(u)
      BY <1>1, <2>13 DEF SyncLock
    <2>14. CASE SyncGate(u)
      BY <1>1, <2>14 DEF SyncGate
    <2>15. CASE SyncPause(u)
      BY <1>1, <2>15 DEF SyncPause, PausePortPump
    <2>16. CASE SyncEnter(u)
      BY <1>1, <2>16 DEF SyncEnter
    <2>17. CASE SyncConnect(u)
      BY <1>1, <2>17 DEF SyncConnect
    <2>18. CASE ReadDescription(u)
      BY <1>1, <2>18 DEF ReadDescription
    <2>19. CASE DiscoverOperations(u)
      BY <1>1, <2>19 DEF DiscoverOperations
    <2>20. CASE DiscoverValues(u)
      BY <1>1, <2>20 DEF DiscoverValues
    <2>21. CASE DiscoverPorts(u)
      BY <1>1, <2>21 DEF DiscoverPorts
    <2>22. CASE DiscoverServices(u)
      BY <1>1, <2>22 DEF DiscoverServices
    <2>23. CASE StageFailed(u)
      BY <1>1, <2>23 DEF StageFailed
    <2>24. CASE SyncCheck(u)
      BY <1>1, <2>24 DEF SyncCheck
    <2>25. CASE SyncKeep(u)
      BY <1>1, <2>25 DEF SyncKeep
    <2>26. CASE SyncInstall(u)
      BY <1>1, <2>26 DEF SyncInstall
    <2>27. CASE SyncInstallFailed(u)
      BY <1>1, <2>27 DEF SyncInstallFailed
    <2>28. CASE SyncSwap(u)
      BY <1>1, <2>28 DEF SyncSwap
    <2>29. CASE SyncFresh(u)
      BY <1>1, <2>29 DEF SyncFresh
    <2>30. CASE SyncResume(u)
      BY <1>1, <2>30 DEF SyncResume
    <2>31. CASE DestroyGate(u)
      BY <1>1, <2>31 DEF DestroyGate
    <2>32. CASE DestroyStop(u)
      BY <1>1, <2>32 DEF DestroyStop
    <2>33. CASE DestroyClear(u)
      BY <1>1, <2>33 DEF DestroyClear
    <2>34. CASE AccessRequest(u)
      BY <1>1, <2>34 DEF AccessRequest
    <2> QED BY <1>3, <2>1, <2>2, <2>3, <2>4, <2>5, <2>6, <2>7, <2>8, <2>9,
        <2>10, <2>11, <2>12, <2>13, <2>14, <2>15, <2>16, <2>17, <2>18, <2>19,
        <2>20, <2>21, <2>22, <2>23, <2>24, <2>25, <2>26, <2>27, <2>28, <2>29,
        <2>30, <2>31, <2>32, <2>33, <2>34 DEF UserStep
  <1> QED BY <1>1, <1>2, <1>3

\* synchronize_mutex is held by one user.
LEMMA MutexStep == TypeOK /\ MutexInv /\ [Next]_vars => MutexInv'
  <1> SUFFICES ASSUME TypeOK, MutexInv, [Next]_vars PROVE MutexInv' OBVIOUS
  <1>0. pc \in [Users -> Points] /\ syncMutex \in SUBSET Users
    BY DEF TypeOK
  <1>a. ASSUME UNCHANGED <<pc, syncMutex>> PROVE MutexInv'
    BY <1>a DEF MutexInv
  <1>b. ASSUME NEW u \in Users, NEW from, NEW to, Goto(u, from, to), UNCHANGED syncMutex,
               from \in MutexPoints <=> to \in MutexPoints
        PROVE  MutexInv'
    BY <1>0, <1>b DEF MutexInv, Goto
  <1>c. ASSUME NEW u \in Users, NEW from, NEW to, Goto(u, from, to), syncMutex = {},
               syncMutex' = {u}, to \in MutexPoints
        PROVE  MutexInv'
    BY <1>0, <1>c DEF MutexInv, Goto
  <1>d. ASSUME NEW u \in Users, NEW from, NEW to, Goto(u, from, to), from \in MutexPoints,
               syncMutex' = {}, to \notin MutexPoints
        PROVE  MutexInv'
    BY <1>0, <1>d DEF MutexInv, Goto
  <1> USE DEF MutexPoints, SyncPoints, StagePoints, ReplacePoints,
      StalePoints, CreatePoints, DestroyPoints, sessionVars, callVars,
      flagVars, pumpVars, portVars, remoteVars, sampleVars, dataVars
  <1>1. ASSUME NEW u \in Users, UserCall(u) \/ UserStep(u) PROVE MutexInv'
    <2>1. CASE CreateCall(u)
      BY <1>b, <2>1 DEF CreateCall
    <2>2. CASE AccessCall(u)
      BY <1>b, <2>2 DEF AccessCall, Call
    <2>3. CASE ControlCall(u)
      BY <1>b, <2>3 DEF ControlCall, Call
    <2>4. CASE SyncCall(u)
      BY <1>b, <2>4 DEF SyncCall, Call
    <2>5. CASE DestroyCall(u)
      BY <1>b, <2>5 DEF DestroyCall, CloseGate
    <2>6. CASE AccessEnd(u)
      BY <1>b, <2>6 DEF AccessEnd, RequestEnd, OnlySession
    <2>7. CASE ControlLock(u)
      BY <1>c, <2>7 DEF ControlLock, OnlyMutex
    <2>8. CASE ControlFallback(u)
      BY <1>d, <2>8 DEF ControlFallback, OnlyMutex
    <2>9. CASE ControlRequest(u)
      BY <1>b, <2>9 DEF ControlRequest, RequestBegin, RequestRefused, Usable
    <2>10. CASE ControlDone(u)
      BY <1>d, <2>10 DEF ControlDone, RequestEnd
    <2>11. CASE ControlFailed(u)
      BY <1>b, <2>11 DEF ControlFailed, RequestEnd
    <2>12. CASE StaleMark(u)
      BY <1>b, <2>12 DEF StaleMark, CloseGate
    <2>13. CASE StaleGate(u)
      BY <1>b, <2>13 DEF StaleGate, SetGate, GateFree, OnlySession
    <2>14. CASE StalePause(u)
      BY <1>b, <2>14 DEF StalePause, PausePortPump
    <2>15. CASE StaleDiscard(u)
      BY <1>b, <2>15 DEF StaleDiscard, PumpIdle
    <2>16. CASE StaleEnd(u)
      BY <1>b, <1>d, <2>16 DEF StaleEnd, ResumePortPump, ResumeAllowed
    <2>17. CASE CreateConnect(u)
      BY <1>b, <2>17 DEF CreateConnect, ConnectBegin, ConnectSucceeded,
          ConnectFailed, OnlySession
    <2>18. CASE SyncLock(u)
      BY <1>c, <2>18 DEF SyncLock, CloseGate
    <2>19. CASE SyncGate(u)
      BY <1>b, <2>19 DEF SyncGate, SetGate, GateFree, OnlySession
    <2>20. CASE SyncPause(u)
      BY <1>b, <2>20 DEF SyncPause, PausePortPump
    <2>21. CASE SyncEnter(u)
      BY <1>b, <2>21 DEF SyncEnter, PumpIdle
    <2>22. CASE SyncConnect(u)
      BY <1>b, <2>22 DEF SyncConnect, ConnectBegin, ConnectSucceeded,
          ConnectFailed
    <2>23. CASE ReadDescription(u)
      BY <1>b, <2>23 DEF ReadDescription, Discovered, OnlySession
    <2>24. CASE DiscoverOperations(u)
      BY <1>b, <2>24 DEF DiscoverOperations, Discovered, OnlySession
    <2>25. CASE DiscoverValues(u)
      BY <1>b, <2>25 DEF DiscoverValues, Discovered, OnlySession
    <2>26. CASE DiscoverPorts(u)
      BY <1>b, <2>26 DEF DiscoverPorts, Discovered
    <2>27. CASE DiscoverServices(u)
      BY <1>b, <2>27 DEF DiscoverServices, Discovered, OnlySession
    <2>28. CASE StageFailed(u)
      BY <1>b, <2>28 DEF StageFailed, DiscoveryFailed
    <2>29. CASE SyncCheck(u)
      BY <1>b, <2>29 DEF SyncCheck, OnlySession
    <2>30. CASE SyncKeep(u)
      BY <1>d, <2>30 DEF SyncKeep, ResumePortPump, ResumeAllowed, SetGate,
          GateFree, RestoreAccess
    <2>31. CASE SyncInstall(u)
      BY <1>b, <2>31 DEF SyncInstall
    <2>32. CASE SyncInstallFailed(u)
      BY <1>b, <2>32 DEF SyncInstallFailed
    <2>33. CASE SyncSwap(u)
      BY <1>b, <2>33 DEF SyncSwap
    <2>34. CASE SyncFresh(u)
      BY <1>b, <2>34 DEF SyncFresh, SetGate, GateFree, OnlySession
    <2>35. CASE SyncResume(u)
      BY <1>d, <2>35 DEF SyncResume
    <2>36. CASE DestroyGate(u)
      BY <1>b, <2>36 DEF DestroyGate, SetGate, GateFree, OnlySession
    <2>37. CASE DestroyStop(u)
      BY <1>b, <2>37 DEF DestroyStop
    <2>38. CASE DestroyClear(u)
      BY <1>b, <2>38 DEF DestroyClear
    <2>39. CASE AccessRequest(u)
      BY <1>b, <2>39 DEF AccessRequest, RequestBegin, RequestRefused, Usable,
          OnlySession
    <2> QED BY <1>1, <2>1, <2>2, <2>3, <2>4, <2>5, <2>6, <2>7, <2>8, <2>9,
        <2>10, <2>11, <2>12, <2>13, <2>14, <2>15, <2>16, <2>17, <2>18, <2>19,
        <2>20, <2>21, <2>22, <2>23, <2>24, <2>25, <2>26, <2>27, <2>28, <2>29,
        <2>30, <2>31, <2>32, <2>33, <2>34, <2>35, <2>36, <2>37,
        <2>38, <2>39 DEF UserCall, UserStep
  <1>2. CASE PumpStep
    BY <1>a, <1>2, PumpFrame
  <1>3. CASE RemoteChange
    BY <1>a, <1>3 DEF RemoteChange
  <1>4. CASE UNCHANGED vars
    BY <1>a, <1>4 DEF vars
  <1> QED BY <1>1, <1>2, <1>3, <1>4 DEF Next, Over

-----------------------------------------------------------------------------
(* Calls and requests                                                      *)

\* One thread creates the proxy and one destroys it.
LEMMA LifeStep == TypeOK /\ LifeInv /\ [Next]_vars => LifeInv'
  <1> SUFFICES ASSUME TypeOK, LifeInv, [Next]_vars PROVE LifeInv' OBVIOUS
  <1>0. pc \in [Users -> Points]
    BY DEF TypeOK
  <1>a. ASSUME UNCHANGED <<pc, life, stopping>> PROVE LifeInv'
    BY <1>a DEF LifeInv
  <1>b. ASSUME NEW u \in Users, NEW from, NEW to, Goto(u, from, to),
               UNCHANGED <<life, stopping>>, from # "idle",
               to \in CreatePoints => from \in CreatePoints,
               to \in DestroyPoints => from \in DestroyPoints,
               from \in DestroyPoints => to \in DestroyPoints \cup {"idle"}
        PROVE  LifeInv'
    BY <1>0, <1>b DEF LifeInv, Goto
  <1>c. ASSUME NEW u \in Users, NEW to, Goto(u, "idle", to), life = "created",
               UNCHANGED <<life, stopping>>, to \notin CreatePoints \cup DestroyPoints
        PROVE  LifeInv'
    BY <1>0, <1>c DEF LifeInv, Goto
  <1> USE DEF SyncPoints, StagePoints, ReplacePoints, StalePoints,
      CreatePoints, DestroyPoints, sessionVars, callVars, flagVars, pumpVars,
      portVars, remoteVars, sampleVars, dataVars
  <1>1. ASSUME NEW u \in Users, UserCall(u) \/ UserStep(u) PROVE LifeInv'
    <2>1. CASE CreateCall(u)
      BY <1>0, <2>1 DEF LifeInv, Goto, CreateCall
    <2>2. CASE AccessCall(u)
      BY <1>c, <2>2 DEF AccessCall, Call
    <2>3. CASE ControlCall(u)
      BY <1>c, <2>3 DEF ControlCall, Call
    <2>4. CASE SyncCall(u)
      BY <1>c, <2>4 DEF SyncCall, Call
    <2>5. CASE DestroyCall(u)
      BY <1>0, <2>5 DEF LifeInv, Goto, DestroyCall
    <2>6. CASE AccessEnd(u)
      BY <1>b, <2>6 DEF AccessEnd, RequestEnd, OnlySession
    <2>7. CASE ControlLock(u)
      BY <1>b, <2>7 DEF ControlLock, OnlyMutex
    <2>8. CASE ControlFallback(u)
      BY <1>b, <2>8 DEF ControlFallback, OnlyMutex
    <2>9. CASE ControlRequest(u)
      BY <1>b, <2>9 DEF ControlRequest, RequestBegin, RequestRefused, Usable
    <2>10. CASE ControlDone(u)
      BY <1>b, <2>10 DEF ControlDone, RequestEnd
    <2>11. CASE ControlFailed(u)
      BY <1>b, <2>11 DEF ControlFailed, RequestEnd
    <2>12. CASE StaleMark(u)
      BY <1>b, <2>12 DEF StaleMark, CloseGate
    <2>13. CASE StaleGate(u)
      BY <1>b, <2>13 DEF StaleGate, SetGate, GateFree, OnlySession
    <2>14. CASE StalePause(u)
      BY <1>b, <2>14 DEF StalePause, PausePortPump
    <2>15. CASE StaleDiscard(u)
      BY <1>b, <2>15 DEF StaleDiscard, PumpIdle
    <2>16. CASE StaleEnd(u)
      BY <1>b, <2>16 DEF StaleEnd, ResumePortPump, ResumeAllowed
    <2>17. CASE CreateConnect(u)
      BY <1>b, <2>17 DEF CreateConnect, ConnectBegin, ConnectSucceeded,
          ConnectFailed, OnlySession
    <2>18. CASE SyncLock(u)
      BY <1>b, <2>18 DEF SyncLock, CloseGate
    <2>19. CASE SyncGate(u)
      BY <1>b, <2>19 DEF SyncGate, SetGate, GateFree, OnlySession
    <2>20. CASE SyncPause(u)
      BY <1>b, <2>20 DEF SyncPause, PausePortPump
    <2>21. CASE SyncEnter(u)
      BY <1>b, <2>21 DEF SyncEnter, PumpIdle
    <2>22. CASE SyncConnect(u)
      BY <1>b, <2>22 DEF SyncConnect, ConnectBegin, ConnectSucceeded,
          ConnectFailed
    <2>23. CASE ReadDescription(u)
      BY <1>b, <2>23 DEF ReadDescription, Discovered, OnlySession
    <2>24. CASE DiscoverOperations(u)
      BY <1>b, <2>24 DEF DiscoverOperations, Discovered, OnlySession
    <2>25. CASE DiscoverValues(u)
      BY <1>b, <2>25 DEF DiscoverValues, Discovered, OnlySession
    <2>26. CASE DiscoverPorts(u)
      BY <1>b, <2>26 DEF DiscoverPorts, Discovered
    <2>27. CASE DiscoverServices(u)
      BY <1>b, <2>27 DEF DiscoverServices, Discovered, OnlySession
    <2>28. CASE StageFailed(u)
      <3>1. PICK point \in StagePoints : Goto(u, point, "staleMark")
        BY <2>28 DEF StageFailed
      <3> QED BY <1>b, <2>28, <3>1 DEF StageFailed
    <2>29. CASE SyncCheck(u)
      BY <1>b, <2>29 DEF SyncCheck, OnlySession
    <2>30. CASE SyncKeep(u)
      BY <1>b, <2>30 DEF SyncKeep, ResumePortPump, ResumeAllowed, SetGate,
          GateFree, RestoreAccess
    <2>31. CASE SyncInstall(u)
      BY <1>b, <2>31 DEF SyncInstall
    <2>32. CASE SyncInstallFailed(u)
      BY <1>b, <2>32 DEF SyncInstallFailed
    <2>33. CASE SyncSwap(u)
      BY <1>b, <2>33 DEF SyncSwap
    <2>34. CASE SyncFresh(u)
      BY <1>b, <2>34 DEF SyncFresh, SetGate, GateFree, OnlySession
    <2>35. CASE SyncResume(u)
      BY <1>0, <2>35 DEF LifeInv, Goto, SyncResume
    <2>36. CASE DestroyGate(u)
      BY <1>b, <2>36 DEF DestroyGate, SetGate, GateFree, OnlySession
    <2>37. CASE DestroyStop(u)
      BY <1>0, <2>37 DEF LifeInv, Goto, DestroyStop
    <2>38. CASE DestroyClear(u)
      BY <1>b, <2>38 DEF DestroyClear
    <2>39. CASE AccessRequest(u)
      BY <1>c, <1>b, <2>39 DEF AccessRequest, RequestBegin, RequestRefused,
          Usable, OnlySession
    <2> QED BY <1>1, <2>1, <2>2, <2>3, <2>4, <2>5, <2>6, <2>7, <2>8, <2>9,
        <2>10, <2>11, <2>12, <2>13, <2>14, <2>15, <2>16, <2>17, <2>18, <2>19,
        <2>20, <2>21, <2>22, <2>23, <2>24, <2>25, <2>26, <2>27, <2>28, <2>29,
        <2>30, <2>31, <2>32, <2>33, <2>34, <2>35, <2>36, <2>37,
        <2>38, <2>39 DEF UserCall, UserStep
  <1>2. CASE PumpStep
    BY <1>a, <1>2, PumpFrame
  <1>3. CASE RemoteChange
    BY <1>a, <1>3 DEF RemoteChange
  <1>4. CASE UNCHANGED vars
    BY <1>a, <1>4 DEF vars
  <1> QED BY <1>1, <1>2, <1>3, <1>4 DEF Next, Over

\* Every synchronization is counted before it begins.
LEMMA CountStep == TypeOK /\ LifeInv /\ CountInv /\ [Next]_vars => CountInv'
  <1> SUFFICES ASSUME TypeOK, LifeInv, CountInv, [Next]_vars PROVE CountInv' OBVIOUS
  <1>0. /\ pc \in [Users -> Points] /\ calls \in Nat /\ syncs \in Nat
        /\ IsFiniteSet(Syncing) /\ Cardinality(Syncing) \in Nat
    BY ProxyAssumption, FS_CardinalityType DEF TypeOK, CountInv
  <1>a. ASSUME UNCHANGED <<pc, life, calls, syncs, after>> PROVE CountInv'
    BY <1>a DEF CountInv, Syncing
  <1>b. ASSUME NEW u \in Users, NEW from, NEW to, Goto(u, from, to), from # "idle",
               UNCHANGED <<calls, syncs>>,
               life' = life \/ life' = "created",
               to \in CreatePoints \cup {"syncLock"} <=>
                 from \in CreatePoints \cup {"syncLock"},
               to \in SyncPoints => from \in SyncPoints \/ after = "connect",
               after' # "connect" \/ after' = after \/ from \in SyncPoints
        PROVE  CountInv'
    <2>1. Syncing' = Syncing
      BY <1>0, <1>b DEF Syncing, Goto
    <2>2. life # "constructed"
      BY <1>b DEF LifeInv, Goto
    <2>3. \A v \in Users : pc'[v] \in SyncPoints => syncs > 0
      BY <1>0, <1>b DEF CountInv, Goto
    <2>4. after' = "connect" => syncs > 0
      BY <1>0, <1>b DEF CountInv, Goto
    <2> QED BY <1>0, <1>b, <2>1, <2>2, <2>3, <2>4 DEF CountInv
  <1>c. ASSUME NEW u \in Users, NEW to, Goto(u, "idle", to), life # "constructed",
               calls' = calls + 1, UNCHANGED <<syncs, after>>, life' = life,
               to \notin SyncPoints
        PROVE  CountInv'
    <2>1. \/ Syncing' = Syncing
          \/ Syncing' = Syncing \cup {u} /\ u \notin Syncing
      BY <1>0, <1>c DEF Syncing, Goto, CreatePoints
    <2>2. IsFiniteSet(Syncing') /\ Cardinality(Syncing') <= Cardinality(Syncing) + 1
      <3>1. CASE Syncing' = Syncing
        BY <1>0, <3>1
      <3>2. CASE Syncing' = Syncing \cup {u} /\ u \notin Syncing
        <4>1. /\ IsFiniteSet(Syncing \cup {u})
              /\ Cardinality(Syncing \cup {u}) = Cardinality(Syncing) + 1
          BY <1>0, <3>2, FS_AddElement
        <4> QED BY <1>0, <3>2, <4>1
      <3> QED BY <2>1, <3>1, <3>2
    <2>3. Cardinality(Syncing') \in Nat
      BY <2>2, FS_CardinalityType
    <2>4. \A v \in Users : pc'[v] \in SyncPoints => syncs > 0
      BY <1>0, <1>c DEF CountInv, Goto
    <2> QED BY <1>0, <1>c, <2>2, <2>3, <2>4 DEF CountInv
  <1>d. ASSUME NEW u \in Users, Goto(u, "idle", "createConnect"), life = "constructed",
               life' = "creating", UNCHANGED <<calls, syncs, after>>
        PROVE  CountInv'
    <2>1. Syncing' = Syncing \cup {u} /\ u \notin Syncing
      BY <1>0, <1>d DEF Syncing, Goto, CreatePoints
    <2>2. IsFiniteSet(Syncing') /\ Cardinality(Syncing') = Cardinality(Syncing) + 1
      BY <1>0, <2>1, FS_AddElement
    <2>4. \A v \in Users : pc'[v] \in SyncPoints => syncs > 0
      BY <1>0, <1>d DEF CountInv, Goto, SyncPoints, StagePoints,
          ReplacePoints, StalePoints, CreatePoints, DestroyPoints
    <2> QED BY <1>0, <1>d, <2>2, <2>4 DEF CountInv
  <1>e. ASSUME NEW u \in Users, Goto(u, "createConnecting", "idle"),
               UNCHANGED <<life, calls, syncs, after>>
        PROVE  CountInv'
    <2>1. Syncing' = Syncing \ {u} /\ u \in Syncing
      BY <1>0, <1>e DEF Syncing, Goto, CreatePoints
    <2>2. IsFiniteSet(Syncing') /\ Cardinality(Syncing') = Cardinality(Syncing) - 1
      BY <1>0, <2>1, FS_RemoveElement
    <2>3. Cardinality(Syncing') \in Nat
      BY <2>2, FS_CardinalityType
    <2>4. \A v \in Users : pc'[v] \in SyncPoints => syncs > 0
      BY <1>0, <1>e DEF CountInv, Goto, SyncPoints, StagePoints,
          ReplacePoints, StalePoints, CreatePoints, DestroyPoints
    <2> QED BY <1>0, <1>e, <2>2, <2>3, <2>4 DEF CountInv
  <1>f. ASSUME NEW u \in Users, Goto(u, "syncLock", "syncGate"), syncs' = syncs + 1,
               UNCHANGED <<life, calls, after>>
        PROVE  CountInv'
    <2>1. Syncing' = Syncing \ {u} /\ u \in Syncing
      BY <1>0, <1>f DEF Syncing, Goto, CreatePoints
    <2>2. IsFiniteSet(Syncing') /\ Cardinality(Syncing') = Cardinality(Syncing) - 1
      BY <1>0, <2>1, FS_RemoveElement
    <2>3. Cardinality(Syncing') \in Nat
      BY <2>2, FS_CardinalityType
    <2> QED BY <1>0, <1>f, <2>2, <2>3 DEF CountInv
  <1>g. ASSUME NEW u \in Users, DestroyCall(u) PROVE CountInv'
    <2>1. /\ life # "constructed" /\ life' # "constructed"
          /\ UNCHANGED <<calls, syncs, after>>
          /\ Goto(u, "idle", "destroyGate")
      BY <1>g DEF DestroyCall
    <2>2. Syncing' = Syncing
      BY <1>0, <2>1 DEF Syncing, Goto, CreatePoints
    <2>4. \A v \in Users : pc'[v] \in SyncPoints => syncs > 0
      BY <1>0, <2>1 DEF CountInv, Goto, SyncPoints, StagePoints,
          ReplacePoints, StalePoints, CreatePoints, DestroyPoints
    <2> QED BY <1>0, <2>1, <2>2, <2>4 DEF CountInv
  <1> USE DEF SyncPoints, StagePoints, ReplacePoints, StalePoints,
      CreatePoints, DestroyPoints, sessionVars, callVars, flagVars, pumpVars,
      portVars, remoteVars, sampleVars, dataVars
  <1>1. ASSUME NEW u \in Users, UserCall(u) \/ UserStep(u) PROVE CountInv'
    <2>1. CASE CreateCall(u)
      BY <1>d, <2>1 DEF CreateCall
    <2>2. CASE AccessCall(u)
      BY <1>c, <2>2 DEF AccessCall, Call
    <2>3. CASE ControlCall(u)
      BY <1>c, <2>3 DEF ControlCall, Call
    <2>4. CASE SyncCall(u)
      BY <1>c, <2>4 DEF SyncCall, Call
    <2>5. CASE DestroyCall(u)
      BY <1>g, <2>5
    <2>6. CASE AccessEnd(u)
      BY <1>b, <2>6 DEF AccessEnd, RequestEnd, OnlySession
    <2>7. CASE ControlLock(u)
      BY <1>b, <2>7 DEF ControlLock, OnlyMutex
    <2>8. CASE ControlFallback(u)
      BY <1>b, <2>8 DEF ControlFallback, OnlyMutex
    <2>9. CASE ControlRequest(u)
      BY <1>b, <2>9 DEF ControlRequest, RequestBegin, RequestRefused, Usable
    <2>10. CASE ControlDone(u)
      BY <1>b, <2>10 DEF ControlDone, RequestEnd
    <2>11. CASE ControlFailed(u)
      BY <1>b, <2>11 DEF ControlFailed, RequestEnd
    <2>12. CASE StaleMark(u)
      BY <1>b, <2>12 DEF StaleMark, CloseGate
    <2>13. CASE StaleGate(u)
      BY <1>b, <2>13 DEF StaleGate, SetGate, GateFree, OnlySession
    <2>14. CASE StalePause(u)
      BY <1>b, <2>14 DEF StalePause, PausePortPump
    <2>15. CASE StaleDiscard(u)
      BY <1>b, <2>15 DEF StaleDiscard, PumpIdle
    <2>16. CASE StaleEnd(u)
      BY <1>b, <2>16 DEF StaleEnd, ResumePortPump, ResumeAllowed
    <2>17. CASE CreateConnect(u)
      BY <1>b, <1>e, <2>17 DEF CreateConnect, OnlySession
    <2>18. CASE SyncLock(u)
      BY <1>f, <2>18 DEF SyncLock
    <2>19. CASE SyncGate(u)
      BY <1>b, <2>19 DEF SyncGate, SetGate, GateFree, OnlySession
    <2>20. CASE SyncPause(u)
      BY <1>b, <2>20 DEF SyncPause, PausePortPump
    <2>21. CASE SyncEnter(u)
      BY <1>b, <2>21 DEF SyncEnter, PumpIdle
    <2>22. CASE SyncConnect(u)
      BY <1>b, <2>22 DEF SyncConnect, ConnectBegin, ConnectSucceeded,
          ConnectFailed
    <2>23. CASE ReadDescription(u)
      BY <1>b, <2>23 DEF ReadDescription, Discovered, OnlySession
    <2>24. CASE DiscoverOperations(u)
      BY <1>b, <2>24 DEF DiscoverOperations, Discovered, OnlySession
    <2>25. CASE DiscoverValues(u)
      BY <1>b, <2>25 DEF DiscoverValues, Discovered, OnlySession
    <2>26. CASE DiscoverPorts(u)
      BY <1>b, <2>26 DEF DiscoverPorts, Discovered
    <2>27. CASE DiscoverServices(u)
      BY <1>b, <2>27 DEF DiscoverServices, Discovered, OnlySession
    <2>28. CASE StageFailed(u)
      <3>1. PICK point \in StagePoints : Goto(u, point, "staleMark")
        BY <2>28 DEF StageFailed
      <3> QED BY <1>b, <2>28, <3>1 DEF StageFailed
    <2>29. CASE SyncCheck(u)
      BY <1>b, <2>29 DEF SyncCheck, OnlySession
    <2>30. CASE SyncKeep(u)
      BY <1>b, <2>30 DEF SyncKeep, ResumePortPump, ResumeAllowed, SetGate,
          GateFree, RestoreAccess
    <2>31. CASE SyncInstall(u)
      BY <1>b, <2>31 DEF SyncInstall
    <2>32. CASE SyncInstallFailed(u)
      BY <1>b, <2>32 DEF SyncInstallFailed
    <2>33. CASE SyncSwap(u)
      BY <1>b, <2>33 DEF SyncSwap
    <2>34. CASE SyncFresh(u)
      BY <1>b, <2>34 DEF SyncFresh, SetGate, GateFree, OnlySession
    <2>35. CASE SyncResume(u)
      BY <1>b, <2>35 DEF SyncResume
    <2>36. CASE DestroyGate(u)
      BY <1>b, <2>36 DEF DestroyGate, SetGate, GateFree, OnlySession
    <2>37. CASE DestroyStop(u)
      BY <1>b, <2>37 DEF DestroyStop
    <2>38. CASE DestroyClear(u)
      BY <1>b, <2>38 DEF DestroyClear
    <2>39. CASE AccessRequest(u)
      BY <1>c, <1>b, <2>39 DEF AccessRequest, RequestBegin, RequestRefused,
          Usable, OnlySession
    <2> QED BY <1>1, <2>1, <2>2, <2>3, <2>4, <2>5, <2>6, <2>7, <2>8, <2>9,
        <2>10, <2>11, <2>12, <2>13, <2>14, <2>15, <2>16, <2>17, <2>18, <2>19,
        <2>20, <2>21, <2>22, <2>23, <2>24, <2>25, <2>26, <2>27, <2>28, <2>29,
        <2>30, <2>31, <2>32, <2>33, <2>34, <2>35, <2>36, <2>37,
        <2>38, <2>39 DEF UserCall, UserStep
  <1>2. CASE PumpStep
    BY <1>a, <1>2, PumpFrame
  <1>3. CASE RemoteChange
    BY <1>a, <1>3 DEF RemoteChange
  <1>4. CASE UNCHANGED vars
    BY <1>a, <1>4 DEF vars
  <1> QED BY <1>1, <1>2, <1>3, <1>4 DEF Next, Over

\* A request holds the session's mutex.
LEMMA HolderStep == TypeOK /\ HolderInv /\ [Next]_vars => HolderInv'
  <1> SUFFICES ASSUME TypeOK, HolderInv, [Next]_vars PROVE HolderInv' OBVIOUS
  <1>0. pc \in [Users -> Points] /\ holder \subseteq Users \cup {PumpThread}
    BY DEF TypeOK, SessionTypeOK
  <1>p. PumpThread \notin Users
    BY ProxyAssumption DEF PumpThread
  <1> DEFINE Requests == {"access", "calling", "createConnecting", "connecting"}
  <1>a. ASSUME UNCHANGED <<pc, holder, sess>>, pump' = "reply" <=> pump = "reply"
        PROVE  HolderInv'
    BY <1>a DEF HolderInv
  <1>b. ASSUME NEW u \in Users, NEW from, NEW to, Goto(u, from, to),
               UNCHANGED <<holder, pump>>,
               from \in Requests <=> to \in Requests, sess' = sess \/ holder = {}
        PROVE  HolderInv'
    BY <1>0, <1>p, <1>b DEF HolderInv, Goto
  <1>c. ASSUME NEW u \in Users, NEW from, NEW to, Goto(u, from, to), UNCHANGED pump,
               holder = {}, holder' = {u}, to \in Requests
        PROVE  HolderInv'
    BY <1>0, <1>p, <1>c DEF HolderInv, Goto
  <1>d. ASSUME NEW u \in Users, NEW from, NEW to, Goto(u, from, to), UNCHANGED pump,
               holder = {u}, holder' = {}, to \notin Requests
        PROVE  HolderInv'
    BY <1>0, <1>p, <1>d DEF HolderInv, Goto
  <1>e. ASSUME UNCHANGED <<pc, sess>>, holder = {}, holder' = {PumpThread},
               pump' = "reply", sess = "connected"
        PROVE  HolderInv'
    BY <1>0, <1>p, <1>e DEF HolderInv
  <1>f. ASSUME UNCHANGED pc, holder = {PumpThread}, holder' = {}, pump' # "reply"
        PROVE  HolderInv'
    BY <1>0, <1>p, <1>f DEF HolderInv
  <1> USE DEF Requests, SyncPoints, StagePoints, ReplacePoints, StalePoints,
      CreatePoints, DestroyPoints, sessionVars, callVars, flagVars, pumpVars,
      portVars, remoteVars, sampleVars, dataVars
  <1>1. ASSUME NEW u \in Users, UserCall(u) \/ UserStep(u) PROVE HolderInv'
    <2>1. CASE CreateCall(u)
      BY <1>b, UserFrame, <1>1, <2>1 DEF CreateCall
    <2>2. CASE AccessCall(u)
      BY <1>b, UserFrame, <1>1, <2>2 DEF AccessCall, Call
    <2>3. CASE ControlCall(u)
      BY <1>b, UserFrame, <1>1, <2>3 DEF ControlCall, Call
    <2>4. CASE SyncCall(u)
      BY <1>b, UserFrame, <1>1, <2>4 DEF SyncCall, Call
    <2>5. CASE DestroyCall(u)
      BY <1>b, UserFrame, <1>1, <2>5 DEF DestroyCall, CloseGate
    <2>6. CASE AccessEnd(u)
      BY <1>d, UserFrame, <1>1, <2>6 DEF AccessEnd, RequestEnd, OnlySession
    <2>7. CASE ControlLock(u)
      BY <1>b, UserFrame, <1>1, <2>7 DEF ControlLock, OnlyMutex
    <2>8. CASE ControlFallback(u)
      BY <1>b, UserFrame, <1>1, <2>8 DEF ControlFallback, OnlyMutex
    <2>9. CASE ControlRequest(u)
      BY <1>b, <1>c, UserFrame, <1>1, <2>9 DEF ControlRequest, RequestBegin,
          RequestRefused, Usable
    <2>10. CASE ControlDone(u)
      BY <1>d, UserFrame, <1>1, <2>10 DEF ControlDone, RequestEnd
    <2>11. CASE ControlFailed(u)
      BY <1>d, UserFrame, <1>1, <2>11 DEF ControlFailed, RequestEnd
    <2>12. CASE StaleMark(u)
      BY <1>b, UserFrame, <1>1, <2>12 DEF StaleMark, CloseGate
    <2>13. CASE StaleGate(u)
      BY <1>b, UserFrame, <1>1, <2>13 DEF StaleGate, SetGate, GateFree,
          OnlySession
    <2>14. CASE StalePause(u)
      BY <1>b, UserFrame, <1>1, <2>14 DEF StalePause, PausePortPump
    <2>15. CASE StaleDiscard(u)
      BY <1>b, UserFrame, <1>1, <2>15 DEF StaleDiscard, PumpIdle
    <2>16. CASE StaleEnd(u)
      BY <1>b, UserFrame, <1>1, <2>16 DEF StaleEnd, ResumePortPump,
          ResumeAllowed
    <2>17. CASE CreateConnect(u)
      BY <1>c, <1>d, UserFrame, <1>1, <2>17 DEF CreateConnect, ConnectBegin,
          ConnectSucceeded, ConnectFailed, OnlySession
    <2>18. CASE SyncLock(u)
      BY <1>b, UserFrame, <1>1, <2>18 DEF SyncLock, CloseGate
    <2>19. CASE SyncGate(u)
      BY <1>b, UserFrame, <1>1, <2>19 DEF SyncGate, SetGate, GateFree,
          OnlySession
    <2>20. CASE SyncPause(u)
      BY <1>b, UserFrame, <1>1, <2>20 DEF SyncPause, PausePortPump
    <2>21. CASE SyncEnter(u)
      BY <1>b, UserFrame, <1>1, <2>21 DEF SyncEnter, PumpIdle
    <2>22. CASE SyncConnect(u)
      BY <1>c, <1>d, UserFrame, <1>1, <2>22 DEF SyncConnect, ConnectBegin,
          ConnectSucceeded, ConnectFailed
    <2>23. CASE ReadDescription(u)
      BY <1>b, UserFrame, <1>1, <2>23 DEF ReadDescription, Discovered,
          OnlySession
    <2>24. CASE DiscoverOperations(u)
      BY <1>b, UserFrame, <1>1, <2>24 DEF DiscoverOperations, Discovered,
          OnlySession
    <2>25. CASE DiscoverValues(u)
      BY <1>b, UserFrame, <1>1, <2>25 DEF DiscoverValues, Discovered,
          OnlySession
    <2>26. CASE DiscoverPorts(u)
      BY <1>b, UserFrame, <1>1, <2>26 DEF DiscoverPorts, Discovered
    <2>27. CASE DiscoverServices(u)
      BY <1>b, UserFrame, <1>1, <2>27 DEF DiscoverServices, Discovered,
          OnlySession
    <2>28. CASE StageFailed(u)
      <3>1. PICK point \in StagePoints : Goto(u, point, "staleMark")
        BY <2>28 DEF StageFailed
      <3> QED BY <1>b, <2>28, <3>1 DEF StageFailed, DiscoveryFailed
    <2>29. CASE SyncCheck(u)
      BY <1>b, UserFrame, <1>1, <2>29 DEF SyncCheck, OnlySession
    <2>30. CASE SyncKeep(u)
      BY <1>b, UserFrame, <1>1, <2>30 DEF SyncKeep, ResumePortPump,
          ResumeAllowed, SetGate, GateFree, RestoreAccess
    <2>31. CASE SyncInstall(u)
      BY <1>b, UserFrame, <1>1, <2>31 DEF SyncInstall
    <2>32. CASE SyncInstallFailed(u)
      BY <1>b, UserFrame, <1>1, <2>32 DEF SyncInstallFailed
    <2>33. CASE SyncSwap(u)
      BY <1>b, UserFrame, <1>1, <2>33 DEF SyncSwap
    <2>34. CASE SyncFresh(u)
      BY <1>b, UserFrame, <1>1, <2>34 DEF SyncFresh, SetGate, GateFree,
          OnlySession
    <2>35. CASE SyncResume(u)
      BY <1>b, UserFrame, <1>1, <2>35 DEF SyncResume
    <2>36. CASE DestroyGate(u)
      BY <1>b, UserFrame, <1>1, <2>36 DEF DestroyGate, SetGate, GateFree,
          OnlySession
    <2>37. CASE DestroyStop(u)
      BY <1>b, UserFrame, <1>1, <2>37 DEF DestroyStop
    <2>38. CASE DestroyClear(u)
      BY <1>b, UserFrame, <1>1, <2>38 DEF DestroyClear
    <2>39. CASE AccessRequest(u)
      BY <1>b, <1>c, UserFrame, <1>1, <2>39 DEF AccessRequest, RequestBegin,
          RequestRefused, Usable, OnlySession
    <2> QED BY <1>1, <2>1, <2>2, <2>3, <2>4, <2>5, <2>6, <2>7, <2>8, <2>9,
        <2>10, <2>11, <2>12, <2>13, <2>14, <2>15, <2>16, <2>17, <2>18, <2>19,
        <2>20, <2>21, <2>22, <2>23, <2>24, <2>25, <2>26, <2>27, <2>28, <2>29,
        <2>30, <2>31, <2>32, <2>33, <2>34, <2>35, <2>36, <2>37,
        <2>38, <2>39 DEF UserCall, UserStep
  <1>2. CASE PumpStep
    <2>1. CASE PumpBegin
      BY <1>a, PumpFrame, <1>2, <2>1 DEF PumpBegin
    <2>2. CASE PumpSend
      BY <1>a, <1>e, PumpFrame, <1>2, <2>2 DEF PumpSend, RequestBegin,
          RequestRefused, Usable
    <2>3. CASE PumpEnd
      BY <1>a, PumpFrame, <1>2, <2>3 DEF PumpEnd
    <2>4. CASE PumpExit
      BY <1>a, PumpFrame, <1>2, <2>4 DEF PumpExit
    <2>5. ASSUME NEW p \in Ports, PumpTake(p) PROVE HolderInv'
      BY <1>a, PumpFrame, <1>2, <2>5 DEF PumpTake, Visit
    <2>6. ASSUME NEW p \in Ports, PumpRetry(p) PROVE HolderInv'
      BY <1>a, PumpFrame, <1>2, <2>6 DEF PumpRetry, Visit
    <2>7. ASSUME NEW p \in Ports, PumpDeliver(p) PROVE HolderInv'
      BY <1>a, PumpFrame, <1>2, <2>7 DEF PumpDeliver, Visit
    <2>8. ASSUME NEW p \in Ports, PumpRead(p) PROVE HolderInv'
      BY <1>a, PumpFrame, <1>2, <2>8 DEF PumpRead, Visit
    <2>9. ASSUME NEW p \in Ports, PumpSkip(p) PROVE HolderInv'
      BY <1>a, PumpFrame, <1>2, <2>9 DEF PumpSkip, Visit
    <2>10. ASSUME NEW p \in Ports, PumpReplyInput(p) PROVE HolderInv'
      BY <1>f, PumpFrame, <1>2, <2>10 DEF PumpReplyInput, RequestEnd
    <2>11. ASSUME NEW p \in Ports, PumpReplyOutput(p) PROVE HolderInv'
      BY <1>f, PumpFrame, <1>2, <2>11 DEF PumpReplyOutput, RequestEnd
    <2> QED BY <1>2, <2>1, <2>2, <2>3, <2>4, <2>5, <2>6, <2>7, <2>8, <2>9,
        <2>10, <2>11 DEF PumpStep
  <1>3. CASE RemoteChange
    BY <1>a, <1>3 DEF RemoteChange
  <1>4. CASE UNCHANGED vars
    BY <1>a, <1>4 DEF vars
  <1> QED BY <1>1, <1>2, <1>3, <1>4 DEF Next, Over

-----------------------------------------------------------------------------
(* The gate and the pause                                                  *)

\* Who holds synchronize_mutex is the only one to hold it, to create the proxy
\* or to destroy it.
LEMMA Alone ==
  ASSUME LifeInv, MutexInv, NEW u \in Users, NEW v \in Users, pc[u] \in MutexPoints,
         pc[v] \in MutexPoints \cup CreatePoints \cup DestroyPoints
  PROVE  v = u
  BY DEF LifeInv, MutexInv, MutexPoints, SyncPoints, StagePoints,
      ReplacePoints, StalePoints, CreatePoints, DestroyPoints

\* The end of a request gives the mutex back, and may make the session stale.
LEMMA RequestEnds ==
  ASSUME NEW t, NEW answer \in Answers, RequestEnd(t, answer)
  PROVE  /\ holder = {t} /\ holder' = {}
         /\ \/ UNCHANGED <<sess, access>> /\ answer # "lost"
            \/ access' = FALSE /\ sess' = "stale" /\ answer = "lost"
  BY DEF RequestEnd, Invalidates

\* Once closed, the gate stays closed until synchronize() opens it, and no
\* other thread has a request.
LEMMA GateStep ==
  TypeOK /\ LifeInv /\ MutexInv /\ HolderInv /\ GateInv /\ [Next]_vars => GateInv'
  <1> SUFFICES ASSUME TypeOK, LifeInv, MutexInv, HolderInv, GateInv, [Next]_vars
               PROVE  GateInv'
    OBVIOUS
  <1>0. pc \in [Users -> Points]
    BY DEF TypeOK
  <1>k. ASSUME UNCHANGED <<pc, sess, access, holder>> PROVE GateInv'
    BY <1>k DEF GateInv
  \* Nothing of the session changes.
  <1>a. ASSUME NEW u \in Users, NEW from, NEW to, Goto(u, from, to),
               UNCHANGED sessionVars,
               to \in ClosedPoints => from \in ClosedPoints,
               to \in SolePoints => from \in SolePoints, to # "resume"
        PROVE  GateInv'
    BY <1>0, <1>a DEF GateInv, Goto, sessionVars
  \* The gate is closed, before or with the mutex.
  <1>b. ASSUME NEW u \in Users, NEW from, NEW to, Goto(u, from, to), access' = FALSE,
               UNCHANGED <<sess, holder>>,
               to \in SolePoints => from \in SolePoints \/ holder = {},
               to # "resume", \A v \in Users : pc[v] = "resume" => v = u
        PROVE  GateInv'
    BY <1>0, <1>b DEF GateInv, Goto
  \* The gate is opened.
  <1>c. ASSUME NEW u \in Users, NEW from, NEW to, Goto(u, from, to), access' = TRUE,
               UNCHANGED <<sess, holder>>, to \notin ClosedPoints, to \notin SolePoints,
               \A v \in Users : pc[v] \in ClosedPoints => v = u
        PROVE  GateInv'
    BY <1>0, <1>c DEF GateInv, Goto
  \* A request begins, through the gate or by the one thread that may.
  <1>d. ASSUME NEW u \in Users, NEW from, NEW to, Goto(u, from, to), holder' = {u},
               UNCHANGED <<sess, access>>,
               to \in ClosedPoints => from \in ClosedPoints, to # "resume",
               access \/ \A v \in Users : pc[v] \in SolePoints => v = u
        PROVE  GateInv'
    BY <1>0, <1>d DEF GateInv, Goto, ClosedPoints, SolePoints, SyncPoints,
        StagePoints, ReplacePoints, StalePoints, CreatePoints, DestroyPoints
  \* connect() begins or ends.
  <1>e. ASSUME NEW u \in Users, NEW from, NEW to, Goto(u, from, to),
               holder' \subseteq {u},
               UNCHANGED access,
               to \in ClosedPoints => from \in ClosedPoints, to # "resume",
               \A v \in Users : pc[v] \in SolePoints \cup {"resume"} => v = u
        PROVE  GateInv'
    BY <1>0, <1>e DEF GateInv, Goto, ClosedPoints, SolePoints, SyncPoints,
        StagePoints, ReplacePoints, StalePoints, CreatePoints, DestroyPoints
  \* A request ends.
  <1>f. ASSUME NEW u \in Users, NEW from, NEW to, Goto(u, from, to), holder' = {},
               UNCHANGED <<sess, access>> \/ (access' = FALSE /\ sess' = "stale"),
               to \notin ClosedPoints, to # "resume"
        PROVE  GateInv'
    BY <1>0, <1>f DEF GateInv, Goto, ClosedPoints, SolePoints, SyncPoints,
        StagePoints, ReplacePoints, StalePoints, CreatePoints, DestroyPoints
  \* Discovery fails.
  <1>g. ASSUME NEW u \in Users, NEW from, Goto(u, from, "staleMark"),
               UNCHANGED <<access, holder>>, sess' \in {sess, "stale"}
        PROVE  GateInv'
    BY <1>0, <1>g DEF GateInv, Goto, ClosedPoints, SolePoints, SyncPoints,
        StagePoints, ReplacePoints, StalePoints, CreatePoints, DestroyPoints
  <1> USE DEF MutexPoints, ClosedPoints, SolePoints, SyncPoints, StagePoints,
      ReplacePoints, StalePoints, CreatePoints, DestroyPoints, sessionVars,
      callVars, flagVars, pumpVars, portVars, remoteVars, sampleVars, dataVars
  <1>1. ASSUME NEW u \in Users, UserCall(u) \/ UserStep(u) PROVE GateInv'
    <2>1. CASE CreateCall(u)
      BY <1>a, <2>1 DEF CreateCall
    <2>2. CASE AccessCall(u)
      BY <1>a, <2>2 DEF AccessCall, Call
    <2>3. CASE ControlCall(u)
      BY <1>a, <2>3 DEF ControlCall, Call
    <2>4. CASE SyncCall(u)
      BY <1>a, <2>4 DEF SyncCall, Call
    <2>5. CASE DestroyCall(u)
      <3>1. \A v \in Users : pc[v] \in {"resume"} => v = u
        BY <1>0, <2>5, Alone DEF DestroyCall, Goto
      <3> QED BY <1>b, <3>1, <2>5 DEF DestroyCall, CloseGate
    <2>6. CASE AccessEnd(u)
      <3>1. PICK answer \in Answers : RequestEnd(u, answer)
        BY <2>6 DEF AccessEnd, Answers
      <3>2. /\ holder' = {}
            /\ UNCHANGED <<sess, access>> \/ (access' = FALSE /\ sess' = "stale")
        BY <3>1, RequestEnds
      <3>3. Goto(u, "access", "idle")
        BY <2>6 DEF AccessEnd
      <3> QED BY <1>f, <3>2, <3>3
    <2>7. CASE ControlLock(u)
      BY <1>a, <2>7 DEF ControlLock, OnlyMutex
    <2>8. CASE ControlFallback(u)
      BY <1>a, <2>8 DEF ControlFallback, OnlyMutex
    <2>9. CASE ControlRequest(u)
      <3>1. \A v \in Users : pc[v] \in SolePoints => v = u
        BY <1>0, <2>9, Alone DEF ControlRequest, Goto
      <3> QED BY <1>a, <1>d, <3>1, <2>9 DEF ControlRequest, RequestBegin,
          RequestRefused, Usable
    <2>10. CASE ControlDone(u)
      <3>1. PICK answer \in Answers : RequestEnd(u, answer)
        BY <2>10 DEF ControlDone, Answers
      <3>2. /\ holder' = {}
            /\ UNCHANGED <<sess, access>> \/ (access' = FALSE /\ sess' = "stale")
        BY <3>1, RequestEnds
      <3>3. Goto(u, "calling", "idle")
        BY <2>10 DEF ControlDone
      <3> QED BY <1>f, <3>2, <3>3
    <2>11. CASE ControlFailed(u)
      <3>1. PICK answer \in Answers : RequestEnd(u, answer)
        BY <2>11 DEF ControlFailed, Answers
      <3>2. /\ holder' = {}
            /\ UNCHANGED <<sess, access>> \/ (access' = FALSE /\ sess' = "stale")
        BY <3>1, RequestEnds
      <3>3. Goto(u, "calling", "staleMark")
        BY <2>11 DEF ControlFailed
      <3> QED BY <1>f, <3>2, <3>3
    <2>12. CASE StaleMark(u)
      <3>1. \A v \in Users : pc[v] \in {"resume"} => v = u
        BY <1>0, <2>12, Alone DEF StaleMark, Goto
      <3> QED BY <1>b, <3>1, <2>12 DEF StaleMark, CloseGate
    <2>13. CASE StaleGate(u)
      <3>1. \A v \in Users : pc[v] \in {"resume"} => v = u
        BY <1>0, <2>13, Alone DEF StaleGate, Goto
      <3> QED BY <1>b, <3>1, <2>13 DEF StaleGate, SetGate, GateFree,
          OnlySession
    <2>14. CASE StalePause(u)
      BY <1>a, <2>14 DEF StalePause, PausePortPump
    <2>15. CASE StaleDiscard(u)
      BY <1>a, <2>15 DEF StaleDiscard, PumpIdle
    <2>16. CASE StaleEnd(u)
      BY <1>a, <2>16 DEF StaleEnd, ResumePortPump, ResumeAllowed
    <2>17. CASE CreateConnect(u)
      <3>1. \A v \in Users : pc[v] \in SolePoints \cup {"resume"} => v = u
        BY <1>0, <2>17 DEF CreateConnect, Goto, LifeInv
      <3> QED BY <1>e, <3>1, <2>17 DEF CreateConnect, ConnectBegin,
          ConnectSucceeded, ConnectFailed, OnlySession
    <2>18. CASE SyncLock(u)
      <3>1. \A v \in Users : pc[v] \in {"resume"} => v = u
        BY <2>18 DEF SyncLock, MutexInv
      <3> QED BY <1>b, <3>1, <2>18 DEF SyncLock, CloseGate
    <2>19. CASE SyncGate(u)
      <3>1. \A v \in Users : pc[v] \in {"resume"} => v = u
        BY <1>0, <2>19, Alone DEF SyncGate, Goto
      <3> QED BY <1>b, <3>1, <2>19 DEF SyncGate, SetGate, GateFree, OnlySession
    <2>20. CASE SyncPause(u)
      BY <1>a, <2>20 DEF SyncPause, PausePortPump
    <2>21. CASE SyncEnter(u)
      BY <1>a, <2>21 DEF SyncEnter, PumpIdle
    <2>22. CASE SyncConnect(u)
      <3>1. \A v \in Users : pc[v] \in SolePoints \cup {"resume"} => v = u
        BY <1>0, <2>22, Alone DEF SyncConnect, Goto
      <3> QED BY <1>e, <3>1, <2>22 DEF SyncConnect, ConnectBegin,
          ConnectSucceeded, ConnectFailed
    <2>23. CASE ReadDescription(u)
      BY <1>a, <2>23 DEF ReadDescription, Discovered, OnlySession
    <2>24. CASE DiscoverOperations(u)
      BY <1>a, <2>24 DEF DiscoverOperations, Discovered, OnlySession
    <2>25. CASE DiscoverValues(u)
      BY <1>a, <2>25 DEF DiscoverValues, Discovered, OnlySession
    <2>26. CASE DiscoverPorts(u)
      BY <1>a, <2>26 DEF DiscoverPorts, Discovered
    <2>27. CASE DiscoverServices(u)
      BY <1>a, <2>27 DEF DiscoverServices, Discovered, OnlySession
    <2>28. CASE StageFailed(u)
      <3>1. PICK point \in StagePoints : Goto(u, point, "staleMark")
        BY <2>28 DEF StageFailed
      <3> QED BY <1>g, <2>28, <3>1 DEF StageFailed, DiscoveryFailed
    <2>29. CASE SyncCheck(u)
      BY <1>a, <2>29 DEF SyncCheck, OnlySession
    <2>30. CASE SyncKeep(u)
      <3>1. \A v \in Users : pc[v] \in ClosedPoints => v = u
        BY <1>0, <2>30, Alone DEF SyncKeep, Goto
      <3> QED BY <1>a, <1>c, <3>1, <2>30 DEF SyncKeep, ResumePortPump,
          ResumeAllowed, SetGate, GateFree, RestoreAccess
    <2>31. CASE SyncInstall(u)
      BY <1>a, <2>31 DEF SyncInstall
    <2>32. CASE SyncInstallFailed(u)
      BY <1>a, <2>32 DEF SyncInstallFailed
    <2>33. CASE SyncSwap(u)
      BY <1>a, <2>33 DEF SyncSwap
    <2>34. CASE SyncFresh(u)
      <3>1. \A v \in Users : pc[v] \in ClosedPoints => v = u
        BY <1>0, <2>34, Alone DEF SyncFresh, Goto
      <3> QED BY <1>c, <3>1, <2>34 DEF SyncFresh, SetGate, GateFree,
          OnlySession
    <2>35. CASE SyncResume(u)
      BY <1>a, <2>35 DEF SyncResume
    <2>36. CASE DestroyGate(u)
      <3>1. \A v \in Users : pc[v] \in {"resume"} => v = u
        BY <2>36 DEF DestroyGate, LifeInv, Goto
      <3> QED BY <1>b, <3>1, <2>36 DEF DestroyGate, SetGate, GateFree,
          OnlySession
    <2>37. CASE DestroyStop(u)
      BY <1>a, <2>37 DEF DestroyStop
    <2>38. CASE DestroyClear(u)
      BY <1>a, <2>38 DEF DestroyClear
    <2>39. CASE AccessRequest(u)
      BY <1>a, <1>d, <2>39 DEF AccessRequest, RequestBegin, RequestRefused,
          Usable, OnlySession
    <2> QED BY <1>1, <2>1, <2>2, <2>3, <2>4, <2>5, <2>6, <2>7, <2>8, <2>9,
        <2>10, <2>11, <2>12, <2>13, <2>14, <2>15, <2>16, <2>17, <2>18, <2>19,
        <2>20, <2>21, <2>22, <2>23, <2>24, <2>25, <2>26, <2>27, <2>28, <2>29,
        <2>30, <2>31, <2>32, <2>33, <2>34, <2>35, <2>36, <2>37,
        <2>38, <2>39 DEF UserCall, UserStep
  <1>2. CASE PumpStep
    <2>1. CASE PumpBegin
      BY <1>k, PumpFrame, <1>2, <2>1 DEF PumpBegin
    <2>2. CASE PumpSend
      <3>1. CASE RequestRefused(TRUE)
        BY <1>k, <3>1, PumpFrame, <1>2 DEF RequestRefused
      <3>2. CASE RequestBegin(PumpThread, TRUE)
        <4>1. access /\ UNCHANGED <<pc, sess, access>>
          BY <3>2, PumpFrame, <1>2 DEF RequestBegin, Usable
        <4> QED BY <4>1 DEF GateInv
      <3> QED BY <2>2, <3>1, <3>2 DEF PumpSend
    <2>3. CASE PumpEnd
      BY <1>k, PumpFrame, <1>2, <2>3 DEF PumpEnd
    <2>4. CASE PumpExit
      BY <1>k, PumpFrame, <1>2, <2>4 DEF PumpExit
    <2>5. ASSUME NEW p \in Ports, PumpTake(p) PROVE GateInv'
      BY <1>k, PumpFrame, <1>2, <2>5 DEF PumpTake, Visit
    <2>6. ASSUME NEW p \in Ports, PumpRetry(p) PROVE GateInv'
      BY <1>k, PumpFrame, <1>2, <2>6 DEF PumpRetry, Visit
    <2>7. ASSUME NEW p \in Ports, PumpDeliver(p) PROVE GateInv'
      BY <1>k, PumpFrame, <1>2, <2>7 DEF PumpDeliver, Visit
    <2>8. ASSUME NEW p \in Ports, PumpRead(p) PROVE GateInv'
      BY <1>k, PumpFrame, <1>2, <2>8 DEF PumpRead, Visit
    <2>9. ASSUME NEW p \in Ports, PumpSkip(p) PROVE GateInv'
      BY <1>k, PumpFrame, <1>2, <2>9 DEF PumpSkip, Visit
    <2>10. ASSUME NEW p \in Ports, PumpReplyInput(p) PROVE GateInv'
      <3>1. PICK answer \in Answers : RequestEnd(PumpThread, answer)
        BY <2>10 DEF PumpReplyInput
      <3>2. /\ holder' = {}
            /\ UNCHANGED <<sess, access>> \/ (access' = FALSE /\ sess' = "stale")
        BY <3>1, RequestEnds
      <3>3. UNCHANGED pc
        BY PumpFrame, <1>2
      <3> QED BY <3>2, <3>3 DEF GateInv
    <2>11. ASSUME NEW p \in Ports, PumpReplyOutput(p) PROVE GateInv'
      <3>1. PICK answer \in Answers : RequestEnd(PumpThread, answer)
        BY <2>11 DEF PumpReplyOutput
      <3>2. /\ holder' = {}
            /\ UNCHANGED <<sess, access>> \/ (access' = FALSE /\ sess' = "stale")
        BY <3>1, RequestEnds
      <3>3. UNCHANGED pc
        BY PumpFrame, <1>2
      <3> QED BY <3>2, <3>3 DEF GateInv
    <2> QED BY <1>2, <2>1, <2>2, <2>3, <2>4, <2>5, <2>6, <2>7, <2>8, <2>9,
        <2>10, <2>11 DEF PumpStep
  <1>3. CASE RemoteChange
    BY <1>k, <1>3 DEF RemoteChange
  <1>4. CASE UNCHANGED vars
    BY <1>k, <1>4 DEF vars
  <1> QED BY <1>1, <1>2, <1>3, <1>4 DEF Next, Over

\* While adapters are replaced or discarded the pump is paused and idle.
LEMMA PauseStep ==
  TypeOK /\ LifeInv /\ MutexInv /\ PauseInv /\ [Next]_vars => PauseInv'
  <1> SUFFICES ASSUME TypeOK, LifeInv, MutexInv, PauseInv, [Next]_vars PROVE PauseInv'
    OBVIOUS
  <1>0. pc \in [Users -> Points]
    BY DEF TypeOK
  <1> DEFINE Paused == QuietPoints \cup {"syncEnter", "staleDiscard"}
  <1>k. ASSUME UNCHANGED <<pc, paused>>, pumping' => pumping \/ ~paused PROVE PauseInv'
    BY <1>k DEF PauseInv, PumpQuietDuringReplacement, QuietPoints
  <1>a. ASSUME NEW u \in Users, NEW from, NEW to, Goto(u, from, to), UNCHANGED pumping,
               to \in Paused => from \in Paused \/ paused' = TRUE,
               to \in QuietPoints => from \in QuietPoints \/ ~pumping,
               paused' = paused \/ paused' = TRUE
        PROVE  PauseInv'
    <2>1. \A v \in Users : pc'[v] \in Paused => paused'
      BY <1>0, <1>a DEF PauseInv, Goto
    <2>2. \A v \in Users : pc'[v] \in QuietPoints => ~pumping
      BY <1>0, <1>a DEF PauseInv, PumpQuietDuringReplacement, QuietPoints, Goto
    <2> QED BY <1>a, <2>1, <2>2 DEF PauseInv, PumpQuietDuringReplacement,
        QuietPoints
  <1>b. ASSUME NEW u \in Users, NEW from, NEW to, Goto(u, from, to), UNCHANGED pumping,
               to \notin Paused, \A v \in Users : pc[v] \in Paused => v = u
        PROVE  PauseInv'
    <2>1. \A v \in Users : pc'[v] \notin Paused
      BY <1>0, <1>b DEF Goto
    <2> QED BY <2>1 DEF PauseInv, PumpQuietDuringReplacement, QuietPoints
  <1> USE DEF MutexPoints, QuietPoints, SyncPoints, StagePoints,
      ReplacePoints, StalePoints, CreatePoints, DestroyPoints, sessionVars,
      callVars, flagVars, pumpVars, portVars, remoteVars, sampleVars, dataVars
  <1>1. ASSUME NEW u \in Users, UserCall(u) \/ UserStep(u) PROVE PauseInv'
    <2>1. CASE CreateCall(u)
      BY <1>a, UserFrame, <1>1, <2>1 DEF CreateCall
    <2>2. CASE AccessCall(u)
      BY <1>a, UserFrame, <1>1, <2>2 DEF AccessCall, Call
    <2>3. CASE ControlCall(u)
      BY <1>a, UserFrame, <1>1, <2>3 DEF ControlCall, Call
    <2>4. CASE SyncCall(u)
      BY <1>a, UserFrame, <1>1, <2>4 DEF SyncCall, Call
    <2>5. CASE DestroyCall(u)
      BY <1>a, UserFrame, <1>1, <2>5 DEF DestroyCall, CloseGate
    <2>6. CASE AccessEnd(u)
      BY <1>a, UserFrame, <1>1, <2>6 DEF AccessEnd, RequestEnd, OnlySession
    <2>7. CASE ControlLock(u)
      BY <1>a, UserFrame, <1>1, <2>7 DEF ControlLock, OnlyMutex
    <2>8. CASE ControlFallback(u)
      BY <1>a, UserFrame, <1>1, <2>8 DEF ControlFallback, OnlyMutex
    <2>9. CASE ControlRequest(u)
      BY <1>a, UserFrame, <1>1, <2>9 DEF ControlRequest, RequestBegin,
          RequestRefused, Usable
    <2>10. CASE ControlDone(u)
      BY <1>a, UserFrame, <1>1, <2>10 DEF ControlDone, RequestEnd
    <2>11. CASE ControlFailed(u)
      BY <1>a, UserFrame, <1>1, <2>11 DEF ControlFailed, RequestEnd
    <2>12. CASE StaleMark(u)
      BY <1>a, UserFrame, <1>1, <2>12 DEF StaleMark, CloseGate
    <2>13. CASE StaleGate(u)
      BY <1>a, UserFrame, <1>1, <2>13 DEF StaleGate, SetGate, GateFree,
          OnlySession
    <2>14. CASE StalePause(u)
      BY <1>a, UserFrame, <1>1, <2>14 DEF StalePause, PausePortPump
    <2>15. CASE StaleDiscard(u)
      BY <1>a, UserFrame, <1>1, <2>15 DEF StaleDiscard, PumpIdle
    <2>16. CASE StaleEnd(u)
      <3>1. \A v \in Users : pc[v] \in Paused => v = u
        BY <1>0, <2>16, Alone DEF StaleEnd, Goto
      <3> QED BY <1>a, <1>b, <3>1, <2>16 DEF StaleEnd, ResumePortPump,
          ResumeAllowed
    <2>17. CASE CreateConnect(u)
      BY <1>a, UserFrame, <1>1, <2>17 DEF CreateConnect, ConnectBegin,
          ConnectSucceeded, ConnectFailed, OnlySession
    <2>18. CASE SyncLock(u)
      BY <1>a, UserFrame, <1>1, <2>18 DEF SyncLock, CloseGate
    <2>19. CASE SyncGate(u)
      BY <1>a, UserFrame, <1>1, <2>19 DEF SyncGate, SetGate, GateFree,
          OnlySession
    <2>20. CASE SyncPause(u)
      BY <1>a, UserFrame, <1>1, <2>20 DEF SyncPause, PausePortPump
    <2>21. CASE SyncEnter(u)
      BY <1>a, UserFrame, <1>1, <2>21 DEF SyncEnter, PumpIdle
    <2>22. CASE SyncConnect(u)
      BY <1>a, UserFrame, <1>1, <2>22 DEF SyncConnect, ConnectBegin,
          ConnectSucceeded, ConnectFailed
    <2>23. CASE ReadDescription(u)
      BY <1>a, UserFrame, <1>1, <2>23 DEF ReadDescription, Discovered,
          OnlySession
    <2>24. CASE DiscoverOperations(u)
      BY <1>a, UserFrame, <1>1, <2>24 DEF DiscoverOperations, Discovered,
          OnlySession
    <2>25. CASE DiscoverValues(u)
      BY <1>a, UserFrame, <1>1, <2>25 DEF DiscoverValues, Discovered,
          OnlySession
    <2>26. CASE DiscoverPorts(u)
      BY <1>a, UserFrame, <1>1, <2>26 DEF DiscoverPorts, Discovered
    <2>27. CASE DiscoverServices(u)
      BY <1>a, UserFrame, <1>1, <2>27 DEF DiscoverServices, Discovered,
          OnlySession
    <2>28. CASE StageFailed(u)
      <3>1. PICK point \in StagePoints : Goto(u, point, "staleMark")
        BY <2>28 DEF StageFailed
      <3> QED BY <1>a, <2>28, <3>1 DEF StageFailed
    <2>29. CASE SyncCheck(u)
      BY <1>a, UserFrame, <1>1, <2>29 DEF SyncCheck, OnlySession
    <2>30. CASE SyncKeep(u)
      <3>1. \A v \in Users : pc[v] \in Paused => v = u
        BY <1>0, <2>30, Alone DEF SyncKeep, Goto
      <3> QED BY <1>a, <1>b, <3>1, <2>30 DEF SyncKeep, ResumePortPump,
          ResumeAllowed, SetGate, GateFree, RestoreAccess
    <2>31. CASE SyncInstall(u)
      BY <1>a, UserFrame, <1>1, <2>31 DEF SyncInstall
    <2>32. CASE SyncInstallFailed(u)
      BY <1>a, UserFrame, <1>1, <2>32 DEF SyncInstallFailed
    <2>33. CASE SyncSwap(u)
      BY <1>a, UserFrame, <1>1, <2>33 DEF SyncSwap
    <2>34. CASE SyncFresh(u)
      BY <1>a, UserFrame, <1>1, <2>34 DEF SyncFresh, SetGate, GateFree,
          OnlySession
    <2>35. CASE SyncResume(u)
      <3>1. \A v \in Users : pc[v] \in Paused => v = u
        BY <1>0, <2>35, Alone DEF SyncResume, Goto
      <3> QED BY <1>a, <1>b, <3>1, <2>35 DEF SyncResume
    <2>36. CASE DestroyGate(u)
      BY <1>a, UserFrame, <1>1, <2>36 DEF DestroyGate, SetGate, GateFree,
          OnlySession
    <2>37. CASE DestroyStop(u)
      BY <1>a, UserFrame, <1>1, <2>37 DEF DestroyStop
    <2>38. CASE DestroyClear(u)
      BY <1>a, UserFrame, <1>1, <2>38 DEF DestroyClear
    <2>39. CASE AccessRequest(u)
      BY <1>a, UserFrame, <1>1, <2>39 DEF AccessRequest, RequestBegin,
          RequestRefused, Usable, OnlySession
    <2> QED BY <1>1, <2>1, <2>2, <2>3, <2>4, <2>5, <2>6, <2>7, <2>8, <2>9,
        <2>10, <2>11, <2>12, <2>13, <2>14, <2>15, <2>16, <2>17, <2>18, <2>19,
        <2>20, <2>21, <2>22, <2>23, <2>24, <2>25, <2>26, <2>27, <2>28, <2>29,
        <2>30, <2>31, <2>32, <2>33, <2>34, <2>35, <2>36, <2>37,
        <2>38, <2>39 DEF UserCall, UserStep
  <1>2. CASE PumpStep
    <2>1. CASE PumpBegin
      BY <1>k, PumpFrame, <1>2, <2>1 DEF PumpBegin
    <2>2. CASE PumpSend
      BY <1>k, PumpFrame, <1>2, <2>2 DEF PumpSend, RequestBegin,
          RequestRefused, Usable
    <2>3. CASE PumpEnd
      BY <1>k, PumpFrame, <1>2, <2>3 DEF PumpEnd
    <2>4. CASE PumpExit
      BY <1>k, PumpFrame, <1>2, <2>4 DEF PumpExit
    <2>5. ASSUME NEW p \in Ports, PumpTake(p) PROVE PauseInv'
      BY <1>k, PumpFrame, <1>2, <2>5 DEF PumpTake, Visit
    <2>6. ASSUME NEW p \in Ports, PumpRetry(p) PROVE PauseInv'
      BY <1>k, PumpFrame, <1>2, <2>6 DEF PumpRetry, Visit
    <2>7. ASSUME NEW p \in Ports, PumpDeliver(p) PROVE PauseInv'
      BY <1>k, PumpFrame, <1>2, <2>7 DEF PumpDeliver, Visit
    <2>8. ASSUME NEW p \in Ports, PumpRead(p) PROVE PauseInv'
      BY <1>k, PumpFrame, <1>2, <2>8 DEF PumpRead, Visit
    <2>9. ASSUME NEW p \in Ports, PumpSkip(p) PROVE PauseInv'
      BY <1>k, PumpFrame, <1>2, <2>9 DEF PumpSkip, Visit
    <2>10. ASSUME NEW p \in Ports, PumpReplyInput(p) PROVE PauseInv'
      BY <1>k, PumpFrame, <1>2, <2>10 DEF PumpReplyInput, RequestEnd
    <2>11. ASSUME NEW p \in Ports, PumpReplyOutput(p) PROVE PauseInv'
      BY <1>k, PumpFrame, <1>2, <2>11 DEF PumpReplyOutput, RequestEnd
    <2> QED BY <1>2, <2>1, <2>2, <2>3, <2>4, <2>5, <2>6, <2>7, <2>8, <2>9,
        <2>10, <2>11 DEF PumpStep
  <1>3. CASE RemoteChange
    BY <1>k, <1>3 DEF RemoteChange
  <1>4. CASE UNCHANGED vars
    BY <1>k, <1>4 DEF vars
  <1> QED BY <1>1, <1>2, <1>3, <1>4 DEF Next, Over

-----------------------------------------------------------------------------
(* The pump and the types                                                  *)

\* A pass of the pump has a port, and a sample of it, in its hands.
LEMMA PumpInvStep == TypeOK /\ PauseInv /\ PumpInv /\ [Next]_vars => PumpInv'
  <1> SUFFICES ASSUME TypeOK, PauseInv, PumpInv, [Next]_vars PROVE PumpInv' OBVIOUS
  <1>0. /\ pending \in [Ports -> 0..MaxSamples] /\ pumping \in BOOLEAN
        /\ taken \in [Inputs -> 0..MaxSamples]
    BY DEF TypeOK
  <1>p. Inputs \subseteq Ports /\ Outputs \subseteq Ports /\ Inputs \cap Outputs = {}
    BY ProxyAssumption DEF Ports
  <1>a. ASSUME UNCHANGED <<pump, pumping, at, pending>> PROVE PumpInv'
    BY <1>a DEF PumpInv
  <1>b. ASSUME UNCHANGED <<pump, pumping, at>>, ~pumping PROVE PumpInv'
    BY <1>b DEF PumpInv
  <1>c. ASSUME pumping', pump' = "next" PROVE PumpInv'
    BY <1>c DEF PumpInv
  <1> USE DEF QuietPoints, SyncPoints, StagePoints, ReplacePoints,
      StalePoints, CreatePoints, DestroyPoints, sessionVars, callVars,
      flagVars, pumpVars, portVars, remoteVars, sampleVars, dataVars
  <1>1. ASSUME NEW u \in Users, UserCall(u) \/ UserStep(u) PROVE PumpInv'
    <2>1. CASE CreateCall(u)
      BY <1>a, UserFrame, <1>1, <2>1 DEF CreateCall
    <2>2. CASE AccessCall(u)
      BY <1>a, UserFrame, <1>1, <2>2 DEF AccessCall, Call
    <2>3. CASE ControlCall(u)
      BY <1>a, UserFrame, <1>1, <2>3 DEF ControlCall, Call
    <2>4. CASE SyncCall(u)
      BY <1>a, UserFrame, <1>1, <2>4 DEF SyncCall, Call
    <2>5. CASE DestroyCall(u)
      BY <1>a, UserFrame, <1>1, <2>5 DEF DestroyCall, CloseGate
    <2>6. CASE AccessEnd(u)
      BY <1>a, UserFrame, <1>1, <2>6 DEF AccessEnd, RequestEnd, OnlySession
    <2>7. CASE ControlLock(u)
      BY <1>a, UserFrame, <1>1, <2>7 DEF ControlLock, OnlyMutex
    <2>8. CASE ControlFallback(u)
      BY <1>a, UserFrame, <1>1, <2>8 DEF ControlFallback, OnlyMutex
    <2>9. CASE ControlRequest(u)
      BY <1>a, UserFrame, <1>1, <2>9 DEF ControlRequest, RequestBegin,
          RequestRefused, Usable
    <2>10. CASE ControlDone(u)
      BY <1>a, UserFrame, <1>1, <2>10 DEF ControlDone, RequestEnd
    <2>11. CASE ControlFailed(u)
      BY <1>a, UserFrame, <1>1, <2>11 DEF ControlFailed, RequestEnd
    <2>12. CASE StaleMark(u)
      BY <1>a, UserFrame, <1>1, <2>12 DEF StaleMark, CloseGate
    <2>13. CASE StaleGate(u)
      BY <1>a, UserFrame, <1>1, <2>13 DEF StaleGate, SetGate, GateFree,
          OnlySession
    <2>14. CASE StalePause(u)
      BY <1>a, UserFrame, <1>1, <2>14 DEF StalePause, PausePortPump
    <2>15. CASE StaleDiscard(u)
      BY <1>b, UserFrame, <1>1, <2>15 DEF StaleDiscard, PumpIdle
    <2>16. CASE StaleEnd(u)
      BY <1>a, UserFrame, <1>1, <2>16 DEF StaleEnd, ResumePortPump,
          ResumeAllowed
    <2>17. CASE CreateConnect(u)
      BY <1>a, UserFrame, <1>1, <2>17 DEF CreateConnect, ConnectBegin,
          ConnectSucceeded, ConnectFailed, OnlySession
    <2>18. CASE SyncLock(u)
      BY <1>a, UserFrame, <1>1, <2>18 DEF SyncLock, CloseGate
    <2>19. CASE SyncGate(u)
      BY <1>a, UserFrame, <1>1, <2>19 DEF SyncGate, SetGate, GateFree,
          OnlySession
    <2>20. CASE SyncPause(u)
      BY <1>a, UserFrame, <1>1, <2>20 DEF SyncPause, PausePortPump
    <2>21. CASE SyncEnter(u)
      BY <1>a, UserFrame, <1>1, <2>21 DEF SyncEnter, PumpIdle
    <2>22. CASE SyncConnect(u)
      BY <1>a, UserFrame, <1>1, <2>22 DEF SyncConnect, ConnectBegin,
          ConnectSucceeded, ConnectFailed
    <2>23. CASE ReadDescription(u)
      BY <1>a, UserFrame, <1>1, <2>23 DEF ReadDescription, Discovered,
          OnlySession
    <2>24. CASE DiscoverOperations(u)
      BY <1>a, UserFrame, <1>1, <2>24 DEF DiscoverOperations, Discovered,
          OnlySession
    <2>25. CASE DiscoverValues(u)
      BY <1>a, UserFrame, <1>1, <2>25 DEF DiscoverValues, Discovered,
          OnlySession
    <2>26. CASE DiscoverPorts(u)
      BY <1>a, UserFrame, <1>1, <2>26 DEF DiscoverPorts, Discovered
    <2>27. CASE DiscoverServices(u)
      BY <1>a, UserFrame, <1>1, <2>27 DEF DiscoverServices, Discovered,
          OnlySession
    <2>28. CASE StageFailed(u)
      BY <1>a, UserFrame, <1>1, <2>28 DEF StageFailed, DiscoveryFailed,
          StagePoints
    <2>29. CASE SyncCheck(u)
      BY <1>a, UserFrame, <1>1, <2>29 DEF SyncCheck, OnlySession
    <2>30. CASE SyncKeep(u)
      BY <1>a, UserFrame, <1>1, <2>30 DEF SyncKeep, ResumePortPump,
          ResumeAllowed, SetGate, GateFree, RestoreAccess
    <2>31. CASE SyncInstall(u)
      BY <1>a, UserFrame, <1>1, <2>31 DEF SyncInstall
    <2>32. CASE SyncInstallFailed(u)
      BY <1>a, UserFrame, <1>1, <2>32 DEF SyncInstallFailed
    <2>33. CASE SyncSwap(u)
      BY <1>b, UserFrame, <1>1, <2>33 DEF SyncSwap, Goto, PauseInv,
          PumpQuietDuringReplacement
    <2>34. CASE SyncFresh(u)
      BY <1>a, UserFrame, <1>1, <2>34 DEF SyncFresh, SetGate, GateFree,
          OnlySession
    <2>35. CASE SyncResume(u)
      BY <1>a, UserFrame, <1>1, <2>35 DEF SyncResume
    <2>36. CASE DestroyGate(u)
      BY <1>a, UserFrame, <1>1, <2>36 DEF DestroyGate, SetGate, GateFree,
          OnlySession
    <2>37. CASE DestroyStop(u)
      BY <1>a, UserFrame, <1>1, <2>37 DEF DestroyStop
    <2>38. CASE DestroyClear(u)
      BY UserFrame, <1>1, <2>38 DEF DestroyClear, PumpInv
    <2>39. CASE AccessRequest(u)
      BY <1>a, UserFrame, <1>1, <2>39 DEF AccessRequest, RequestBegin,
          RequestRefused, Usable, OnlySession
    <2> QED BY <1>1, <2>1, <2>2, <2>3, <2>4, <2>5, <2>6, <2>7, <2>8, <2>9,
        <2>10, <2>11, <2>12, <2>13, <2>14, <2>15, <2>16, <2>17, <2>18, <2>19,
        <2>20, <2>21, <2>22, <2>23, <2>24, <2>25, <2>26, <2>27, <2>28, <2>29,
        <2>30, <2>31, <2>32, <2>33, <2>34, <2>35, <2>36, <2>37,
        <2>38, <2>39 DEF UserCall, UserStep
  <1>2. CASE PumpStep
    <2>1. CASE PumpBegin
      BY <1>c, <1>0, <2>1 DEF PumpInv, PumpBegin
    <2>2. CASE PumpSend
      <3>1. pumping
        BY <2>2 DEF PumpSend, PumpInv
      <3>2. CASE pump' = "next"
        BY <1>c, <2>2, <3>1, <3>2 DEF PumpSend
      <3>3. CASE pump' = "reply" /\ UNCHANGED at
        BY <2>2, <3>1, <3>3 DEF PumpSend, PumpInv
      <3> QED BY <2>2, <3>2, <3>3 DEF PumpSend
    <2>3. CASE PumpEnd
      BY <2>3 DEF PumpInv, PumpEnd
    <2>4. CASE PumpExit
      BY <2>4 DEF PumpInv, PumpExit
    <2>5. ASSUME NEW p \in Ports, PumpTake(p) PROVE PumpInv'
      <3>1. pumping /\ UNCHANGED pumping
        BY <2>5 DEF PumpTake, Visit, PumpInv
      <3>2. CASE pump' = "next"
        BY <1>c, <3>1, <3>2
      <3>3. CASE pump' = "send"
        <4>1. at' = {p} /\ pending' = [pending EXCEPT ![p] = taken[p] + 1]
          BY <1>p, <2>5, <3>3 DEF PumpTake, Visit
        <4>2. p \in Inputs => pending'[p] # 0
          BY <1>0, <1>p, <2>5, <4>1 DEF PumpTake
        <4> QED BY <3>1, <3>3, <4>1, <4>2 DEF PumpInv
      <3> QED BY <2>5, <3>2, <3>3 DEF PumpTake, Visit
    <2>6. ASSUME NEW p \in Ports, PumpRetry(p) PROVE PumpInv'
      <3>1. pumping /\ UNCHANGED pumping
        BY <2>6 DEF PumpRetry, Visit, PumpInv
      <3>2. CASE pump' = "next"
        BY <1>c, <3>1, <3>2
      <3>3. CASE pump' = "send"
        <4>1. at' = {p} /\ pending' = pending /\ pending[p] # 0
          BY <1>p, <2>6, <3>3 DEF PumpRetry, Visit
        <4>2. p \in Inputs => pending'[p] # 0
          BY <1>0, <1>p, <2>6, <4>1 DEF PumpRetry
        <4> QED BY <3>1, <3>3, <4>1, <4>2 DEF PumpInv
      <3> QED BY <2>6, <3>2, <3>3 DEF PumpRetry, Visit
    <2>7. ASSUME NEW p \in Ports, PumpDeliver(p) PROVE PumpInv'
      BY <1>c, <1>0, <2>7 DEF PumpInv, PumpDeliver, Visit
    <2>8. ASSUME NEW p \in Ports, PumpRead(p) PROVE PumpInv'
      <3>1. pumping /\ UNCHANGED pumping
        BY <2>8 DEF PumpRead, Visit, PumpInv
      <3>2. CASE pump' = "next"
        BY <1>c, <3>1, <3>2
      <3>3. CASE pump' = "send"
        <4>1. at' = {p} /\ pending' = pending /\ p \notin Inputs
          BY <1>p, <2>8, <3>3 DEF PumpRead, Visit
        <4>2. p \in Inputs => pending'[p] # 0
          BY <1>0, <1>p, <2>8, <4>1 DEF PumpRead
        <4> QED BY <3>1, <3>3, <4>1, <4>2 DEF PumpInv
      <3> QED BY <2>8, <3>2, <3>3 DEF PumpRead, Visit
    <2>9. ASSUME NEW p \in Ports, PumpSkip(p) PROVE PumpInv'
      BY <1>c, <1>0, <2>9 DEF PumpInv, PumpSkip, Visit
    <2>10. ASSUME NEW p \in Ports, PumpReplyInput(p) PROVE PumpInv'
      BY <1>c, <1>0, <2>10 DEF PumpInv, PumpReplyInput, RequestEnd
    <2>11. ASSUME NEW p \in Ports, PumpReplyOutput(p) PROVE PumpInv'
      BY <1>c, <1>0, <2>11 DEF PumpInv, PumpReplyOutput, RequestEnd
    <2> QED BY <1>2, <2>1, <2>2, <2>3, <2>4, <2>5, <2>6, <2>7, <2>8, <2>9,
        <2>10, <2>11 DEF PumpStep
  <1>3. CASE RemoteChange
    BY <1>a, <1>3 DEF RemoteChange
  <1>4. CASE UNCHANGED vars
    BY <1>a, <1>4 DEF vars
  <1> QED BY <1>1, <1>2, <1>3, <1>4 DEF Next, Over

\* TypeOK is the conjunction of its parts.
LEMMA TypeParts == TypeOK <=> CallType /\ FlagType /\ CountType /\ PortType /\ SampleType
  BY DEF TypeOK, CallType, FlagType, CountType, PortType, SampleType

\* The points of the threads have their types.
LEMMA CallTypeStep == CallType /\ [Next]_vars => CallType'
  <1> SUFFICES ASSUME CallType, [Next]_vars PROVE CallType' OBVIOUS
  <1>0. pc \in [Users -> Points]
    BY DEF CallType
  <1>k. ASSUME UNCHANGED <<callVars>>, pump' \in {"wait", "next", "send", "reply", "exited"},
               todo' \subseteq Ports, at' \subseteq Ports
        PROVE  CallType'
    BY <1>k DEF CallType, callVars
  <1>a. ASSUME NEW u \in Users, NEW from, NEW to, Goto(u, from, to), to \in Points,
               UNCHANGED <<pump, todo, at>>, syncMutex' \in {syncMutex, {}, {u}},
               life' \in {life, "creating", "created", "destroyed"},
               after' \in {after, "return", "fail", "connect"}
        PROVE  CallType'
    <2>1. pc' \in [Users -> Points]
      BY <1>0, <1>a DEF Goto
    <2> QED BY <1>a, <2>1 DEF CallType
  <1> USE DEF Points, SyncPoints, StagePoints, ReplacePoints, StalePoints,
      CreatePoints, DestroyPoints, sessionVars, callVars, flagVars, pumpVars,
      portVars, remoteVars, sampleVars, dataVars
  <1>1. ASSUME NEW u \in Users, UserCall(u) \/ UserStep(u) PROVE CallType'
    <2>1. CASE CreateCall(u)
      BY <1>a, UserFrame, <1>1, <2>1 DEF CreateCall
    <2>2. CASE AccessCall(u)
      BY <1>a, UserFrame, <1>1, <2>2 DEF AccessCall, Call
    <2>3. CASE ControlCall(u)
      BY <1>a, UserFrame, <1>1, <2>3 DEF ControlCall, Call
    <2>4. CASE SyncCall(u)
      BY <1>a, UserFrame, <1>1, <2>4 DEF SyncCall, Call
    <2>5. CASE DestroyCall(u)
      BY <1>a, UserFrame, <1>1, <2>5 DEF DestroyCall, CloseGate
    <2>6. CASE AccessEnd(u)
      BY <1>a, UserFrame, <1>1, <2>6 DEF AccessEnd, RequestEnd, OnlySession
    <2>7. CASE ControlLock(u)
      BY <1>a, UserFrame, <1>1, <2>7 DEF ControlLock, OnlyMutex
    <2>8. CASE ControlFallback(u)
      BY <1>a, UserFrame, <1>1, <2>8 DEF ControlFallback, OnlyMutex
    <2>9. CASE ControlRequest(u)
      BY <1>a, UserFrame, <1>1, <2>9 DEF ControlRequest, RequestBegin,
          RequestRefused, Usable
    <2>10. CASE ControlDone(u)
      BY <1>a, UserFrame, <1>1, <2>10 DEF ControlDone, RequestEnd
    <2>11. CASE ControlFailed(u)
      BY <1>a, UserFrame, <1>1, <2>11 DEF ControlFailed, RequestEnd
    <2>12. CASE StaleMark(u)
      BY <1>a, UserFrame, <1>1, <2>12 DEF StaleMark, CloseGate
    <2>13. CASE StaleGate(u)
      BY <1>a, UserFrame, <1>1, <2>13 DEF StaleGate, SetGate, GateFree,
          OnlySession
    <2>14. CASE StalePause(u)
      BY <1>a, UserFrame, <1>1, <2>14 DEF StalePause, PausePortPump
    <2>15. CASE StaleDiscard(u)
      BY <1>a, UserFrame, <1>1, <2>15 DEF StaleDiscard, PumpIdle
    <2>16. CASE StaleEnd(u)
      BY <1>a, UserFrame, <1>1, <2>16 DEF StaleEnd, ResumePortPump,
          ResumeAllowed
    <2>17. CASE CreateConnect(u)
      BY <1>a, UserFrame, <1>1, <2>17 DEF CreateConnect, ConnectBegin,
          ConnectSucceeded, ConnectFailed, OnlySession
    <2>18. CASE SyncLock(u)
      BY <1>a, UserFrame, <1>1, <2>18 DEF SyncLock, CloseGate
    <2>19. CASE SyncGate(u)
      BY <1>a, UserFrame, <1>1, <2>19 DEF SyncGate, SetGate, GateFree,
          OnlySession
    <2>20. CASE SyncPause(u)
      BY <1>a, UserFrame, <1>1, <2>20 DEF SyncPause, PausePortPump
    <2>21. CASE SyncEnter(u)
      BY <1>a, UserFrame, <1>1, <2>21 DEF SyncEnter, PumpIdle
    <2>22. CASE SyncConnect(u)
      BY <1>a, UserFrame, <1>1, <2>22 DEF SyncConnect, ConnectBegin,
          ConnectSucceeded, ConnectFailed
    <2>23. CASE ReadDescription(u)
      BY <1>a, UserFrame, <1>1, <2>23 DEF ReadDescription, Discovered,
          OnlySession
    <2>24. CASE DiscoverOperations(u)
      BY <1>a, UserFrame, <1>1, <2>24 DEF DiscoverOperations, Discovered,
          OnlySession
    <2>25. CASE DiscoverValues(u)
      BY <1>a, UserFrame, <1>1, <2>25 DEF DiscoverValues, Discovered,
          OnlySession
    <2>26. CASE DiscoverPorts(u)
      BY <1>a, UserFrame, <1>1, <2>26 DEF DiscoverPorts, Discovered
    <2>27. CASE DiscoverServices(u)
      BY <1>a, UserFrame, <1>1, <2>27 DEF DiscoverServices, Discovered,
          OnlySession
    <2>28. CASE StageFailed(u)
      <3>1. PICK point \in StagePoints : Goto(u, point, "staleMark")
        BY <2>28 DEF StageFailed
      <3> QED BY <1>a, UserFrame, <1>1, <2>28, <3>1 DEF StageFailed,
          DiscoveryFailed
    <2>29. CASE SyncCheck(u)
      BY <1>a, UserFrame, <1>1, <2>29 DEF SyncCheck, OnlySession
    <2>30. CASE SyncKeep(u)
      BY <1>a, UserFrame, <1>1, <2>30 DEF SyncKeep, ResumePortPump,
          ResumeAllowed, SetGate, GateFree, RestoreAccess
    <2>31. CASE SyncInstall(u)
      BY <1>a, UserFrame, <1>1, <2>31 DEF SyncInstall
    <2>32. CASE SyncInstallFailed(u)
      BY <1>a, UserFrame, <1>1, <2>32 DEF SyncInstallFailed
    <2>33. CASE SyncSwap(u)
      BY <1>a, UserFrame, <1>1, <2>33 DEF SyncSwap
    <2>34. CASE SyncFresh(u)
      BY <1>a, UserFrame, <1>1, <2>34 DEF SyncFresh, SetGate, GateFree,
          OnlySession
    <2>35. CASE SyncResume(u)
      BY <1>a, UserFrame, <1>1, <2>35 DEF SyncResume
    <2>36. CASE DestroyGate(u)
      BY <1>a, UserFrame, <1>1, <2>36 DEF DestroyGate, SetGate, GateFree,
          OnlySession
    <2>37. CASE DestroyStop(u)
      BY <1>a, UserFrame, <1>1, <2>37 DEF DestroyStop
    <2>38. CASE DestroyClear(u)
      BY <1>a, UserFrame, <1>1, <2>38 DEF DestroyClear
    <2>39. CASE AccessRequest(u)
      BY <1>a, UserFrame, <1>1, <2>39 DEF AccessRequest, RequestBegin,
          RequestRefused, Usable, OnlySession
    <2> QED BY <1>1, <2>1, <2>2, <2>3, <2>4, <2>5, <2>6, <2>7, <2>8, <2>9,
        <2>10, <2>11, <2>12, <2>13, <2>14, <2>15, <2>16, <2>17, <2>18, <2>19,
        <2>20, <2>21, <2>22, <2>23, <2>24, <2>25, <2>26, <2>27, <2>28, <2>29,
        <2>30, <2>31, <2>32, <2>33, <2>34, <2>35, <2>36, <2>37,
        <2>38, <2>39 DEF UserCall, UserStep
  <1>2. CASE PumpStep
    <2>1. CASE PumpBegin
      BY <1>k, PumpFrame, <1>2, <2>1 DEF CallType, PumpBegin
    <2>2. CASE PumpSend
      BY <1>k, PumpFrame, <1>2, <2>2 DEF CallType, PumpSend, RequestBegin,
          RequestRefused, Usable
    <2>3. CASE PumpEnd
      BY <1>k, PumpFrame, <1>2, <2>3 DEF CallType, PumpEnd
    <2>4. CASE PumpExit
      BY <1>k, PumpFrame, <1>2, <2>4 DEF CallType, PumpExit
    <2>5. ASSUME NEW p \in Ports, PumpTake(p) PROVE CallType'
      BY <1>k, PumpFrame, <1>2, <2>5 DEF CallType, PumpTake, Visit
    <2>6. ASSUME NEW p \in Ports, PumpRetry(p) PROVE CallType'
      BY <1>k, PumpFrame, <1>2, <2>6 DEF CallType, PumpRetry, Visit
    <2>7. ASSUME NEW p \in Ports, PumpDeliver(p) PROVE CallType'
      BY <1>k, PumpFrame, <1>2, <2>7 DEF CallType, PumpDeliver, Visit
    <2>8. ASSUME NEW p \in Ports, PumpRead(p) PROVE CallType'
      BY <1>k, PumpFrame, <1>2, <2>8 DEF CallType, PumpRead, Visit
    <2>9. ASSUME NEW p \in Ports, PumpSkip(p) PROVE CallType'
      BY <1>k, PumpFrame, <1>2, <2>9 DEF CallType, PumpSkip, Visit
    <2>10. ASSUME NEW p \in Ports, PumpReplyInput(p) PROVE CallType'
      BY <1>k, PumpFrame, <1>2, <2>10 DEF CallType, PumpReplyInput, RequestEnd
    <2>11. ASSUME NEW p \in Ports, PumpReplyOutput(p) PROVE CallType'
      BY <1>k, PumpFrame, <1>2, <2>11 DEF CallType, PumpReplyOutput, RequestEnd
    <2> QED BY <1>2, <2>1, <2>2, <2>3, <2>4, <2>5, <2>6, <2>7, <2>8, <2>9,
        <2>10, <2>11 DEF PumpStep
  <1>3. CASE RemoteChange
    BY <1>k, <1>3 DEF RemoteChange, CallType
  <1>4. CASE UNCHANGED vars
    BY <1>k, <1>4 DEF vars, CallType
  <1> QED BY <1>1, <1>2, <1>3, <1>4 DEF Next, Over

\* The flags and the session have their types.
LEMMA FlagTypeStep == FlagType /\ [Next]_vars => FlagType'
  <1> SUFFICES ASSUME FlagType, [Next]_vars PROVE FlagType' OBVIOUS
  <1>a. ASSUME NEW t \in Users \cup {PumpThread}, holder' \in {holder, {}, {t}},
               sess' \in {sess, "disconnected", "connecting", "connected", "stale"},
               access' = access \/ access' \in BOOLEAN,
               restore' = restore \/ restore' \in BOOLEAN,
               ready' = ready \/ ready' \in BOOLEAN,
               stale' = stale \/ stale' \in BOOLEAN,
               paused' = paused \/ paused' \in BOOLEAN,
               pumping' = pumping \/ pumping' \in BOOLEAN,
               stopping' = stopping \/ stopping' \in BOOLEAN
        PROVE  FlagType'
    BY <1>a DEF FlagType, SessionTypeOK, SessionState
  <1> USE DEF sessionVars, callVars, flagVars, pumpVars, portVars, remoteVars,
      sampleVars, dataVars
  <1>1. ASSUME NEW u \in Users, UserCall(u) \/ UserStep(u) PROVE FlagType'
    <2>1. CASE CreateCall(u)
      BY <1>a, <2>1 DEF CreateCall
    <2>2. CASE AccessCall(u)
      BY <1>a, <2>2 DEF AccessCall, Call
    <2>3. CASE ControlCall(u)
      BY <1>a, <2>3 DEF ControlCall, Call
    <2>4. CASE SyncCall(u)
      BY <1>a, <2>4 DEF SyncCall, Call
    <2>5. CASE DestroyCall(u)
      BY <1>a, <2>5 DEF DestroyCall, CloseGate
    <2>6. CASE AccessEnd(u)
      BY <1>a, <2>6 DEF AccessEnd, RequestEnd, OnlySession, Invalidates
    <2>7. CASE ControlLock(u)
      BY <1>a, <2>7 DEF ControlLock, OnlyMutex
    <2>8. CASE ControlFallback(u)
      BY <1>a, <2>8 DEF ControlFallback, OnlyMutex
    <2>9. CASE ControlRequest(u)
      BY <1>a, <2>9 DEF ControlRequest, RequestBegin, RequestRefused, Usable
    <2>10. CASE ControlDone(u)
      BY <1>a, <2>10 DEF ControlDone, RequestEnd, Invalidates
    <2>11. CASE ControlFailed(u)
      BY <1>a, <2>11 DEF ControlFailed, RequestEnd, Invalidates
    <2>12. CASE StaleMark(u)
      BY <1>a, <2>12 DEF StaleMark, CloseGate
    <2>13. CASE StaleGate(u)
      BY <1>a, <2>13 DEF StaleGate, SetGate, GateFree, OnlySession
    <2>14. CASE StalePause(u)
      BY <1>a, <2>14 DEF StalePause, PausePortPump
    <2>15. CASE StaleDiscard(u)
      BY <1>a, <2>15 DEF StaleDiscard, PumpIdle
    <2>16. CASE StaleEnd(u)
      BY <1>a, <2>16 DEF StaleEnd, ResumePortPump, ResumeAllowed
    <2>17. CASE CreateConnect(u)
      BY <1>a, <2>17 DEF CreateConnect, ConnectBegin, ConnectSucceeded,
          ConnectFailed, OnlySession
    <2>18. CASE SyncLock(u)
      BY <1>a, <2>18 DEF SyncLock, CloseGate
    <2>19. CASE SyncGate(u)
      BY <1>a, <2>19 DEF SyncGate, SetGate, GateFree, OnlySession
    <2>20. CASE SyncPause(u)
      BY <1>a, <2>20 DEF SyncPause, PausePortPump
    <2>21. CASE SyncEnter(u)
      BY <1>a, <2>21 DEF SyncEnter, PumpIdle
    <2>22. CASE SyncConnect(u)
      BY <1>a, <2>22 DEF SyncConnect, ConnectBegin, ConnectSucceeded,
          ConnectFailed
    <2>23. CASE ReadDescription(u)
      BY <1>a, <2>23 DEF ReadDescription, Discovered, OnlySession
    <2>24. CASE DiscoverOperations(u)
      BY <1>a, <2>24 DEF DiscoverOperations, Discovered, OnlySession
    <2>25. CASE DiscoverValues(u)
      BY <1>a, <2>25 DEF DiscoverValues, Discovered, OnlySession
    <2>26. CASE DiscoverPorts(u)
      BY <1>a, <2>26 DEF DiscoverPorts, Discovered
    <2>27. CASE DiscoverServices(u)
      BY <1>a, <2>27 DEF DiscoverServices, Discovered, OnlySession
    <2>28. CASE StageFailed(u)
      BY <1>a, <2>28 DEF StageFailed, DiscoveryFailed
    <2>29. CASE SyncCheck(u)
      BY <1>a, <2>29 DEF SyncCheck, OnlySession
    <2>30. CASE SyncKeep(u)
      BY <1>a, <2>30 DEF SyncKeep, ResumePortPump, ResumeAllowed, SetGate,
          GateFree, RestoreAccess
    <2>31. CASE SyncInstall(u)
      BY <1>a, <2>31 DEF SyncInstall
    <2>32. CASE SyncInstallFailed(u)
      BY <1>a, <2>32 DEF SyncInstallFailed
    <2>33. CASE SyncSwap(u)
      BY <1>a, <2>33 DEF SyncSwap
    <2>34. CASE SyncFresh(u)
      BY <1>a, <2>34 DEF SyncFresh, SetGate, GateFree, OnlySession
    <2>35. CASE SyncResume(u)
      BY <1>a, <2>35 DEF SyncResume
    <2>36. CASE DestroyGate(u)
      BY <1>a, <2>36 DEF DestroyGate, SetGate, GateFree, OnlySession
    <2>37. CASE DestroyStop(u)
      BY <1>a, <2>37 DEF DestroyStop
    <2>38. CASE DestroyClear(u)
      BY <1>a, <2>38 DEF DestroyClear
    <2>39. CASE AccessRequest(u)
      BY <1>a, <2>39 DEF AccessRequest, RequestBegin, RequestRefused, Usable,
          OnlySession
    <2> QED BY <1>1, <2>1, <2>2, <2>3, <2>4, <2>5, <2>6, <2>7, <2>8, <2>9,
        <2>10, <2>11, <2>12, <2>13, <2>14, <2>15, <2>16, <2>17, <2>18, <2>19,
        <2>20, <2>21, <2>22, <2>23, <2>24, <2>25, <2>26, <2>27, <2>28, <2>29,
        <2>30, <2>31, <2>32, <2>33, <2>34, <2>35, <2>36, <2>37,
        <2>38, <2>39 DEF UserCall, UserStep
  <1>2. CASE PumpStep
    <2>1. CASE PumpBegin
      BY <1>a, <2>1 DEF OnlyPump, PumpBegin
    <2>2. CASE PumpSend
      BY <1>a, <2>2 DEF OnlyPump, PumpSend, RequestBegin, RequestRefused,
          Usable
    <2>3. CASE PumpEnd
      BY <1>a, <2>3 DEF OnlyPump, PumpEnd
    <2>4. CASE PumpExit
      BY <1>a, <2>4 DEF OnlyPump, PumpExit
    <2>5. ASSUME NEW p \in Ports, PumpTake(p) PROVE FlagType'
      BY <1>a, <2>5 DEF OnlyPump, PumpTake, Visit
    <2>6. ASSUME NEW p \in Ports, PumpRetry(p) PROVE FlagType'
      BY <1>a, <2>6 DEF OnlyPump, PumpRetry, Visit
    <2>7. ASSUME NEW p \in Ports, PumpDeliver(p) PROVE FlagType'
      BY <1>a, <2>7 DEF OnlyPump, PumpDeliver, Visit
    <2>8. ASSUME NEW p \in Ports, PumpRead(p) PROVE FlagType'
      BY <1>a, <2>8 DEF OnlyPump, PumpRead, Visit
    <2>9. ASSUME NEW p \in Ports, PumpSkip(p) PROVE FlagType'
      BY <1>a, <2>9 DEF OnlyPump, PumpSkip, Visit
    <2>10. ASSUME NEW p \in Ports, PumpReplyInput(p) PROVE FlagType'
      BY <1>a, <2>10 DEF OnlyPump, PumpReplyInput, RequestEnd
    <2>11. ASSUME NEW p \in Ports, PumpReplyOutput(p) PROVE FlagType'
      BY <1>a, <2>11 DEF OnlyPump, PumpReplyOutput, RequestEnd
    <2> QED BY <1>2, <2>1, <2>2, <2>3, <2>4, <2>5, <2>6, <2>7, <2>8, <2>9,
        <2>10, <2>11 DEF PumpStep
  <1>3. CASE RemoteChange
    BY <1>a, <1>3 DEF RemoteChange
  <1>4. CASE UNCHANGED vars
    BY <1>a, <1>4 DEF vars
  <1> QED BY <1>1, <1>2, <1>3, <1>4 DEF Next, Over

-----------------------------------------------------------------------------
(* The types of counters, ports and samples                                *)

\* The counters stay within their bounds.
LEMMA CountTypeStep == TypeOK /\ CountInv /\ [Next]_vars => CountType'
  <1> SUFFICES ASSUME TypeOK, CountInv, [Next]_vars PROVE CountType' OBVIOUS
  <1>0. CountType /\ MaxCalls \in Nat
    BY ProxyAssumption, TypeParts
  <1>a. ASSUME UNCHANGED <<calls, syncs>> PROVE CountType'
    BY <1>0, <1>a DEF CountType
  <1>b. ASSUME calls < MaxCalls, calls' = calls + 1, UNCHANGED syncs PROVE CountType'
    BY <1>0, <1>b DEF CountType
  <1>c. ASSUME NEW u \in Users, SyncLock(u) PROVE CountType'
    <2>1. u \in Syncing /\ syncs' = syncs + 1 /\ calls' = calls
      BY <1>c DEF SyncLock, Goto, Syncing
    <2>2. Cardinality(Syncing) \in Nat /\ Cardinality(Syncing) # 0
      BY <2>1, FS_CardinalityType, FS_EmptySet DEF CountInv
    <2> QED BY <1>0, <2>1, <2>2 DEF CountType, CountInv
  <1> USE DEF sessionVars, callVars, flagVars, pumpVars, portVars, remoteVars,
      sampleVars, dataVars
  <1>1. ASSUME NEW u \in Users, UserCall(u) \/ UserStep(u) PROVE CountType'
    <2>1. CASE CreateCall(u)
      BY <1>a, <2>1 DEF CreateCall
    <2>2. CASE AccessCall(u)
      BY <1>b, <2>2 DEF AccessCall, Call
    <2>3. CASE ControlCall(u)
      BY <1>b, <2>3 DEF ControlCall, Call
    <2>4. CASE SyncCall(u)
      BY <1>b, <2>4 DEF SyncCall, Call
    <2>5. CASE DestroyCall(u)
      BY <1>a, <2>5 DEF DestroyCall, CloseGate
    <2>6. CASE AccessEnd(u)
      BY <1>a, <2>6 DEF AccessEnd, RequestEnd, OnlySession
    <2>7. CASE ControlLock(u)
      BY <1>a, <2>7 DEF ControlLock, OnlyMutex
    <2>8. CASE ControlFallback(u)
      BY <1>a, <2>8 DEF ControlFallback, OnlyMutex
    <2>9. CASE ControlRequest(u)
      BY <1>a, <2>9 DEF ControlRequest, RequestBegin, RequestRefused, Usable
    <2>10. CASE ControlDone(u)
      BY <1>a, <2>10 DEF ControlDone, RequestEnd
    <2>11. CASE ControlFailed(u)
      BY <1>a, <2>11 DEF ControlFailed, RequestEnd
    <2>12. CASE StaleMark(u)
      BY <1>a, <2>12 DEF StaleMark, CloseGate
    <2>13. CASE StaleGate(u)
      BY <1>a, <2>13 DEF StaleGate, SetGate, GateFree, OnlySession
    <2>14. CASE StalePause(u)
      BY <1>a, <2>14 DEF StalePause, PausePortPump
    <2>15. CASE StaleDiscard(u)
      BY <1>a, <2>15 DEF StaleDiscard, PumpIdle
    <2>16. CASE StaleEnd(u)
      BY <1>a, <2>16 DEF StaleEnd, ResumePortPump, ResumeAllowed
    <2>17. CASE CreateConnect(u)
      BY <1>a, <2>17 DEF CreateConnect, ConnectBegin, ConnectSucceeded,
          ConnectFailed, OnlySession
    <2>18. CASE SyncLock(u)
      BY <1>c, <2>18
    <2>19. CASE SyncGate(u)
      BY <1>a, <2>19 DEF SyncGate, SetGate, GateFree, OnlySession
    <2>20. CASE SyncPause(u)
      BY <1>a, <2>20 DEF SyncPause, PausePortPump
    <2>21. CASE SyncEnter(u)
      BY <1>a, <2>21 DEF SyncEnter, PumpIdle
    <2>22. CASE SyncConnect(u)
      BY <1>a, <2>22 DEF SyncConnect, ConnectBegin, ConnectSucceeded,
          ConnectFailed
    <2>23. CASE ReadDescription(u)
      BY <1>a, <2>23 DEF ReadDescription, Discovered, OnlySession
    <2>24. CASE DiscoverOperations(u)
      BY <1>a, <2>24 DEF DiscoverOperations, Discovered, OnlySession
    <2>25. CASE DiscoverValues(u)
      BY <1>a, <2>25 DEF DiscoverValues, Discovered, OnlySession
    <2>26. CASE DiscoverPorts(u)
      BY <1>a, <2>26 DEF DiscoverPorts, Discovered
    <2>27. CASE DiscoverServices(u)
      BY <1>a, <2>27 DEF DiscoverServices, Discovered, OnlySession
    <2>28. CASE StageFailed(u)
      BY <1>a, <2>28 DEF StageFailed, DiscoveryFailed
    <2>29. CASE SyncCheck(u)
      BY <1>a, <2>29 DEF SyncCheck, OnlySession
    <2>30. CASE SyncKeep(u)
      BY <1>a, <2>30 DEF SyncKeep, ResumePortPump, ResumeAllowed, SetGate,
          GateFree, RestoreAccess
    <2>31. CASE SyncInstall(u)
      BY <1>a, <2>31 DEF SyncInstall
    <2>32. CASE SyncInstallFailed(u)
      BY <1>a, <2>32 DEF SyncInstallFailed
    <2>33. CASE SyncSwap(u)
      BY <1>a, <2>33 DEF SyncSwap
    <2>34. CASE SyncFresh(u)
      BY <1>a, <2>34 DEF SyncFresh, SetGate, GateFree, OnlySession
    <2>35. CASE SyncResume(u)
      BY <1>a, <2>35 DEF SyncResume
    <2>36. CASE DestroyGate(u)
      BY <1>a, <2>36 DEF DestroyGate, SetGate, GateFree, OnlySession
    <2>37. CASE DestroyStop(u)
      BY <1>a, <2>37 DEF DestroyStop
    <2>38. CASE DestroyClear(u)
      BY <1>a, <2>38 DEF DestroyClear
    <2>39. CASE AccessRequest(u)
      BY <1>b, <1>a, <2>39 DEF AccessRequest, RequestBegin, RequestRefused,
          Usable, OnlySession
    <2> QED BY <1>1, <2>1, <2>2, <2>3, <2>4, <2>5, <2>6, <2>7, <2>8, <2>9,
        <2>10, <2>11, <2>12, <2>13, <2>14, <2>15, <2>16, <2>17, <2>18, <2>19,
        <2>20, <2>21, <2>22, <2>23, <2>24, <2>25, <2>26, <2>27, <2>28, <2>29,
        <2>30, <2>31, <2>32, <2>33, <2>34, <2>35, <2>36, <2>37,
        <2>38, <2>39 DEF UserCall, UserStep
  <1>2. CASE PumpStep
    BY <1>a, <1>2, PumpFrame
  <1>3. CASE RemoteChange
    BY <1>a, <1>3 DEF RemoteChange
  <1>4. CASE UNCHANGED vars
    BY <1>a, <1>4 DEF vars
  <1> QED BY <1>1, <1>2, <1>3, <1>4 DEF Next, Over

\* The adapters and what is registered have their types.
LEMMA PortTypeStep == TypeOK /\ CountInv /\ [Next]_vars => PortType'
  <1> SUFFICES ASSUME TypeOK, CountInv, [Next]_vars PROVE PortType' OBVIOUS
  <1>0. PortType /\ syncs \in 0..(MaxCalls + 1) /\ MaxCalls \in Nat
    BY ProxyAssumption, TypeParts DEF CountType
  <1>a. ASSUME UNCHANGED <<adapters, registered, quarantined, offers, changes>>,
               staged' = staged \/ staged' = {} \/ staged' = offers
        PROVE  PortType'
    BY <1>0, <1>a DEF PortType
  <1> USE DEF sessionVars, callVars, flagVars, pumpVars, portVars, remoteVars,
      sampleVars, dataVars
  <1>1. ASSUME NEW u \in Users, UserCall(u) \/ UserStep(u) PROVE PortType'
    <2>1. CASE CreateCall(u)
      BY <1>a, <2>1 DEF CreateCall
    <2>2. CASE AccessCall(u)
      BY <1>a, <2>2 DEF AccessCall, Call
    <2>3. CASE ControlCall(u)
      BY <1>a, <2>3 DEF ControlCall, Call
    <2>4. CASE SyncCall(u)
      BY <1>a, <2>4 DEF SyncCall, Call
    <2>5. CASE DestroyCall(u)
      BY <1>a, <2>5 DEF DestroyCall, CloseGate
    <2>6. CASE AccessEnd(u)
      BY <1>a, <2>6 DEF AccessEnd, RequestEnd, OnlySession
    <2>7. CASE ControlLock(u)
      BY <1>a, <2>7 DEF ControlLock, OnlyMutex
    <2>8. CASE ControlFallback(u)
      BY <1>a, <2>8 DEF ControlFallback, OnlyMutex
    <2>9. CASE ControlRequest(u)
      BY <1>a, <2>9 DEF ControlRequest, RequestBegin, RequestRefused, Usable
    <2>10. CASE ControlDone(u)
      BY <1>a, <2>10 DEF ControlDone, RequestEnd
    <2>11. CASE ControlFailed(u)
      BY <1>a, <2>11 DEF ControlFailed, RequestEnd
    <2>12. CASE StaleMark(u)
      BY <1>a, <2>12 DEF StaleMark, CloseGate
    <2>13. CASE StaleGate(u)
      BY <1>a, <2>13 DEF StaleGate, SetGate, GateFree, OnlySession
    <2>14. CASE StalePause(u)
      BY <1>a, <2>14 DEF StalePause, PausePortPump
    <2>15. CASE StaleDiscard(u)
      BY <1>a, <2>15 DEF StaleDiscard, PumpIdle
    <2>16. CASE StaleEnd(u)
      BY <1>a, <2>16 DEF StaleEnd, ResumePortPump, ResumeAllowed
    <2>17. CASE CreateConnect(u)
      BY <1>a, <2>17 DEF CreateConnect, ConnectBegin, ConnectSucceeded,
          ConnectFailed, OnlySession
    <2>18. CASE SyncLock(u)
      BY <1>a, <2>18 DEF SyncLock, CloseGate
    <2>19. CASE SyncGate(u)
      BY <1>a, <2>19 DEF SyncGate, SetGate, GateFree, OnlySession
    <2>20. CASE SyncPause(u)
      BY <1>a, <2>20 DEF SyncPause, PausePortPump
    <2>21. CASE SyncEnter(u)
      BY <1>a, <2>21 DEF SyncEnter, PumpIdle
    <2>22. CASE SyncConnect(u)
      BY <1>a, <2>22 DEF SyncConnect, ConnectBegin, ConnectSucceeded,
          ConnectFailed
    <2>23. CASE ReadDescription(u)
      BY <1>a, <2>23 DEF ReadDescription, Discovered, OnlySession
    <2>24. CASE DiscoverOperations(u)
      BY <1>a, <2>24 DEF DiscoverOperations, Discovered, OnlySession
    <2>25. CASE DiscoverValues(u)
      BY <1>a, <2>25 DEF DiscoverValues, Discovered, OnlySession
    <2>26. CASE DiscoverPorts(u)
      BY <1>a, <2>26 DEF DiscoverPorts, Discovered
    <2>27. CASE DiscoverServices(u)
      BY <1>a, <2>27 DEF DiscoverServices, Discovered, OnlySession
    <2>28. CASE StageFailed(u)
      BY <1>a, <2>28 DEF StageFailed, DiscoveryFailed
    <2>29. CASE SyncCheck(u)
      BY <1>a, <2>29 DEF SyncCheck, OnlySession
    <2>30. CASE SyncKeep(u)
      BY <1>a, <2>30 DEF SyncKeep, ResumePortPump, ResumeAllowed, SetGate,
          GateFree, RestoreAccess
    <2>31. CASE SyncInstall(u)
      <3>1. registered' \in [Ports -> 0..(MaxCalls + 1)]
        BY <1>0, <2>31 DEF SyncInstall
      <3> QED BY <1>0, <2>31, <3>1 DEF SyncInstall, PortType
    <2>32. CASE SyncInstallFailed(u)
      <3>1. registered' \in [Ports -> 0..(MaxCalls + 1)]
        BY <1>0, <2>32 DEF SyncInstallFailed, PortType
      <3>2. syncs \in 1..(MaxCalls + 1)
        BY <1>0, <2>32 DEF SyncInstallFailed, Goto, CountInv, SyncPoints,
            ReplacePoints
      <3>3. \A p \in staged : <<p, syncs>> \in Ports \X (1..(MaxCalls + 1))
        BY <1>0, <3>2 DEF PortType
      <3>4. quarantined' \subseteq quarantined \cup {<<p, syncs>> : p \in staged}
        BY <2>32 DEF SyncInstallFailed, Quarantine
      <3>5. quarantined' \in SUBSET (Ports \X (1..(MaxCalls + 1)))
        BY <1>0, <3>3, <3>4 DEF PortType
      <3> QED BY <1>0, <2>32, <3>1, <3>5 DEF SyncInstallFailed, PortType
    <2>33. CASE SyncSwap(u)
      <3>1. adapters' \in [Ports -> 0..(MaxCalls + 1)]
        BY <1>0, <2>33 DEF SyncSwap
      <3> QED BY <1>0, <2>33, <3>1 DEF SyncSwap, PortType
    <2>34. CASE SyncFresh(u)
      BY <1>a, <2>34 DEF SyncFresh, SetGate, GateFree, OnlySession
    <2>35. CASE SyncResume(u)
      BY <1>a, <2>35 DEF SyncResume
    <2>36. CASE DestroyGate(u)
      BY <1>a, <2>36 DEF DestroyGate, SetGate, GateFree, OnlySession
    <2>37. CASE DestroyStop(u)
      BY <1>a, <2>37 DEF DestroyStop
    <2>38. CASE DestroyClear(u)
      <3>1. registered' \in [Ports -> 0..(MaxCalls + 1)]
        BY <1>0, <2>38 DEF DestroyClear, PortType
      <3>2. adapters' \in [Ports -> 0..(MaxCalls + 1)]
        BY <1>0, <2>38 DEF DestroyClear, Nothing
      <3> QED BY <1>0, <2>38, <3>1, <3>2 DEF DestroyClear, PortType
    <2>39. CASE AccessRequest(u)
      BY <1>a, <2>39 DEF AccessRequest, RequestBegin, RequestRefused, Usable,
          OnlySession
    <2> QED BY <1>1, <2>1, <2>2, <2>3, <2>4, <2>5, <2>6, <2>7, <2>8, <2>9,
        <2>10, <2>11, <2>12, <2>13, <2>14, <2>15, <2>16, <2>17, <2>18, <2>19,
        <2>20, <2>21, <2>22, <2>23, <2>24, <2>25, <2>26, <2>27, <2>28, <2>29,
        <2>30, <2>31, <2>32, <2>33, <2>34, <2>35, <2>36, <2>37,
        <2>38, <2>39 DEF UserCall, UserStep
  <1>2. CASE PumpStep
    BY <1>a, <1>2, PumpFrame
  <1>3. CASE RemoteChange
    <2>1. changes' \in 0..MaxChanges
      BY <1>0, <1>3, ProxyAssumption DEF RemoteChange, PortType
    <2>2. offers' \in SUBSET Ports
      BY <1>0, <1>3 DEF RemoteChange, PortType
    <2> QED BY <1>0, <1>3, <2>1, <2>2 DEF RemoteChange, PortType
  <1>4. CASE UNCHANGED vars
    BY <1>a, <1>4 DEF vars
  <1> QED BY <1>1, <1>2, <1>3, <1>4 DEF Next, Over

\* The samples and their history have their types.
LEMMA SampleTypeStep == TypeOK /\ PumpInv /\ [Next]_vars => SampleType'
  <1> SUFFICES ASSUME TypeOK, PumpInv, [Next]_vars PROVE SampleType' OBVIOUS
  <1>0. SampleType /\ MaxSamples \in Nat \ {0}
    BY ProxyAssumption, TypeParts
  <1>p. Inputs \subseteq Ports /\ Outputs \subseteq Ports /\ Inputs \cap Outputs = {}
    BY ProxyAssumption DEF Ports
  <1>a. ASSUME UNCHANGED <<pending, taken, copies, dropped>>,
               raw' = raw \/ raw' = {} \/ raw' \subseteq raw
        PROVE  SampleType'
    BY <1>0, <1>a DEF SampleType
  <1>b. WithPending \in [Inputs -> SUBSET Sample]
    BY <1>0, <1>p DEF SampleType, Sample, WithPending
  <1>c. Nothing \in [Ports -> 0..MaxSamples]
    BY <1>0 DEF Nothing
  <1> USE DEF sessionVars, callVars, flagVars, pumpVars, portVars, remoteVars,
      sampleVars, dataVars
  <1>1. ASSUME NEW u \in Users, UserCall(u) \/ UserStep(u) PROVE SampleType'
    <2>1. CASE CreateCall(u)
      BY <1>a, <2>1 DEF CreateCall
    <2>2. CASE AccessCall(u)
      BY <1>a, <2>2 DEF AccessCall, Call
    <2>3. CASE ControlCall(u)
      BY <1>a, <2>3 DEF ControlCall, Call
    <2>4. CASE SyncCall(u)
      BY <1>a, <2>4 DEF SyncCall, Call
    <2>5. CASE DestroyCall(u)
      BY <1>a, <2>5 DEF DestroyCall, CloseGate
    <2>6. CASE AccessEnd(u)
      BY <1>a, <2>6 DEF AccessEnd, RequestEnd, OnlySession
    <2>7. CASE ControlLock(u)
      BY <1>a, <2>7 DEF ControlLock, OnlyMutex
    <2>8. CASE ControlFallback(u)
      BY <1>a, <2>8 DEF ControlFallback, OnlyMutex
    <2>9. CASE ControlRequest(u)
      BY <1>a, <2>9 DEF ControlRequest, RequestBegin, RequestRefused, Usable
    <2>10. CASE ControlDone(u)
      BY <1>a, <2>10 DEF ControlDone, RequestEnd
    <2>11. CASE ControlFailed(u)
      BY <1>a, <2>11 DEF ControlFailed, RequestEnd
    <2>12. CASE StaleMark(u)
      BY <1>a, <2>12 DEF StaleMark, CloseGate
    <2>13. CASE StaleGate(u)
      BY <1>a, <2>13 DEF StaleGate, SetGate, GateFree, OnlySession
    <2>14. CASE StalePause(u)
      BY <1>a, <2>14 DEF StalePause, PausePortPump
    <2>15. CASE StaleDiscard(u)
      BY <1>0, <1>b, <1>c, <2>15 DEF StaleDiscard, SampleType
    <2>16. CASE StaleEnd(u)
      BY <1>a, <2>16 DEF StaleEnd, ResumePortPump, ResumeAllowed
    <2>17. CASE CreateConnect(u)
      BY <1>a, <2>17 DEF CreateConnect, ConnectBegin, ConnectSucceeded,
          ConnectFailed, OnlySession
    <2>18. CASE SyncLock(u)
      BY <1>a, <2>18 DEF SyncLock, CloseGate
    <2>19. CASE SyncGate(u)
      BY <1>a, <2>19 DEF SyncGate, SetGate, GateFree, OnlySession
    <2>20. CASE SyncPause(u)
      BY <1>a, <2>20 DEF SyncPause, PausePortPump
    <2>21. CASE SyncEnter(u)
      BY <1>a, <2>21 DEF SyncEnter, PumpIdle
    <2>22. CASE SyncConnect(u)
      BY <1>a, <2>22 DEF SyncConnect, ConnectBegin, ConnectSucceeded,
          ConnectFailed
    <2>23. CASE ReadDescription(u)
      BY <1>a, <2>23 DEF ReadDescription, Discovered, OnlySession
    <2>24. CASE DiscoverOperations(u)
      BY <1>a, <2>24 DEF DiscoverOperations, Discovered, OnlySession
    <2>25. CASE DiscoverValues(u)
      BY <1>a, <2>25 DEF DiscoverValues, Discovered, OnlySession
    <2>26. CASE DiscoverPorts(u)
      BY <1>a, <2>26 DEF DiscoverPorts, Discovered
    <2>27. CASE DiscoverServices(u)
      BY <1>a, <2>27 DEF DiscoverServices, Discovered, OnlySession
    <2>28. CASE StageFailed(u)
      BY <1>a, <2>28 DEF StageFailed, DiscoveryFailed
    <2>29. CASE SyncCheck(u)
      BY <1>a, <2>29 DEF SyncCheck, OnlySession
    <2>30. CASE SyncKeep(u)
      BY <1>a, <2>30 DEF SyncKeep, ResumePortPump, ResumeAllowed, SetGate,
          GateFree, RestoreAccess
    <2>31. CASE SyncInstall(u)
      BY <1>a, <2>31 DEF SyncInstall
    <2>32. CASE SyncInstallFailed(u)
      BY <1>a, <2>32 DEF SyncInstallFailed
    <2>33. CASE SyncSwap(u)
      <3>1. pending' \in [Ports -> 0..MaxSamples]
        BY <1>0, <2>33 DEF SyncSwap, SampleType
      <3> QED BY <1>0, <2>33, <3>1 DEF SyncSwap, SampleType
    <2>34. CASE SyncFresh(u)
      BY <1>a, <2>34 DEF SyncFresh, SetGate, GateFree, OnlySession
    <2>35. CASE SyncResume(u)
      BY <1>a, <2>35 DEF SyncResume
    <2>36. CASE DestroyGate(u)
      BY <1>a, <2>36 DEF DestroyGate, SetGate, GateFree, OnlySession
    <2>37. CASE DestroyStop(u)
      BY <1>a, <2>37 DEF DestroyStop
    <2>38. CASE DestroyClear(u)
      BY <1>0, <1>b, <1>c, <2>38 DEF DestroyClear, SampleType
    <2>39. CASE AccessRequest(u)
      BY <1>a, <2>39 DEF AccessRequest, RequestBegin, RequestRefused, Usable,
          OnlySession
    <2> QED BY <1>1, <2>1, <2>2, <2>3, <2>4, <2>5, <2>6, <2>7, <2>8, <2>9,
        <2>10, <2>11, <2>12, <2>13, <2>14, <2>15, <2>16, <2>17, <2>18, <2>19,
        <2>20, <2>21, <2>22, <2>23, <2>24, <2>25, <2>26, <2>27, <2>28, <2>29,
        <2>30, <2>31, <2>32, <2>33, <2>34, <2>35, <2>36, <2>37,
        <2>38, <2>39 DEF UserCall, UserStep
  <1>2. CASE PumpStep
    <2>1. CASE PumpBegin
      BY <1>a, <2>1 DEF PumpBegin
    <2>2. CASE PumpSend
      BY <1>a, <2>2 DEF PumpSend, RequestBegin, RequestRefused, Usable
    <2>3. CASE PumpEnd
      BY <1>a, <2>3 DEF PumpEnd
    <2>4. CASE PumpExit
      BY <1>a, <2>4 DEF PumpExit
    <2>5. ASSUME NEW p \in Ports, PumpTake(p) PROVE SampleType'
      <3>1. /\ taken' = [taken EXCEPT ![p] = @ + 1] /\ taken[p] < MaxSamples /\ p \in Inputs
            /\ pending' = [pending EXCEPT ![p] = taken[p] + 1]
            /\ raw' \in {raw, raw \cup {p}} /\ UNCHANGED <<copies, dropped>>
        BY <2>5 DEF PumpTake, Visit
      <3>2. taken[p] \in Nat /\ taken[p] + 1 \in 0..MaxSamples
        BY <1>0, <3>1 DEF SampleType
      <3>3. taken' \in [Inputs -> 0..MaxSamples] /\ pending' \in [Ports -> 0..MaxSamples]
        BY <1>0, <3>1, <3>2 DEF SampleType
      <3> QED BY <1>0, <3>1, <3>3 DEF SampleType
    <2>6. ASSUME NEW p \in Ports, PumpRetry(p) PROVE SampleType'
      BY <1>a, <2>6 DEF PumpRetry, Visit
    <2>7. ASSUME NEW p \in Ports, PumpDeliver(p) PROVE SampleType'
      <3>1. pending' \in [Ports -> 0..MaxSamples]
        BY <1>0, <2>7 DEF PumpDeliver, SampleType
      <3> QED BY <1>0, <2>7, <3>1 DEF PumpDeliver, Visit, SampleType
    <2>8. ASSUME NEW p \in Ports, PumpRead(p) PROVE SampleType'
      BY <1>a, <2>8 DEF PumpRead, Visit
    <2>9. ASSUME NEW p \in Ports, PumpSkip(p) PROVE SampleType'
      BY <1>a, <2>9 DEF PumpSkip, Visit
    <2>10. ASSUME NEW p \in Ports, PumpReplyInput(p) PROVE SampleType'
      <3>1. p \in Inputs /\ pending[p] \in Sample
        <4>1. pump = "reply" /\ at = {p} /\ p \in Inputs
          BY <2>10 DEF PumpReplyInput
        <4>2. pending[p] # 0
          BY <4>1 DEF PumpInv
        <4> QED BY <1>0, <1>p, <4>1, <4>2 DEF SampleType, Sample
      <3>2. pending' \in [Ports -> 0..MaxSamples]
        BY <1>0, <2>10 DEF PumpReplyInput, SampleType
      <3>3. copies' = copies \/ copies' = [copies EXCEPT ![p][pending[p]] = @ + 1]
        BY <2>10 DEF PumpReplyInput
      <3>4. copies' \in [Inputs -> [Sample -> Nat]]
        <4>1. copies \in [Inputs -> [Sample -> Nat]]
          BY <1>0 DEF SampleType
        <4>2. [copies[p] EXCEPT ![pending[p]] = @ + 1] \in [Sample -> Nat]
          BY <3>1, <4>1
        <4> QED BY <3>1, <3>3, <4>1, <4>2
      <3> QED BY <1>0, <2>10, <3>2, <3>4 DEF PumpReplyInput, SampleType
    <2>11. ASSUME NEW p \in Ports, PumpReplyOutput(p) PROVE SampleType'
      <3>1. pending' \in [Ports -> 0..MaxSamples]
        BY <1>0, <2>11 DEF PumpReplyOutput, SampleType
      <3> QED BY <1>0, <2>11, <3>1 DEF PumpReplyOutput, SampleType
    <2> QED BY <1>2, <2>1, <2>2, <2>3, <2>4, <2>5, <2>6, <2>7, <2>8, <2>9,
        <2>10, <2>11 DEF PumpStep
  <1>3. CASE RemoteChange
    BY <1>a, <1>3 DEF RemoteChange
  <1>4. CASE UNCHANGED vars
    BY <1>a, <1>4 DEF vars
  <1> QED BY <1>1, <1>2, <1>3, <1>4 DEF Next, Over

-----------------------------------------------------------------------------
(* The flags of the interface                                              *)

\* While a thread holds synchronize_mutex, the others hold nothing, and the
\* proxy is neither created nor destroyed by them.
LEMMA HolderAlone ==
  ASSUME TypeOK, LifeInv, MutexInv, NEW u \in Users, UserCall(u) \/ UserStep(u),
         pc[u] \in MutexPoints
  PROVE  /\ life # "constructed" /\ life # "destroyed"
         /\ \A v \in Users \ {u} :
              pc'[v] = pc[v] /\ pc[v] \notin MutexPoints \cup CreatePoints \cup DestroyPoints
  <1>1. \A v \in Users \ {u} : pc'[v] = pc[v]
    BY UserMoves
  <1>2. \A v \in Users \ {u} : pc[v] \notin MutexPoints \cup CreatePoints \cup DestroyPoints
    BY Alone
  <1>3. life # "constructed" /\ life # "destroyed"
    BY DEF LifeInv, MutexPoints, SyncPoints, StagePoints, ReplacePoints,
        StalePoints, CreatePoints, DestroyPoints
  <1> QED BY <1>1, <1>2, <1>3

\* The flags are those of the point of the call.
LEMMA FlagStep ==
  TypeOK /\ LifeInv /\ MutexInv /\ FlagInv /\ SettledInv /\ [Next]_vars => FlagInv'
  <1> SUFFICES ASSUME TypeOK, LifeInv, MutexInv, FlagInv, SettledInv, [Next]_vars
               PROVE  FlagInv'
    OBVIOUS
  <1>0. pc \in [Users -> Points]
    BY DEF TypeOK
  <1> DEFINE Elsewhere(u) ==
               /\ life' # "constructed"
               /\ \A v \in Users : v # u => pc'[v] \notin MutexPoints \cup CreatePoints
  <1>k. ASSUME UNCHANGED <<pc, life, ready, stale, restore, after>> PROVE FlagInv'
    BY <1>k DEF FlagInv
  \* A call of a thread that does not hold synchronize_mutex.
  <1>a. ASSUME NEW u \in Users, NEW from, NEW to, Goto(u, from, to),
               UNCHANGED <<ready, stale, restore, after>>,
               life' = "constructed" => life = "constructed",
               to \in CreatePoints => from \in CreatePoints \/ life = "constructed",
               to \in MutexPoints => to \in {"control", "calling", "syncGate", "syncPause"}
        PROVE  FlagInv'
    BY <1>0, <1>a DEF FlagInv, Goto, MutexPoints, SyncPoints, StagePoints,
        ReplacePoints, StalePoints, CreatePoints, DestroyPoints
  <1>b. ASSUME NEW u \in Users, UserStep(u), pc[u] \in MutexPoints,
               life' = life \/ life' = "created"
        PROVE  Elsewhere(u)
    BY <1>b, HolderAlone
  \* The flags stay, and the thread stays among the points they fit.
  <1>c. ASSUME NEW u \in Users, NEW from, NEW to, Goto(u, from, to),
               UNCHANGED <<life, ready, stale, restore, after>>,
               to \in StalePoints \ {"staleMark"} => from \in StalePoints \ {"staleMark"},
               to \in CreatePoints => from \in CreatePoints,
               to \in {"fresh", "resume"} => from \in {"fresh", "resume"},
               to # "keep",
               to \in StagePoints \cup {"check"} => from \in StagePoints \cup {"check"},
               to \in {"connect", "connecting"} => from \in {"connect", "connecting"},
               to \in StalePoints => from \in StalePoints \/ after # "connect"
        PROVE  FlagInv'
    BY <1>0, <1>c DEF FlagInv, Goto
  <1>d. ASSUME NEW u \in Users, UserStep(u), pc[u] \in MutexPoints,
               UNCHANGED <<life, ready, stale, restore>>,
               pc' = [pc EXCEPT ![u] = "staleMark"], after' # "connect" \/ restore = FALSE
        PROVE  FlagInv'
    BY <1>0, <1>b, <1>d DEF FlagInv, MutexPoints, SyncPoints, StagePoints,
        ReplacePoints, StalePoints, CreatePoints, DestroyPoints
  <1> USE DEF MutexPoints, SyncPoints, StagePoints, ReplacePoints,
      StalePoints, CreatePoints, DestroyPoints, sessionVars, callVars,
      flagVars, pumpVars, portVars, remoteVars, sampleVars, dataVars
  <1>1. ASSUME NEW u \in Users, UserCall(u) \/ UserStep(u) PROVE FlagInv'
    <2>1. CASE CreateCall(u)
      BY <1>a, <2>1 DEF CreateCall
    <2>2. CASE AccessCall(u)
      BY <1>a, <2>2 DEF AccessCall, Call
    <2>3. CASE ControlCall(u)
      BY <1>a, <2>3 DEF ControlCall, Call
    <2>4. CASE SyncCall(u)
      BY <1>a, <2>4 DEF SyncCall, Call
    <2>5. CASE DestroyCall(u)
      BY <1>0, <2>5 DEF FlagInv, Goto, DestroyCall
    <2>6. CASE AccessEnd(u)
      BY <1>a, <2>6 DEF AccessEnd, RequestEnd, OnlySession
    <2>7. CASE ControlLock(u)
      BY <1>a, <2>7 DEF ControlLock, OnlyMutex
    <2>8. CASE ControlFallback(u)
      BY <1>c, <2>8 DEF ControlFallback, OnlyMutex
    <2>9. CASE ControlRequest(u)
      <3>1. UserStep(u) /\ pc[u] \in MutexPoints
        BY <2>9 DEF UserStep, ControlRequest, Goto
      <3>2. Elsewhere(u)
        BY <1>b, <3>1, <2>9 DEF ControlRequest, RequestBegin, RequestRefused,
            Usable
      <3> QED BY <1>0, <2>9, <3>2 DEF FlagInv, Goto, ControlRequest,
          RequestBegin, RequestRefused, Usable
    <2>10. CASE ControlDone(u)
      BY <1>c, <2>10 DEF ControlDone, RequestEnd
    <2>11. CASE ControlFailed(u)
      <3>1. UserStep(u) /\ pc[u] \in MutexPoints
        BY <2>11 DEF UserStep, ControlFailed, Goto
      <3>2. Elsewhere(u)
        BY <1>b, <3>1, <2>11 DEF ControlFailed, RequestEnd
      <3> QED BY <1>0, <2>11, <3>2 DEF FlagInv, Goto, ControlFailed, RequestEnd
    <2>12. CASE StaleMark(u)
      <3>1. UserStep(u) /\ pc[u] \in MutexPoints
        BY <2>12 DEF UserStep, StaleMark, Goto
      <3>2. Elsewhere(u)
        BY <1>b, <3>1, <2>12 DEF StaleMark, CloseGate
      <3> QED BY <1>0, <2>12, <3>2 DEF FlagInv, Goto, StaleMark, CloseGate
    <2>13. CASE StaleGate(u)
      BY <1>c, <2>13 DEF StaleGate, SetGate, GateFree, OnlySession
    <2>14. CASE StalePause(u)
      BY <1>c, <2>14 DEF StalePause, PausePortPump
    <2>15. CASE StaleDiscard(u)
      BY <1>c, <2>15 DEF StaleDiscard, PumpIdle
    <2>16. CASE StaleEnd(u)
      <3>1. UserStep(u) /\ pc[u] \in MutexPoints
        BY <2>16 DEF UserStep, StaleEnd, Goto
      <3>2. Elsewhere(u)
        BY <1>b, <3>1, <2>16 DEF StaleEnd, ResumePortPump, ResumeAllowed
      <3> QED BY <1>0, <2>16, <3>2 DEF FlagInv, Goto, StaleEnd,
          ResumePortPump, ResumeAllowed
    <2>17. CASE CreateConnect(u)
      BY <1>a, <2>17 DEF CreateConnect, ConnectBegin, ConnectSucceeded,
          ConnectFailed, OnlySession
    <2>18. CASE SyncLock(u)
      BY <1>a, <2>18 DEF SyncLock, CloseGate
    <2>19. CASE SyncGate(u)
      BY <1>c, <2>19 DEF SyncGate, SetGate, GateFree, OnlySession
    <2>20. CASE SyncPause(u)
      BY <1>c, <2>20 DEF SyncPause, PausePortPump
    <2>21. CASE SyncEnter(u)
      <3>1. UserStep(u) /\ pc[u] \in MutexPoints
        BY <2>21 DEF UserStep, SyncEnter, Goto
      <3>2. Elsewhere(u)
        BY <1>b, <3>1, <2>21 DEF SyncEnter, PumpIdle
      <3> QED BY <1>0, <2>21, <3>2 DEF FlagInv, Goto, SyncEnter, PumpIdle
    <2>22. CASE SyncConnect(u)
      <3>1. UserStep(u) /\ pc[u] \in MutexPoints
        BY <2>22 DEF UserStep, SyncConnect, Goto
      <3>2. Elsewhere(u)
        BY <1>b, <3>1, <2>22 DEF SyncConnect, ConnectBegin, ConnectSucceeded,
            ConnectFailed
      <3> QED BY <1>0, <2>22, <3>2 DEF FlagInv, Goto, SyncConnect,
          ConnectBegin, ConnectSucceeded, ConnectFailed
    <2>23. CASE ReadDescription(u)
      BY <1>c, <2>23 DEF ReadDescription, Discovered, OnlySession
    <2>24. CASE DiscoverOperations(u)
      BY <1>c, <2>24 DEF DiscoverOperations, Discovered, OnlySession
    <2>25. CASE DiscoverValues(u)
      BY <1>c, <2>25 DEF DiscoverValues, Discovered, OnlySession
    <2>26. CASE DiscoverPorts(u)
      BY <1>c, <2>26 DEF DiscoverPorts, Discovered
    <2>27. CASE DiscoverServices(u)
      BY <1>c, <2>27 DEF DiscoverServices, Discovered, OnlySession
    <2>28. CASE StageFailed(u)
      <3>1. UserStep(u) /\ pc[u] \in MutexPoints /\ pc' = [pc EXCEPT ![u] = "staleMark"]
        BY <2>28 DEF UserStep, StageFailed, Goto
      <3> QED BY <1>d, <3>1, <2>28 DEF StageFailed
    <2>29. CASE SyncCheck(u)
      <3>1. UserStep(u) /\ pc[u] \in MutexPoints
        BY <2>29 DEF UserStep, SyncCheck, Goto
      <3>2. Elsewhere(u)
        BY <1>b, <3>1, <2>29 DEF SyncCheck, OnlySession
      <3>3. pc'[u] = "keep" => ready \/ stale
        <4> SUFFICES ASSUME pc'[u] = "keep", ~ready, ~stale PROVE FALSE
          OBVIOUS
        <4>1. ~CanReplacePortAdapters
          BY <1>0, <2>29 DEF SyncCheck, Goto
        <4>2. pending # Nothing
          BY <4>1 DEF CanReplacePortAdapters, Nothing
        <4>3. \A v \in Users : pc[v] \notin {"swap", "staleMark"}
          BY <3>1, <2>29, HolderAlone, <1>1 DEF SyncCheck, Goto
        <4>4. life # "destroyed"
          BY <3>1, HolderAlone, <1>1
        <4> QED BY <4>2, <4>3, <4>4 DEF SettledInv, Settled
      <3> QED BY <1>0, <2>29, <3>2, <3>3 DEF FlagInv, Goto, SyncCheck,
          OnlySession
    <2>30. CASE SyncKeep(u)
      BY <1>c, <2>30 DEF SyncKeep, ResumePortPump, ResumeAllowed, SetGate,
          GateFree, RestoreAccess
    <2>31. CASE SyncInstall(u)
      <3>1. UserStep(u) /\ pc[u] \in MutexPoints
        BY <2>31 DEF UserStep, SyncInstall, Goto
      <3>2. Elsewhere(u)
        BY <1>b, <3>1, <2>31 DEF SyncInstall
      <3> QED BY <1>0, <2>31, <3>2 DEF FlagInv, Goto, SyncInstall
    <2>32. CASE SyncInstallFailed(u)
      <3>1. UserStep(u) /\ pc[u] \in MutexPoints
        BY <2>32 DEF UserStep, SyncInstallFailed, Goto
      <3>2. Elsewhere(u)
        BY <1>b, <3>1, <2>32 DEF SyncInstallFailed
      <3> QED BY <1>0, <2>32, <3>2 DEF FlagInv, Goto, SyncInstallFailed
    <2>33. CASE SyncSwap(u)
      <3>1. UserStep(u) /\ pc[u] \in MutexPoints
        BY <2>33 DEF UserStep, SyncSwap, Goto
      <3>2. Elsewhere(u)
        BY <1>b, <3>1, <2>33 DEF SyncSwap
      <3> QED BY <1>0, <2>33, <3>2 DEF FlagInv, Goto, SyncSwap
    <2>34. CASE SyncFresh(u)
      BY <1>c, <2>34 DEF SyncFresh, SetGate, GateFree, OnlySession
    <2>35. CASE SyncResume(u)
      <3>1. UserStep(u) /\ pc[u] \in MutexPoints
        BY <2>35 DEF UserStep, SyncResume, Goto
      <3>2. Elsewhere(u)
        BY <1>b, <3>1, <2>35 DEF SyncResume
      <3> QED BY <1>0, <2>35, <3>2 DEF FlagInv, Goto, SyncResume
    <2>36. CASE DestroyGate(u)
      BY <1>c, <2>36 DEF DestroyGate, SetGate, GateFree, OnlySession
    <2>37. CASE DestroyStop(u)
      BY <1>c, <2>37 DEF DestroyStop
    <2>38. CASE DestroyClear(u)
      BY <1>c, <2>38 DEF DestroyClear
    <2>39. CASE AccessRequest(u)
      BY <1>a, <2>39 DEF AccessRequest, RequestBegin, RequestRefused, Usable,
          OnlySession
    <2> QED BY <1>1, <2>1, <2>2, <2>3, <2>4, <2>5, <2>6, <2>7, <2>8, <2>9,
        <2>10, <2>11, <2>12, <2>13, <2>14, <2>15, <2>16, <2>17, <2>18, <2>19,
        <2>20, <2>21, <2>22, <2>23, <2>24, <2>25, <2>26, <2>27, <2>28, <2>29,
        <2>30, <2>31, <2>32, <2>33, <2>34, <2>35, <2>36, <2>37,
        <2>38, <2>39 DEF UserCall, UserStep
  <1>2. CASE PumpStep
    BY <1>k, <1>2, PumpFrame DEF callVars, flagVars
  <1>3. CASE RemoteChange
    BY <1>k, <1>3 DEF RemoteChange
  <1>4. CASE UNCHANGED vars
    BY <1>k, <1>4 DEF vars
  <1> QED BY <1>1, <1>2, <1>3, <1>4 DEF Next, Over

-----------------------------------------------------------------------------
(* Stale and fresh interfaces                                              *)

\* A stale interface, and one that was never ready, is settled.
LEMMA SettledStep ==
  /\ TypeOK /\ LifeInv /\ MutexInv /\ GateInv /\ PauseInv /\ PumpInv /\ FlagInv
  /\ SettledInv /\ [Next]_vars
  => SettledInv'
  <1> SUFFICES ASSUME TypeOK, LifeInv, MutexInv, GateInv, PauseInv, PumpInv, FlagInv,
                      SettledInv, [Next]_vars
               PROVE  SettledInv'
    OBVIOUS
  <1>0. pc \in [Users -> Points]
    BY DEF TypeOK
  <1>k. ASSUME UNCHANGED <<pc, life, ready, stale, paused, pumping, pending>>,
               access' => access
        PROVE  SettledInv'
    BY <1>k DEF SettledInv, Settled
  <1> DEFINE Marking == {"staleGate", "stalePause", "staleDiscard"}
             Watched == Marking \cup {"resume", "swap", "staleMark", "connect", "connecting"}
  \* The thread is not at a point that matters, and does not settle less.
  <1>a. ASSUME NEW u \in Users, NEW from, NEW to, Goto(u, from, to), from \notin Watched,
               to \notin Watched, UNCHANGED <<ready, stale, pumping, pending>>,
               life = "destroyed" => life' = "destroyed",
               access' => access, paused' = paused \/ paused' = TRUE
        PROVE  SettledInv'
    BY <1>0, <1>a DEF SettledInv, Settled, Goto
  \* The thread stays among the points of marking.
  <1>b. ASSUME NEW u \in Users, NEW to, pc' = [pc EXCEPT ![u] = to], to \in Marking,
               stale', UNCHANGED <<pending>>,
               \A v \in Users : pc[v] \in {"connect", "connecting"} => v = u
        PROVE  SettledInv'
    BY <1>0, <1>b DEF SettledInv, Goto
  <1> USE DEF Marking, Watched, MutexPoints, SyncPoints, StagePoints,
      ReplacePoints, StalePoints, CreatePoints, DestroyPoints, sessionVars,
      callVars, flagVars, pumpVars, portVars, remoteVars, sampleVars, dataVars
  <1>1. ASSUME NEW u \in Users, UserCall(u) \/ UserStep(u) PROVE SettledInv'
    <2>1. CASE CreateCall(u)
      BY <1>a, UserFrame, <1>1, <2>1 DEF CreateCall
    <2>2. CASE AccessCall(u)
      BY <1>a, UserFrame, <1>1, <2>2 DEF AccessCall, Call
    <2>3. CASE ControlCall(u)
      BY <1>a, UserFrame, <1>1, <2>3 DEF ControlCall, Call
    <2>4. CASE SyncCall(u)
      BY <1>a, UserFrame, <1>1, <2>4 DEF SyncCall, Call
    <2>5. CASE DestroyCall(u)
      BY <1>0, UserFrame, <1>1, <2>5 DEF LifeInv, SettledInv, Settled, Goto,
          DestroyCall, CloseGate
    <2>6. CASE AccessEnd(u)
      BY <1>a, UserFrame, <1>1, <2>6 DEF AccessEnd, RequestEnd, OnlySession
    <2>7. CASE ControlLock(u)
      BY <1>a, UserFrame, <1>1, <2>7 DEF ControlLock, OnlyMutex
    <2>8. CASE ControlFallback(u)
      BY <1>a, UserFrame, <1>1, <2>8 DEF ControlFallback, OnlyMutex
    <2>9. CASE ControlRequest(u)
      <3>1. pc[u] \in MutexPoints
        BY <2>9 DEF ControlRequest, Goto, PausePortPump
      <3>2. /\ life # "constructed" /\ life # "destroyed"
            /\ \A v \in Users : v # u => pc'[v] = pc[v] /\ pc[v] \notin MutexPoints
        BY <1>1, <3>1, HolderAlone
      <3> QED BY <1>0, UserFrame, <1>1, <3>2, <2>9 DEF FlagInv, SettledInv,
          Settled, Goto, ControlRequest, RequestBegin, RequestRefused, Usable
    <2>10. CASE ControlDone(u)
      BY <1>a, UserFrame, <1>1, <2>10 DEF ControlDone, RequestEnd
    <2>11. CASE ControlFailed(u)
      <3>1. pc[u] \in MutexPoints
        BY <2>11 DEF ControlFailed, Goto, PausePortPump
      <3>2. /\ life # "constructed" /\ life # "destroyed"
            /\ \A v \in Users : v # u => pc'[v] = pc[v] /\ pc[v] \notin MutexPoints
        BY <1>1, <3>1, HolderAlone
      <3> QED BY <1>0, UserFrame, <1>1, <3>2, <2>11 DEF FlagInv, SettledInv,
          Settled, Goto, ControlFailed, RequestEnd
    <2>12. CASE StaleMark(u)
      <3>1. pc[u] \in MutexPoints
        BY <2>12 DEF StaleMark, Goto, PausePortPump
      <3>2. /\ life # "constructed" /\ life # "destroyed"
            /\ \A v \in Users : v # u => pc'[v] = pc[v] /\ pc[v] \notin MutexPoints
        BY <1>1, <3>1, HolderAlone
      <3> QED BY <1>0, <1>b, <3>2, <2>12 DEF FlagInv, Goto, StaleMark,
          CloseGate
    <2>13. CASE StaleGate(u)
      <3>1. pc[u] \in MutexPoints
        BY <2>13 DEF StaleGate, Goto, PausePortPump
      <3>2. /\ life # "constructed" /\ life # "destroyed"
            /\ \A v \in Users : v # u => pc'[v] = pc[v] /\ pc[v] \notin MutexPoints
        BY <1>1, <3>1, HolderAlone
      <3> QED BY <1>0, <1>b, <3>2, <2>13 DEF FlagInv, Goto, StaleGate,
          SetGate, GateFree, OnlySession
    <2>14. CASE StalePause(u)
      <3>1. pc[u] \in MutexPoints
        BY <2>14 DEF StalePause, Goto, PausePortPump
      <3>2. /\ life # "constructed" /\ life # "destroyed"
            /\ \A v \in Users : v # u => pc'[v] = pc[v] /\ pc[v] \notin MutexPoints
        BY <1>1, <3>1, HolderAlone
      <3> QED BY <1>0, <1>b, <3>2, <2>14 DEF FlagInv, Goto, StalePause,
          PausePortPump
    <2>15. CASE StaleDiscard(u)
      <3>1. pc[u] \in MutexPoints
        BY <2>15 DEF StaleDiscard, Goto, PausePortPump
      <3>2. /\ life # "constructed" /\ life # "destroyed"
            /\ \A v \in Users : v # u => pc'[v] = pc[v] /\ pc[v] \notin MutexPoints
        BY <1>1, <3>1, HolderAlone
      <3>3. paused /\ ~access
        BY <2>15 DEF StaleDiscard, Goto, PauseInv, GateInv, ClosedPoints
      <3> QED BY <1>0, UserFrame, <1>1, <3>2, <3>3, <2>15 DEF FlagInv,
          SettledInv, Settled, Goto, StaleDiscard, PumpIdle
    <2>16. CASE StaleEnd(u)
      <3>1. pc[u] \in MutexPoints
        BY <2>16 DEF StaleEnd, Goto, PausePortPump
      <3>2. /\ life # "constructed" /\ life # "destroyed"
            /\ \A v \in Users : v # u => pc'[v] = pc[v] /\ pc[v] \notin MutexPoints
        BY <1>1, <3>1, HolderAlone
      <3>3. stale /\ paused \in BOOLEAN
        BY <2>16 DEF FlagInv, Goto, StaleEnd, TypeOK
      <3>4. paused' = paused
        BY <3>3, <2>16 DEF StaleEnd, ResumePortPump, ResumeAllowed
      <3> QED BY <1>0, UserFrame, <1>1, <3>2, <3>3, <3>4,
          <2>16 DEF SettledInv, Settled, Goto, StaleEnd
    <2>17. CASE CreateConnect(u)
      BY <1>a, UserFrame, <1>1, <2>17 DEF CreateConnect, ConnectBegin,
          ConnectSucceeded, ConnectFailed, OnlySession
    <2>18. CASE SyncLock(u)
      BY <1>a, UserFrame, <1>1, <2>18 DEF SyncLock, CloseGate
    <2>19. CASE SyncGate(u)
      BY <1>a, UserFrame, <1>1, <2>19 DEF SyncGate, SetGate, GateFree,
          OnlySession
    <2>20. CASE SyncPause(u)
      BY <1>a, UserFrame, <1>1, <2>20 DEF SyncPause, PausePortPump
    <2>21. CASE SyncEnter(u)
      <3>1. pc[u] \in MutexPoints
        BY <2>21 DEF SyncEnter, Goto, PausePortPump
      <3>2. /\ life # "constructed" /\ life # "destroyed"
            /\ \A v \in Users : v # u => pc'[v] = pc[v] /\ pc[v] \notin MutexPoints
        BY <1>1, <3>1, HolderAlone
      <3> QED BY <1>0, UserFrame, <1>1, <3>2, <2>21 DEF FlagInv, SettledInv,
          Settled, Goto, SyncEnter, PumpIdle
    <2>22. CASE SyncConnect(u)
      <3>1. pc[u] \in MutexPoints
        BY <2>22 DEF SyncConnect, Goto, PausePortPump
      <3>2. /\ life # "constructed" /\ life # "destroyed"
            /\ \A v \in Users : v # u => pc'[v] = pc[v] /\ pc[v] \notin MutexPoints
        BY <1>1, <3>1, HolderAlone
      <3> QED BY <1>0, UserFrame, <1>1, <3>2, <2>22 DEF FlagInv, SettledInv,
          Settled, Goto, SyncConnect, ConnectBegin, ConnectSucceeded,
          ConnectFailed
    <2>23. CASE ReadDescription(u)
      BY <1>a, UserFrame, <1>1, <2>23 DEF ReadDescription, Discovered,
          OnlySession
    <2>24. CASE DiscoverOperations(u)
      BY <1>a, UserFrame, <1>1, <2>24 DEF DiscoverOperations, Discovered,
          OnlySession
    <2>25. CASE DiscoverValues(u)
      BY <1>a, UserFrame, <1>1, <2>25 DEF DiscoverValues, Discovered,
          OnlySession
    <2>26. CASE DiscoverPorts(u)
      BY <1>a, UserFrame, <1>1, <2>26 DEF DiscoverPorts, Discovered
    <2>27. CASE DiscoverServices(u)
      BY <1>a, UserFrame, <1>1, <2>27 DEF DiscoverServices, Discovered,
          OnlySession
    <2>28. CASE StageFailed(u)
      <3>1. pc[u] \in MutexPoints
        BY <2>28 DEF StageFailed, Goto, PausePortPump
      <3>2. /\ life # "constructed" /\ life # "destroyed"
            /\ \A v \in Users : v # u => pc'[v] = pc[v] /\ pc[v] \notin MutexPoints
        BY <1>1, <3>1, HolderAlone
      <3> QED BY <1>0, UserFrame, <1>1, <3>2, <2>28 DEF FlagInv, SettledInv,
          Settled, Goto, StageFailed, DiscoveryFailed, StagePoints
    <2>29. CASE SyncCheck(u)
      BY <1>a, UserFrame, <1>1, <2>29 DEF SyncCheck, OnlySession
    <2>30. CASE SyncKeep(u)
      <3>1. pc[u] \in MutexPoints
        BY <2>30 DEF SyncKeep, Goto, PausePortPump
      <3>2. /\ life # "constructed" /\ life # "destroyed"
            /\ \A v \in Users : v # u => pc'[v] = pc[v] /\ pc[v] \notin MutexPoints
        BY <1>1, <3>1, HolderAlone
      <3> QED BY <1>0, UserFrame, <1>1, <3>2, <2>30 DEF FlagInv, SettledInv,
          Settled, Goto, SyncKeep, ResumePortPump, ResumeAllowed, SetGate,
          GateFree, RestoreAccess
    <2>31. CASE SyncInstall(u)
      <3>1. pc[u] \in MutexPoints
        BY <2>31 DEF SyncInstall, Goto, PausePortPump
      <3>2. /\ life # "constructed" /\ life # "destroyed"
            /\ \A v \in Users : v # u => pc'[v] = pc[v] /\ pc[v] \notin MutexPoints
        BY <1>1, <3>1, HolderAlone
      <3> QED BY <1>0, UserFrame, <1>1, <3>2, <2>31 DEF FlagInv, SettledInv,
          Settled, Goto, SyncInstall
    <2>32. CASE SyncInstallFailed(u)
      <3>1. pc[u] \in MutexPoints
        BY <2>32 DEF SyncInstallFailed, Goto, PausePortPump
      <3>2. /\ life # "constructed" /\ life # "destroyed"
            /\ \A v \in Users : v # u => pc'[v] = pc[v] /\ pc[v] \notin MutexPoints
        BY <1>1, <3>1, HolderAlone
      <3> QED BY <1>0, UserFrame, <1>1, <3>2, <2>32 DEF FlagInv, SettledInv,
          Settled, Goto, SyncInstallFailed
    <2>33. CASE SyncSwap(u)
      <3>1. pc[u] \in MutexPoints
        BY <2>33 DEF SyncSwap, Goto, PausePortPump
      <3>2. /\ life # "constructed" /\ life # "destroyed"
            /\ \A v \in Users : v # u => pc'[v] = pc[v] /\ pc[v] \notin MutexPoints
        BY <1>1, <3>1, HolderAlone
      <3>3. pending = Nothing => pending' = Nothing
        BY <2>33 DEF SyncSwap, Nothing
      <3> QED BY <1>0, UserFrame, <1>1, <3>2, <3>3, <2>33 DEF SettledInv,
          Settled, Goto, SyncSwap
    <2>34. CASE SyncFresh(u)
      <3>1. pc[u] \in MutexPoints
        BY <2>34 DEF SyncFresh, Goto, PausePortPump
      <3>2. /\ life # "constructed" /\ life # "destroyed"
            /\ \A v \in Users : v # u => pc'[v] = pc[v] /\ pc[v] \notin MutexPoints
        BY <1>1, <3>1, HolderAlone
      <3> QED BY <1>0, UserFrame, <1>1, <3>2, <2>34 DEF FlagInv, SettledInv,
          Settled, Goto, SyncFresh, SetGate, GateFree, OnlySession
    <2>35. CASE SyncResume(u)
      <3>1. pc[u] \in MutexPoints
        BY <2>35 DEF SyncResume, Goto, PausePortPump
      <3>2. /\ life # "constructed" /\ life # "destroyed"
            /\ \A v \in Users : v # u => pc'[v] = pc[v] /\ pc[v] \notin MutexPoints
        BY <1>1, <3>1, HolderAlone
      <3> QED BY <1>0, UserFrame, <1>1, <3>2, <2>35 DEF FlagInv, SettledInv,
          Settled, Goto, SyncResume
    <2>36. CASE DestroyGate(u)
      BY <1>a, UserFrame, <1>1, <2>36 DEF DestroyGate, SetGate, GateFree,
          OnlySession
    <2>37. CASE DestroyStop(u)
      BY <1>a, UserFrame, <1>1, <2>37 DEF DestroyStop
    <2>38. CASE DestroyClear(u)
      BY <1>0, UserFrame, <1>1, <2>38 DEF LifeInv, SettledInv, Settled, Goto,
          DestroyClear
    <2>39. CASE AccessRequest(u)
      BY <1>1, UserFrame, <1>a, <2>39 DEF AccessRequest, RequestBegin,
          RequestRefused, Usable, OnlySession
    <2> QED BY <1>1, <2>1, <2>2, <2>3, <2>4, <2>5, <2>6, <2>7, <2>8, <2>9,
        <2>10, <2>11, <2>12, <2>13, <2>14, <2>15, <2>16, <2>17, <2>18, <2>19,
        <2>20, <2>21, <2>22, <2>23, <2>24, <2>25, <2>26, <2>27, <2>28, <2>29,
        <2>30, <2>31, <2>32, <2>33, <2>34, <2>35, <2>36, <2>37,
        <2>38, <2>39 DEF UserCall, UserStep
  <1>2. CASE PumpStep
    <2>1. UNCHANGED <<pc, life, ready, stale, paused>>
      BY <1>2, PumpFrame DEF callVars, flagVars
    <2>2. access' => access
      <3>1. CASE PumpBegin
        BY <3>1 DEF PumpBegin
      <3>2. CASE PumpSend
        BY <3>2 DEF PumpSend, RequestBegin, RequestRefused, Usable
      <3>3. CASE PumpEnd
        BY <3>3 DEF PumpEnd
      <3>4. CASE PumpExit
        BY <3>4 DEF PumpExit
      <3>5. ASSUME NEW p \in Ports, PumpTake(p) PROVE access' => access
        BY <3>5 DEF PumpTake, Visit
      <3>6. ASSUME NEW p \in Ports, PumpRetry(p) PROVE access' => access
        BY <3>6 DEF PumpRetry, Visit
      <3>7. ASSUME NEW p \in Ports, PumpDeliver(p) PROVE access' => access
        BY <3>7 DEF PumpDeliver, Visit
      <3>8. ASSUME NEW p \in Ports, PumpRead(p) PROVE access' => access
        BY <3>8 DEF PumpRead, Visit
      <3>9. ASSUME NEW p \in Ports, PumpSkip(p) PROVE access' => access
        BY <3>9 DEF PumpSkip, Visit
      <3>10. ASSUME NEW p \in Ports, PumpReplyInput(p) PROVE access' => access
        BY <3>10 DEF PumpReplyInput, RequestEnd
      <3>11. ASSUME NEW p \in Ports, PumpReplyOutput(p) PROVE access' => access
        BY <3>11 DEF PumpReplyOutput, RequestEnd
      <3> QED BY <1>2, <3>1, <3>2, <3>3, <3>4, <3>5, <3>6, <3>7, <3>8, <3>9,
          <3>10, <3>11 DEF PumpStep
    <2>3. ~paused \/ pumping \/ UNCHANGED <<pumping, pending>>
      <3>1. CASE PumpBegin
        BY <3>1 DEF PumpInv, PumpBegin
      <3>2. CASE PumpSend
        BY <3>2 DEF PumpInv, PumpSend, RequestBegin, RequestRefused, Usable
      <3>3. CASE PumpEnd
        BY <3>3 DEF PumpInv, PumpEnd
      <3>4. CASE PumpExit
        BY <3>4 DEF PumpInv, PumpExit
      <3>5. ASSUME NEW p \in Ports, PumpTake(p) PROVE pumping
        BY <3>5 DEF PumpInv, PumpTake, Visit
      <3>6. ASSUME NEW p \in Ports, PumpRetry(p) PROVE pumping
        BY <3>6 DEF PumpInv, PumpRetry, Visit
      <3>7. ASSUME NEW p \in Ports, PumpDeliver(p) PROVE pumping
        BY <3>7 DEF PumpInv, PumpDeliver, Visit
      <3>8. ASSUME NEW p \in Ports, PumpRead(p) PROVE pumping
        BY <3>8 DEF PumpInv, PumpRead, Visit
      <3>9. ASSUME NEW p \in Ports, PumpSkip(p) PROVE pumping
        BY <3>9 DEF PumpInv, PumpSkip, Visit
      <3>10. ASSUME NEW p \in Ports, PumpReplyInput(p) PROVE pumping
        BY <3>10 DEF PumpInv, PumpReplyInput, RequestEnd
      <3>11. ASSUME NEW p \in Ports, PumpReplyOutput(p) PROVE pumping
        BY <3>11 DEF PumpInv, PumpReplyOutput, RequestEnd
      <3> QED BY <1>2, <3>1, <3>2, <3>3, <3>4, <3>5, <3>6, <3>7, <3>8, <3>9,
          <3>10, <3>11 DEF PumpStep
    <2>4. CASE UNCHANGED <<pumping, pending>>
      BY <1>k, <2>1, <2>2, <2>4
    <2>5. CASE ~paused \/ pumping
      <3>1. ~Settled
        BY <2>5 DEF Settled
      <3>2. \A v \in Users : pc[v] \notin {"connect", "connecting"}
        BY <2>5 DEF PauseInv, QuietPoints, PumpQuietDuringReplacement
      <3> QED BY <2>1, <2>2, <3>1, <3>2 DEF SettledInv
    <2> QED BY <2>3, <2>4, <2>5
  <1>3. CASE RemoteChange
    BY <1>k, <1>3 DEF RemoteChange
  <1>4. CASE UNCHANGED vars
    BY <1>k, <1>4 DEF vars
  <1> QED BY <1>1, <1>2, <1>3, <1>4 DEF Next, Over

\* A fresh interface is open and pumped between calls.
LEMMA FreshStep ==
  /\ TypeOK /\ LifeInv /\ MutexInv /\ GateInv /\ FlagInv /\ FreshInv
  /\ [Next]_vars
  => FreshInv'
  <1> SUFFICES ASSUME TypeOK, LifeInv, MutexInv, GateInv, FlagInv, FreshInv,
                      [Next]_vars
               PROVE  FreshInv'
    OBVIOUS
  <1>0. pc \in [Users -> Points]
    BY DEF TypeOK
  <1>k. ASSUME UNCHANGED <<pc, life, ready, stale, paused>>,
               sess' # "connected" \/ UNCHANGED <<sess, access>>
        PROVE  FreshInv'
    BY <1>k DEF FreshInv
  <1>a. ASSUME NEW u \in Users, NEW from, NEW to, Goto(u, from, to),
               from \notin SyncPoints \cup StalePoints,
               UNCHANGED <<life, ready, stale, paused>>,
               sess' # "connected" \/ UNCHANGED <<sess, access>>
        PROVE  FreshInv'
    BY <1>0, <1>a DEF FreshInv, Goto
  <1>b. ASSUME NEW u \in Users, NEW from, NEW to, Goto(u, from, to),
               to \in SyncPoints \cup StalePoints
        PROVE  FreshInv'
    BY <1>0, <1>b DEF FreshInv, Goto
  <1>c. ASSUME life' # "created" \/ stale' \/ ~ready'
        PROVE  FreshInv'
    BY <1>c DEF FreshInv
  <1> USE DEF SyncPoints, StagePoints, ReplacePoints, StalePoints,
      CreatePoints, DestroyPoints, sessionVars, callVars, flagVars, pumpVars,
      portVars, remoteVars, sampleVars, dataVars
  <1>1. ASSUME NEW u \in Users, UserCall(u) \/ UserStep(u) PROVE FreshInv'
    <2>1. CASE CreateCall(u)
      BY <1>c, <2>1 DEF CreateCall
    <2>2. CASE AccessCall(u)
      BY <1>a, <1>b, <2>2 DEF AccessCall, Call
    <2>3. CASE ControlCall(u)
      BY <1>a, <1>b, <2>3 DEF ControlCall, Call
    <2>4. CASE SyncCall(u)
      BY <1>a, <1>b, <2>4 DEF SyncCall, Call
    <2>5. CASE DestroyCall(u)
      BY <1>c, <2>5 DEF DestroyCall
    <2>6. CASE AccessEnd(u)
      BY <1>a, <1>b, <2>6 DEF AccessEnd, RequestEnd, OnlySession, Invalidates
    <2>7. CASE ControlLock(u)
      BY <1>a, <1>b, <2>7 DEF ControlLock, OnlyMutex
    <2>8. CASE ControlFallback(u)
      BY <1>a, <1>b, <2>8 DEF ControlFallback, OnlyMutex
    <2>9. CASE ControlRequest(u)
      BY <1>a, <1>b, <2>9 DEF ControlRequest, RequestBegin, RequestRefused,
          Usable
    <2>10. CASE ControlDone(u)
      BY <1>a, <1>b, <2>10 DEF ControlDone, RequestEnd, Invalidates
    <2>11. CASE ControlFailed(u)
      BY <1>b, <2>11 DEF ControlFailed, RequestEnd
    <2>12. CASE StaleMark(u)
      BY <1>b, <2>12 DEF StaleMark, CloseGate
    <2>13. CASE StaleGate(u)
      BY <1>b, <2>13 DEF StaleGate, SetGate, GateFree, OnlySession
    <2>14. CASE StalePause(u)
      BY <1>b, <2>14 DEF StalePause, PausePortPump
    <2>15. CASE StaleDiscard(u)
      BY <1>b, <2>15 DEF StaleDiscard, PumpIdle
    <2>16. CASE StaleEnd(u)
      BY <1>b, <1>c, <2>16 DEF FlagInv, Goto, StaleEnd, ResumePortPump,
          ResumeAllowed
    <2>17. CASE CreateConnect(u)
      BY <1>c, <2>17 DEF LifeInv, Goto, CreateConnect, ConnectBegin,
          ConnectSucceeded, ConnectFailed, OnlySession
    <2>18. CASE SyncLock(u)
      BY <1>b, <2>18 DEF SyncLock, CloseGate
    <2>19. CASE SyncGate(u)
      BY <1>b, <2>19 DEF SyncGate, SetGate, GateFree, OnlySession
    <2>20. CASE SyncPause(u)
      BY <1>b, <2>20 DEF SyncPause, PausePortPump
    <2>21. CASE SyncEnter(u)
      BY <1>b, <2>21 DEF SyncEnter, PumpIdle
    <2>22. CASE SyncConnect(u)
      BY <1>a, <1>b, <2>22 DEF SyncConnect, ConnectBegin, ConnectSucceeded,
          ConnectFailed
    <2>23. CASE ReadDescription(u)
      BY <1>b, <2>23 DEF ReadDescription, Discovered, OnlySession
    <2>24. CASE DiscoverOperations(u)
      BY <1>b, <2>24 DEF DiscoverOperations, Discovered, OnlySession
    <2>25. CASE DiscoverValues(u)
      BY <1>b, <2>25 DEF DiscoverValues, Discovered, OnlySession
    <2>26. CASE DiscoverPorts(u)
      BY <1>b, <2>26 DEF DiscoverPorts, Discovered
    <2>27. CASE DiscoverServices(u)
      BY <1>b, <2>27 DEF DiscoverServices, Discovered, OnlySession
    <2>28. CASE StageFailed(u)
      BY <1>b, <2>28 DEF StageFailed, DiscoveryFailed, StagePoints
    <2>29. CASE SyncCheck(u)
      BY <1>b, <2>29 DEF SyncCheck, OnlySession
    <2>30. CASE SyncKeep(u)
      <3> SUFFICES ASSUME ready, ~stale, sess = "connected" PROVE access' /\ ~paused'
        BY <2>30 DEF FreshInv, SyncKeep, ResumePortPump, ResumeAllowed,
            SetGate, GateFree, RestoreAccess
      <3>1. restore
        BY <2>30 DEF SyncKeep, Goto, FlagInv
      <3> QED BY <2>30, <3>1 DEF SyncKeep, ResumePortPump, ResumeAllowed,
          SetGate, GateFree, RestoreAccess
    <2>31. CASE SyncInstall(u)
      BY <1>b, <2>31 DEF SyncInstall
    <2>32. CASE SyncInstallFailed(u)
      BY <1>b, <2>32 DEF SyncInstallFailed
    <2>33. CASE SyncSwap(u)
      BY <1>b, <2>33 DEF SyncSwap
    <2>34. CASE SyncFresh(u)
      BY <1>b, <2>34 DEF SyncFresh, SetGate, GateFree, OnlySession
    <2>35. CASE SyncResume(u)
      BY <2>35 DEF SyncResume, Goto, GateInv, FreshInv
    <2>36. CASE DestroyGate(u)
      BY <1>c, <2>36 DEF LifeInv, Goto, DestroyGate, SetGate, GateFree,
          OnlySession
    <2>37. CASE DestroyStop(u)
      BY <1>c, <2>37 DEF LifeInv, Goto, DestroyStop
    <2>38. CASE DestroyClear(u)
      BY <1>c, <2>38 DEF LifeInv, Goto, DestroyClear
    <2>39. CASE AccessRequest(u)
      BY <1>a, <1>b, <2>39 DEF AccessRequest, RequestBegin, RequestRefused,
          Usable, OnlySession
    <2> QED BY <1>1, <2>1, <2>2, <2>3, <2>4, <2>5, <2>6, <2>7, <2>8, <2>9,
        <2>10, <2>11, <2>12, <2>13, <2>14, <2>15, <2>16, <2>17, <2>18, <2>19,
        <2>20, <2>21, <2>22, <2>23, <2>24, <2>25, <2>26, <2>27, <2>28, <2>29,
        <2>30, <2>31, <2>32, <2>33, <2>34, <2>35, <2>36, <2>37,
        <2>38, <2>39 DEF UserCall, UserStep
  <1>2. CASE PumpStep
    <2>1. CASE PumpBegin
      BY <1>k, PumpFrame, <1>2, <2>1 DEF PumpBegin
    <2>2. CASE PumpSend
      BY <1>k, PumpFrame, <1>2, <2>2 DEF PumpSend, RequestBegin,
          RequestRefused, Usable
    <2>3. CASE PumpEnd
      BY <1>k, PumpFrame, <1>2, <2>3 DEF PumpEnd
    <2>4. CASE PumpExit
      BY <1>k, PumpFrame, <1>2, <2>4 DEF PumpExit
    <2>5. ASSUME NEW p \in Ports, PumpTake(p) PROVE FreshInv'
      BY <1>k, PumpFrame, <1>2, <2>5 DEF PumpTake, Visit
    <2>6. ASSUME NEW p \in Ports, PumpRetry(p) PROVE FreshInv'
      BY <1>k, PumpFrame, <1>2, <2>6 DEF PumpRetry, Visit
    <2>7. ASSUME NEW p \in Ports, PumpDeliver(p) PROVE FreshInv'
      BY <1>k, PumpFrame, <1>2, <2>7 DEF PumpDeliver, Visit
    <2>8. ASSUME NEW p \in Ports, PumpRead(p) PROVE FreshInv'
      BY <1>k, PumpFrame, <1>2, <2>8 DEF PumpRead, Visit
    <2>9. ASSUME NEW p \in Ports, PumpSkip(p) PROVE FreshInv'
      BY <1>k, PumpFrame, <1>2, <2>9 DEF PumpSkip, Visit
    <2>10. ASSUME NEW p \in Ports, PumpReplyInput(p) PROVE FreshInv'
      BY <1>k, PumpFrame, <1>2, <2>10 DEF PumpReplyInput, RequestEnd,
          Invalidates
    <2>11. ASSUME NEW p \in Ports, PumpReplyOutput(p) PROVE FreshInv'
      BY <1>k, PumpFrame, <1>2, <2>11 DEF PumpReplyOutput, RequestEnd,
          Invalidates
    <2> QED BY <1>2, <2>1, <2>2, <2>3, <2>4, <2>5, <2>6, <2>7, <2>8, <2>9,
        <2>10, <2>11 DEF PumpStep
  <1>3. CASE RemoteChange
    BY <1>k, <1>3 DEF RemoteChange
  <1>4. CASE UNCHANGED vars
    BY <1>k, <1>4 DEF vars
  <1> QED BY <1>1, <1>2, <1>3, <1>4 DEF Next, Over

-----------------------------------------------------------------------------
(* Owners and samples                                                      *)

\* A step of the pump that changes what is pending is one of a pass.
LEMMA PumpPending ==
  ASSUME PumpInv, PumpStep
  PROVE  pumping \/ UNCHANGED pending
  <1>1. CASE PumpBegin
    BY <1>1 DEF PumpInv, PumpBegin
  <1>2. CASE PumpSend
    BY <1>2 DEF PumpInv, PumpSend, RequestBegin, RequestRefused, Usable
  <1>3. CASE PumpEnd
    BY <1>3 DEF PumpInv, PumpEnd
  <1>4. CASE PumpExit
    BY <1>4 DEF PumpInv, PumpExit
  <1>5. ASSUME NEW p \in Ports, PumpTake(p) PROVE pumping
    BY <1>5 DEF PumpInv, PumpTake, Visit
  <1>6. ASSUME NEW p \in Ports, PumpRetry(p) PROVE pumping
    BY <1>6 DEF PumpInv, PumpRetry, Visit
  <1>7. ASSUME NEW p \in Ports, PumpDeliver(p) PROVE pumping
    BY <1>7 DEF PumpInv, PumpDeliver, Visit
  <1>8. ASSUME NEW p \in Ports, PumpRead(p) PROVE pumping
    BY <1>8 DEF PumpInv, PumpRead, Visit
  <1>9. ASSUME NEW p \in Ports, PumpSkip(p) PROVE pumping
    BY <1>9 DEF PumpInv, PumpSkip, Visit
  <1>10. ASSUME NEW p \in Ports, PumpReplyInput(p) PROVE pumping
    BY <1>10 DEF PumpInv, PumpReplyInput, RequestEnd
  <1>11. ASSUME NEW p \in Ports, PumpReplyOutput(p) PROVE pumping
    BY <1>11 DEF PumpInv, PumpReplyOutput, RequestEnd
  <1> QED BY <1>1, <1>2, <1>3, <1>4, <1>5, <1>6, <1>7, <1>8, <1>9, <1>10,
      <1>11 DEF PumpStep

\* Every registered port has an adapter that is kept.
LEMMA OwnerStep ==
  /\ TypeOK /\ LifeInv /\ MutexInv /\ PauseInv /\ PumpInv /\ OwnerInv /\ [Next]_vars
  => OwnerInv'
  <1> SUFFICES ASSUME TypeOK, LifeInv, MutexInv, PauseInv, PumpInv, OwnerInv, [Next]_vars
               PROVE  OwnerInv'
    OBVIOUS
  <1>0. pc \in [Users -> Points]
    BY DEF TypeOK
  <1>k. ASSUME UNCHANGED <<pc, life, syncs, adapters, staged, registered, quarantined>>,
               UNCHANGED pending \/ \A u \in Users : pc[u] \notin {"install", "swap"}
        PROVE  OwnerInv'
    BY <1>k DEF OwnerInv, CanReplacePortAdapters
  <1> DEFINE Staging == {"services"} \cup ReplacePoints
  <1>a. ASSUME NEW u \in Users, NEW from, NEW to, Goto(u, from, to),
               UNCHANGED <<adapters, staged, registered, quarantined, pending>>,
               life = "destroyed" => life' = "destroyed",
               from \in Staging => to \in Staging,
               to \notin {"install", "swap"}, from # "swap",
               UNCHANGED syncs \/ \A v \in Users : pc[v] # "swap"
        PROVE  OwnerInv'
    BY <1>0, <1>a DEF OwnerInv, CanReplacePortAdapters, Goto
  <1>b. ASSUME NEW u \in Users, UserStep(u), pc[u] \in MutexPoints
        PROVE  \A v \in Users : v # u => pc'[v] = pc[v] /\ pc[v] \notin MutexPoints
    BY <1>b, HolderAlone
  <1> USE DEF MutexPoints, SyncPoints, StagePoints, ReplacePoints,
      StalePoints, CreatePoints, DestroyPoints, sessionVars, callVars,
      flagVars, pumpVars, portVars, remoteVars, sampleVars, dataVars
  <1>1. ASSUME NEW u \in Users, UserCall(u) \/ UserStep(u) PROVE OwnerInv'
    <2>1. CASE CreateCall(u)
      BY <1>a, <2>1 DEF CreateCall
    <2>2. CASE AccessCall(u)
      BY <1>a, <2>2 DEF AccessCall, Call
    <2>3. CASE ControlCall(u)
      BY <1>a, <2>3 DEF ControlCall, Call
    <2>4. CASE SyncCall(u)
      BY <1>a, <2>4 DEF SyncCall, Call
    <2>5. CASE DestroyCall(u)
      BY <1>a, <2>5 DEF DestroyCall, CloseGate
    <2>6. CASE AccessEnd(u)
      BY <1>a, <2>6 DEF AccessEnd, RequestEnd, OnlySession
    <2>7. CASE ControlLock(u)
      BY <1>a, <2>7 DEF ControlLock, OnlyMutex
    <2>8. CASE ControlFallback(u)
      BY <1>a, <2>8 DEF ControlFallback, OnlyMutex
    <2>9. CASE ControlRequest(u)
      BY <1>a, <2>9 DEF ControlRequest, RequestBegin, RequestRefused, Usable
    <2>10. CASE ControlDone(u)
      BY <1>a, <2>10 DEF ControlDone, RequestEnd
    <2>11. CASE ControlFailed(u)
      BY <1>a, <2>11 DEF ControlFailed, RequestEnd
    <2>12. CASE StaleMark(u)
      BY <1>a, <2>12 DEF StaleMark, CloseGate
    <2>13. CASE StaleGate(u)
      BY <1>a, <2>13 DEF StaleGate, SetGate, GateFree, OnlySession
    <2>14. CASE StalePause(u)
      BY <1>a, <2>14 DEF StalePause, PausePortPump
    <2>15. CASE StaleDiscard(u)
      <3>1. UserStep(u) /\ pc[u] \in MutexPoints
        BY <2>15 DEF UserStep, StaleDiscard, Goto
      <3>2. \A v \in Users : v # u => pc'[v] = pc[v] /\ pc[v] \notin MutexPoints
        BY <1>b, <3>1
      <3> QED BY <1>0, <3>2, <2>15 DEF OwnerInv, CanReplacePortAdapters, Goto,
          StaleDiscard, PumpIdle
    <2>16. CASE StaleEnd(u)
      BY <1>a, <2>16 DEF StaleEnd, ResumePortPump, ResumeAllowed
    <2>17. CASE CreateConnect(u)
      BY <1>a, <2>17 DEF CreateConnect, ConnectBegin, ConnectSucceeded,
          ConnectFailed, OnlySession
    <2>18. CASE SyncLock(u)
      <3>1. \A v \in Users : pc[v] # "swap"
        BY <2>18 DEF SyncLock, MutexInv
      <3> QED BY <1>a, <3>1, <2>18 DEF SyncLock
    <2>19. CASE SyncGate(u)
      BY <1>a, <2>19 DEF SyncGate, SetGate, GateFree, OnlySession
    <2>20. CASE SyncPause(u)
      BY <1>a, <2>20 DEF SyncPause, PausePortPump
    <2>21. CASE SyncEnter(u)
      BY <1>a, <2>21 DEF SyncEnter, PumpIdle
    <2>22. CASE SyncConnect(u)
      BY <1>a, <2>22 DEF SyncConnect, ConnectBegin, ConnectSucceeded,
          ConnectFailed
    <2>23. CASE ReadDescription(u)
      BY <1>a, <2>23 DEF ReadDescription, Discovered, OnlySession
    <2>24. CASE DiscoverOperations(u)
      BY <1>a, <2>24 DEF DiscoverOperations, Discovered, OnlySession
    <2>25. CASE DiscoverValues(u)
      BY <1>a, <2>25 DEF DiscoverValues, Discovered, OnlySession
    <2>26. CASE DiscoverPorts(u)
      <3>1. UserStep(u) /\ pc[u] \in MutexPoints
        BY <2>26 DEF UserStep, DiscoverPorts, Goto
      <3>2. \A v \in Users : v # u => pc'[v] = pc[v] /\ pc[v] \notin MutexPoints
        BY <1>b, <3>1
      <3> QED BY <1>0, <3>2, <2>26 DEF OwnerInv, CanReplacePortAdapters, Goto,
          DiscoverPorts, Discovered
    <2>27. CASE DiscoverServices(u)
      BY <1>a, <2>27 DEF DiscoverServices, Discovered, OnlySession
    <2>28. CASE StageFailed(u)
      <3>1. UserStep(u) /\ pc[u] \in MutexPoints
        BY <2>28 DEF UserStep, StageFailed, Goto
      <3>2. \A v \in Users : v # u => pc'[v] = pc[v] /\ pc[v] \notin MutexPoints
        BY <1>b, <3>1
      <3> QED BY <1>0, <3>2, <2>28 DEF OwnerInv, CanReplacePortAdapters, Goto,
          StageFailed, DiscoveryFailed, StagePoints
    <2>29. CASE SyncCheck(u)
      <3>1. UserStep(u) /\ pc[u] \in MutexPoints
        BY <2>29 DEF UserStep, SyncCheck, Goto
      <3>2. \A v \in Users : v # u => pc'[v] = pc[v] /\ pc[v] \notin MutexPoints
        BY <1>b, <3>1
      <3> QED BY <1>0, <3>2, <2>29 DEF OwnerInv, CanReplacePortAdapters, Goto,
          SyncCheck, OnlySession
    <2>30. CASE SyncKeep(u)
      <3>1. UserStep(u) /\ pc[u] \in MutexPoints
        BY <2>30 DEF UserStep, SyncKeep, Goto
      <3>2. \A v \in Users : v # u => pc'[v] = pc[v] /\ pc[v] \notin MutexPoints
        BY <1>b, <3>1
      <3> QED BY <1>0, <3>2, <2>30 DEF OwnerInv, CanReplacePortAdapters, Goto,
          SyncKeep, ResumePortPump, ResumeAllowed, SetGate, GateFree,
          RestoreAccess
    <2>31. CASE SyncInstall(u)
      <3>1. UserStep(u) /\ pc[u] \in MutexPoints
        BY <2>31 DEF UserStep, SyncInstall, Goto
      <3>2. \A v \in Users : v # u => pc'[v] = pc[v] /\ pc[v] \notin MutexPoints
        BY <1>b, <3>1
      <3>3. \A p \in Ports : registered'[p] = IF p \in staged' THEN syncs' ELSE 0
        BY <2>31 DEF SyncInstall
      <3>4. CanReplacePortAdapters'
        BY <2>31 DEF SyncInstall, Goto, OwnerInv, CanReplacePortAdapters
      <3>5. pc'[u] = "swap"
        BY <1>0, <2>31 DEF SyncInstall, Goto
      <3> QED BY <3>2, <3>3, <3>4, <3>5, <2>31 DEF OwnerInv
    <2>32. CASE SyncInstallFailed(u)
      <3>1. UserStep(u) /\ pc[u] \in MutexPoints
        BY <2>32 DEF UserStep, SyncInstallFailed, Goto
      <3>2. \A v \in Users : v # u => pc'[v] = pc[v] /\ pc[v] \notin MutexPoints
        BY <1>b, <3>1
      <3>3. \A v \in Users : pc'[v] \notin Staging
        BY <1>0, <3>2, <2>32 DEF SyncInstallFailed, Goto
      <3>4. \A v \in Users : pc[v] # "swap"
        BY <1>0, <3>2, <2>32 DEF SyncInstallFailed, Goto
      <3>5. life' = life /\ adapters' = adapters /\ staged' = {}
        BY <2>32 DEF SyncInstallFailed
      <3>6. ASSUME life # "destroyed", NEW p \in Ports, registered'[p] # 0
            PROVE  adapters[p] = registered'[p] \/ <<p, registered'[p]>> \in quarantined'
        <4>1. PICK old \in BOOLEAN, left \in SUBSET Ports :
                LET kept == IF old THEN quarantined ELSE {}
                    there == [q \in Ports |-> IF old THEN registered[q]
                                              ELSE IF q \in staged THEN syncs ELSE 0]
                IN  /\ registered' = [q \in Ports |-> IF q \in left THEN there[q] ELSE 0]
                    /\ quarantined' = IF left = {} THEN kept ELSE Quarantine(kept)
          BY <2>32 DEF SyncInstallFailed
        <4>2. p \in left
          BY <3>6, <4>1
        <4>3. CASE old
          <5>1. registered'[p] = registered[p] /\ quarantined \subseteq quarantined'
            BY <4>1, <4>2, <4>3 DEF Quarantine
          <5>2. adapters[p] = registered[p] \/ <<p, registered[p]>> \in quarantined
            BY <3>4, <3>6, <5>1 DEF OwnerInv
          <5> QED BY <5>1, <5>2
        <4>4. CASE ~old
          <5>1. p \in staged /\ registered'[p] = syncs
            BY <3>6, <4>1, <4>2, <4>4
          <5>2. quarantined' = Quarantine({})
            BY <4>1, <4>2, <4>4
          <5> QED BY <5>1, <5>2 DEF Quarantine
        <4> QED BY <4>3, <4>4
      <3> QED BY <3>3, <3>5, <3>6 DEF OwnerInv
    <2>33. CASE SyncSwap(u)
      <3>1. UserStep(u) /\ pc[u] \in MutexPoints
        BY <2>33 DEF UserStep, SyncSwap, Goto
      <3>2. \A v \in Users : v # u => pc'[v] = pc[v] /\ pc[v] \notin MutexPoints
        BY <1>b, <3>1
      <3>3. \A p \in Ports : registered'[p] # 0 => adapters'[p] = registered'[p]
        BY <2>33 DEF SyncSwap, Goto, OwnerInv
      <3>4. \A v \in Users : pc'[v] \notin Staging
        BY <1>0, <3>2, <2>33 DEF SyncSwap, Goto
      <3> QED BY <3>3, <3>4, <2>33 DEF OwnerInv, SyncSwap
    <2>34. CASE SyncFresh(u)
      BY <1>a, <2>34 DEF SyncFresh, SetGate, GateFree, OnlySession
    <2>35. CASE SyncResume(u)
      <3>1. life # "destroyed"
        BY <2>35 DEF SyncResume, Goto, LifeInv
      <3> QED BY <1>a, <3>1, <2>35 DEF SyncResume
    <2>36. CASE DestroyGate(u)
      BY <1>a, <2>36 DEF DestroyGate, SetGate, GateFree, OnlySession
    <2>37. CASE DestroyStop(u)
      BY <1>a, <2>37 DEF DestroyStop
    <2>38. CASE DestroyClear(u)
      <3>1. life = "destroyed" /\ life' = life
        BY <2>38 DEF DestroyClear, Goto, LifeInv
      <3>0. \A v \in Users : pc[v] \in DestroyPoints \cup {"idle"}
        BY <2>38 DEF DestroyClear, Goto, LifeInv
      <3>2. \A v \in Users : pc'[v] \in DestroyPoints \cup {"idle"}
        BY <1>0, <3>0, <3>1, <2>38 DEF DestroyClear, Goto
      <3>3. staged' = {}
        BY <3>0, <3>1, <2>38 DEF DestroyClear, OwnerInv
      <3> QED BY <3>1, <3>2, <3>3 DEF OwnerInv
    <2>39. CASE AccessRequest(u)
      BY <1>a, <2>39 DEF AccessRequest, RequestBegin, RequestRefused, Usable,
          OnlySession
    <2> QED BY <1>1, <2>1, <2>2, <2>3, <2>4, <2>5, <2>6, <2>7, <2>8, <2>9,
        <2>10, <2>11, <2>12, <2>13, <2>14, <2>15, <2>16, <2>17, <2>18, <2>19,
        <2>20, <2>21, <2>22, <2>23, <2>24, <2>25, <2>26, <2>27, <2>28, <2>29,
        <2>30, <2>31, <2>32, <2>33, <2>34, <2>35, <2>36, <2>37,
        <2>38, <2>39 DEF UserCall, UserStep
  <1>2. CASE PumpStep
    <2>1. UNCHANGED <<pc, life, syncs, adapters, staged, registered, quarantined>>
      BY <1>2, PumpFrame DEF callVars
    <2>2. pumping => \A u \in Users : pc[u] \notin {"install", "swap"}
      BY DEF PauseInv, PumpQuietDuringReplacement
    <2> QED BY <1>k, <1>2, <2>1, <2>2, PumpPending
  <1>3. CASE RemoteChange
    BY <1>k, <1>3 DEF RemoteChange
  <1>4. CASE UNCHANGED vars
    BY <1>k, <1>4 DEF vars
  <1> QED BY <1>1, <1>2, <1>3, <1>4 DEF Next, Over

\* No sample is accepted twice, and none is lost silently.
LEMMA SampleStep ==
  /\ TypeOK /\ LifeInv /\ MutexInv /\ HolderInv /\ PumpInv /\ FlagInv /\ SettledInv
  /\ OwnerInv /\ SampleInv /\ [Next]_vars
  => SampleInv'
  <1> SUFFICES ASSUME TypeOK, LifeInv, MutexInv, HolderInv, PumpInv, FlagInv, SettledInv,
                      OwnerInv, SampleInv, [Next]_vars
               PROVE  SampleInv'
    OBVIOUS
  <1>0. /\ pc \in [Users -> Points] /\ MaxSamples \in Nat \ {0}
        /\ pending \in [Ports -> 0..MaxSamples] /\ taken \in [Inputs -> 0..MaxSamples]
        /\ copies \in [Inputs -> [Sample -> Nat]] /\ dropped \in [Inputs -> SUBSET Sample]
        /\ Inputs \subseteq Ports /\ Inputs \cap Outputs = {}
    BY ProxyAssumption DEF TypeOK, Ports
  \* What is pending stays, and the session is connected only with nothing pending.
  <1>a. ASSUME UNCHANGED <<taken, copies, dropped>>,
               \A p \in Inputs : pending'[p] = pending[p],
               sess' = "connected" => sess = "connected" \/ pending = Nothing
        PROVE  SampleInv'
    BY <1>0, <1>a DEF SampleInv, SampleAtMostOnce, NoSilentLoss, Nothing
  \* What is pending is discarded.
  <1>b. ASSUME UNCHANGED <<taken, copies>>, pending' = Nothing, dropped' = WithPending
        PROVE  SampleInv'
    <2>1. \A p \in Inputs : pending'[p] = 0 /\ dropped'[p] = dropped[p] \cup ({pending[p]} \ {0})
      BY <1>0, <1>b DEF Nothing, WithPending
    <2> QED BY <1>0, <1>b, <2>1 DEF SampleInv, SampleAtMostOnce, NoSilentLoss
  <1> USE DEF MutexPoints, SyncPoints, StagePoints, ReplacePoints,
      StalePoints, CreatePoints, DestroyPoints, sessionVars, callVars,
      flagVars, pumpVars, portVars, remoteVars, sampleVars, dataVars
  <1>1. ASSUME NEW u \in Users, UserCall(u) \/ UserStep(u) PROVE SampleInv'
    <2>1. CASE CreateCall(u)
      BY <1>a, UserFrame, <1>1, <2>1 DEF CreateCall
    <2>2. CASE AccessCall(u)
      BY <1>a, UserFrame, <1>1, <2>2 DEF AccessCall, Call
    <2>3. CASE ControlCall(u)
      BY <1>a, UserFrame, <1>1, <2>3 DEF ControlCall, Call
    <2>4. CASE SyncCall(u)
      BY <1>a, UserFrame, <1>1, <2>4 DEF SyncCall, Call
    <2>5. CASE DestroyCall(u)
      BY <1>a, UserFrame, <1>1, <2>5 DEF DestroyCall, CloseGate
    <2>6. CASE AccessEnd(u)
      BY <1>a, UserFrame, <1>1, <2>6 DEF AccessEnd, RequestEnd, OnlySession,
          Invalidates
    <2>7. CASE ControlLock(u)
      BY <1>a, UserFrame, <1>1, <2>7 DEF ControlLock, OnlyMutex
    <2>8. CASE ControlFallback(u)
      BY <1>a, UserFrame, <1>1, <2>8 DEF ControlFallback, OnlyMutex
    <2>9. CASE ControlRequest(u)
      BY <1>a, UserFrame, <1>1, <2>9 DEF ControlRequest, RequestBegin,
          RequestRefused, Usable
    <2>10. CASE ControlDone(u)
      BY <1>a, UserFrame, <1>1, <2>10 DEF ControlDone, RequestEnd, Invalidates
    <2>11. CASE ControlFailed(u)
      BY <1>a, UserFrame, <1>1, <2>11 DEF ControlFailed, RequestEnd,
          Invalidates
    <2>12. CASE StaleMark(u)
      BY <1>a, UserFrame, <1>1, <2>12 DEF StaleMark, CloseGate
    <2>13. CASE StaleGate(u)
      BY <1>a, UserFrame, <1>1, <2>13 DEF StaleGate, SetGate, GateFree,
          OnlySession
    <2>14. CASE StalePause(u)
      BY <1>a, UserFrame, <1>1, <2>14 DEF StalePause, PausePortPump
    <2>15. CASE StaleDiscard(u)
      BY <1>b, UserFrame, <1>1, <2>15 DEF StaleDiscard, PumpIdle
    <2>16. CASE StaleEnd(u)
      BY <1>a, UserFrame, <1>1, <2>16 DEF StaleEnd, ResumePortPump,
          ResumeAllowed
    <2>17. CASE CreateConnect(u)
      <3>1. pc[u] \in CreatePoints /\ life = "creating" /\ ~ready /\ ~stale
        BY <2>17 DEF CreateConnect, Goto, FlagInv, LifeInv
      <3>2. \A v \in Users : pc[v] \notin {"swap", "staleMark"}
        BY <3>1 DEF LifeInv
      <3>3. pending = Nothing
        BY <3>1, <3>2 DEF SettledInv, Settled
      <3> QED BY <1>a, <3>3, UserFrame, <1>1, <2>17 DEF CreateConnect,
          ConnectBegin, ConnectSucceeded, ConnectFailed, OnlySession
    <2>18. CASE SyncLock(u)
      BY <1>a, UserFrame, <1>1, <2>18 DEF SyncLock, CloseGate
    <2>19. CASE SyncGate(u)
      BY <1>a, UserFrame, <1>1, <2>19 DEF SyncGate, SetGate, GateFree,
          OnlySession
    <2>20. CASE SyncPause(u)
      BY <1>a, UserFrame, <1>1, <2>20 DEF SyncPause, PausePortPump
    <2>21. CASE SyncEnter(u)
      BY <1>a, UserFrame, <1>1, <2>21 DEF SyncEnter, PumpIdle
    <2>22. CASE SyncConnect(u)
      <3>1. pc[u] = "connecting" => pending = Nothing
        BY DEF SettledInv
      <3> QED BY <1>a, <3>1, UserFrame, <1>1, <2>22 DEF Goto, SyncConnect,
          ConnectBegin, ConnectSucceeded, ConnectFailed
    <2>23. CASE ReadDescription(u)
      BY <1>a, UserFrame, <1>1, <2>23 DEF ReadDescription, Discovered,
          OnlySession
    <2>24. CASE DiscoverOperations(u)
      BY <1>a, UserFrame, <1>1, <2>24 DEF DiscoverOperations, Discovered,
          OnlySession
    <2>25. CASE DiscoverValues(u)
      BY <1>a, UserFrame, <1>1, <2>25 DEF DiscoverValues, Discovered,
          OnlySession
    <2>26. CASE DiscoverPorts(u)
      BY <1>a, UserFrame, <1>1, <2>26 DEF DiscoverPorts, Discovered
    <2>27. CASE DiscoverServices(u)
      BY <1>a, UserFrame, <1>1, <2>27 DEF DiscoverServices, Discovered,
          OnlySession
    <2>28. CASE StageFailed(u)
      BY <1>a, UserFrame, <1>1, <2>28 DEF StageFailed, DiscoveryFailed
    <2>29. CASE SyncCheck(u)
      BY <1>a, UserFrame, <1>1, <2>29 DEF SyncCheck, OnlySession
    <2>30. CASE SyncKeep(u)
      BY <1>a, UserFrame, <1>1, <2>30 DEF SyncKeep, ResumePortPump,
          ResumeAllowed, SetGate, GateFree, RestoreAccess
    <2>31. CASE SyncInstall(u)
      BY <1>a, UserFrame, <1>1, <2>31 DEF SyncInstall
    <2>32. CASE SyncInstallFailed(u)
      BY <1>a, UserFrame, <1>1, <2>32 DEF SyncInstallFailed
    <2>33. CASE SyncSwap(u)
      <3>1. \A p \in Inputs : pending'[p] = pending[p]
        BY <1>0, <2>33 DEF SyncSwap, Goto, OwnerInv, CanReplacePortAdapters
      <3> QED BY <1>a, <3>1, UserFrame, <1>1, <2>33 DEF SyncSwap
    <2>34. CASE SyncFresh(u)
      BY <1>a, UserFrame, <1>1, <2>34 DEF SyncFresh, SetGate, GateFree,
          OnlySession
    <2>35. CASE SyncResume(u)
      BY <1>a, UserFrame, <1>1, <2>35 DEF SyncResume
    <2>36. CASE DestroyGate(u)
      BY <1>a, UserFrame, <1>1, <2>36 DEF DestroyGate, SetGate, GateFree,
          OnlySession
    <2>37. CASE DestroyStop(u)
      BY <1>a, UserFrame, <1>1, <2>37 DEF DestroyStop
    <2>38. CASE DestroyClear(u)
      BY <1>b, UserFrame, <1>1, <2>38 DEF DestroyClear
    <2>39. CASE AccessRequest(u)
      BY <1>a, UserFrame, <1>1, <2>39 DEF AccessRequest, RequestBegin,
          RequestRefused, Usable, OnlySession
    <2> QED BY <1>1, <2>1, <2>2, <2>3, <2>4, <2>5, <2>6, <2>7, <2>8, <2>9,
        <2>10, <2>11, <2>12, <2>13, <2>14, <2>15, <2>16, <2>17, <2>18, <2>19,
        <2>20, <2>21, <2>22, <2>23, <2>24, <2>25, <2>26, <2>27, <2>28, <2>29,
        <2>30, <2>31, <2>32, <2>33, <2>34, <2>35, <2>36, <2>37,
        <2>38, <2>39 DEF UserCall, UserStep
  <1>2. CASE PumpStep
    <2>1. CASE PumpBegin
      BY <1>0, <1>a, <2>1 DEF Ports, PumpBegin
    <2>2. CASE PumpSend
      BY <1>0, <1>a, <2>2 DEF Ports, PumpSend, RequestBegin, RequestRefused,
          Usable
    <2>3. CASE PumpEnd
      BY <1>0, <1>a, <2>3 DEF Ports, PumpEnd
    <2>4. CASE PumpExit
      BY <1>0, <1>a, <2>4 DEF Ports, PumpExit
    <2>5. ASSUME NEW p \in Ports, PumpTake(p) PROVE SampleInv'
      <3>1. /\ p \in Inputs /\ pending[p] = 0 /\ taken[p] < MaxSamples
            /\ taken' = [taken EXCEPT ![p] = taken[p] + 1]
            /\ pending' = [pending EXCEPT ![p] = taken[p] + 1]
            /\ UNCHANGED <<copies, dropped, sess>>
        BY <2>5 DEF PumpTake, Visit
      <3>2. /\ taken'[p] = taken[p] + 1 /\ pending'[p] = taken[p] + 1
            /\ taken[p] \in Nat /\ taken[p] + 1 \in Sample
        BY <1>0, <3>1 DEF Sample
      <3>3. \A q \in Inputs : q # p => taken'[q] = taken[q] /\ pending'[q] = pending[q]
        BY <1>0, <3>1
      <3>4. copies[p][taken[p] + 1] = 0
        BY <1>0, <3>1, <3>2 DEF SampleInv
      <3>5. \A q \in Inputs : pending'[q] <= taken'[q]
        BY <1>0, <3>2, <3>3 DEF SampleInv
      <3>6. ASSUME NEW q \in Inputs, NEW s \in Sample, s > taken'[q] PROVE copies[q][s] = 0
        <4>1. s > taken[q]
          <5>1. CASE q = p
            BY <3>2, <3>6, <5>1 DEF Sample
          <5>2. CASE q # p
            BY <3>3, <3>6, <5>2
          <5> QED BY <5>1, <5>2
        <4> QED BY <4>1 DEF SampleInv
      <3>7. \A q \in Inputs : sess = "connected" /\ pending'[q] # 0 => copies[q][pending'[q]] = 0
        BY <1>0, <3>2, <3>3, <3>4 DEF SampleInv
      <3>8. ASSUME NEW q \in Inputs, NEW s \in 1..taken'[q]
            PROVE  copies[q][s] >= 1 \/ pending'[q] = s \/ s \in dropped[q]
        <4>1. CASE q # p
          BY <1>0, <3>3, <3>8, <4>1 DEF SampleInv, NoSilentLoss
        <4>2. CASE q = p /\ s = taken[p] + 1
          BY <3>2, <4>2
        <4>3. CASE q = p /\ s # taken[p] + 1
          <5>1. s \in 1..taken[p]
            BY <3>2, <3>8, <4>3
          <5>2. copies[p][s] >= 1 \/ pending[p] = s \/ s \in dropped[p]
            BY <3>1, <5>1 DEF SampleInv, NoSilentLoss
          <5> QED BY <3>1, <4>3, <5>1, <5>2
        <4> QED BY <4>1, <4>2, <4>3
      <3> QED BY <3>1, <3>5, <3>6, <3>7, <3>8 DEF SampleInv, SampleAtMostOnce,
          NoSilentLoss
    <2>6. ASSUME NEW p \in Ports, PumpRetry(p) PROVE SampleInv'
      BY <1>0, <1>a, <2>6 DEF Ports, PumpRetry, Visit
    <2>7. ASSUME NEW p \in Ports, PumpDeliver(p) PROVE SampleInv'
      BY <1>0, <1>a, <2>7 DEF Ports, PumpDeliver, Visit
    <2>8. ASSUME NEW p \in Ports, PumpRead(p) PROVE SampleInv'
      BY <1>0, <1>a, <2>8 DEF Ports, PumpRead, Visit
    <2>9. ASSUME NEW p \in Ports, PumpSkip(p) PROVE SampleInv'
      BY <1>0, <1>a, <2>9 DEF Ports, PumpSkip, Visit
    <2>10. ASSUME NEW p \in Ports, PumpReplyInput(p) PROVE SampleInv'
      <3>1. PICK answer \in Answers, executed \in BOOLEAN :
              /\ RequestEnd(PumpThread, answer)
              /\ answer = "good" => executed
              /\ answer = "refused" => ~executed
              /\ copies' = IF executed THEN [copies EXCEPT ![p][pending[p]] = @ + 1]
                           ELSE copies
              /\ pending' = [pending EXCEPT ![p] = IF answer = "good" THEN 0 ELSE @]
        BY <2>10 DEF PumpReplyInput
      <3>2. pump = "reply" /\ at = {p} /\ p \in Inputs /\ UNCHANGED <<taken, dropped>>
        BY <2>10 DEF PumpReplyInput
      <3>3. pending[p] # 0
        BY <3>2 DEF PumpInv
      <3> DEFINE n == pending[p]
      <3>4. n \in Sample /\ n <= taken[p] /\ taken[p] \in Nat
        BY <1>0, <3>2, <3>3 DEF Sample, SampleInv
      <3>5. copies[p][n] = 0
        BY <3>2, <3>3 DEF HolderInv, SampleInv
      <3>6. \A q \in Inputs : q # p => pending'[q] = pending[q] /\ copies'[q] = copies[q]
        BY <1>0, <3>1, <3>2
      <3>7. \A s \in Sample : s # n => copies'[p][s] = copies[p][s]
        BY <1>0, <3>1, <3>2
      <3>8. pending'[p] = IF answer = "good" THEN 0 ELSE n
        BY <1>0, <3>1, <3>2
      <3>9. copies'[p][n] = IF executed THEN 1 ELSE 0
        BY <1>0, <3>1, <3>2, <3>4, <3>5
      <3>10. sess' = "connected" => sess = "connected" /\ answer # "lost"
        BY <3>1, RequestEnds
      <3>11. \A q \in Inputs : pending'[q] <= taken[q]
        BY <1>0, <3>4, <3>6, <3>8 DEF SampleInv
      <3>12. ASSUME NEW q \in Inputs, NEW s \in Sample, s > taken[q] PROVE copies'[q][s] = 0
        <4>1. copies[q][s] = 0
          BY <3>12 DEF SampleInv
        <4>2. q = p => s # n
          BY <3>4, <3>12 DEF Sample
        <4> QED BY <3>6, <3>7, <4>1, <4>2
      <3>13. \A q \in Inputs, s \in Sample : copies'[q][s] <= 1
        BY <1>0, <3>6, <3>7, <3>9 DEF SampleInv, SampleAtMostOnce
      <3>14. ASSUME NEW q \in Inputs, sess' = "connected", pending'[q] # 0
             PROVE  copies'[q][pending'[q]] = 0
        <4>1. CASE q # p
          BY <3>6, <3>10, <3>14, <4>1 DEF SampleInv
        <4>2. CASE q = p
          <5>1. answer = "refused" /\ ~executed
            BY <3>1, <3>8, <3>10, <3>14, <4>2 DEF Answers
          <5> QED BY <3>8, <3>9, <4>2, <5>1
        <4> QED BY <4>1, <4>2
      <3>15. ASSUME NEW q \in Inputs, NEW s \in 1..taken[q]
             PROVE  copies'[q][s] >= 1 \/ pending'[q] = s \/ s \in dropped[q]
        <4>1. copies[q][s] >= 1 \/ pending[q] = s \/ s \in dropped[q]
          BY DEF SampleInv, NoSilentLoss
        <4>2. CASE q # p
          BY <3>6, <4>1, <4>2
        <4>3. CASE q = p /\ s # n
          <5>1. s \in Sample
            BY <1>0 DEF Sample
          <5> QED BY <3>7, <4>1, <4>3, <5>1
        <4>4. CASE q = p /\ s = n
          <5>1. CASE executed
            BY <3>9, <4>4, <5>1
          <5>2. CASE ~executed
            BY <3>1, <3>8, <4>4, <5>2
          <5> QED BY <5>1, <5>2
        <4> QED BY <4>2, <4>3, <4>4
      <3> QED BY <3>2, <3>11, <3>12, <3>13, <3>14, <3>15 DEF SampleInv,
          SampleAtMostOnce, NoSilentLoss
    <2>11. ASSUME NEW p \in Ports, PumpReplyOutput(p) PROVE SampleInv'
      BY <1>0, <1>a, <2>11 DEF Ports, PumpReplyOutput, RequestEnd, Invalidates
    <2> QED BY <1>2, <2>1, <2>2, <2>3, <2>4, <2>5, <2>6, <2>7, <2>8, <2>9,
        <2>10, <2>11 DEF PumpStep
  <1>3. CASE RemoteChange
    BY <1>a, <1>3 DEF RemoteChange
  <1>4. CASE UNCHANGED vars
    BY <1>a, <1>4 DEF vars
  <1> QED BY <1>1, <1>2, <1>3, <1>4 DEF Next, Over

-----------------------------------------------------------------------------
(* The theorems                                                            *)

\* The proxy starts in the invariant.
LEMMA ProxyInit == Init => ProxyInv
  <1> SUFFICES ASSUME Init PROVE ProxyInv OBVIOUS
  <1> USE ProxyAssumption DEF Init, SessionInit
  <1>1. CallType /\ CountType
    BY DEF CallType, CountType, Points
  <1>f. FlagType
    BY DEF FlagType, SessionTypeOK, SessionState
  <1>2. PortType /\ SampleType
    BY DEF PortType, SampleType, Nothing, Ports, Sample
  <1>3. TypeOK
    BY <1>1, <1>f, <1>2, TypeParts
  <1>4. Syncing = {}
    BY DEF Syncing, CreatePoints
  <1>5. CountInv
    BY <1>4, FS_EmptySet DEF CountInv, SyncPoints, StagePoints, ReplacePoints,
        StalePoints, CreatePoints, DestroyPoints
  <1>6. LifeInv /\ MutexInv
    BY DEF LifeInv, MutexInv, MutexPoints, SyncPoints, StagePoints,
        ReplacePoints, StalePoints, CreatePoints, DestroyPoints
  <1>7. HolderInv
    BY DEF HolderInv, PumpThread
  <1>8. GateInv /\ PauseInv
    BY DEF GateInv, PauseInv, PumpQuietDuringReplacement, ClosedPoints,
        SolePoints, QuietPoints, SyncPoints, StagePoints, ReplacePoints,
        StalePoints, CreatePoints, DestroyPoints
  <1>9. PumpInv /\ FlagInv
    BY DEF PumpInv, FlagInv, SyncPoints, StagePoints, ReplacePoints,
        StalePoints, CreatePoints, DestroyPoints
  <1>10. SettledInv /\ FreshInv
    BY DEF SettledInv, Settled, FreshInv
  <1>11. OwnerInv
    BY DEF OwnerInv, Nothing, CanReplacePortAdapters
  <1>12. SampleInv
    BY DEF SampleInv, SampleAtMostOnce, NoSilentLoss, Nothing, Ports, Sample
  <1> QED BY <1>3, <1>5, <1>6, <1>7, <1>8, <1>9, <1>10, <1>11,
      <1>12 DEF ProxyInv

\* Every step keeps the invariant.
LEMMA ProxyStep == ProxyInv /\ [Next]_vars => ProxyInv'
  <1> SUFFICES ASSUME ProxyInv, [Next]_vars PROVE ProxyInv' OBVIOUS
  <1> USE DEF ProxyInv
  <1>1. CallType' /\ FlagType'
    BY TypeParts, CallTypeStep, FlagTypeStep
  <1>2. CountType' /\ PortType' /\ SampleType'
    BY CountTypeStep, PortTypeStep, SampleTypeStep
  <1>3. TypeOK'
    BY <1>1, <1>2, TypeParts, PTL
  <1> QED
    BY <1>3, LifeStep, CountStep, MutexStep, HolderStep, GateStep, PauseStep,
        PumpInvStep, FlagStep, SettledStep, FreshStep, OwnerStep, SampleStep

\* The invariant holds in every reachable state.
LEMMA ProxySafe == Spec => []ProxyInv
  BY ProxyInit, ProxyStep, PTL DEF Spec

\* Every variable of the proxy has its type: in particular the generations of
\* the adapters, which synchronize() counts, and the samples that the port
\* thread numbers never leave their range.
THEOREM ProxyTypeCorrect == Spec => []TypeOK
  <1>1. ProxyInv => TypeOK
    BY DEF ProxyInv
  <1> QED BY <1>1, ProxySafe, PTL

\* The endpoint accepts no sample of an input port twice, although
\* writePortValue() is retried until it succeeds.
THEOREM AtMostOnce == Spec => []SampleAtMostOnce
  <1>1. ProxyInv => SampleAtMostOnce
    BY DEF ProxyInv, SampleInv
  <1> QED BY <1>1, ProxySafe, PTL

\* A sample that was taken is accepted, kept or discarded with a stale
\* interface or the proxy; replacing the adapters loses none.
THEOREM NothingLostSilently == Spec => []NoSilentLoss
  <1>1. ProxyInv => NoSilentLoss
    BY DEF ProxyInv, SampleInv
  <1> QED BY <1>1, ProxySafe, PTL

\* The port thread is idle while synchronize() or markInterfaceStale() works
\* on the adapters without a lock.
THEOREM QuietReplacement == Spec => []PumpQuietDuringReplacement
  <1>1. ProxyInv => PumpQuietDuringReplacement
    BY DEF ProxyInv, PauseInv
  <1> QED BY <1>1, ProxySafe, PTL

\* Between calls, a stale interface is closed, paused and has nothing pending.
THEOREM StaleQuiet == Spec => []StaleIsQuiet
  <1>1. ProxyInv => StaleIsQuiet
    <2> SUFFICES ASSUME ProxyInv, syncMutex = {}, stale
                 PROVE  ~access /\ paused /\ ~pumping /\ pending = Nothing
      BY DEF StaleIsQuiet
    <2>1. \A u \in Users : pc[u] \notin MutexPoints
      BY DEF ProxyInv, MutexInv
    <2> QED BY <2>1 DEF ProxyInv, SettledInv, Settled, MutexPoints,
        SyncPoints, StagePoints, ReplacePoints, StalePoints, CreatePoints,
        DestroyPoints
  <1> QED BY <1>1, ProxySafe, PTL

\* Between calls, a mirrored interface that is ready and not stale on a
\* connected session is open and pumped.
THEOREM FreshUsable == Spec => []FreshIsUsable
  <1>1. ProxyInv => FreshIsUsable
    <2> SUFFICES ASSUME ProxyInv, syncMutex = {}, life = "created", ready, ~stale,
                        sess = "connected"
                 PROVE  access /\ ~paused
      BY DEF FreshIsUsable
    <2>1. \A u \in Users : pc[u] \notin MutexPoints
      BY DEF ProxyInv, MutexInv
    <2> QED BY <2>1 DEF ProxyInv, FreshInv, MutexPoints
  <1> QED BY <1>1, ProxySafe, PTL

\* From the time synchronize() has closed the gate until it opens it again no
\* other thread has a request in progress.
THEOREM ExclusiveReplacement == Spec => []NoAccessWhileReplacing
  <1>1. ProxyInv => NoAccessWhileReplacing
    BY DEF ProxyInv, GateInv, NoAccessWhileReplacing, SolePoints
  <1> QED BY <1>1, ProxySafe, PTL

\* The adapter of a registered port is kept alive by the proxy.
THEOREM PortsOwned == Spec => []RegisteredPortsOwned
  <1>1. ProxyInv => RegisteredPortsOwned
    <2> SUFFICES ASSUME ProxyInv, NEW p \in Ports, life # "destroyed", registered[p] # 0
                 PROVE  \/ adapters[p] = registered[p]
                        \/ <<p, registered[p]>> \in quarantined
                        \/ p \in staged /\ registered[p] = syncs
      BY DEF RegisteredPortsOwned
    <2>1. CASE \E u \in Users : pc[u] = "swap"
      BY <2>1 DEF ProxyInv, OwnerInv
    <2>2. CASE \A u \in Users : pc[u] # "swap"
      BY <2>2 DEF ProxyInv, OwnerInv
    <2> QED BY <2>1, <2>2
  <1> QED BY <1>1, ProxySafe, PTL

===============================================================================
