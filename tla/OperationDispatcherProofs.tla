----------------------- MODULE OperationDispatcherProofs -----------------------
(***************************************************************************)
(* Machine-checked proofs about OperationDispatcher, for every finite set  *)
(* of calls and every set of components.                                   *)
(***************************************************************************)
EXTENDS OperationDispatcher, FiniteSetTheorems, TLAPS

\* A component that was released takes no leases and has none.
ReleasedIsIdle ==
  \A c \in Components : ~present[c] => ~active[c] /\ Holders(c) = {}

\* A running operation belongs to a call that still owns its lease or was given
\* up; a call that has launched nothing has no operation.
RunningHoldsLease ==
  \A k \in Calls :
    /\ op[k] = "running" => phase[k] \in LeasePhases \cup {"givenup"}
    /\ phase[k] \in {"new", "leased"} => op[k] = "none"

\* From drain() on, the dispatcher refuses to retain.
DrainStarted ==
  sd \in {"join", "reap", "deactivate", "release", "finished"} => draining

-----------------------------------------------------------------------------
(* Lemmas about leases                                                     *)

\* The type invariant is preserved by every step of the specification.
LEMMA TypeStep == TypeOK /\ [Next]_vars => TypeOK'
  <1> SUFFICES ASSUME TypeOK, [Next]_vars PROVE TypeOK'
    OBVIOUS
  <1> USE DEF TypeOK, Phases, LeasePhases, EndPhases, ServerPhases, SdPoints,
              callVars, componentVars, shutdownVars
  <1>1. CASE UNCHANGED vars
    BY <1>1 DEF vars
  <1>2. ASSUME NEW k \in Calls, Admit(k) PROVE TypeOK'
    BY <1>2 DEF Admit
  <1>3. ASSUME NEW k \in Calls, InvokeStep(k) PROVE TypeOK'
    <2>1. CASE Refuse(k) BY <2>1 DEF Refuse
    <2>2. CASE Reject(k) BY <2>2 DEF Reject, ReleaseLease
    <2>3. CASE LaunchSend(k) BY <2>3 DEF LaunchSend
    <2>4. CASE SetupCollect(k) BY <2>4 DEF SetupCollect
    <2>5. CASE SetupFail(k) BY <2>5 DEF SetupFail, ReleaseLease
    <2>6. CASE LaunchCall(k) BY <2>6 DEF LaunchCall
    <2>7. CASE Collect(k) BY <2>7 DEF Collect, ReleaseLease
    <2>8. CASE Timeout(k) BY <2>8 DEF Timeout
    <2>9. CASE Retain(k) BY <2>9 DEF Retain, RetainAllowed
    <2>10. CASE RetainInPlace(k) BY <2>10 DEF RetainInPlace
    <2>11. CASE WaitDone(k) BY <2>11 DEF WaitDone, ReleaseLease
    <2> QED BY <1>3, <2>1, <2>2, <2>3, <2>4, <2>5, <2>6, <2>7, <2>8, <2>9,
               <2>10, <2>11 DEF InvokeStep
  <1>4. ASSUME NEW k \in Calls, OperationDone(k) PROVE TypeOK'
    BY <1>4 DEF OperationDone
  <1>5. ASSUME ReapOnce PROVE phase' \in [Calls -> Phases] /\ users' \in [Components -> Int]
    <2>1. phase' \in [Calls -> Phases]
      BY <1>5 DEF ReapOnce, UsersAfterReap
    <2>2. \A c \in Components : IsFiniteSet({k \in Reapable : target[k] = c})
      BY DispatcherAssumption, FS_Subset DEF Reapable
    <2>3. \A c \in Components : Cardinality({k \in Reapable : target[k] = c}) \in Nat
      BY <2>2, FS_CardinalityType
    <2> QED BY <1>5, <2>1, <2>3 DEF ReapOnce, UsersAfterReap
  <1>6. ASSUME ReaperStep PROVE TypeOK'
    BY <1>5, <1>6 DEF ReaperStep, ReaperReap, ReaperExit, ReaperStopRequested, ReapOnce, UsersAfterReap
  <1>7. CASE BeginShutdown \/ Shutdown
    BY <1>7 DEF BeginShutdown, Shutdown
  <1>8. ASSUME ShutdownStep PROVE TypeOK'
    <2>1. CASE Detach BY <2>1 DEF Detach
    <2>2. CASE DrainBegin BY <2>2 DEF DrainBegin
    <2>3. CASE DrainJoin BY <2>3 DEF DrainJoin
    <2>4. CASE DrainReap BY <1>5, <2>4 DEF DrainReap, ReapOnce, UsersAfterReap
    <2>5. ASSUME NEW c \in Components, Deactivate(c) PROVE TypeOK'
      BY <2>5 DEF Deactivate
    <2>6. ASSUME NEW c \in Components, Release(c) PROVE TypeOK'
      BY <2>6 DEF Release, NoUser
    <2>7. CASE ShutdownDone BY <2>7 DEF ShutdownDone
    <2> QED BY <1>8, <2>1, <2>2, <2>3, <2>4, <2>5, <2>6, <2>7 DEF ShutdownStep
  <1>9. CASE Over
    BY <1>9 DEF Over, vars
  <1> QED BY <1>1, <1>2, <1>3, <1>4, <1>6, <1>7, <1>8, <1>9 DEF Next

\* The set of leases on a component is finite, so its size is a number and is
\* zero exactly when nobody holds one.
LEMMA HoldersFinite ==
  ASSUME NEW c
  PROVE  /\ IsFiniteSet(Holders(c))
         /\ Cardinality(Holders(c)) \in Nat
         /\ Cardinality(Holders(c)) = 0 <=> Holders(c) = {}
  <1>1. Holders(c) \in SUBSET Calls
    BY DEF Holders
  <1>2. IsFiniteSet(Holders(c))
    BY <1>1, FS_Subset, DispatcherAssumption
  <1> QED BY <1>2, FS_CardinalityType, FS_EmptySet

\* ReleaseLease takes exactly the releasing call out of its component's leases.
LEMMA ReleaseHolders ==
  ASSUME TypeOK, NEW k \in Calls, phase[k] \in LeasePhases,
         NEW end \in EndPhases, ReleaseLease(k, end),
         UNCHANGED target, NEW c \in Components
  PROVE  Holders(c)' = Holders(c) \ {k}
  BY DEF ReleaseLease, TypeOK, Holders, LeasePhases, EndPhases, ServerPhases

\* ReapOnce takes exactly the reapable calls out of every component's leases.
LEMMA ReapHolders ==
  ASSUME TypeOK, ReapOnce, NEW c \in Components
  PROVE  /\ Holders(c)' = Holders(c) \ {k \in Reapable : target[k] = c}
         /\ {k \in Reapable : target[k] = c} \subseteq Holders(c)
  BY DEF ReapOnce, UsersAfterReap, TypeOK, Holders, Reapable, LeasePhases, EndPhases, ServerPhases

\* The steps that touch a lease are admission, the returns of invoke(), and
\* reaping; every other step leaves each component's leases as they are.
LEMMA HoldersStep ==
  ASSUME TypeOK, [Next]_vars
  PROVE  \/ \E k \in Calls : Admit(k)
         \/ \E k \in Calls : /\ phase[k] \in LeasePhases
                             /\ \E end \in EndPhases : ReleaseLease(k, end)
                             /\ UNCHANGED target
         \/ ReapOnce
         \/ /\ \A c \in Components : Holders(c)' = Holders(c)
            /\ UNCHANGED users
  <1> USE DEF TypeOK, LeasePhases, EndPhases, ServerPhases, callVars, componentVars, shutdownVars
  <1> DEFINE Same == /\ \A c \in Components : Holders(c)' = Holders(c)
                     /\ UNCHANGED users
             Returns(k) == /\ phase[k] \in LeasePhases
                           /\ \E end \in EndPhases : ReleaseLease(k, end)
                           /\ UNCHANGED target
  <1>1. ASSUME UNCHANGED vars PROVE Same
    BY <1>1 DEF vars, Holders
  <1>2. ASSUME NEW k \in Calls, InvokeStep(k) PROVE Returns(k) \/ Same
    <2>1. CASE Refuse(k) BY <2>1 DEF Refuse, Holders
    <2>2. CASE Reject(k) BY <2>2 DEF Reject
    <2>3. CASE LaunchSend(k) BY <2>3 DEF LaunchSend, Holders
    <2>4. CASE SetupCollect(k) BY <2>4 DEF SetupCollect, Holders
    <2>5. CASE SetupFail(k) BY <2>5 DEF SetupFail
    <2>6. CASE LaunchCall(k) BY <2>6 DEF LaunchCall, Holders
    <2>7. CASE Collect(k) BY <2>7 DEF Collect
    <2>8. CASE Timeout(k) BY <2>8 DEF Timeout, Holders
    <2>9. CASE Retain(k) BY <2>9 DEF Retain, RetainAllowed, Holders
    <2>10. CASE RetainInPlace(k) BY <2>10 DEF RetainInPlace, Holders
    <2>11. CASE WaitDone(k) BY <2>11 DEF WaitDone
    <2> QED BY <1>2, <2>1, <2>2, <2>3, <2>4, <2>5, <2>6, <2>7, <2>8, <2>9,
               <2>10, <2>11 DEF InvokeStep
  <1>3. ASSUME NEW k \in Calls, OperationDone(k) PROVE Same
    BY <1>3 DEF OperationDone, Holders
  <1>4. ASSUME ReaperStep PROVE ReapOnce \/ Same
    BY <1>4 DEF ReaperStep, ReaperReap, ReaperExit, ReaperStopRequested, Holders
  <1>5. ASSUME BeginShutdown \/ Shutdown PROVE Same
    BY <1>5 DEF BeginShutdown, Shutdown, Holders
  <1>6. ASSUME ShutdownStep PROVE ReapOnce \/ Same
    BY <1>6 DEF ShutdownStep, Detach, DrainBegin, DrainJoin, DrainReap,
                Deactivate, Release, NoUser, ShutdownDone, Holders
  <1>7. ASSUME Over PROVE Same
    BY <1>7 DEF Over, vars, Holders
  <1> HIDE DEF Same, Returns
  <1>8. \/ \E k \in Calls : Admit(k)
        \/ \E k \in Calls : Returns(k)
        \/ ReapOnce
        \/ Same
    <2>1. CASE \E k \in Calls : Admit(k) \/ InvokeStep(k) \/ OperationDone(k)
      BY <2>1, <1>2, <1>3
    <2>2. CASE ReaperStep \/ ShutdownStep
      BY <2>2, <1>4, <1>6
    <2>3. CASE BeginShutdown \/ Shutdown \/ Over \/ UNCHANGED vars
      BY <2>3, <1>1, <1>5, <1>7
    <2> QED BY <2>1, <2>2, <2>3 DEF Next
  <1> QED BY <1>8 DEF Same, Returns

-----------------------------------------------------------------------------
(* Theorems                                                                *)

\* Every variable keeps its type in every behaviour of the dispatcher.
THEOREM TypeCorrect == Spec => []TypeOK
  <1>1. Init => TypeOK
    <2> SUFFICES ASSUME Init PROVE TypeOK
      OBVIOUS
    <2>1. phase \in [Calls -> Phases] /\ op \in [Calls -> {"none", "running", "finished"}]
      BY DEF Init, Phases
    <2>2. /\ active \in [Components -> BOOLEAN]
          /\ present \in [Components -> BOOLEAN]
          /\ users \in [Components -> Int]
      BY DEF Init
    <2>3. /\ admissionClosed \in BOOLEAN /\ draining \in BOOLEAN
          /\ reaper \in {"running", "exited"}
          /\ sd \in SdPoints /\ closing \in SUBSET Components
      BY DEF Init, SdPoints
    <2> QED BY <2>1, <2>2, <2>3 DEF Init, TypeOK
  <1> QED BY <1>1, TypeStep, PTL DEF Spec

\* ComponentState::users always equals the number of leases on the component,
\* through every move, early return, timeout and reaping.
LEMMA CountStep == TypeOK /\ UsersCountLeases /\ [Next]_vars => UsersCountLeases'
  <1> SUFFICES ASSUME TypeOK, UsersCountLeases, [Next]_vars,
                      NEW c \in Components
               PROVE  users'[c] = Cardinality(Holders(c)')
    BY DEF UsersCountLeases
  <1>0. users[c] = Cardinality(Holders(c))
    BY DEF UsersCountLeases
  <1>1. ASSUME NEW k \in Calls, Admit(k)
        PROVE  users'[c] = Cardinality(Holders(c)')
    <2>1. CASE target[k] = c
      <3>1. Holders(c)' = Holders(c) \cup {k} /\ k \notin Holders(c)
        BY <1>1, <2>1 DEF Admit, Holders, TypeOK, LeasePhases, EndPhases, ServerPhases
      <3>2. users'[c] = users[c] + 1
        BY <1>1, <2>1 DEF Admit, TypeOK
      <3> QED BY <1>0, <3>1, <3>2, HoldersFinite, FS_AddElement
    <2>2. CASE target[k] # c
      <3>1. Holders(c)' = Holders(c)
        BY <1>1, <2>2 DEF Admit, Holders, TypeOK, LeasePhases, EndPhases, ServerPhases
      <3>2. users'[c] = users[c]
        BY <1>1, <2>2 DEF Admit, TypeOK
      <3> QED BY <1>0, <3>1, <3>2
    <2> QED BY <2>1, <2>2
  <1>2. ASSUME NEW k \in Calls, phase[k] \in LeasePhases,
               NEW end \in EndPhases, ReleaseLease(k, end),
               UNCHANGED target
        PROVE  users'[c] = Cardinality(Holders(c)')
    <2>1. Holders(c)' = Holders(c) \ {k}
      BY <1>2, ReleaseHolders
    <2>2. k \in Holders(c) <=> target[k] = c
      BY <1>2 DEF Holders
    <2>3. users'[c] = IF target[k] = c THEN users[c] - 1 ELSE users[c]
      BY <1>2 DEF ReleaseLease, TypeOK
    <2>4. Cardinality(Holders(c) \ {k})
            = IF k \in Holders(c) THEN Cardinality(Holders(c)) - 1
              ELSE Cardinality(Holders(c))
      BY HoldersFinite, FS_RemoveElement
    <2> QED BY <1>0, <2>1, <2>2, <2>3, <2>4
  <1>3. ASSUME ReapOnce
        PROVE  users'[c] = Cardinality(Holders(c)')
    <2> DEFINE R == {k \in Reapable : target[k] = c}
    <2>1. Holders(c)' = Holders(c) \ R /\ R \subseteq Holders(c)
      BY <1>3, ReapHolders
    <2>2. users'[c] = users[c] - Cardinality(R)
      BY <1>3 DEF ReapOnce, UsersAfterReap
    <2> HIDE DEF R
    <2>3. IsFiniteSet(R) /\ IsFiniteSet(Holders(c) \ R)
      BY <2>1, HoldersFinite, FS_Subset
    <2>4. Holders(c) = (Holders(c) \ R) \cup R /\ (Holders(c) \ R) \cap R = {}
      BY <2>1
    <2>5. Cardinality(Holders(c))
            = Cardinality(Holders(c) \ R) + Cardinality(R) - Cardinality({})
      BY <2>3, <2>4, FS_Union
    <2>6. /\ Cardinality(Holders(c) \ R) \in Nat /\ Cardinality(R) \in Nat
          /\ Cardinality({}) = 0
      BY <2>3, FS_CardinalityType, FS_EmptySet
    <2> QED BY <1>0, <2>1, <2>2, <2>5, <2>6
  <1>4. CASE (\A d \in Components : Holders(d)' = Holders(d)) /\ UNCHANGED users
    BY <1>0, <1>4
  <1> QED BY <1>1, <1>2, <1>3, <1>4, HoldersStep

\* UsersCountLeases holds in every reachable state.
THEOREM LeaseCount == Spec => []UsersCountLeases
  <1>1. Init => UsersCountLeases
    <2> SUFFICES ASSUME Init, NEW c \in Components
                 PROVE  users[c] = Cardinality(Holders(c))
      BY DEF UsersCountLeases
    <2>1. Holders(c) = {} /\ users[c] = 0
      BY DEF Init, Holders, LeasePhases, EndPhases, ServerPhases
    <2> QED BY <2>1, FS_EmptySet
  <1> QED BY <1>1, CountStep, TypeCorrect, PTL DEF Spec

\* A released component stays without leases: deactivate() waited for the count
\* that UsersCountLeases shows to be exact, and admission needs the component.
LEMMA ReleasedStep ==
  TypeOK /\ UsersCountLeases /\ ReleasedIsIdle /\ [Next]_vars => ReleasedIsIdle'
  <1> SUFFICES ASSUME TypeOK, UsersCountLeases, ReleasedIsIdle, [Next]_vars,
                      NEW c \in Components, ~present'[c]
               PROVE  ~active'[c] /\ Holders(c)' = {}
    BY DEF ReleasedIsIdle
  <1>1. ~active'[c] /\ Holders(c) = {}
    <2>1. CASE ~present[c]
      <3>1. ~active[c] /\ Holders(c) = {}
        BY <2>1 DEF ReleasedIsIdle
      <3>2. ~active'[c]
        BY <3>1 DEF Next, vars, callVars, componentVars, shutdownVars, Admit,
           InvokeStep, Refuse, Reject, LaunchSend, SetupCollect, SetupFail,
           LaunchCall, Collect, Timeout, Retain, RetainAllowed, RetainInPlace, WaitDone,
           ReleaseLease, OperationDone, ReaperStep, ReaperReap, ReaperExit, ReaperStopRequested,
           ReapOnce, UsersAfterReap, BeginShutdown, Shutdown, ShutdownStep, Detach, DrainBegin,
           DrainJoin, DrainReap, Deactivate, Release, NoUser, ShutdownDone, Over, TypeOK
      <3> QED BY <3>1, <3>2
    <2>2. CASE present[c]
      <3>1. Release(c)
        <4>1. \/ \E d \in Components : Release(d)
              \/ UNCHANGED present
          BY DEF Next, vars, callVars, componentVars, shutdownVars, Admit,
           InvokeStep, Refuse, Reject, LaunchSend, SetupCollect, SetupFail,
           LaunchCall, Collect, Timeout, Retain, RetainAllowed, RetainInPlace, WaitDone,
           ReleaseLease, OperationDone, ReaperStep, ReaperReap, ReaperExit, ReaperStopRequested,
           ReapOnce, UsersAfterReap, BeginShutdown, Shutdown, ShutdownStep, Detach, DrainBegin,
           DrainJoin, DrainReap, Deactivate, ShutdownDone, Over
        <4>2. PICK d \in Components : Release(d)
          BY <4>1, <2>2
        <4>3. d = c
          BY <4>2, <2>2 DEF Release, NoUser, TypeOK
        <4> QED BY <4>2, <4>3
      <3>2. users[c] = 0 /\ ~active[c] /\ UNCHANGED active
        BY <3>1 DEF Release, NoUser
      <3>3. Holders(c) = {}
        BY <3>2, HoldersFinite DEF UsersCountLeases
      <3> QED BY <3>2, <3>3
    <2> QED BY <2>1, <2>2
  <1>2. Holders(c)' = {}
    <2>1. ASSUME NEW k \in Calls, Admit(k) PROVE Holders(c)' = {}
      <3>1. target[k] # c
        BY <2>1, <1>1 DEF Admit, Admissible
      <3> QED BY <2>1, <3>1, <1>1 DEF Admit, Holders, TypeOK
    <2>2. ASSUME NEW k \in Calls, phase[k] \in LeasePhases,
                 NEW end \in EndPhases, ReleaseLease(k, end),
                 UNCHANGED target
          PROVE  Holders(c)' = {}
      BY <2>2, <1>1, ReleaseHolders
    <2>3. ASSUME ReapOnce PROVE Holders(c)' = {}
      BY <2>3, <1>1, ReapHolders
    <2>4. CASE (\A d \in Components : Holders(d)' = Holders(d)) /\ UNCHANGED users
      BY <2>4, <1>1
    <2> QED BY <2>1, <2>2, <2>3, <2>4, HoldersStep
  <1> QED BY <1>1, <1>2

\* ReleasedIsIdle holds in every reachable state.
LEMMA ReleasedInvariant == Spec => []ReleasedIsIdle
  <1>1. Init => ReleasedIsIdle
    BY DEF Init, ReleasedIsIdle
  <1> QED BY <1>1, ReleasedStep, TypeCorrect, LeaseCount, PTL DEF Spec

\* Whoever holds a lease, a handler or a retained call, can use the component:
\* deactivate() never clears the pointer under a lease.
THEOREM LeaseSafety == Spec => []LeaseKeepsComponent
  <1>1. TypeOK /\ ReleasedIsIdle => LeaseKeepsComponent
    BY DEF ReleasedIsIdle, LeaseKeepsComponent, Holders, TypeOK
  <1> QED BY <1>1, TypeCorrect, ReleasedInvariant, PTL

\* A running operation always belongs to a call that owns a lease, unless the
\* call was given up between send() and its collection.
LEMMA RunningStep == TypeOK /\ RunningHoldsLease /\ [Next]_vars => RunningHoldsLease'
  <1> SUFFICES ASSUME TypeOK, RunningHoldsLease, [Next]_vars
               PROVE  RunningHoldsLease'
    OBVIOUS
  <1> USE DEF TypeOK, RunningHoldsLease, LeasePhases, ServerPhases,
              callVars, componentVars, shutdownVars
  <1>1. CASE UNCHANGED vars
    BY <1>1 DEF vars
  <1>2. ASSUME NEW k \in Calls, Admit(k) PROVE RunningHoldsLease'
    BY <1>2 DEF Admit
  <1>3. ASSUME NEW k \in Calls, InvokeStep(k) PROVE RunningHoldsLease'
    <2>1. CASE Refuse(k) BY <2>1 DEF Refuse
    <2>2. CASE Reject(k)
      \* Nothing was launched while the call is only leased.
      BY <2>2 DEF Reject, ReleaseLease
    <2>3. CASE LaunchSend(k) BY <2>3 DEF LaunchSend
    <2>4. CASE SetupCollect(k) BY <2>4 DEF SetupCollect
    <2>5. CASE SetupFail(k) BY <2>5 DEF SetupFail, ReleaseLease
    <2>6. CASE LaunchCall(k) BY <2>6 DEF LaunchCall
    <2>7. CASE Collect(k) BY <2>7 DEF Collect, ReleaseLease
    <2>8. CASE Timeout(k) BY <2>8 DEF Timeout
    <2>9. CASE Retain(k) BY <2>9 DEF Retain, RetainAllowed
    <2>10. CASE RetainInPlace(k) BY <2>10 DEF RetainInPlace
    <2>11. CASE WaitDone(k) BY <2>11 DEF WaitDone, ReleaseLease
    <2> QED BY <1>3, <2>1, <2>2, <2>3, <2>4, <2>5, <2>6, <2>7, <2>8, <2>9,
               <2>10, <2>11 DEF InvokeStep
  <1>4. ASSUME NEW k \in Calls, OperationDone(k) PROVE RunningHoldsLease'
    BY <1>4 DEF OperationDone
  <1>5. ASSUME ReaperStep PROVE RunningHoldsLease'
    BY <1>5 DEF ReaperStep, ReaperReap, ReaperExit, ReaperStopRequested, ReapOnce, UsersAfterReap, Reapable
  <1>6. CASE BeginShutdown \/ Shutdown \/ Over
    BY <1>6 DEF BeginShutdown, Shutdown, Over, vars
  <1>7. ASSUME ShutdownStep PROVE RunningHoldsLease'
    BY <1>7 DEF ShutdownStep, Detach, DrainBegin, DrainJoin, DrainReap,
                Deactivate, Release, NoUser, ShutdownDone, ReapOnce, UsersAfterReap, Reapable
  <1> QED BY <1>1, <1>2, <1>3, <1>4, <1>5, <1>6, <1>7 DEF Next

\* The comment of object_model.hpp holds for every call that was not given up by a
\* failed set-up: no component is released while the operation still runs on it.
THEOREM OperationSafety == Spec => []AwaitedOperationsKeepComponent
  <1>1. Init => RunningHoldsLease
    BY DEF Init, RunningHoldsLease
  <1>2. TypeOK /\ RunningHoldsLease /\ [Next]_vars => RunningHoldsLease'
    BY RunningStep
  <1>3. TypeOK /\ RunningHoldsLease /\ LeaseKeepsComponent => AwaitedOperationsKeepComponent
    BY DEF RunningHoldsLease, LeaseKeepsComponent, AwaitedOperationsKeepComponent
  <1> QED BY <1>1, <1>2, <1>3, TypeCorrect, LeaseSafety, PTL DEF Spec

\* After drain() has returned, the reaper's list is empty for good: DrainReap
\* leaves only with an empty list and Retain is refused from DrainBegin on.
THEOREM DrainIsFinal == Spec => []NothingRetainedAfterDrain
  <1> DEFINE Inv == DrainStarted /\ NothingRetainedAfterDrain
  <1>1. Init => Inv
    BY DEF Init, DrainStarted, NothingRetainedAfterDrain
  <1>2. TypeOK /\ Inv /\ [Next]_vars => Inv'
    <2> SUFFICES ASSUME TypeOK, Inv, [Next]_vars PROVE Inv'
      OBVIOUS
    <2> USE DEF DrainStarted, NothingRetainedAfterDrain, TypeOK,
                callVars, componentVars, shutdownVars
    <2>1. CASE UNCHANGED vars
      BY <2>1 DEF vars
    <2>2. ASSUME NEW k \in Calls, Admit(k) \/ OperationDone(k) PROVE Inv'
      BY <2>2 DEF Admit, OperationDone
    <2>3. ASSUME NEW k \in Calls, InvokeStep(k) PROVE Inv'
      BY <2>3 DEF InvokeStep, Refuse, Reject, LaunchSend, SetupCollect,
         SetupFail, LaunchCall, Collect, Timeout, Retain, RetainAllowed, RetainInPlace,
         WaitDone, ReleaseLease
    <2>4. ASSUME ReaperStep PROVE Inv'
      BY <2>4 DEF ReaperStep, ReaperReap, ReaperExit, ReaperStopRequested, ReapOnce, UsersAfterReap
    <2>5. CASE BeginShutdown \/ Shutdown \/ Over
      BY <2>5 DEF BeginShutdown, Shutdown, Over, vars
    <2>6. ASSUME ShutdownStep PROVE Inv'
      <3>1. CASE DrainReap
        BY <3>1 DEF DrainReap, ReapOnce, UsersAfterReap, Reapable
      <3>2. CASE Detach \/ DrainBegin \/ DrainJoin \/ ShutdownDone
        BY <3>2 DEF Detach, DrainBegin, DrainJoin, ShutdownDone
      <3>3. ASSUME NEW c \in Components, Deactivate(c) \/ Release(c) PROVE Inv'
        BY <3>3 DEF Deactivate, Release, NoUser
      <3> QED BY <2>6, <3>1, <3>2, <3>3 DEF ShutdownStep
    <2> QED BY <2>1, <2>2, <2>3, <2>4, <2>5, <2>6 DEF Next
  <1>3. Inv => NothingRetainedAfterDrain
    OBVIOUS
  <1> QED BY <1>1, <1>2, <1>3, TypeCorrect, PTL DEF Spec

=============================================================================
