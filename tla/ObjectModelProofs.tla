-------------------------- MODULE ObjectModelProofs ---------------------------
(***************************************************************************)
(* Machine-checked proofs about ObjectModel, for every set of publishers,  *)
(* instances and names, every number of nodes and every bound on calls.    *)
(***************************************************************************)
EXTENDS ObjectModel, FiniteSetTheorems, SequenceTheorems, TLAPS

-----------------------------------------------------------------------------
(* The inductive invariant                                                 *)

\* The calls that may still submit a transaction have been counted.
Submitting == {p \in Publishers : pc[p] \in {"call", "locked"}}

CallInv ==
  IsFiniteSet(Submitting) /\ attempts + Cardinality(Submitting) <= calls

\* command_mutex is held from the checks to the return, by one publisher; one
\* transaction at a time is in the server, and its publisher waits for it.
LockInv ==
  /\ \A p \in Publishers : p \in mutex <=> pc[p] \in {"locked", "invoke"}
  /\ \A p, q \in mutex : p = q
  /\ task # "none" <=> \E p \in Publishers : pc[p] = "invoke"

\* The transaction has committed and its publisher does not know yet.
Unreported == task = "done" /\ committed

\* It has not committed (yet).
Open == task # "none" /\ ~Unreported

\* What is known of an attempt before, during and after its transaction.
CommitInv ==
  /\ \A a \in Attempts : a > attempts => st[a] = "none" /\ result[a] = "none"
  /\ task # "none" => attempts > 0 /\ result[attempts] = "none"
  /\ \A a \in closing \cup abandoned : a <= attempts
  /\ task \in {"queued", "creating", "rollback", "failed"} => ~committed
  /\ Open => components[TxName] = NoPublication
  /\ Unreported => /\ components[TxName] # NoPublication
                   /\ components[TxName].attempt = attempts
  /\ \A n \in Names : components[n] # NoPublication =>
       \/ result[components[n].attempt] = "published"
       \/ Unreported /\ components[n].attempt = attempts

\* An operation has a lease on an open component, never on one in the making.
LeaseInv ==
  /\ lease # 0 => st[lease] \in {"active", "closing"}
  /\ Open => lease # attempts

PublishedCalls == {a \in Attempts : result[a] = "published"}

\* The revision runs ahead of the reports by the transaction not yet reported.
RevisionInv ==
  revision = Cardinality(PublishedCalls) + (IF Unreported THEN 1 ELSE 0)

\* Who answers for a node of attempt a: nobody, as its callbacks are closed; the
\* inventory; shutdown(); or the running transaction.
Accounted(n, a) ==
  \/ st[a] = "closed"
  \/ components[n] # NoPublication /\ components[n].attempt = a
  \/ a \in closing
  \/ task = "creating" /\ a = attempts /\ n = TxName

SpaceInv ==
  /\ task \in {"creating", "rollback"} => up
  /\ task = "queued" => ledger = <<>>
  /\ task = "creating" =>
       /\ Len(ledger) <= Parts
       /\ \A i \in 1..Len(ledger) : nodes[TxName][i] = attempts
  /\ up => \A n \in Names : components[n] # NoPublication =>
             \A i \in 1..Parts : nodes[n][i] = components[n].attempt
  /\ up => \A n \in Names, i \in 1..Parts :
             nodes[n][i] # 0 => Accounted(n, nodes[n][i])

\* A state that is not closed is in the inventory, in shutdown()'s list, or in
\* the making; nothing is published or in the making once shutdown() has its list.
ShutdownInv ==
  /\ sd # "idle" => admissionClosed
  /\ sd \in {"idle", "lock", "finished"} => closing = {}
  /\ sd \notin {"idle", "lock"} =>
       task = "none" /\ \A n \in Names : components[n] = NoPublication
  /\ \A a \in Attempts : st[a] \in {"active", "closing"} =>
       \/ a \in closing
       \/ \E n \in Names : components[n] # NoPublication /\ components[n].attempt = a
       \/ task # "none" /\ a = attempts

ModelInv ==
  /\ TypeOK /\ CallInv /\ LockInv /\ CommitInv /\ LeaseInv /\ RevisionInv
  /\ SpaceInv /\ ShutdownInv

-----------------------------------------------------------------------------
(* Operators                                                               *)

\* A publication is not the absence of one.
LEMMA PublicationIsSome == \A r \in Publication : r # NoPublication
  BY DEF Publication, NoPublication

\* The transaction belongs to the publisher that waits for it.
LEMMA OwnerIs ==
  LockInv => \A p \in Publishers : pc[p] = "invoke" =>
               Owner = p /\ TxName = NameOfReq(p)
  <1> SUFFICES ASSUME LockInv, NEW p \in Publishers, pc[p] = "invoke"
               PROVE  Owner = p /\ TxName = NameOfReq(p)
    OBVIOUS
  <1>1. \A q \in Publishers : pc[q] = "invoke" => q = p
    BY DEF LockInv
  <1> QED BY <1>1 DEF Owner, TxName

\* The same after a step.
LEMMA OwnerIsNext ==
  LockInv' => \A p \in Publishers : pc'[p] = "invoke" =>
                Owner' = p /\ TxName' = NameOfReq(p)'
  <1>1. (LockInv => \A p \in Publishers : pc[p] = "invoke" =>
           Owner = p /\ TxName = NameOfReq(p))'
    BY OwnerIs, PTL
  <1> QED BY <1>1

\* The name of a request is a name.
LEMMA ReqName ==
  ASSUME TypeOK, NEW p \in Publishers
  PROVE  NameOfReq(p) \in Names
  BY ObjectModelAssumption DEF TypeOK, NameOfReq, Request

-----------------------------------------------------------------------------
(* Locks and calls                                                         *)

\* command_mutex serialises the publishers and their transactions.
LEMMA LockStep == TypeOK /\ LockInv /\ [Next]_vars => LockInv'
  <1> SUFFICES ASSUME TypeOK, LockInv, [Next]_vars PROVE LockInv' OBVIOUS
  <1>0. pc \in [Publishers -> {"idle", "call", "locked", "invoke"}]
    BY DEF TypeOK
  <1> USE DEF LockInv, Return, CloseState, spaceVars, inventoryVars,
      publisherVars, txVars, opVars, sdVars
  <1>1. ASSUME NEW p \in Publishers, PublishCall(p) \/ PublisherStep(p) PROVE LockInv'
    <2>1. CASE PublishCall(p)
      BY <1>0, <2>1 DEF PublishCall
    <2>2. CASE PublishLock(p)
      BY <1>0, <2>2 DEF PublishLock
    <2>3. CASE PublishRefused(p)
      BY <1>0, <2>3 DEF PublishRefused
    <2>4. CASE PublishConflict(p)
      BY <1>0, <2>4 DEF PublishConflict
    <2>5. CASE PublishRepeat(p)
      BY <1>0, <2>5 DEF PublishRepeat
    <2>6. CASE PublishDiagnosed(p)
      BY <1>0, <2>6 DEF PublishDiagnosed
    <2>7. CASE PublishSubmit(p)
      BY <1>0, <2>7 DEF PublishSubmit
    <2>8. CASE PublishTimeout(p)
      BY <1>0, <2>8 DEF PublishTimeout
    <2>9. CASE PublishCommitted(p)
      BY <1>0, <2>9 DEF PublishCommitted, Succeeded
    <2>10. CASE PublishFailed(p)
      BY <1>0, <2>10 DEF PublishFailed, Rejected
    <2> QED BY <1>1, <2>1, <2>2, <2>3, <2>4, <2>5, <2>6, <2>7, <2>8, <2>9,
        <2>10 DEF PublisherStep
  <1>2. CASE ServerStep
    <2>1. CASE TxBegin
      BY <2>1 DEF TxBegin
    <2>2. CASE TxCreate
      BY <2>2 DEF TxCreate
    <2>3. CASE TxCreateFail
      BY <2>3 DEF TxCreateFail
    <2>4. CASE TxCreatePartial
      BY <2>4 DEF TxCreatePartial
    <2>5. CASE TxRollbackNode
      BY <2>5 DEF TxRollbackNode
    <2>6. CASE TxRollbackAbort
      BY <2>6 DEF TxRollbackAbort
    <2>7. CASE TxRolledBack
      BY <2>7 DEF TxRolledBack
    <2>8. CASE TxCommit
      BY <2>8 DEF TxCommit
    <2>9. CASE OpCollect
      BY <2>9 DEF OpCollect
    <2>10. CASE OpTimeout
      BY <2>10 DEF OpTimeout
    <2> QED BY <1>2, <2>1, <2>2, <2>3, <2>4, <2>5, <2>6, <2>7, <2>8, <2>9,
        <2>10 DEF ServerStep
  <1>3. CASE ShutdownStep
    <2>1. CASE SdDetach
      BY <2>1 DEF SdDetach
    <2>2. CASE SdDrain
      BY <2>2 DEF SdDrain
    <2>3. CASE SdDone
      BY <2>3 DEF SdDone
    <2>4. ASSUME NEW a \in Attempts, SdClose(a) PROVE LockInv'
      BY <2>4 DEF SdClose
    <2>5. ASSUME NEW a \in Attempts, SdRelease(a) PROVE LockInv'
      BY <2>5 DEF SdRelease
    <2> QED BY <1>3, <2>1, <2>2, <2>3, <2>4, <2>5 DEF ShutdownStep
  <1>4. ASSUME NEW n \in Names, OpStart(n) PROVE LockInv'
    BY <1>4 DEF OpStart
  <1>5. CASE ServerStop
    BY <1>5 DEF ServerStop
  <1>6. CASE OpQueryAndFinish
    BY <1>6 DEF OpQueryAndFinish
  <1>7. CASE OpReap
    BY <1>7 DEF OpReap
  <1>8. CASE BeginShutdown
    BY <1>8 DEF BeginShutdown
  <1>9. CASE Shutdown
    BY <1>9 DEF Shutdown
  <1>10. CASE Over
    BY <1>10 DEF Over, vars
  <1>11. CASE UNCHANGED vars
    BY <1>11 DEF vars
  <1> QED BY <1>1, <1>2, <1>3, <1>4, <1>5, <1>6, <1>7, <1>8, <1>9, <1>10,
      <1>11 DEF Next


\* A publisher that has not submitted yet leaves room for its attempt.
LEMMA SubmitRoom ==
  ASSUME TypeOK, CallInv, NEW p \in Submitting
  PROVE  attempts + 1 <= calls /\ attempts + 1 \in Attempts
  <1>1. Cardinality(Submitting) # 0 /\ Cardinality(Submitting) \in Nat
    BY FS_EmptySet, FS_CardinalityType DEF CallInv
  <1> QED BY <1>1, ObjectModelAssumption DEF CallInv, TypeOK, Attempts

\* Calls are counted before they submit, and submit once.
LEMMA CallStep == TypeOK /\ CallInv /\ [Next]_vars => CallInv'
  <1> SUFFICES ASSUME TypeOK, CallInv, [Next]_vars PROVE CallInv' OBVIOUS
  <1>a. /\ pc \in [Publishers -> {"idle", "call", "locked", "invoke"}]
        /\ calls \in Nat /\ attempts \in Nat
        /\ IsFiniteSet(Submitting) /\ Cardinality(Submitting) \in Nat
    BY ObjectModelAssumption, FS_CardinalityType DEF TypeOK, CallInv
  <1>b. ASSUME UNCHANGED <<pc, calls, attempts>> PROVE CallInv'
    BY <1>b DEF CallInv, Submitting
  <1>c. ASSUME NEW p \in Publishers, Submitting' = Submitting \ {p}, p \in Submitting,
               UNCHANGED calls, attempts' = attempts \/ attempts' = attempts + 1
        PROVE  CallInv'
    <2>1. /\ IsFiniteSet(Submitting \ {p})
          /\ Cardinality(Submitting \ {p}) = Cardinality(Submitting) - 1
      BY <1>a, <1>c, FS_RemoveElement
    <2> QED BY <1>a, <1>c, <2>1 DEF CallInv
  <1>d. ASSUME NEW p \in Publishers, PublishCall(p) PROVE CallInv'
    <2>1. Submitting' = Submitting \cup {p} /\ p \notin Submitting
      BY <1>a, <1>d DEF PublishCall, Submitting
    <2>2. /\ IsFiniteSet(Submitting \cup {p})
          /\ Cardinality(Submitting \cup {p}) = Cardinality(Submitting) + 1
      BY <1>a, <2>1, FS_AddElement
    <2>3. calls' = calls + 1 /\ attempts' = attempts
      BY <1>d DEF PublishCall
    <2> QED BY <1>a, <2>1, <2>2, <2>3 DEF CallInv
  <1>e. ASSUME NEW p \in Publishers, PublishLock(p) PROVE CallInv'
    <2>1. Submitting' = Submitting /\ UNCHANGED <<calls, attempts>>
      BY <1>a, <1>e DEF PublishLock, Submitting
    <2> QED BY <2>1 DEF CallInv
  <1>f. ASSUME NEW p \in Publishers, pc[p] = "locked", UNCHANGED calls,
               pc' = [pc EXCEPT ![p] = "idle"] \/ pc' = [pc EXCEPT ![p] = "invoke"],
               attempts' = attempts \/ attempts' = attempts + 1
        PROVE  CallInv'
    <2>1. Submitting' = Submitting \ {p} /\ p \in Submitting
      BY <1>a, <1>f DEF Submitting
    <2> QED BY <1>c, <1>f, <2>1
  <1>g. ASSUME NEW p \in Publishers, pc[p] = "invoke", UNCHANGED <<calls, attempts>>,
               pc' = [pc EXCEPT ![p] = "idle"]
        PROVE  CallInv'
    <2>1. Submitting' = Submitting
      BY <1>a, <1>g DEF Submitting
    <2> QED BY <1>g, <2>1 DEF CallInv
  <1> USE DEF Return, CloseState, spaceVars, inventoryVars, publisherVars,
      txVars, opVars, sdVars
  <1>1. ASSUME NEW p \in Publishers, PublishCall(p) \/ PublisherStep(p) PROVE CallInv'
    <2>1. CASE PublishCall(p)
      BY <1>d, <2>1
    <2>2. CASE PublishLock(p)
      BY <1>e, <2>2
    <2>3. CASE PublishRefused(p)
      BY <1>f, <2>3 DEF PublishRefused
    <2>4. CASE PublishConflict(p)
      BY <1>f, <2>4 DEF PublishConflict
    <2>5. CASE PublishRepeat(p)
      BY <1>f, <2>5 DEF PublishRepeat
    <2>6. CASE PublishDiagnosed(p)
      BY <1>f, <2>6 DEF PublishDiagnosed
    <2>7. CASE PublishSubmit(p)
      BY <1>f, <2>7 DEF PublishSubmit
    <2>8. CASE PublishTimeout(p)
      BY <1>b, <2>8 DEF PublishTimeout
    <2>9. CASE PublishCommitted(p)
      BY <1>g, <2>9 DEF PublishCommitted
    <2>10. CASE PublishFailed(p)
      BY <1>g, <2>10 DEF PublishFailed
    <2> QED BY <1>1, <2>1, <2>2, <2>3, <2>4, <2>5, <2>6, <2>7, <2>8, <2>9,
        <2>10 DEF PublisherStep
  <1>2. CASE ServerStep
    <2>1. CASE TxBegin
      BY <1>b, <2>1 DEF TxBegin
    <2>2. CASE TxCreate
      BY <1>b, <2>2 DEF TxCreate
    <2>3. CASE TxCreateFail
      BY <1>b, <2>3 DEF TxCreateFail
    <2>4. CASE TxCreatePartial
      BY <1>b, <2>4 DEF TxCreatePartial
    <2>5. CASE TxRollbackNode
      BY <1>b, <2>5 DEF TxRollbackNode
    <2>6. CASE TxRollbackAbort
      BY <1>b, <2>6 DEF TxRollbackAbort
    <2>7. CASE TxRolledBack
      BY <1>b, <2>7 DEF TxRolledBack
    <2>8. CASE TxCommit
      BY <1>b, <2>8 DEF TxCommit
    <2>9. CASE OpCollect
      BY <1>b, <2>9 DEF OpCollect
    <2>10. CASE OpTimeout
      BY <1>b, <2>10 DEF OpTimeout
    <2> QED BY <1>2, <2>1, <2>2, <2>3, <2>4, <2>5, <2>6, <2>7, <2>8, <2>9,
        <2>10 DEF ServerStep
  <1>3. CASE ShutdownStep
    <2>1. CASE SdDetach
      BY <1>b, <2>1 DEF SdDetach
    <2>2. CASE SdDrain
      BY <1>b, <2>2 DEF SdDrain
    <2>3. CASE SdDone
      BY <1>b, <2>3 DEF SdDone
    <2>4. ASSUME NEW a \in Attempts, SdClose(a) PROVE CallInv'
      BY <1>b, <2>4 DEF SdClose
    <2>5. ASSUME NEW a \in Attempts, SdRelease(a) PROVE CallInv'
      BY <1>b, <2>5 DEF SdRelease
    <2> QED BY <1>3, <2>1, <2>2, <2>3, <2>4, <2>5 DEF ShutdownStep
  <1>4. ASSUME NEW n \in Names, OpStart(n) PROVE CallInv'
    BY <1>b, <1>4 DEF OpStart
  <1>5. CASE ServerStop
    BY <1>b, <1>5 DEF ServerStop
  <1>6. CASE OpQueryAndFinish
    BY <1>b, <1>6 DEF OpQueryAndFinish
  <1>7. CASE OpReap
    BY <1>b, <1>7 DEF OpReap
  <1>8. CASE BeginShutdown
    BY <1>b, <1>8 DEF BeginShutdown
  <1>9. CASE Shutdown
    BY <1>b, <1>9 DEF Shutdown
  <1>10. CASE Over
    BY <1>b, <1>10 DEF Over, vars
  <1>11. CASE UNCHANGED vars
    BY <1>b, <1>11 DEF vars
  <1> QED BY <1>1, <1>2, <1>3, <1>4, <1>5, <1>6, <1>7, <1>8, <1>9, <1>10,
      <1>11 DEF Next

-----------------------------------------------------------------------------
(* Types                                                                   *)

\* The transaction in the server has an owner, a name and an attempt.
LEMMA TxContext ==
  ASSUME TypeOK, LockInv, CommitInv, task # "none"
  PROVE  /\ Owner \in Publishers /\ pc[Owner] = "invoke" /\ req[Owner] \in Request
         /\ TxName \in Names /\ attempts \in Attempts
  <1>1. PICK p \in Publishers : pc[p] = "invoke"
    BY DEF LockInv
  <1>2. Owner = p
    BY <1>1, OwnerIs
  <1> QED BY <1>1, <1>2, ReqName, ObjectModelAssumption
          DEF TypeOK, TxName, CommitInv, Attempts

\* The revision has room for the commit of a transaction in progress.
LEMMA RevisionRoom ==
  ASSUME TypeOK, CommitInv, RevisionInv, task # "none", ~Unreported
  PROVE  revision + 1 <= attempts
  <1>0. /\ attempts \in Int /\ attempts > 0 /\ MaxCalls \in Nat
        /\ \A a \in Attempts : a > attempts => result[a] = "none"
        /\ result[attempts] = "none"
    BY ObjectModelAssumption DEF CommitInv, TypeOK
  <1>1. PublishedCalls \subseteq 1..(attempts - 1)
    <2> SUFFICES ASSUME NEW a \in Attempts, result[a] = "published"
                 PROVE  a \in 1..(attempts - 1)
      BY DEF PublishedCalls
    <2>1. a # attempts /\ ~(a > attempts)
      BY <1>0
    <2> QED BY <1>0, <2>1 DEF Attempts
  <1>2. /\ IsFiniteSet(1..(attempts - 1))
        /\ Cardinality(1..(attempts - 1)) = attempts - 1
    BY <1>0, FS_Interval
  <1>3. Cardinality(PublishedCalls) <= attempts - 1
    BY <1>1, <1>2, FS_Subset
  <1>4. IsFiniteSet(PublishedCalls)
    BY <1>1, <1>2, FS_Subset
  <1> QED BY <1>3, <1>4, FS_CardinalityType, ObjectModelAssumption
          DEF RevisionInv, TypeOK

\* Types are preserved: attempts and revisions stay within the calls made.
LEMMA ModelTypeStep ==
  /\ TypeOK /\ CallInv /\ LockInv /\ CommitInv /\ RevisionInv
  /\ [Next]_vars
  => TypeOK'
  <1> SUFFICES ASSUME TypeOK, CallInv, LockInv, CommitInv, RevisionInv, [Next]_vars
               PROVE  TypeOK' OBVIOUS
  <1> USE ObjectModelAssumption DEF TypeOK, Return, CloseState, spaceVars,
      inventoryVars, publisherVars, txVars, opVars, sdVars
  <1>1. ASSUME NEW p \in Publishers, PublishCall(p) \/ PublisherStep(p) PROVE TypeOK'
    <2>1. CASE PublishCall(p)
      <3>1. PICK r \in Request : req' = [req EXCEPT ![p] = r]
        BY <2>1 DEF PublishCall
      <3>2. req' \in [Publishers -> Request] /\ calls' \in 0..MaxCalls
        BY <2>1, <3>1 DEF PublishCall
      <3> QED BY <2>1, <3>2 DEF PublishCall
    <2>2. CASE PublishLock(p)
      BY <2>2 DEF PublishLock
    <2>3. CASE PublishRefused(p)
      BY <2>3 DEF PublishRefused
    <2>4. CASE PublishConflict(p)
      BY <2>4, ReqName DEF PublishConflict
    <2>5. CASE PublishRepeat(p)
      BY <2>5, ReqName DEF PublishRepeat
    <2>6. CASE PublishDiagnosed(p)
      BY <2>6, ReqName DEF PublishDiagnosed
    <2>7. CASE PublishSubmit(p)
      <3>1. p \in Submitting
        BY <2>7 DEF PublishSubmit, Submitting
      <3>2. attempts + 1 \in Attempts /\ attempts + 1 \in 0..MaxCalls
        BY <3>1, SubmitRoom DEF Attempts
      <3>3. st' \in [Attempts -> {"none", "active", "closing", "closed"}]
        BY <2>7, <3>2 DEF PublishSubmit
      <3>4. ledger' = <<>> /\ committed' = FALSE /\ rollbackComplete' = TRUE
        BY <2>7 DEF PublishSubmit
      <3>6. ledger' \in Seq(1..Parts)
        BY <3>4
      <3>5. pc' \in [Publishers -> {"idle", "call", "locked", "invoke"}]
            /\ task' \in {"none", "queued", "creating", "rollback", "done", "failed"}
        <4>1. pc' = [pc EXCEPT ![p] = "invoke"] /\ task' = "queued"
          BY <2>7 DEF PublishSubmit
        <4> QED BY <4>1
      <3> QED BY <2>7, <3>2, <3>3, <3>4, <3>5, <3>6 DEF PublishSubmit
    <2>8. CASE PublishTimeout(p)
      BY <2>8 DEF PublishTimeout
    <2>9. CASE PublishCommitted(p)
      BY <2>9, ReqName DEF PublishCommitted, Succeeded
    <2>10. CASE PublishFailed(p)
      <3>1. attempts \in Attempts
        BY <2>10, TxContext DEF PublishFailed, Rejected
      <3> QED BY <2>10, <3>1 DEF PublishFailed
    <2> QED BY <1>1, <2>1, <2>2, <2>3, <2>4, <2>5, <2>6, <2>7, <2>8, <2>9,
        <2>10 DEF PublisherStep
  <1>2. CASE ServerStep
    <2>1. CASE TxBegin
      BY <2>1 DEF TxBegin
    <2>2. CASE TxCreate
      <3>1. /\ TxName \in Names /\ attempts \in Attempts
            /\ Len(ledger) \in Nat /\ NextPart \in 1..Parts
        BY <2>2, TxContext DEF TxCreate, NextPart
      <3>2. nodes' \in [Names -> [1..Parts -> 0..MaxCalls]]
        BY <2>2, <3>1 DEF TxCreate, Attempts
      <3>3. ledger' \in Seq(1..Parts)
        BY <2>2, <3>1 DEF TxCreate
      <3> QED BY <2>2, <3>2, <3>3 DEF TxCreate
    <2>3. CASE TxCreateFail
      BY <2>3, TxContext DEF TxCreateFail
    <2>4. CASE TxCreatePartial
      <3>1. /\ TxName \in Names /\ attempts \in Attempts
            /\ Len(ledger) \in Nat /\ NextPart \in 1..Parts
        BY <2>4, TxContext DEF TxCreatePartial, NextPart
      <3>2. nodes' \in [Names -> [1..Parts -> 0..MaxCalls]]
        BY <2>4, <3>1 DEF TxCreatePartial, Attempts
      <3>3. ledger' \in Seq(1..Parts)
        BY <2>4, <3>1 DEF TxCreatePartial
      <3> QED BY <2>4, <3>1, <3>2, <3>3 DEF TxCreatePartial
    <2>5. CASE TxRollbackNode
      <3>1. Len(ledger) \in Nat /\ Len(ledger) > 0 /\ ledger[Len(ledger)] \in 1..Parts
        BY <2>5 DEF TxRollbackNode
      <3>2. ledger' \in Seq(1..Parts)
        <4>1. ledger \in Seq(1..Parts) /\ ledger' = SubSeq(ledger, 1, Len(ledger) - 1)
          BY <2>5 DEF TxRollbackNode
        <4> DEFINE P == 1..Parts
        <4>2. ledger \in Seq(P) /\ Len(ledger) \in Nat /\ Len(ledger) > 0
          BY <3>1, <4>1
        <4> HIDE DEF P
        <4>3. \A i \in 1..(Len(ledger) - 1) : i \in 1..Len(ledger)
          BY <4>2
        <4>4. \A i \in 1..(Len(ledger) - 1) : ledger[i] \in P
          BY <4>2, <4>3, ElementOfSeq
        <4>5. SubSeq(ledger, 1, Len(ledger) - 1) \in Seq(P)
          BY <4>2, <4>4, SubSeqProperties
        <4> QED BY <4>1, <4>5 DEF P
      <3>3. TxName \in Names
        BY <2>5, TxContext DEF TxRollbackNode
      <3>4. nodes' \in [Names -> [1..Parts -> 0..MaxCalls]]
        <4>1. nodes' = nodes
              \/ nodes' = [nodes EXCEPT ![TxName][ledger[Len(ledger)]] = 0]
          BY <2>5 DEF TxRollbackNode
        <4>2. \A k \in 1..Parts :
                [nodes EXCEPT ![TxName][k] = 0] \in [Names -> [1..Parts -> 0..MaxCalls]]
          BY <3>3
        <4> QED BY <3>1, <4>1, <4>2
      <3>5. rollbackComplete' \in BOOLEAN
        BY <2>5 DEF TxRollbackNode
      <3> QED BY <2>5, <3>2, <3>4, <3>5 DEF TxRollbackNode
    <2>6. CASE TxRollbackAbort
      <3>1. ledger' \in Seq(1..Parts)
        BY <2>6 DEF TxRollbackAbort
      <3> QED BY <2>6, <3>1 DEF TxRollbackAbort
    <2>7. CASE TxRolledBack
      BY <2>7 DEF TxRolledBack
    <2>8. CASE TxCommit
      <3>1. /\ req[Owner] \in Request /\ TxName \in Names /\ attempts \in Attempts
        BY <2>8, TxContext DEF TxCommit
      <3>2. components' \in [Names -> Publication \cup {NoPublication}]
        BY <2>8, <3>1 DEF TxCommit, Publication, Request
      <3>3. revision' \in 0..MaxCalls
        BY <2>8, RevisionRoom DEF TxCommit, Unreported, CommitInv
      <3> QED BY <2>8, <3>2, <3>3 DEF TxCommit
    <2>9. CASE OpCollect
      <3>1. op' \in {"none", "running", "finished"} /\ lease' \in 0..MaxCalls
        BY <2>9 DEF OpCollect
      <3>2. dispatching' \in BOOLEAN
        BY <2>9 DEF OpCollect
      <3> QED BY <2>9, <3>1, <3>2 DEF OpCollect
    <2>10. CASE OpTimeout
      BY <2>10 DEF OpTimeout
    <2> QED BY <1>2, <2>1, <2>2, <2>3, <2>4, <2>5, <2>6, <2>7, <2>8, <2>9,
        <2>10 DEF ServerStep
  <1>3. CASE ShutdownStep
    <2>1. CASE SdDetach
      <3>1. Published \subseteq Attempts
        BY PublicationIsSome DEF Published, Publication
      <3>2. components' \in [Names -> Publication \cup {NoPublication}]
        BY <2>1 DEF SdDetach
      <3> QED BY <2>1, <3>1, <3>2 DEF SdDetach
    <2>2. CASE SdDrain
      BY <2>2 DEF SdDrain
    <2>3. CASE SdDone
      BY <2>3 DEF SdDone
    <2>4. ASSUME NEW a \in Attempts, SdClose(a) PROVE TypeOK'
      BY <2>4 DEF SdClose
    <2>5. ASSUME NEW a \in Attempts, SdRelease(a) PROVE TypeOK'
      BY <2>5 DEF SdRelease
    <2> QED BY <1>3, <2>1, <2>2, <2>3, <2>4, <2>5 DEF ShutdownStep
  <1>4. ASSUME NEW n \in Names, OpStart(n) PROVE TypeOK'
    <2>1. components[n].attempt \in Attempts
        BY <1>4 DEF OpStart, Publication
      <2> QED BY <1>4, <2>1 DEF OpStart, Attempts
  <1>5. CASE ServerStop
    <2>1. nodes' \in [Names -> [1..Parts -> 0..MaxCalls]]
      BY <1>5 DEF ServerStop
    <2> QED BY <1>5, <2>1 DEF ServerStop
  <1>6. CASE OpQueryAndFinish
    BY <1>6 DEF OpQueryAndFinish
  <1>7. CASE OpReap
    BY <1>7 DEF OpReap
  <1>8. CASE BeginShutdown
    BY <1>8 DEF BeginShutdown
  <1>9. CASE Shutdown
    BY <1>9 DEF Shutdown
  <1>10. CASE Over
    BY <1>10 DEF Over, vars
  <1>11. CASE UNCHANGED vars
    BY <1>11 DEF vars
  <1> QED BY <1>1, <1>2, <1>3, <1>4, <1>5, <1>6, <1>7, <1>8, <1>9, <1>10,
      <1>11 DEF Next

-----------------------------------------------------------------------------
(* Transactions                                                            *)

\* A step that leaves the transaction, its publisher and its effects alone.
Quiet ==
  /\ UNCHANGED <<spaceVars, components, abandoned, revision, attempts, st, result,
                 txVars, closing>>
  /\ \A p \in Publishers : pc[p] = "invoke" => pc'[p] = "invoke" /\ req'[p] = req[p]

Submitted(p) ==
  PublishSubmit(p) \/ PublishTimeout(p) \/ PublishCommitted(p) \/ PublishFailed(p)

Transaction ==
  \/ TxBegin \/ TxCreate \/ TxCreateFail \/ TxCreatePartial \/ TxRollbackNode
  \/ TxRollbackAbort \/ TxRolledBack \/ TxCommit

\* Every other step is quiet.
LEMMA StepCases ==
  ASSUME TypeOK, [Next]_vars
  PROVE  \/ Quiet \/ (\E p \in Publishers : Submitted(p)) \/ Transaction
         \/ ServerStop \/ SdDetach \/ (\E a \in Attempts : SdClose(a) \/ SdRelease(a))
  <1> DEFINE Goal == \/ Quiet \/ (\E p \in Publishers : Submitted(p)) \/ Transaction
                     \/ ServerStop \/ SdDetach
                     \/ \E a \in Attempts : SdClose(a) \/ SdRelease(a)
  <1> USE DEF Quiet, Return, spaceVars, inventoryVars, publisherVars, txVars,
      opVars, sdVars
  <1>a. /\ pc \in [Publishers -> {"idle", "call", "locked", "invoke"}]
        /\ req \in [Publishers -> Request]
    BY DEF TypeOK
  <1>1. ASSUME NEW p \in Publishers, PublishCall(p) \/ PublisherStep(p) PROVE Goal
    <2>1. CASE PublishCall(p)
      BY <1>a, <2>1 DEF PublishCall
    <2>2. CASE PublishLock(p)
      BY <1>a, <2>2 DEF PublishLock
    <2>3. CASE PublishRefused(p)
      BY <1>a, <2>3 DEF PublishRefused
    <2>4. CASE PublishConflict(p)
      BY <1>a, <2>4 DEF PublishConflict
    <2>5. CASE PublishRepeat(p)
      BY <1>a, <2>5 DEF PublishRepeat
    <2>6. CASE PublishDiagnosed(p)
      BY <1>a, <2>6 DEF PublishDiagnosed
    <2>7. CASE PublishSubmit(p)
      BY <2>7 DEF Submitted
    <2>8. CASE PublishTimeout(p)
      BY <2>8 DEF Submitted
    <2>9. CASE PublishCommitted(p)
      BY <2>9 DEF Submitted
    <2>10. CASE PublishFailed(p)
      BY <2>10 DEF Submitted
    <2> QED BY <1>1, <2>1, <2>2, <2>3, <2>4, <2>5, <2>6, <2>7, <2>8, <2>9,
        <2>10 DEF PublisherStep
  <1>2. CASE ServerStep
    <2>1. CASE TxBegin
      BY <2>1 DEF Transaction
    <2>2. CASE TxCreate
      BY <2>2 DEF Transaction
    <2>3. CASE TxCreateFail
      BY <2>3 DEF Transaction
    <2>4. CASE TxCreatePartial
      BY <2>4 DEF Transaction
    <2>5. CASE TxRollbackNode
      BY <2>5 DEF Transaction
    <2>6. CASE TxRollbackAbort
      BY <2>6 DEF Transaction
    <2>7. CASE TxRolledBack
      BY <2>7 DEF Transaction
    <2>8. CASE TxCommit
      BY <2>8 DEF Transaction
    <2>9. CASE OpCollect
      BY <2>9 DEF OpCollect
    <2>10. CASE OpTimeout
      BY <2>10 DEF OpTimeout
    <2> QED BY <1>2, <2>1, <2>2, <2>3, <2>4, <2>5, <2>6, <2>7, <2>8, <2>9,
        <2>10 DEF ServerStep
  <1>3. CASE ShutdownStep
    <2>1. CASE SdDetach
      BY <2>1
    <2>2. CASE SdDrain
      BY <2>2 DEF SdDrain
    <2>3. CASE SdDone
      BY <2>3 DEF SdDone
    <2>4. ASSUME NEW a \in Attempts, SdClose(a) PROVE Goal
      BY <2>4
    <2>5. ASSUME NEW a \in Attempts, SdRelease(a) PROVE Goal
      BY <2>5
    <2> QED BY <1>3, <2>1, <2>2, <2>3, <2>4, <2>5 DEF ShutdownStep
  <1>4. ASSUME NEW n \in Names, OpStart(n) PROVE Goal
    BY <1>4 DEF OpStart
  <1>5. CASE ServerStop
    BY <1>5
  <1>6. CASE OpQueryAndFinish
    BY <1>6 DEF OpQueryAndFinish
  <1>7. CASE OpReap
    BY <1>7 DEF OpReap
  <1>8. CASE BeginShutdown
    BY <1>8 DEF BeginShutdown
  <1>9. CASE Shutdown
    BY <1>9 DEF Shutdown
  <1>10. CASE Over
    BY <1>10 DEF Over, vars
  <1>11. CASE UNCHANGED vars
    BY <1>11 DEF vars
  <1> QED BY <1>1, <1>2, <1>3, <1>4, <1>5, <1>6, <1>7, <1>8, <1>9, <1>10,
      <1>11 DEF Next


\* The transaction keeps its name while it is in the server.
LEMMA TxNameStays ==
  ASSUME LockInv, LockInv', task # "none", Quiet \/ UNCHANGED <<pc, req>>
  PROVE  TxName' = TxName
  <1>1. CASE UNCHANGED <<pc, req>>
    BY <1>1 DEF TxName, Owner, NameOfReq
  <1>2. CASE Quiet
    <2>1. PICK p \in Publishers : pc[p] = "invoke"
      BY DEF LockInv
    <2>2. pc'[p] = "invoke" /\ req'[p] = req[p]
      BY <1>2, <2>1 DEF Quiet
    <2>3. TxName = NameOfReq(p) /\ TxName' = NameOfReq(p)'
      BY <2>1, <2>2, OwnerIs, OwnerIsNext
    <2> QED BY <2>2, <2>3 DEF NameOfReq
  <1> QED BY <1>1, <1>2

\* Without a publisher that waits there is no transaction.
LEMMA LockedOut ==
  ASSUME LockInv
  PROVE  /\ mutex = {} => task = "none"
         /\ \A p \in Publishers : pc[p] = "locked" => task = "none"
  BY DEF LockInv

\* Attempts are reported once, and published when they committed.
LEMMA CommitStep ==
  TypeOK /\ CallInv /\ LockInv /\ LockInv' /\ CommitInv /\ [Next]_vars => CommitInv'
  <1> SUFFICES ASSUME TypeOK, CallInv, LockInv, LockInv', CommitInv, [Next]_vars
               PROVE  CommitInv' OBVIOUS
  <1>a. /\ attempts \in Nat /\ MaxCalls \in Nat /\ Attempts = 1..MaxCalls
        /\ st \in [Attempts -> {"none", "active", "closing", "closed"}]
        /\ result \in [Attempts -> {"none", "published", "rejected"}]
        /\ task \in {"none", "queued", "creating", "rollback", "done", "failed"}
        /\ components \in [Names -> Publication \cup {NoPublication}]
    BY ObjectModelAssumption DEF TypeOK, Attempts
  <1>b. \A n \in Names : components[n] # NoPublication => components[n].attempt \in Attempts
    BY <1>a DEF Publication
  <1>c. task # "none" => attempts \in Attempts /\ TxName \in Names
    BY TxContext
  <1>d. Quiet \/ UNCHANGED <<pc, req>> => (task # "none" => TxName' = TxName)
    BY TxNameStays
  <1> USE <1>a, <1>b, <1>c, <1>d DEF CommitInv, Unreported, Open, Return,
      CloseState, spaceVars, inventoryVars, publisherVars, txVars, opVars,
      sdVars
  <1>1. CASE Quiet
    BY <1>1 DEF Quiet
  <1>2. ASSUME NEW p \in Publishers, Submitted(p) PROVE CommitInv'
    <2>1. CASE PublishSubmit(p)
      <3>1. task = "none" /\ TxName' = NameOfReq(p)
        <4>1. pc[p] = "locked" /\ pc'[p] = "invoke" /\ req' = req
          BY <2>1 DEF PublishSubmit, TypeOK
        <4> QED BY <4>1, LockedOut, OwnerIsNext DEF NameOfReq
      <3>2. attempts + 1 \in Attempts
        <4>1. p \in Submitting
          BY <2>1 DEF PublishSubmit, Submitting
        <4> QED BY <4>1, SubmitRoom
      <3>3. /\ attempts' = attempts + 1 /\ task' = "queued" /\ ~committed'
            /\ st' = [st EXCEPT ![attempts + 1] = "active"]
            /\ UNCHANGED <<components, result, closing, abandoned>>
            /\ components[TxName'] = NoPublication
        BY <2>1, <3>1 DEF PublishSubmit, NameFree
      <3>4. \A a \in Attempts :
              a > attempts + 1 => st'[a] = "none" /\ result'[a] = "none"
        BY <3>2, <3>3
      <3>5. \A a \in closing \cup abandoned : a <= attempts + 1
        BY DEF TypeOK
      <3>6. result'[attempts + 1] = "none"
        BY <3>2, <3>3
      <3> QED BY <3>1, <3>3, <3>4, <3>5, <3>6
    <2>2. CASE PublishTimeout(p)
      BY <2>2 DEF PublishTimeout
    <2>3. CASE PublishCommitted(p)
      BY <2>3 DEF PublishCommitted, Succeeded
    <2>4. CASE PublishFailed(p)
      BY <2>4 DEF PublishFailed, Rejected
    <2> QED BY <1>2, <2>1, <2>2, <2>3, <2>4 DEF Submitted
  <1>3. CASE Transaction
    <2>1. CASE TxBegin
      BY <2>1 DEF TxBegin
    <2>2. CASE TxCreate
      BY <2>2 DEF TxCreate
    <2>3. CASE TxCreateFail
      BY <2>3 DEF TxCreateFail
    <2>4. CASE TxCreatePartial
      BY <2>4 DEF TxCreatePartial
    <2>5. CASE TxRollbackNode
      BY <2>5 DEF TxRollbackNode
    <2>6. CASE TxRollbackAbort
      BY <2>6 DEF TxRollbackAbort
    <2>7. CASE TxRolledBack
      BY <2>7 DEF TxRolledBack
    <2>8. CASE TxCommit
      <3>1. components' = [components EXCEPT ![TxName] =
              [instance |-> req[Owner].instance, mode |-> req[Owner].mode,
               set |-> req[Owner].set, attempt |-> attempts]]
        BY <2>8 DEF TxCommit
      <3>2. components'[TxName] \in Publication
        BY <3>1, <2>8, TxContext DEF TxCommit, Publication, Request
      <3>3. components'[TxName].attempt = attempts /\ components'[TxName] # NoPublication
        BY <3>1, <3>2, <2>8, PublicationIsSome DEF TxCommit
      <3>4. \A n \in Names : n # TxName => components'[n] = components[n]
        BY <3>1
      <3> QED BY <2>8, <3>3, <3>4 DEF TxCommit
    <2> QED BY <1>3, <2>1, <2>2, <2>3, <2>4, <2>5, <2>6, <2>7,
        <2>8 DEF Transaction
  <1>4. CASE ServerStop
    BY <1>4 DEF ServerStop
  <1>5. CASE SdDetach
    BY <1>5, LockedOut DEF SdDetach, Published
  <1>6. ASSUME NEW a \in Attempts, SdClose(a) PROVE CommitInv'
    BY <1>6 DEF SdClose
  <1>7. ASSUME NEW a \in Attempts, SdRelease(a) PROVE CommitInv'
    BY <1>7 DEF SdRelease
  <1> QED BY <1>1, <1>2, <1>3, <1>4, <1>5, <1>6, <1>7, StepCases

-----------------------------------------------------------------------------
(* The schema revision                                                     *)

\* The revision advances with the commit, the number of reports with the report.
LEMMA RevisionStep ==
  TypeOK /\ LockInv /\ CommitInv /\ RevisionInv /\ [Next]_vars => RevisionInv'
  <1> SUFFICES ASSUME TypeOK, LockInv, CommitInv, RevisionInv, [Next]_vars
               PROVE  RevisionInv' OBVIOUS
  <1>a. /\ task \in {"none", "queued", "creating", "rollback", "done", "failed"}
        /\ result \in [Attempts -> {"none", "published", "rejected"}]
        /\ revision \in Nat
    BY ObjectModelAssumption DEF TypeOK
  <1>b. IsFiniteSet(PublishedCalls) /\ Cardinality(PublishedCalls) \in Nat
    <2>1. PublishedCalls \subseteq 1..MaxCalls /\ IsFiniteSet(1..MaxCalls)
      BY FS_Interval, ObjectModelAssumption DEF PublishedCalls, Attempts
    <2> QED BY <2>1, FS_Subset, FS_CardinalityType
  <1>c. ASSUME PublishedCalls' = PublishedCalls, revision' = revision,
               Unreported' <=> Unreported
        PROVE  RevisionInv'
    BY <1>c DEF RevisionInv
  <1>d. UNCHANGED result => PublishedCalls' = PublishedCalls
    BY DEF PublishedCalls
  <1> USE <1>a, <1>c, <1>d DEF CommitInv, Unreported, Return, CloseState,
      spaceVars, inventoryVars, publisherVars, txVars, opVars, sdVars
  <1>1. CASE Quiet
    BY <1>1 DEF Quiet
  <1>2. ASSUME NEW p \in Publishers, Submitted(p) PROVE RevisionInv'
    <2>1. CASE PublishSubmit(p)
      <3>1. task = "none"
        BY <2>1, LockedOut DEF PublishSubmit
      <3> QED BY <2>1, <3>1 DEF PublishSubmit
    <2>2. CASE PublishTimeout(p)
      BY <2>2 DEF PublishTimeout
    <2>3. CASE PublishCommitted(p)
      <3>1. attempts \in Attempts /\ attempts \notin PublishedCalls /\ Unreported
        BY <2>3, TxContext DEF PublishCommitted, Succeeded, PublishedCalls
      <3>2. PublishedCalls' = PublishedCalls \cup {attempts}
        BY <2>3, <3>1 DEF PublishCommitted, PublishedCalls
      <3>3. Cardinality(PublishedCalls') = Cardinality(PublishedCalls) + 1
        BY <1>b, <3>1, <3>2, FS_AddElement
      <3>4. ~Unreported' /\ revision' = revision
        BY <2>3 DEF PublishCommitted
      <3> QED BY <3>1, <3>3, <3>4 DEF RevisionInv
    <2>4. CASE PublishFailed(p)
      <3>1. attempts \in Attempts /\ attempts \notin PublishedCalls /\ ~Unreported
        BY <2>4, TxContext DEF PublishFailed, Rejected, PublishedCalls
      <3>2. PublishedCalls' = PublishedCalls
        BY <2>4, <3>1 DEF PublishFailed, PublishedCalls
      <3> QED BY <2>4, <3>1, <3>2 DEF PublishFailed
    <2> QED BY <1>2, <2>1, <2>2, <2>3, <2>4 DEF Submitted
  <1>3. CASE Transaction
    <2>1. CASE TxBegin
      BY <2>1 DEF TxBegin
    <2>2. CASE TxCreate
      BY <2>2 DEF TxCreate
    <2>3. CASE TxCreateFail
      BY <2>3 DEF TxCreateFail
    <2>4. CASE TxCreatePartial
      BY <2>4 DEF TxCreatePartial
    <2>5. CASE TxRollbackNode
      BY <2>5 DEF TxRollbackNode
    <2>6. CASE TxRollbackAbort
      BY <2>6 DEF TxRollbackAbort
    <2>7. CASE TxRolledBack
      BY <2>7 DEF TxRolledBack
    <2>8. CASE TxCommit
      <3>1. ~Unreported /\ Unreported' /\ revision' = revision + 1
        BY <2>8 DEF TxCommit
      <3>2. PublishedCalls' = PublishedCalls
        BY <2>8 DEF TxCommit
      <3> QED BY <1>b, <3>1, <3>2 DEF RevisionInv
    <2> QED BY <1>3, <2>1, <2>2, <2>3, <2>4, <2>5, <2>6, <2>7,
        <2>8 DEF Transaction
  <1>4. CASE ServerStop
    BY <1>4 DEF ServerStop
  <1>5. CASE SdDetach
    BY <1>5 DEF SdDetach
  <1>6. ASSUME NEW a \in Attempts, SdClose(a) PROVE RevisionInv'
    BY <1>6 DEF SdClose
  <1>7. ASSUME NEW a \in Attempts, SdRelease(a) PROVE RevisionInv'
    BY <1>7 DEF SdRelease
  <1> QED BY <1>1, <1>2, <1>3, <1>4, <1>5, <1>6, <1>7, StepCases

-----------------------------------------------------------------------------
(* Leases                                                                  *)

\* Only starting an operation takes a lease, only closing it gives it back.
LEMMA LeaseCases ==
  ASSUME TypeOK, [Next]_vars
  PROVE  \/ lease' = lease
         \/ lease' = 0 /\ Quiet
         \/ \E n \in Names : OpStart(n)
  <1> DEFINE Goal == \/ lease' = lease
                     \/ lease' = 0 /\ Quiet
                     \/ \E n \in Names : OpStart(n)
  <1> USE DEF spaceVars, inventoryVars, publisherVars, txVars, opVars, sdVars
  <1>1. ASSUME NEW p \in Publishers, PublishCall(p) \/ PublisherStep(p) PROVE Goal
    <2>1. CASE PublishCall(p)
      BY <2>1 DEF PublishCall
    <2>2. CASE PublishLock(p)
      BY <2>2 DEF PublishLock
    <2>3. CASE PublishRefused(p)
      BY <2>3 DEF PublishRefused
    <2>4. CASE PublishConflict(p)
      BY <2>4 DEF PublishConflict
    <2>5. CASE PublishRepeat(p)
      BY <2>5 DEF PublishRepeat
    <2>6. CASE PublishDiagnosed(p)
      BY <2>6 DEF PublishDiagnosed
    <2>7. CASE PublishSubmit(p)
      BY <2>7 DEF PublishSubmit
    <2>8. CASE PublishTimeout(p)
      BY <2>8 DEF PublishTimeout
    <2>9. CASE PublishCommitted(p)
      BY <2>9 DEF PublishCommitted
    <2>10. CASE PublishFailed(p)
      BY <2>10 DEF PublishFailed
    <2> QED BY <1>1, <2>1, <2>2, <2>3, <2>4, <2>5, <2>6, <2>7, <2>8, <2>9,
        <2>10 DEF PublisherStep
  <1>2. CASE ServerStep
    <2>1. CASE TxBegin
      BY <2>1 DEF TxBegin
    <2>2. CASE TxCreate
      BY <2>2 DEF TxCreate
    <2>3. CASE TxCreateFail
      BY <2>3 DEF TxCreateFail
    <2>4. CASE TxCreatePartial
      BY <2>4 DEF TxCreatePartial
    <2>5. CASE TxRollbackNode
      BY <2>5 DEF TxRollbackNode
    <2>6. CASE TxRollbackAbort
      BY <2>6 DEF TxRollbackAbort
    <2>7. CASE TxRolledBack
      BY <2>7 DEF TxRolledBack
    <2>8. CASE TxCommit
      BY <2>8 DEF TxCommit
    <2>9. CASE OpCollect
      BY <2>9 DEF OpCollect, Quiet
    <2>10. CASE OpTimeout
      BY <2>10 DEF OpTimeout
    <2> QED BY <1>2, <2>1, <2>2, <2>3, <2>4, <2>5, <2>6, <2>7, <2>8, <2>9,
        <2>10 DEF ServerStep
  <1>3. CASE ShutdownStep
    <2>1. CASE SdDetach
      BY <2>1 DEF SdDetach
    <2>2. CASE SdDrain
      BY <2>2 DEF SdDrain
    <2>3. CASE SdDone
      BY <2>3 DEF SdDone
    <2>4. ASSUME NEW a \in Attempts, SdClose(a) PROVE Goal
      BY <2>4 DEF SdClose
    <2>5. ASSUME NEW a \in Attempts, SdRelease(a) PROVE Goal
      BY <2>5 DEF SdRelease
    <2> QED BY <1>3, <2>1, <2>2, <2>3, <2>4, <2>5 DEF ShutdownStep
  <1>4. ASSUME NEW n \in Names, OpStart(n) PROVE Goal
    BY <1>4
  <1>5. CASE ServerStop
    BY <1>5 DEF ServerStop
  <1>6. CASE OpQueryAndFinish
    BY <1>6 DEF OpQueryAndFinish
  <1>7. CASE OpReap
    BY <1>7 DEF OpReap, Quiet
  <1>8. CASE BeginShutdown
    BY <1>8 DEF BeginShutdown
  <1>9. CASE Shutdown
    BY <1>9 DEF Shutdown
  <1>10. CASE Over
    BY <1>10 DEF Over, vars
  <1>11. CASE UNCHANGED vars
    BY <1>11 DEF vars
  <1> QED BY <1>1, <1>2, <1>3, <1>4, <1>5, <1>6, <1>7, <1>8, <1>9, <1>10,
      <1>11 DEF Next

\* A component with a lease is not closed.
LEMMA LeaseStep ==
  TypeOK /\ CallInv /\ LockInv /\ CommitInv /\ LeaseInv /\ [Next]_vars => LeaseInv'
  <1> SUFFICES ASSUME TypeOK, CallInv, LockInv, CommitInv, LeaseInv, [Next]_vars
               PROVE  LeaseInv' OBVIOUS
  <1>a. /\ task \in {"none", "queued", "creating", "rollback", "done", "failed"}
        /\ st \in [Attempts -> {"none", "active", "closing", "closed"}]
        /\ lease \in Nat /\ attempts \in Nat /\ MaxCalls \in Nat
        /\ lease # 0 => lease \in Attempts
        /\ Attempts = 1..MaxCalls
    BY ObjectModelAssumption DEF TypeOK, Attempts
  <1>b. ASSUME NEW n \in Names, OpStart(n) PROVE LeaseInv'
    <2>1. components[n] # NoPublication /\ components[n].attempt \in Attempts
      BY <1>b DEF OpStart, TypeOK, Publication
    <2>2. Open => components[n].attempt # attempts
      BY <2>1 DEF CommitInv, Open
    <2>3. /\ lease' = components[n].attempt /\ st[components[n].attempt] = "active"
          /\ UNCHANGED <<st, attempts, task, committed>>
      BY <1>b DEF OpStart, publisherVars, txVars
    <2> QED BY <2>1, <2>2, <2>3 DEF LeaseInv, Open, Unreported
  <1>c. ASSUME lease' = 0, Quiet PROVE LeaseInv'
    BY <1>c DEF LeaseInv, Open, Unreported, Quiet, txVars, CommitInv
  <1>d. ASSUME lease' = lease PROVE LeaseInv'
    <2> USE <1>a, <1>d DEF LeaseInv, Open, Unreported, CommitInv, Return,
        CloseState, spaceVars, inventoryVars, publisherVars, txVars, opVars,
        sdVars
    <2>1. CASE Quiet
      BY <2>1 DEF Quiet
    <2>2. ASSUME NEW p \in Publishers, Submitted(p) PROVE LeaseInv'
      <3>1. CASE PublishSubmit(p)
        <4>1. task = "none"
          BY <3>1, LockedOut DEF PublishSubmit
        <4>2. p \in Submitting
          BY <3>1 DEF PublishSubmit, Submitting
        <4>3. attempts + 1 \in Attempts
          BY <4>2, SubmitRoom
        <4>4. lease # 0 => lease # attempts + 1
          BY <4>3
        <4> QED BY <3>1, <4>1, <4>3, <4>4 DEF PublishSubmit
      <3>2. CASE PublishTimeout(p)
        BY <3>2 DEF PublishTimeout
      <3>3. CASE PublishCommitted(p)
        BY <3>3 DEF PublishCommitted, Succeeded
      <3>4. CASE PublishFailed(p)
        BY <3>4 DEF PublishFailed, Rejected
      <3> QED BY <2>2, <3>1, <3>2, <3>3, <3>4 DEF Submitted
    <2>3. CASE Transaction
      <3>1. CASE TxBegin
        BY <3>1 DEF TxBegin
      <3>2. CASE TxCreate
        BY <3>2 DEF TxCreate
      <3>3. CASE TxCreateFail
        BY <3>3 DEF TxCreateFail
      <3>4. CASE TxCreatePartial
        BY <3>4 DEF TxCreatePartial
      <3>5. CASE TxRollbackNode
        BY <3>5 DEF TxRollbackNode
      <3>6. CASE TxRollbackAbort
        BY <3>6 DEF TxRollbackAbort
      <3>7. CASE TxRolledBack
        BY <3>7 DEF TxRolledBack
      <3>8. CASE TxCommit
        BY <3>8 DEF TxCommit
      <3> QED BY <2>3, <3>1, <3>2, <3>3, <3>4, <3>5, <3>6, <3>7,
          <3>8 DEF Transaction
    <2>4. CASE ServerStop
      BY <2>4 DEF ServerStop
    <2>5. CASE SdDetach
      BY <2>5 DEF SdDetach
    <2>6. ASSUME NEW a \in Attempts, SdClose(a) PROVE LeaseInv'
      BY <2>6 DEF SdClose
    <2>7. ASSUME NEW a \in Attempts, SdRelease(a) PROVE LeaseInv'
      BY <2>7 DEF SdRelease
    <2> QED BY <2>1, <2>2, <2>3, <2>4, <2>5, <2>6, <2>7, StepCases
  <1> QED BY <1>b, <1>c, <1>d, LeaseCases

-----------------------------------------------------------------------------
(* The address space                                                       *)

\* Nodes are created for the running transaction only, all of them before it
\* commits, and what it leaves behind is closed.
LEMMA SpaceStep ==
  /\ TypeOK /\ CallInv /\ LockInv /\ LockInv' /\ CommitInv /\ SpaceInv
  /\ ShutdownInv
  /\ [Next]_vars
  => SpaceInv'
  <1> SUFFICES ASSUME TypeOK, CallInv, LockInv, LockInv', CommitInv, SpaceInv, ShutdownInv,
                      [Next]_vars
               PROVE  SpaceInv' OBVIOUS
  <1>a. /\ attempts \in Nat /\ MaxCalls \in Nat /\ Attempts = 1..MaxCalls
        /\ Parts \in Nat
        /\ st \in [Attempts -> {"none", "active", "closing", "closed"}]
        /\ task \in {"none", "queued", "creating", "rollback", "done", "failed"}
        /\ nodes \in [Names -> [1..Parts -> 0..MaxCalls]]
        /\ ledger \in Seq(1..Parts)
        /\ components \in [Names -> Publication \cup {NoPublication}]
    BY ObjectModelAssumption DEF TypeOK, Attempts
  <1>c. task # "none" => attempts \in Attempts /\ TxName \in Names
    BY TxContext
  <1>d. Quiet \/ UNCHANGED <<pc, req>> => (task # "none" => TxName' = TxName)
    BY TxNameStays
  <1>e. \A n \in Names, i \in 1..Parts : nodes[n][i] # 0 => nodes[n][i] \in Attempts
    BY <1>a
  <1>f. task \in {"queued", "creating", "rollback"} => components[TxName] = NoPublication
    BY DEF CommitInv, Open, Unreported
  <1> USE <1>a, <1>c, <1>d, <1>e, <1>f
          DEF SpaceInv, Accounted, Return, CloseState, spaceVars,
              inventoryVars, publisherVars, txVars, opVars, sdVars
  <1>1. CASE Quiet
    BY <1>1 DEF Quiet
  <1>2. ASSUME NEW p \in Publishers, Submitted(p) PROVE SpaceInv'
    <2>1. CASE PublishSubmit(p)
      <3>0. p \in Submitting
        BY <2>1 DEF PublishSubmit, Submitting
      <3>1. task = "none" /\ st[attempts + 1] # "closed"
        BY <2>1, <3>0, LockedOut, SubmitRoom DEF PublishSubmit, CommitInv
      <3> QED BY <2>1, <3>1 DEF PublishSubmit
    <2>2. CASE PublishTimeout(p)
      BY <2>2 DEF PublishTimeout
    <2>3. CASE PublishCommitted(p)
      BY <2>3 DEF PublishCommitted, Succeeded
    <2>4. CASE PublishFailed(p)
      BY <2>4 DEF PublishFailed, Rejected
    <2> QED BY <1>2, <2>1, <2>2, <2>3, <2>4 DEF Submitted
  <1>3. CASE Transaction
    <2>1. CASE TxBegin
      BY <2>1 DEF TxBegin
    <2>2. CASE TxCreate
      <3>1. /\ NextPart \in 1..Parts /\ NextPart = Len(ledger) + 1 /\ Len(ledger) \in Nat
            /\ task' = task /\ up' = up /\ up /\ task = "creating"
            /\ UNCHANGED <<components, st, closing, attempts>>
            /\ TxName' = TxName
        BY <2>2 DEF TxCreate, NextPart
      <3>2. Len(ledger') = Len(ledger) + 1
        BY <2>2 DEF TxCreate
      <3>3. /\ nodes'[TxName][NextPart] = attempts
            /\ \A i \in 1..Parts : i # NextPart => nodes'[TxName][i] = nodes[TxName][i]
            /\ \A n \in Names : n # TxName => nodes'[n] = nodes[n]
        BY <2>2, <3>1 DEF TxCreate
      <3>4. \A i \in 1..Len(ledger') : nodes'[TxName][i] = attempts
        <4> SUFFICES ASSUME NEW i \in 1..Len(ledger') PROVE nodes'[TxName][i] = attempts
          OBVIOUS
        <4>1. CASE i = NextPart
          BY <3>3, <4>1
        <4>2. CASE i # NextPart
          <5>1. i \in 1..Len(ledger) /\ i \in 1..Parts
            BY <3>1, <3>2, <4>2
          <5> QED BY <3>1, <3>3, <4>2, <5>1
        <4> QED BY <4>1, <4>2
      <3>5. \A n \in Names : components[n] # NoPublication =>
              \A i \in 1..Parts : nodes'[n][i] = components[n].attempt
        BY <3>1, <3>3
      <3>6. \A n \in Names, i \in 1..Parts :
              nodes'[n][i] # 0 => Accounted(n, nodes'[n][i])
        <4> SUFFICES ASSUME NEW n \in Names, NEW i \in 1..Parts, nodes'[n][i] # 0
                     PROVE  Accounted(n, nodes'[n][i])
          OBVIOUS
        <4>1. CASE n = TxName /\ i = NextPart
          BY <3>1, <3>3, <4>1
        <4>2. CASE ~(n = TxName /\ i = NextPart)
          <5>1. nodes'[n][i] = nodes[n][i]
            BY <3>3, <4>2
          <5>2. Accounted(n, nodes[n][i])
            BY <3>1, <5>1
          <5> QED BY <5>1, <5>2
        <4> QED BY <4>1, <4>2
      <3> QED BY <3>1, <3>2, <3>4, <3>5, <3>6
    <2>3. CASE TxCreateFail
      BY <2>3 DEF TxCreateFail
    <2>4. CASE TxCreatePartial
      <3>1. /\ NextPart \in 1..Parts /\ up' = up /\ up /\ task = "creating"
            /\ task' = "rollback" /\ st' = [st EXCEPT ![attempts] = "closed"]
            /\ UNCHANGED <<components, closing, attempts>>
        BY <2>4 DEF TxCreatePartial, NextPart
      <3>3. /\ nodes'[TxName][NextPart] = attempts
            /\ \A i \in 1..Parts : i # NextPart => nodes'[TxName][i] = nodes[TxName][i]
            /\ \A n \in Names : n # TxName => nodes'[n] = nodes[n]
        BY <2>4, <3>1 DEF TxCreatePartial
      <3>5. \A n \in Names : components[n] # NoPublication =>
              \A i \in 1..Parts : nodes'[n][i] = components[n].attempt
        BY <3>1, <3>3
      <3>7. \A n \in Names, i \in 1..Parts :
              nodes'[n][i] # 0 => Accounted(n, nodes[n][i])'
        <4> SUFFICES ASSUME NEW n \in Names, NEW i \in 1..Parts, nodes'[n][i] # 0
                     PROVE  Accounted(n, nodes[n][i])'
          OBVIOUS
        <4>1. CASE n = TxName /\ i = NextPart
          BY <3>1, <3>3, <4>1
        <4>2. CASE ~(n = TxName /\ i = NextPart)
          <5>1. nodes'[n][i] = nodes[n][i]
            BY <3>3, <4>2
          <5>2. Accounted(n, nodes[n][i]) /\ nodes[n][i] \in Attempts
            BY <3>1, <5>1
          <5> QED BY <3>1, <5>1, <5>2
        <4> QED BY <4>1, <4>2
      <3> QED BY <3>1, <3>5, <3>7
    <2>5. CASE TxRollbackNode
      <3>1. /\ up' = up /\ up /\ task = "rollback" /\ task' = "rollback"
            /\ UNCHANGED <<components, st, closing, attempts>>
            /\ ledger[Len(ledger)] \in 1..Parts
        BY <2>5 DEF TxRollbackNode
      <3>2. nodes' = nodes \/ nodes' = [nodes EXCEPT ![TxName][ledger[Len(ledger)]] = 0]
        BY <2>5 DEF TxRollbackNode
      <3>3. /\ \A i \in 1..Parts : nodes'[TxName][i] \in {0, nodes[TxName][i]}
            /\ \A n \in Names : n # TxName => nodes'[n] = nodes[n]
        <4>1. CASE nodes' = nodes
          BY <4>1
        <4>2. CASE nodes' # nodes
          <5>1. nodes' = [nodes EXCEPT ![TxName][ledger[Len(ledger)]] = 0]
            BY <3>2, <4>2
          <5>2. \A n \in Names : n # TxName => nodes'[n] = nodes[n]
            BY <5>1
          <5>3. nodes'[TxName] = [nodes[TxName] EXCEPT ![ledger[Len(ledger)]] = 0]
            BY <3>1, <5>1
          <5> QED BY <3>1, <5>2, <5>3
        <4> QED BY <4>1, <4>2
      <3>4. \A n \in Names, i \in 1..Parts : nodes'[n][i] \in {0, nodes[n][i]}
        BY <3>3
      <3>5. \A n \in Names : components[n] # NoPublication => n # TxName
        BY <3>1
      <3>7. \A n \in Names, i \in 1..Parts :
              nodes'[n][i] # 0 => Accounted(n, nodes[n][i])'
        <4> SUFFICES ASSUME NEW n \in Names, NEW i \in 1..Parts, nodes'[n][i] # 0
                     PROVE  Accounted(n, nodes[n][i])'
          OBVIOUS
        <4>1. nodes'[n][i] = nodes[n][i] /\ nodes[n][i] \in Attempts
          BY <3>4
        <4>2. Accounted(n, nodes[n][i])
          BY <3>1, <4>1
        <4> QED BY <3>1, <4>1, <4>2
      <3>8. \A n \in Names : components[n] # NoPublication =>
              \A i \in 1..Parts : nodes'[n][i] = components[n].attempt
        BY <3>1, <3>3, <3>5
      <3> QED BY <3>1, <3>7, <3>8
    <2>6. CASE TxRollbackAbort
      BY <2>6 DEF TxRollbackAbort
    <2>7. CASE TxRolledBack
      BY <2>7 DEF TxRolledBack
    <2>8. CASE TxCommit
      <3>1. /\ Len(ledger) = Parts /\ up' = up /\ up /\ task = "creating" /\ task' = "done"
            /\ UNCHANGED <<nodes, st, closing, attempts>>
        BY <2>8 DEF TxCommit, NextPart
      <3>2. /\ components'[TxName].attempt = attempts
            /\ \A n \in Names : n # TxName => components'[n] = components[n]
        BY <2>8 DEF TxCommit
      <3>3. components'[TxName] # NoPublication
        <4>1. components'[TxName] \in Publication
          BY <2>8, TxContext DEF TxCommit, Publication, Request
        <4> QED BY <4>1, PublicationIsSome
      <3>4. \A i \in 1..Parts : nodes[TxName][i] = attempts
        BY <3>1
      <3>5. \A n \in Names : components'[n] # NoPublication =>
              \A i \in 1..Parts : nodes'[n][i] = components'[n].attempt
        <4> SUFFICES ASSUME NEW n \in Names, components'[n] # NoPublication,
                            NEW i \in 1..Parts
                     PROVE  nodes'[n][i] = components'[n].attempt
          OBVIOUS
        <4>1. CASE n = TxName
          BY <4>1, <3>1, <3>2, <3>4
        <4>2. CASE n # TxName
          BY <4>2, <3>1, <3>2
        <4> QED BY <4>1, <4>2
      <3>6. \A n \in Names, i \in 1..Parts :
              nodes'[n][i] # 0 => Accounted(n, nodes[n][i])'
        <4> SUFFICES ASSUME NEW n \in Names, NEW i \in 1..Parts, nodes'[n][i] # 0
                     PROVE  Accounted(n, nodes[n][i])'
          OBVIOUS
        <4>1. CASE n = TxName
          BY <3>1, <3>2, <3>3, <3>4, <4>1
        <4>2. CASE n # TxName
          <5>1. Accounted(n, nodes[n][i]) /\ nodes'[n][i] = nodes[n][i]
            BY <3>1
          <5> QED BY <3>1, <3>2, <4>2, <5>1
        <4> QED BY <4>1, <4>2
      <3> QED BY <3>1, <3>5, <3>6
    <2> QED BY <1>3, <2>1, <2>2, <2>3, <2>4, <2>5, <2>6, <2>7,
        <2>8 DEF Transaction
  <1>4. CASE ServerStop
    BY <1>4 DEF ServerStop
  <1>5. CASE SdDetach
    <2>1. /\ task = "none" /\ closing = {} /\ task' = task
          /\ closing' = Published \cup abandoned
          /\ UNCHANGED <<nodes, up, st>>
          /\ \A n \in Names : components'[n] = NoPublication
      BY <1>5, LockedOut DEF SdDetach, ShutdownInv
    <2>2. \A n \in Names : components[n] # NoPublication =>
            components[n].attempt \in Published
      BY DEF Published
    <2> QED BY <2>1, <2>2
  <1>6. ASSUME NEW a \in Attempts, SdClose(a) PROVE SpaceInv'
    BY <1>6 DEF SdClose
  <1>7. ASSUME NEW a \in Attempts, SdRelease(a) PROVE SpaceInv'
    BY <1>7 DEF SdRelease
  <1> QED BY <1>1, <1>2, <1>3, <1>4, <1>5, <1>6, <1>7, StepCases

-----------------------------------------------------------------------------
(* Shutdown                                                                *)

\* What shutdown() does, and what others leave to it.
LEMMA ShutdownCases ==
  ASSUME TypeOK, ShutdownInv, [Next]_vars
  PROVE  \/ UNCHANGED sdVars
         \/ /\ Quiet /\ (sd' # "idle" => admissionClosed')
            /\ sd' = "finished" => closing = {}
            /\ sd \in {"idle", "lock"} <=> sd' \in {"idle", "lock"}
         \/ SdDetach
         \/ \E a \in Attempts : SdClose(a) \/ SdRelease(a)
  <1> DEFINE Goal == \/ UNCHANGED sdVars
                     \/ /\ Quiet /\ (sd' # "idle" => admissionClosed')
                        /\ sd' = "finished" => closing = {}
                        /\ sd \in {"idle", "lock"} <=> sd' \in {"idle", "lock"}
                     \/ SdDetach
                     \/ \E a \in Attempts : SdClose(a) \/ SdRelease(a)
  <1> USE DEF spaceVars, inventoryVars, publisherVars, txVars, opVars, sdVars
  <1>1. ASSUME NEW p \in Publishers, PublishCall(p) \/ PublisherStep(p) PROVE Goal
    <2>1. CASE PublishCall(p)
      BY <2>1 DEF PublishCall
    <2>2. CASE PublishLock(p)
      BY <2>2 DEF PublishLock
    <2>3. CASE PublishRefused(p)
      BY <2>3 DEF PublishRefused
    <2>4. CASE PublishConflict(p)
      BY <2>4 DEF PublishConflict
    <2>5. CASE PublishRepeat(p)
      BY <2>5 DEF PublishRepeat
    <2>6. CASE PublishDiagnosed(p)
      BY <2>6 DEF PublishDiagnosed
    <2>7. CASE PublishSubmit(p)
      BY <2>7 DEF PublishSubmit
    <2>8. CASE PublishTimeout(p)
      BY <2>8 DEF PublishTimeout
    <2>9. CASE PublishCommitted(p)
      BY <2>9 DEF PublishCommitted
    <2>10. CASE PublishFailed(p)
      BY <2>10 DEF PublishFailed
    <2> QED BY <1>1, <2>1, <2>2, <2>3, <2>4, <2>5, <2>6, <2>7, <2>8, <2>9,
        <2>10 DEF PublisherStep
  <1>2. CASE ServerStep
    <2>1. CASE TxBegin
      BY <2>1 DEF TxBegin
    <2>2. CASE TxCreate
      BY <2>2 DEF TxCreate
    <2>3. CASE TxCreateFail
      BY <2>3 DEF TxCreateFail
    <2>4. CASE TxCreatePartial
      BY <2>4 DEF TxCreatePartial
    <2>5. CASE TxRollbackNode
      BY <2>5 DEF TxRollbackNode
    <2>6. CASE TxRollbackAbort
      BY <2>6 DEF TxRollbackAbort
    <2>7. CASE TxRolledBack
      BY <2>7 DEF TxRolledBack
    <2>8. CASE TxCommit
      BY <2>8 DEF TxCommit
    <2>9. CASE OpCollect
      BY <2>9 DEF OpCollect
    <2>10. CASE OpTimeout
      BY <2>10 DEF OpTimeout
    <2> QED BY <1>2, <2>1, <2>2, <2>3, <2>4, <2>5, <2>6, <2>7, <2>8, <2>9,
        <2>10 DEF ServerStep
  <1>3. CASE ShutdownStep
    <2>1. CASE SdDetach
      BY <2>1
    <2>2. CASE SdDrain
      BY <2>2 DEF SdDrain, Quiet, ShutdownInv
    <2>3. CASE SdDone
      BY <2>3 DEF SdDone, Quiet, ShutdownInv
    <2>4. ASSUME NEW a \in Attempts, SdClose(a) PROVE Goal
      BY <2>4
    <2>5. ASSUME NEW a \in Attempts, SdRelease(a) PROVE Goal
      BY <2>5
    <2> QED BY <1>3, <2>1, <2>2, <2>3, <2>4, <2>5 DEF ShutdownStep
  <1>4. ASSUME NEW n \in Names, OpStart(n) PROVE Goal
    BY <1>4 DEF OpStart
  <1>5. CASE ServerStop
    BY <1>5 DEF ServerStop
  <1>6. CASE OpQueryAndFinish
    BY <1>6 DEF OpQueryAndFinish
  <1>7. CASE OpReap
    BY <1>7 DEF OpReap
  <1>8. CASE BeginShutdown
    BY <1>8 DEF BeginShutdown, Quiet, ShutdownInv
  <1>9. CASE Shutdown
    BY <1>9 DEF Shutdown, Quiet, ShutdownInv
  <1>10. CASE Over
    BY <1>10 DEF Over, vars
  <1>11. CASE UNCHANGED vars
    BY <1>11 DEF vars
  <1> QED BY <1>1, <1>2, <1>3, <1>4, <1>5, <1>6, <1>7, <1>8, <1>9, <1>10,
      <1>11 DEF Next

\* Nothing escapes the list that shutdown() closes.
LEMMA ShutdownInvStep ==
  /\ TypeOK /\ CallInv /\ LockInv /\ LockInv' /\ CommitInv /\ ShutdownInv
  /\ [Next]_vars
  => ShutdownInv'
  <1> SUFFICES ASSUME TypeOK, CallInv, LockInv, LockInv', CommitInv, ShutdownInv,
                      [Next]_vars
               PROVE  ShutdownInv' OBVIOUS
  <1>a. /\ attempts \in Nat /\ MaxCalls \in Nat /\ Attempts = 1..MaxCalls
        /\ st \in [Attempts -> {"none", "active", "closing", "closed"}]
        /\ task \in {"none", "queued", "creating", "rollback", "done", "failed"}
        /\ components \in [Names -> Publication \cup {NoPublication}]
    BY ObjectModelAssumption DEF TypeOK, Attempts
  <1>c. task # "none" => attempts \in Attempts /\ TxName \in Names
    BY TxContext
  <1>e. CASE /\ Quiet /\ (sd' # "idle" => admissionClosed')
             /\ sd' = "finished" => closing = {}
             /\ sd \in {"idle", "lock"} <=> sd' \in {"idle", "lock"}
    BY <1>e DEF ShutdownInv, Quiet, txVars
  <1>f. CASE SdDetach
    <2>1. /\ task = "none" /\ task' = task /\ closing = {} /\ admissionClosed'
          /\ closing' = Published \cup abandoned /\ sd' = "drain" /\ UNCHANGED st
          /\ \A n \in Names : components'[n] = NoPublication
      BY <1>f, LockedOut DEF SdDetach, ShutdownInv, txVars, publisherVars
    <2>2. \A n \in Names : components[n] # NoPublication =>
            components[n].attempt \in Published
      BY DEF Published
    <2> QED BY <2>1, <2>2 DEF ShutdownInv
  <1>g. ASSUME NEW a \in Attempts, SdClose(a) PROVE ShutdownInv'
    BY <1>a, <1>g DEF SdClose, ShutdownInv, inventoryVars, txVars
  <1>h. ASSUME NEW a \in Attempts, SdRelease(a) PROVE ShutdownInv'
    BY <1>a, <1>h DEF SdRelease, ShutdownInv, inventoryVars, txVars
  <1>i. CASE UNCHANGED sdVars
    <2> USE <1>a, <1>c, <1>i DEF ShutdownInv, Return, CloseState, spaceVars,
        inventoryVars, publisherVars, txVars, opVars, sdVars
    <2>1. CASE Quiet
      BY <2>1 DEF Quiet
    <2>2. ASSUME NEW p \in Publishers, Submitted(p) PROVE ShutdownInv'
      <3>1. CASE PublishSubmit(p)
        <4>1. task = "none" /\ sd = "idle"
          BY <3>1, LockedOut DEF PublishSubmit
        <4>2. p \in Submitting
          BY <3>1 DEF PublishSubmit, Submitting
        <4>3. attempts + 1 \in Attempts
          BY <4>2, SubmitRoom
        <4> QED BY <3>1, <4>1, <4>3 DEF PublishSubmit
      <3>2. CASE PublishTimeout(p)
        BY <3>2 DEF PublishTimeout
      <3>3. CASE PublishCommitted(p)
        BY <3>3 DEF PublishCommitted, Succeeded, CommitInv, Unreported
      <3>4. CASE PublishFailed(p)
        BY <3>4 DEF PublishFailed, Rejected
      <3> QED BY <2>2, <3>1, <3>2, <3>3, <3>4 DEF Submitted
    <2>3. CASE Transaction
      <3>1. CASE TxBegin
        BY <3>1 DEF TxBegin
      <3>2. CASE TxCreate
        BY <3>2 DEF TxCreate
      <3>3. CASE TxCreateFail
        BY <3>3 DEF TxCreateFail
      <3>4. CASE TxCreatePartial
        BY <3>4 DEF TxCreatePartial
      <3>5. CASE TxRollbackNode
        BY <3>5 DEF TxRollbackNode
      <3>6. CASE TxRollbackAbort
        BY <3>6 DEF TxRollbackAbort
      <3>7. CASE TxRolledBack
        BY <3>7 DEF TxRolledBack
      <3>8. CASE TxCommit
        <4>1. \A n \in Names : n # TxName => components'[n] = components[n]
          BY <3>8 DEF TxCommit
        <4>2. components[TxName] = NoPublication
          BY <3>8 DEF TxCommit, CommitInv, Open, Unreported
        <4>3. task # "none" /\ task' # "none" /\ UNCHANGED <<st, attempts>>
          BY <3>8 DEF TxCommit
        <4> QED BY <4>1, <4>2, <4>3
      <3> QED BY <2>3, <3>1, <3>2, <3>3, <3>4, <3>5, <3>6, <3>7,
          <3>8 DEF Transaction
    <2>4. CASE ServerStop
      BY <2>4 DEF ServerStop
    <2>5. CASE SdDetach
      BY <1>f, <2>5
    <2>6. ASSUME NEW a \in Attempts, SdClose(a) PROVE ShutdownInv'
      BY <1>g, <2>6
    <2>7. ASSUME NEW a \in Attempts, SdRelease(a) PROVE ShutdownInv'
      BY <1>h, <2>7
    <2> QED BY <2>1, <2>2, <2>3, <2>4, <2>5, <2>6, <2>7, StepCases
  <1> QED BY <1>e, <1>f, <1>g, <1>h, <1>i, ShutdownCases

-----------------------------------------------------------------------------
(* Theorems                                                                *)

\* The invariant holds initially and every step preserves it.
LEMMA ModelInvariant == Spec => []ModelInv
  <1>1. Init => ModelInv
    <2> SUFFICES ASSUME Init PROVE ModelInv OBVIOUS
    <2> USE ObjectModelAssumption
    <2>1. \A p \in Publishers : req[p] \in Request
      <3>1. Request # {}
        <4>1. PICK i \in Instances, s \in Selections : TRUE
          OBVIOUS
        <4>2. [instance |-> i, mode |-> "full", set |-> s] \in Request
          BY DEF Request, Modes
        <4> QED BY <4>2
      <3>2. (CHOOSE r \in Request : TRUE) \in Request
        BY <3>1
      <3> QED BY <3>2 DEF Init
    <2>2. req \in [Publishers -> Request]
      BY <2>1 DEF Init
    <2>3. /\ nodes \in [Names -> [1..Parts -> 0..MaxCalls]]
          /\ components \in [Names -> Publication \cup {NoPublication}]
          /\ pc \in [Publishers -> {"idle", "call", "locked", "invoke"}]
          /\ st \in [Attempts -> {"none", "active", "closing", "closed"}]
          /\ result \in [Attempts -> {"none", "published", "rejected"}]
      BY DEF Init
    <2>4. ledger \in Seq(1..Parts)
      BY DEF Init
    <2>5. TypeOK
      <3>1. /\ revision \in 0..MaxCalls /\ calls \in 0..MaxCalls
            /\ attempts \in 0..MaxCalls /\ lease \in 0..MaxCalls /\ ops \in 0..MaxOps
        BY DEF Init
      <3>2. /\ up \in BOOLEAN /\ admissionClosed \in BOOLEAN /\ committed \in BOOLEAN
            /\ rollbackComplete \in BOOLEAN /\ dispatching \in BOOLEAN
        BY DEF Init
      <3>3. /\ mutex \in SUBSET Publishers
            /\ abandoned \subseteq Attempts /\ closing \subseteq Attempts
            /\ failed \subseteq Names /\ diagnosed \subseteq Names
            /\ task \in {"none", "queued", "creating", "rollback", "done", "failed"}
            /\ op \in {"none", "running", "finished"}
            /\ sd \in {"idle", "lock", "drain", "deactivate", "release", "finished"}
        BY DEF Init
      <3> QED BY <2>2, <2>3, <2>4, <3>1, <3>2, <3>3 DEF TypeOK
    <2>6. CallInv
      <3>1. Submitting = {}
        BY DEF Init, Submitting
      <3> QED BY <3>1, FS_EmptySet DEF Init, CallInv
    <2>7. LockInv /\ LeaseInv
      BY DEF Init, LockInv, LeaseInv, Open
    <2>8. CommitInv
      BY DEF Init, CommitInv, Open, Unreported
    <2>9. RevisionInv
      <3>1. PublishedCalls = {}
        BY DEF Init, PublishedCalls
      <3> QED BY <3>1, FS_EmptySet DEF Init, RevisionInv, Unreported
    <2>10. SpaceInv /\ ShutdownInv
      BY DEF Init, SpaceInv, ShutdownInv
    <2> QED BY <2>5, <2>6, <2>7, <2>8, <2>9, <2>10 DEF ModelInv
  <1>2. ModelInv /\ [Next]_vars => ModelInv'
    BY LockStep, CallStep, ModelTypeStep, CommitStep, LeaseStep, RevisionStep,
       SpaceStep, ShutdownInvStep
    DEF ModelInv
  <1> QED BY <1>1, <1>2, PTL DEF Spec

\* Every variable of the model keeps its type; in particular attempts and
\* revisions never outrun the calls made.
THEOREM ModelTypeCorrect == Spec => []TypeOK
  <1>1. ModelInv => TypeOK
    BY DEF ModelInv
  <1> QED BY <1>1, ModelInvariant, PTL

\* Outside a transaction, the address space holds complete publications and
\* nodes whose callbacks are closed or about to be.
THEOREM AtomicPublication == Spec => []PublicationIsAtomic
  <1>1. ModelInv => PublicationIsAtomic
    BY DEF ModelInv, SpaceInv, Accounted, PublicationIsAtomic
  <1> QED BY <1>1, ModelInvariant, PTL

\* With command_mutex free, every component of the inventory has been reported
\* to its publisher as published.
THEOREM HonestReport == Spec => []ReportMatchesCommit
  <1>1. ModelInv => ReportMatchesCommit
    BY LockedOut DEF ModelInv, CommitInv, Unreported, ReportMatchesCommit
  <1> QED BY <1>1, ModelInvariant, PTL

\* With command_mutex free, the revision is the number of successful calls.
THEOREM RevisionCounts == Spec => []RevisionCountsCommits
  <1>1. ModelInv => RevisionCountsCommits
    <2> SUFFICES ASSUME ModelInv, mutex = {}
                 PROVE  revision = Cardinality(PublishedCalls)
      BY DEF RevisionCountsCommits, PublishedCalls
    <2>1. ~Unreported
      BY LockedOut DEF ModelInv, Unreported
    <2>2. PublishedCalls \subseteq 1..MaxCalls /\ IsFiniteSet(1..MaxCalls)
      BY FS_Interval, ObjectModelAssumption DEF PublishedCalls, Attempts
    <2>3. Cardinality(PublishedCalls) \in Nat
      BY <2>2, FS_Subset, FS_CardinalityType
    <2> QED BY <2>1, <2>3 DEF ModelInv, RevisionInv
  <1> QED BY <1>1, ModelInvariant, PTL

\* A destroyed model has closed every state it ever handed to a node, and no
\* operation holds a lease.
THEOREM DestroyedIsClosed == Spec => []DestroyedModelIsClosed
  <1>1. ModelInv => DestroyedModelIsClosed
    <2> SUFFICES ASSUME ModelInv, sd = "finished"
                 PROVE  lease = 0 /\ \A a \in Attempts : st[a] \in {"none", "closed"}
      BY DEF DestroyedModelIsClosed
    <2>1. \A a \in Attempts : st[a] \notin {"active", "closing"}
      BY DEF ModelInv, ShutdownInv
    <2>2. \A a \in Attempts : st[a] \in {"none", "closed"}
      BY <2>1 DEF ModelInv, TypeOK
    <2>3. lease = 0 \/ lease \in Attempts
      BY ObjectModelAssumption DEF ModelInv, TypeOK, Attempts
    <2> QED BY <2>2, <2>3 DEF ModelInv, LeaseInv
  <1> QED BY <1>1, ModelInvariant, PTL

\* The first publication of a name is only ever removed, by shutdown().
THEOREM FirstWins == Spec => FirstPublicationWins
  <1> DEFINE A == \A n \in Names :
                    components[n] # NoPublication /\ components'[n] # components[n]
                      => sd = "lock" /\ components'[n] = NoPublication
  <1>1. ModelInv /\ [Next]_vars => [A]_vars
    <2> SUFFICES ASSUME ModelInv, [Next]_vars PROVE A OBVIOUS
    <2>1. TypeOK /\ LockInv /\ CommitInv
      BY DEF ModelInv
    <2>2. CASE UNCHANGED components
      BY <2>2
    <2>3. CASE SdDetach
      BY <2>3 DEF SdDetach
    <2>4. CASE TxCommit
      <3>1. components[TxName] = NoPublication
        BY <2>1, <2>4 DEF TxCommit, CommitInv, Open, Unreported
      <3>2. \A n \in Names : n # TxName => components'[n] = components[n]
        BY <2>1, <2>4 DEF TxCommit, TypeOK
      <3> QED BY <3>1, <3>2
    <2>5. UNCHANGED components \/ SdDetach \/ TxCommit
      BY <2>1, StepCases DEF Quiet, Submitted, Transaction, PublishSubmit,
         PublishTimeout, PublishCommitted, PublishFailed, TxBegin, TxCreate,
         TxCreateFail, TxCreatePartial, TxRollbackNode, TxRollbackAbort,
         TxRolledBack, ServerStop, SdClose, SdRelease, inventoryVars
    <2> QED BY <2>2, <2>3, <2>4, <2>5
  <1> QED BY <1>1, ModelInvariant, PTL DEF Spec, FirstPublicationWins

===============================================================================
