----------------------------- MODULE ClientSession -----------------------------
(***************************************************************************)
(* The OPC UA client of a proxy: class ClientSession of                    *)
(* src/src/client_session.cpp.  This module holds its state and its        *)
(* operations; module TaskContextProxy composes them with the threads that *)
(* call them.                                                              *)
(*                                                                         *)
(* mutex_ is held over a whole request, so a request is two steps: one     *)
(* that takes the mutex and passes the checks, one that learns the answer. *)
(* Answers are told apart as the code does: good, a refusal that leaves    *)
(* the interface valid, and everything that invalidates it.  A lost answer *)
(* leaves open whether the server executed the request.  The connection    *)
(* itself belongs to the OPC UA library, which also reopens it within a    *)
(* request, so any request may get any answer.  Messages (last_error_) are *)
(* left out.                                                               *)
(***************************************************************************)
EXTENDS Naturals

VARIABLES
  sess,     \* state_
  access,   \* interface_access_enabled_
  holder    \* holder of mutex_ during a request: a set of at most one thread

sessionVars == <<sess, access, holder>>

SessionState == {"disconnected", "connecting", "connected", "stale"}

SessionInit == sess = "disconnected" /\ access = FALSE /\ holder = {}

-----------------------------------------------------------------------------
(* connect()                                                               *)

ConnectBegin(t) ==
  /\ holder = {} /\ holder' = {t}
  /\ sess' = "connecting"
  /\ UNCHANGED access

\* No endpoint, no Orocos namespace, or no binding for a local datatype.
ConnectFailed(t) ==
  /\ holder = {t} /\ holder' = {}
  /\ sess' = "disconnected"
  /\ UNCHANGED access

ConnectSucceeded(t) ==
  /\ holder = {t} /\ holder' = {}
  /\ sess' = "connected"
  /\ UNCHANGED access

-----------------------------------------------------------------------------
(* readValue(), writeValue(), readPortValue(), writePortValue(), call() and *)
(* callOperation(); only the last one works with access disabled.           *)

Usable(needsAccess) == sess = "connected" /\ (needsAccess => access)

RequestRefused(needsAccess) ==
  /\ holder = {} /\ ~Usable(needsAccess)
  /\ UNCHANGED sessionVars

RequestBegin(t, needsAccess) ==
  /\ holder = {} /\ Usable(needsAccess)
  /\ holder' = {t}
  /\ UNCHANGED <<sess, access>>

Answers == {"good", "refused", "lost"}

\* Mutant: a request that timed out leaves the interface valid.
InvalidatesNothing(answer) == FALSE

\* invalidatesInterface(), an exception, or client_->isConnected() is false.
Invalidates(answer) == answer = "lost"

RequestEnd(t, answer) ==
  /\ holder = {t} /\ holder' = {}
  /\ IF Invalidates(answer)
       THEN access' = FALSE /\ sess' = "stale"
       ELSE UNCHANGED <<access, sess>>

-----------------------------------------------------------------------------
(* readServiceDescription(), discoverOperations(), discoverValues(),        *)
(* discoverPorts() and discoverServices().  They are called one after the   *)
(* other with access disabled; nobody else can have a request then.         *)

Discovered == holder = {} /\ sess = "connected" /\ UNCHANGED sessionVars

\* A bad status or bad metadata leaves the session as it is; an exception
\* on a broken connection makes it stale.
DiscoveryFailed ==
  /\ holder = {} /\ sess = "connected"
  /\ sess' \in {"connected", "stale"}
  /\ UNCHANGED <<access, holder>>

-----------------------------------------------------------------------------
(* setInterfaceAccessEnabled(): closing stores once before the mutex ...    *)

\* Mutant: closing only stores under the mutex.
CloseLater == UNCHANGED sessionVars

CloseGate == access' = FALSE /\ UNCHANGED <<sess, holder>>

\* Mutant: the gate is closed without waiting for the request in progress.
GateAtOnce == TRUE

\* ... and both directions store with it.
GateFree == holder = {}

SetGate(enabled) ==
  /\ GateFree /\ access' = enabled
  /\ UNCHANGED <<sess, holder>>

SessionTypeOK(threads) ==
  /\ sess \in SessionState /\ access \in BOOLEAN
  /\ holder \in SUBSET threads

=============================================================================
