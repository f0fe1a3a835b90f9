----------------------------- MODULE TaskContract -----------------------------
(***************************************************************************)
(* What Server::post and Server::invoke promise (server.hpp, server.cpp):  *)
(* tasks start in the order of their acceptance, one at a time and at most *)
(* once; a task that was given up or discarded never starts; invoke()      *)
(* answers only when its task is not executing, "ok" only for a task that  *)
(* ran and "timedOut" only for one that never will.  A task invoked on     *)
(* the server thread itself runs at once, nested in the running one.       *)
(***************************************************************************)
EXTENDS Naturals

CONSTANT Tasks   \* task numbers, in order of acceptance

VARIABLES
  stage,   \* none, pending, running, ran or dropped
  answer   \* what invoke() returned: none, ok, error or timed out

contractVars == <<stage, answer>>

Init ==
  /\ stage = [t \in Tasks |-> "none"]
  /\ answer = [t \in Tasks |-> "none"]

Move(t, from, to) == stage[t] = from /\ stage' = [stage EXCEPT ![t] = to]
Reply(t, result) == answer[t] = "none" /\ answer' = [answer EXCEPT ![t] = result]

Accept(t) == Move(t, "none", "pending") /\ UNCHANGED answer

Begin(t) ==
  /\ \A u \in Tasks : stage[u] # "running" /\ (u < t => stage[u] # "pending")
  /\ Move(t, "pending", "running")
  /\ UNCHANGED answer

End(t) == Move(t, "running", "ran") /\ UNCHANGED answer

RunInline(t) ==
  /\ Move(t, "none", "ran")
  /\ \E result \in {"ok", "error"} : Reply(t, result)

\* The tasks of S are discarded together, when the server stops or fails.
Discard(S) ==
  /\ S # {} /\ \A t \in S : stage[t] = "pending"
  /\ stage' = [t \in Tasks |-> IF t \in S THEN "dropped" ELSE stage[t]]
  /\ UNCHANGED answer

TimeOut(t) == Move(t, "pending", "dropped") /\ Reply(t, "timedOut")

\* The caller is told the result of its task.
Answer(t) ==
  /\ \/ stage[t] = "ran" /\ \E result \in {"ok", "error"} : Reply(t, result)
     \/ stage[t] = "dropped" /\ Reply(t, "error")
  /\ UNCHANGED stage

Next ==
  \/ \E t \in Tasks : \/ Accept(t) \/ Begin(t) \/ End(t) \/ RunInline(t)
                      \/ TimeOut(t) \/ Answer(t)
  \/ \E S \in SUBSET Tasks : Discard(S)

Spec == Init /\ [][Next]_contractVars

=============================================================================
