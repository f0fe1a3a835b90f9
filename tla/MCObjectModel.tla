----------------------------- MODULE MCObjectModel -----------------------------
(* Instances of ObjectModel for TLC: two component instances that share a   *)
(* name, so that every kind of conflict can occur.                          *)
EXTENDS ObjectModel

CONSTANTS i1, i2, n1

SharedName == [i \in {i1, i2} |-> n1]

=============================================================================
