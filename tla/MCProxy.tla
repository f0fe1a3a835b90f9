-------------------------------- MODULE MCProxy --------------------------------
(* Model-checking instance of TaskContextProxy.                             *)
EXTENDS TaskContextProxy, TLC

UserSymmetry == Permutations(Users)

=============================================================================
