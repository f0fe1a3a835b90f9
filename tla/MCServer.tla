------------------------------- MODULE MCServer -------------------------------
(* Small instances of Server for TLC.  The callers are interchangeable.     *)
EXTENDS Server, TLC

CallerSymmetry == Permutations(Callers)

=============================================================================
