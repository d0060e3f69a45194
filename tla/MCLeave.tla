------------------------------ MODULE MCLeave -------------------------------
(* Instances of Leave for TLC. *)
EXTENDS LeaveRefinement, TLC

Symmetry == Permutations(Worker) \union Permutations(Request)
=============================================================================
