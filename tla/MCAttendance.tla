---------------------------- MODULE MCAttendance ----------------------------
(* Instances of Attendance for TLC. *)
EXTENDS Attendance, TLC

Symmetry == Permutations(Worker) \union Permutations(Replica) \union Permutations(Request)
=============================================================================
