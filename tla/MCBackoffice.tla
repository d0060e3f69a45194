---------------------------- MODULE MCBackoffice -----------------------------
(* Two handlers for each service, and the calls each of them needs for its   *)
(* interesting cases.                                                        *)
EXTENDS Backoffice

MCMaxCalls ==
    [assets |-> 5, expenses |-> 4, onboarding |-> 4, shifts |-> 3, recruitment |-> 5,
     performance |-> 4, learning |-> 6, employees |-> 4, mfa |-> 5, pages |-> 4]

\* The keys are those of assignments, slots, goals and secrets alike.
Symmetry == Permutations(Worker) \union Permutations(Employee) \union Permutations(Assignment)
=============================================================================
