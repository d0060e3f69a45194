----------------------------- MODULE MCSession ------------------------------
(* Instances of Session for TLC. *)
EXTENDS Session, TLC

CONSTANTS c1, c2, c3, t1, t2

\* Two calls in one tab and one in another.
MCTabOf == c1 :> t1 @@ c2 :> t1 @@ c3 :> t2

\* One call in each of two tabs.
MCTabsApart == c1 :> t1 @@ c3 :> t2

Symmetry == Permutations({c1, c2})
=============================================================================
