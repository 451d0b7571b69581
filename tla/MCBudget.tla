----------------------------- MODULE MCBudget -----------------------------
(***************************************************************************)
(* A demo session with two turn ids, one per persona, its chat requests,   *)
(* one of them with its own key, a one-shot and a critique; a reserve of 2 *)
(* cents against a cap of 3, two turns a day, two days.                    *)
(***************************************************************************)
EXTENDS Budget, TLC

CONSTANTS s1, t1, t2, p1, p2, c1, c2, c3, o1, k1

MCPoolOf == [x \in Sessions \cup OneShots \cup Critiques |-> "demo"]
MCPersonaOf == t1 :> p1 @@ t2 :> p2

\* Swapping the turn ids together with their personas changes nothing.
Swap == t1 :> t2 @@ t2 :> t1 @@ p1 :> p2 @@ p2 :> p1
Symmetry == Permutations(Calls \ ByokCalls) \cup {Swap}
=============================================================================
