-------------------------- MODULE MCPolicyEvaluation --------------------------
(* A user, and roles it may assume or pass. *)
EXTENDS PolicyEvaluation, TLC

CONSTANTS u, m, t

MCTrusts ==
  {e \in Trust : <<e.from, e.to>> \in {<<u, m>>, <<u, t>>, <<m, t>>}}
Symmetry == Permutations(Run)

(* Three hops reach everyone.                                              *)
ASSUME WalksFindAll

(* Two changes are explored where runs do not overlap, one where they do. *)
FewChanges == overlap => changes <= 1
=============================================================================
