---------------------------- MODULE MCGraphStore ----------------------------
(* Two accounts with a resource each, both linked to one shared vertex, and *)
(* a cross-account link from b to a.                                        *)
EXTENDS GraphStore, TLC

CONSTANTS a, b, s, A, B, ra1, ra2, rb

MCOwner     == [x \in Resource |-> CASE x = a -> A [] x = b -> B [] x = s -> Shared]
MCLink      == {<<x, y>> \in {<<a, s>>, <<b, s>>, <<b, a>>} : x \in Resource /\ y \in Resource}
MCAccountOf == [r \in Run |-> IF r = rb THEN B ELSE A]

Symmetry == Permutations({ra1, ra2})

(* Account B is explored apart from overlapping runs and from events: where *)
(* runs of A overlap it has neither resources nor runs; elsewhere b stays   *)
(* linked, and while its run is there the incremental collector writes      *)
(* nothing.                                                                 *)
OneDisturbance ==
  /\ overlap => aws[b] = Gone /\ pc[rb] = "idle" /\ changes <= 1
  /\ ~overlap => aws[b] = "linked"
  /\ pc[rb] # "idle" => changes <= 1 /\ \A e \in events : e.step = "queued"
=============================================================================
