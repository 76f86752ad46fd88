---------------------------- MODULE EscalationWalk ----------------------------
(***************************************************************************)
(* How the policy evaluator finds who can reach a role by assuming roles:  *)
(* findPrincipalsThatCanReachRole (lambdas/policy-evaluator/               *)
(* escalation-detector.ts), a depth-first walk backwards over the trust    *)
(* edges, in the order the graph returned them, with one visited set for   *)
(* the whole walk and a limit on the depth.                                *)
(***************************************************************************)
EXTENDS Integers, Sequences

CONSTANTS
  Principal,
  MaxHops      \* maxEscalationHops, 3 unless the event sets it

ASSUME MaxHopsAssumption == MaxHops \in Nat \ {0}

Trust == [from : Principal, to : Principal]

\* What a walk has done: the principals it expanded, and for each principal
\* the length of the first path it was reported with (0: not reported;
\* deduplicatePaths keeps the first).
Walk == [visited : SUBSET Principal, found : [Principal -> 0 .. MaxHops + 1]]

\* Mutant: marked as visited also when too deep to be expanded.
ReportedVisited(walk, p, hops) ==
  [visited |-> IF hops = MaxHops THEN walk.visited \cup {p} ELSE walk.visited,
   found   |-> IF walk.found[p] = 0 THEN [walk.found EXCEPT ![p] = hops] ELSE walk.found]

Reported(walk, p, hops) ==
  IF walk.found[p] = 0 THEN [walk EXCEPT !.found[p] = hops] ELSE walk

Expanded(walk, p) == [walk EXCEPT !.visited = @ \cup {p}]

\* The guard of dfs: whether a principal is expanded at this depth.
MayExpand(walk, p, depth) == depth <= MaxHops /\ p \notin walk.visited

\* The loop of dfs over the trusts from the i-th on, at a principal being
\* expanded at this depth.
Search(trusts, target) ==
  LET dfs[depth \in 1 .. MaxHops + 1, current \in Principal,
          i \in 1 .. Len(trusts) + 1, walk \in Walk] ==
        IF i > Len(trusts) THEN walk
        ELSE IF trusts[i].to # current THEN dfs[depth, current, i + 1, walk]
        ELSE LET source   == trusts[i].from
                 reported == Reported(walk, source, depth)
             IN  dfs[depth, current, i + 1,
                     IF MayExpand(reported, source, depth + 1)
                     THEN dfs[depth + 1, source, 1, Expanded(reported, source)]
                     ELSE reported]
      start == [visited |-> {target}, found |-> [p \in Principal |-> 0]]
  IN  dfs[1, target, 1, start].found

\* Who the walk reports.
Sources(trusts, target) == {p \in Principal : Search(trusts, target)[p] # 0}

-----------------------------------------------------------------------------
(* What it should report. *)

\* The sources of the chains of exactly n trusts that end at the target.
ChainSources(trusts, target, n) ==
  LET chain[k \in Nat] ==
        IF k = 0 THEN {target}
        ELSE {trusts[i].from : i \in {j \in 1 .. Len(trusts) : trusts[j].to \in chain[k - 1]}}
  IN  chain[n]

WithinHops(trusts, target, n) == UNION {ChainSources(trusts, target, k) : k \in 1 .. n}
=============================================================================
