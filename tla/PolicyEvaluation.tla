--------------------------- MODULE PolicyEvaluation ---------------------------
(***************************************************************************)
(* The policy evaluator (lambdas/policy-evaluator/index.ts): one run       *)
(* resolves what each principal of the graph may do, writes it back, walks *)
(* the trust edges and the pass-role grants for escalations, writes each   *)
(* as a vertex and a link, and last drops the escalations whose            *)
(* detected_at is before its own start.  The graph changes under it, runs  *)
(* fail, and the scheduled run and the recompute worker's may overlap.     *)
(***************************************************************************)
EXTENDS EscalationWalk, FiniteSets

CONSTANTS
  Passable,    \* the roles that trust a compute service
  Trusts,      \* the TRUSTS edges the graph may hold
  Run,
  None,
  MaxChanges   \* bound on the changes of the graph

Gone   == "gone"                      \* the principal has no vertex
Grant  == {"none", "pass", "admin"}   \* what its policies resolve to
Found  == Principal \X Principal \X {"assume", "pass"}

ASSUME GraphAssumption == Passable \subseteq Principal /\ Trusts \subseteq Trust
ASSUME RunsAssumption == MaxChanges \in Nat
ASSUME NoneAssumption == None \notin Nat /\ None \notin Grant \cup {Gone} /\ None \notin Found

VARIABLES
  policy,   \* the collected policies of each principal, or Gone
  trusts,   \* the collected TRUSTS edges
  perm,     \* the EffectivePermission vertices
  isAdmin,  \* the principals whose own vertex says is_admin
  path,     \* detected_at of the EscalationPath vertices
  link,     \* detected_at of the CAN_ESCALATE_TO edges
  clock,
  changes,  \* changes made so far
  run,      \* what each run holds
  held,     \* history: what has held in the graph since each run started
  overlap,  \* runs may be active together: never changes
  alone     \* history: only this run has acted since it started

vars == <<policy, trusts, perm, isAdmin, path, link, clock, changes, run, held,
          overlap, alone>>
graphVars == <<policy, trusts, changes>>
history == <<held, overlap, alone>>

Active == {"principals", "trusts", "roles", "admins", "writing", "paths", "links"}

RunState ==
  [pc       : Active \cup {"idle", "done", "failed"},
   started  : Nat,
   todo     : SUBSET Principal,                   \* fetched, not yet evaluated
   read     : [Principal -> Grant \cup {None}],   \* policies fetched
   trusts   : SUBSET Trust,                       \* trust edges fetched
   found    : [Found -> Nat \cup {None}],         \* escalations detected, and when
   unlinked : Found \cup {None},                  \* path written, link to follow
   left     : SUBSET Found]                       \* not yet written

TypeOK ==
  /\ policy \in [Principal -> Grant \cup {Gone}]
  /\ trusts \subseteq Trust
  /\ perm \in [Principal -> Grant \cup {None}]
  /\ isAdmin \subseteq Principal
  /\ path \in [Found -> Nat \cup {None}]
  /\ link \in [Found -> Nat \cup {None}]
  /\ clock \in Nat
  /\ changes \in Nat
  /\ run \in [Run -> RunState]
  /\ held \in [Run -> SUBSET Found]
  /\ overlap \in BOOLEAN
  /\ alone \in [Run -> BOOLEAN]

Present(pol) == {p \in Principal : pol[p] # Gone}
Between(pol) == {t \in Trusts : t.from \in Present(pol) /\ t.to \in Present(pol)}

Init ==
  /\ policy \in [Principal -> Grant \cup {Gone}]
  /\ trusts \in SUBSET Between(policy)
  /\ perm = [p \in Principal |-> None]
  /\ isAdmin = {}
  /\ path = [f \in Found |-> None]
  /\ link = [f \in Found |-> None]
  /\ clock = 0
  /\ changes = 0
  /\ run = [r \in Run |->
       [pc |-> "idle", started |-> 0, todo |-> {}, read |-> [p \in Principal |-> None],
        trusts |-> {}, found |-> [f \in Found |-> None], unlinked |-> None, left |-> {}]]
  /\ held = [r \in Run |-> {}]
  /\ overlap \in BOOLEAN
  /\ alone = [r \in Run |-> FALSE]

-----------------------------------------------------------------------------
(* Detection. *)

\* The lists the graph may return a set of trust edges as.
Orders(S) ==
  {ts \in [1 .. Cardinality(S) -> S] : \A i, j \in DOMAIN ts : ts[i] = ts[j] => i = j}

\* Who may assume its way to a role that is admin, or that may escalate.
AssumeFound(ts, permission) ==
  {f \in Found : /\ f[3] = "assume"
                 /\ permission[f[2]] \in {"pass", "admin"}
                 /\ f[1] \in Sources(ts, f[2])}

\* Who may pass an admin role to a service that runs as it.  An admin has
\* nothing to escalate to.
PassFound(read, admins) ==
  {f \in Found : /\ f[3] = "pass"
                 /\ read[f[1]] = "pass"
                 /\ f[2] \in admins \cap Passable
                 /\ f[1] # f[2]}

Stamped(found, S, at) == [f \in Found |-> IF f \in S THEN at ELSE found[f]]

\* Who reaches a role over at most MaxHops trusts, stated without the walk.
Reach(S, q) ==
  {p \in Principal : \E order \in Orders(S) : p \in WithinHops(order, q, MaxHops)}

\* The walk over any of the trusts, in any order, finds who reaches the role.
\* It does where chains are no longer than MaxHops: see WalkIsExact in MCAlgorithms.
WalksFindAll ==
  \A S \in SUBSET Trusts, q \in Principal :
    /\ \A ts \in Orders(S) : Sources(ts, q) = Reach(S, q)
    /\ \A p \in Reach(S, q) : \E t1, t2 \in S : t1.from = p /\ t2.to = q

\* What a graph's policies and trusts make possible.
Holds(pol, ts) ==
  {f \in Found :
     CASE f[3] = "assume" -> pol[f[2]] \in {"pass", "admin"} /\ f[1] \in Reach(ts, f[2])
       [] f[3] = "pass" ->
            pol[f[1]] = "pass" /\ pol[f[2]] = "admin" /\ f[2] \in Passable}

-----------------------------------------------------------------------------
(* The collector. *)

\* A collection changes the policies of a principal, or adds or drops it; its
\* edges, and is_admin with the vertex, go with it.
ChangePolicy(p, grant) ==
  /\ changes < MaxChanges
  /\ policy[p] # grant
  /\ policy' = [policy EXCEPT ![p] = grant]
  /\ trusts' = trusts \cap Between(policy')
  /\ isAdmin' = isAdmin \cap Present(policy')
  /\ link' = [f \in Found |-> IF {f[1], f[2]} \subseteq Present(policy') THEN link[f] ELSE None]
  /\ changes' = changes + 1
  /\ held' = [r \in Run |-> held[r] \cap Holds(policy', trusts')]
  /\ alone' = [r \in Run |-> FALSE]
  /\ UNCHANGED <<perm, path, clock, run, overlap>>

ChangeTrust(t) ==
  /\ changes < MaxChanges
  /\ t \in Between(policy)
  /\ trusts' = IF t \in trusts THEN trusts \ {t} ELSE trusts \cup {t}
  /\ changes' = changes + 1
  /\ held' = [r \in Run |-> held[r] \cap Holds(policy, trusts')]
  /\ alone' = [r \in Run |-> FALSE]
  /\ UNCHANGED <<policy, perm, isAdmin, path, link, clock, run, overlap>>

-----------------------------------------------------------------------------
(* A run. *)

At(r, pc) == run[r].pc = pc
Others(r) == {q \in Run \ {r} : run[q].pc \in Active}

Start(r) ==
  /\ At(r, "idle")
  /\ overlap \/ Others(r) = {}
  /\ clock' = clock + 1
  /\ run' = [run EXCEPT ![r].pc = "principals", ![r].started = clock',
                        ![r].todo = Present(policy)]
  /\ held' = [held EXCEPT ![r] = Holds(policy, trusts)]
  /\ alone' = [q \in Run |-> q = r /\ Others(r) = {}]
  /\ UNCHANGED <<graphVars, perm, isAdmin, path, link, overlap>>

\* fetchPoliciesForPrincipal; a principal dropped since has no policies.
ReadPolicies(r, p) ==
  /\ At(r, "principals")
  /\ p \in run[r].todo
  /\ \A q \in run[r].todo : run[r].read[q] = None
  /\ run' = [run EXCEPT ![r].read[p] = IF policy[p] = Gone THEN "none" ELSE policy[p]]
  /\ UNCHANGED <<graphVars, perm, isAdmin, path, link, clock, history>>

\* writeEffectivePermission: the permission's vertex, and is_admin on the
\* principal's own if that is still there.
WritePermission(r, p) ==
  /\ At(r, "principals")
  /\ p \in run[r].todo /\ run[r].read[p] # None
  /\ perm' = [perm EXCEPT ![p] = run[r].read[p]]
  /\ isAdmin' = IF run[r].read[p] = "admin" THEN isAdmin \cup ({p} \cap Present(policy))
                ELSE isAdmin \ {p}
  /\ run' = [run EXCEPT ![r].todo = @ \ {p}]
  /\ UNCHANGED <<graphVars, path, link, clock, history>>

FetchTrusts(r) ==
  /\ At(r, "principals")
  /\ run[r].todo = {}
  /\ run' = [run EXCEPT ![r].pc = "roles", ![r].trusts = trusts]
  /\ UNCHANGED <<graphVars, perm, isAdmin, path, link, clock, history>>

\* fetchRolesWithPermissions, and the walk: stamped when it is made.
DetectAssume(r) ==
  /\ At(r, "roles")
  /\ clock' = clock + 1
  /\ \E ts \in Orders(run[r].trusts) :
       run' = [run EXCEPT ![r].pc = "admins",
                          ![r].found = Stamped(@, AssumeFound(ts, perm), clock')]
  /\ UNCHANGED <<graphVars, perm, isAdmin, path, link, history>>

\* fetchPassableAdminRoles: stamped with the start of the run.
DetectPass(r) ==
  /\ At(r, "admins")
  /\ LET found == Stamped(run[r].found, PassFound(run[r].read, isAdmin), run[r].started)
     IN  run' = [run EXCEPT ![r].pc = "writing", ![r].found = found,
                            ![r].left = {f \in Found : found[f] # None}]
  /\ UNCHANGED <<graphVars, perm, isAdmin, path, link, clock, history>>

\* writeEscalationPath, then writeEscalationEdge for the same escalation.
WritePath(r, f) ==
  /\ At(r, "writing")
  /\ run[r].unlinked = None /\ f \in run[r].left
  /\ path' = [path EXCEPT ![f] = run[r].found[f]]
  /\ run' = [run EXCEPT ![r].unlinked = f, ![r].left = @ \ {f}]
  /\ UNCHANGED <<graphVars, perm, isAdmin, link, clock, history>>

\* A link is refreshed where it is, or added if both principals are there.
WriteLink(r, f) ==
  /\ At(r, "writing")
  /\ run[r].unlinked = f
  /\ link' = [link EXCEPT ![f] =
       IF @ # None \/ {f[1], f[2]} \subseteq Present(policy) THEN run[r].found[f] ELSE None]
  /\ run' = [run EXCEPT ![r].unlinked = None]
  /\ UNCHANGED <<graphVars, perm, isAdmin, path, clock, history>>

\* Mutants: what is stamped with the start itself is dropped too; only the
\* vertices are dropped.
StaleStampInclusive(at, r) == at # None /\ at <= run[r].started
DropLinksForgotten(r) ==
  /\ At(r, "links")
  /\ run' = [run EXCEPT ![r].pc = "done"]
  /\ UNCHANGED <<graphVars, perm, isAdmin, path, link, clock, history>>

\* What a drop removes: not stamped at or after the start of the run.
StaleStamp(at, r) == at # None /\ at < run[r].started

\* dropStaleEscalations, the vertices and then the edges.
DropPaths(r) ==
  /\ At(r, "writing")
  /\ run[r].left = {} /\ run[r].unlinked = None
  /\ path' = [f \in Found |-> IF StaleStamp(path[f], r) THEN None ELSE path[f]]
  /\ run' = [run EXCEPT ![r].pc = "links"]
  /\ UNCHANGED <<graphVars, perm, isAdmin, link, clock, history>>

DropLinks(r) ==
  /\ At(r, "links")
  /\ link' = [f \in Found |-> IF StaleStamp(link[f], r) THEN None ELSE link[f]]
  /\ run' = [run EXCEPT ![r].pc = "done"]
  /\ UNCHANGED <<graphVars, perm, isAdmin, path, clock, history>>

\* A read or a write that fails ends the run.
Fail(r) ==
  /\ run[r].pc \in Active
  /\ run' = [run EXCEPT ![r].pc = "failed"]
  /\ UNCHANGED <<graphVars, perm, isAdmin, path, link, clock, history>>

Evaluate(r) ==
  \/ Start(r) \/ FetchTrusts(r) \/ DetectAssume(r) \/ DetectPass(r)
  \/ DropPaths(r) \/ DropLinks(r) \/ Fail(r)
  \/ \E p \in Principal : ReadPolicies(r, p) \/ WritePermission(r, p)
  \/ \E f \in Found : WritePath(r, f) \/ WriteLink(r, f)

Next ==
  \/ \E p \in Principal, grant \in Grant \cup {Gone} : ChangePolicy(p, grant)
  \/ \E t \in Trusts : ChangeTrust(t)
  \/ \E r \in Run : Evaluate(r)

Spec == Init /\ [][Next]_vars
-----------------------------------------------------------------------------
(* What an evaluation promises. *)

\* A complete run that nothing interleaved with leaves exactly the escalations
\* the graph makes possible, each with its link, whatever earlier runs left,
\* also runs that failed halfway (index.ts:60-130, 383-397).
EvaluationMirrorsGraph ==
  \A r \in Run :
    At(r, "done") /\ alone[r] =>
      /\ {f \in Found : path[f] # None} = Holds(policy, trusts)
      /\ {f \in Found : link[f] # None} = Holds(policy, trusts)
      /\ isAdmin = {p \in Principal : policy[p] = "admin"}

\* However the graph changes while a run reads it, the run ends, where runs do
\* not overlap, with every escalation that was possible all along still
\* recorded, so that no issue is resolved whose cause never went away
\* (index.ts:383-397).
WhatHoldsIsKept ==
  [][\A r \in Run : ~overlap /\ At(r, "links") /\ run'[r].pc = "done" =>
       held[r] \subseteq {f \in Found : path'[f] # None /\ link'[f] # None}]_vars

\* "Admin roles a compute service can assume; is_admin was written this run"
\* (index.ts:203): where runs do not overlap, a role a pass-role escalation
\* ends at was resolved as an admin by the run that reports it.
AdminsWrittenThisRun ==
  \A r \in Run, f \in Found :
    ~overlap /\ f[3] = "pass" /\ run[r].found[f] # None => run[r].read[f[2]] = "admin"

\* An undisturbed evaluation is exact, and so is, where runs do not overlap, what a
\* run reports of the roles it ends at (index.ts:60-130, 203).
EvaluationIsExact == TypeOK /\ EvaluationMirrorsGraph /\ AdminsWrittenThisRun

\* "Removes paths and links this run did not re-detect, so their issues
\* resolve" (index.ts:383): what the run did detect it does not remove.
OnlyUndetectedDropped ==
  [][\A r \in Run, f \in Found :
       /\ \/ At(r, "writing") /\ run'[r].pc = "links" /\ path[f] # None /\ path'[f] = None
          \/ At(r, "links") /\ run'[r].pc = "done" /\ link[f] # None /\ link'[f] = None
       => run[r].found[f] = None]_vars
=============================================================================
