--------------------------- MODULE PolicyEvaluation_proofs ---------------------------
(***************************************************************************)
(* Proofs about the policy evaluator: whatever fails and whatever earlier  *)
(* runs left, an undisturbed evaluation leaves exactly the escalations the *)
(* graph allows, and what was possible all along is never dropped.         *)
(*                                                                         *)
(* Both rest on WalksFindAll, which says of the constants only that the    *)
(* walk over the trust edges misses nobody; what the recursive walk finds  *)
(* is checked in MCAlgorithms (WalkIsExact).  What the evaluator makes of  *)
(* any policy documents is what IAM says of them (PolicyEffects).          *)
(***************************************************************************)
EXTENDS PolicyEvaluation, PolicyEffects, FiniteSetTheorems, TLAPS

Busy(r) == run[r].pc \in Active

(* Trusts and marks of admins go with the principals they are about.       *)
GraphIsWhole == trusts \subseteq Between(policy) /\ isAdmin \subseteq Present(policy)

(* While another run is active, a run is not alone, and where runs do not  *)
(* overlap it is not active itself.                                        *)
TakeTurns ==
  \A r, q \in Run : r # q /\ Busy(q) => ~alone[r] /\ (~overlap => ~Busy(r))

(* No stamp is ahead of the clock, and what a run finds it stamps no       *)
(* earlier than its own start.                                             *)
Clocked ==
  /\ \A f \in Found : path[f] # None => path[f] <= clock
  /\ \A f \in Found : link[f] # None => link[f] <= clock
  /\ \A r \in Run : run[r].started <= clock
  /\ \A r \in Run, f \in Found :
       run[r].found[f] # None => run[r].started <= run[r].found[f] /\ run[r].found[f] <= clock

(* The run read one of the grants for the principal, or is yet to read it. *)
Suits(r, p, grants) ==
  \/ run[r].read[p] \in grants
  \/ run[r].read[p] = None /\ p \in run[r].todo

(* What a run has gathered at each of its stages.                          *)
Progress(r) ==
  /\ run[r].pc = "idle" =>
       /\ held[r] = {} /\ ~alone[r] /\ run[r].unlinked = None /\ run[r].left = {}
       /\ \A p \in Principal : run[r].read[p] = None
  /\ run[r].pc \in {"idle", "principals", "roles"} => \A f \in Found : run[r].found[f] = None
  /\ run[r].pc \in Active \ {"principals"} => run[r].todo = {}
  /\ run[r].pc = "roles" => run[r].trusts \subseteq Trusts
  /\ run[r].pc = "admins" => \A f \in Found : run[r].found[f] # None => f[3] = "assume"
  /\ \A f \in run[r].left : run[r].found[f] # None

(* What has held since the run started, it read so, whenever it did.       *)
ReadsHeld(r) ==
  /\ held[r] \subseteq Holds(policy, trusts)
  /\ Busy(r) => \A f \in held[r] :
       IF f[3] = "assume" THEN Suits(r, f[2], {"pass", "admin"})
       ELSE Suits(r, f[1], {"pass"}) /\ Suits(r, f[2], {"admin"})
  /\ run[r].pc = "roles" =>
       \A f \in held[r] : f[3] = "assume" => f[1] \in Reach(run[r].trusts, f[2])

(* What the run has written back is what it read: the permissions and the  *)
(* admins of which its own detection is made.                              *)
Resolved(r) ==
  /\ \A p \in Principal \ run[r].todo : run[r].read[p] # None => perm[p] = run[r].read[p]
  /\ \A p \in isAdmin \ run[r].todo : run[r].read[p] = "admin"
  /\ \A f \in held[r] : f[3] = "pass" => f[2] \in run[r].todo \cup isAdmin

(* What has held since the run started, it detects.                        *)
Detected(r) ==
  /\ run[r].pc \in {"admins", "writing", "links"} =>
       \A f \in held[r] : f[3] = "assume" => run[r].found[f] # None
  /\ run[r].pc \in {"writing", "links"} => \A f \in held[r] : run[r].found[f] # None

(* What the run detected carries the run's own stamp once written.         *)
Written(r) ==
  /\ run[r].pc \in {"writing", "links"} =>
       /\ \A f \in Found \ run[r].left : run[r].found[f] # None => path[f] = run[r].found[f]
       /\ \A f \in held[r] \ run[r].left : run[r].unlinked = f \/ link[f] = run[r].found[f]
  /\ run[r].pc = "links" => run[r].left = {} /\ run[r].unlinked = None

(* Where only this run acted since it started, what it read is the graph,  *)
(* what it detected is what holds, and any other path or link is older     *)
(* than its start, to be dropped.                                          *)
Alone(r) ==
  /\ held[r] = Holds(policy, trusts)
  /\ Busy(r) =>
       /\ run[r].todo \subseteq Present(policy)
       /\ \A p \in Principal : IF run[r].read[p] = None
                               THEN p \in Present(policy) => p \in run[r].todo
                               ELSE policy[p] = run[r].read[p]
       /\ \A p \in Principal \ run[r].todo : run[r].read[p] = "admin" => p \in isAdmin
       /\ run[r].pc = "roles" => run[r].trusts = trusts
       /\ \A f \in Found : run[r].found[f] # None => f \in held[r]
       /\ \A f \in Found : \/ path[f] \in {None, run[r].found[f]}
                           \/ path[f] < run[r].started /\ run[r].pc # "links"
       /\ \A f \in Found : link[f] \in {None, run[r].found[f]} \/ link[f] < run[r].started

RunInv(r) ==
  /\ Progress(r) /\ ReadsHeld(r)
  /\ Busy(r) /\ (~overlap \/ alone[r]) => Resolved(r) /\ Detected(r) /\ Written(r)
  /\ alone[r] => Alone(r)

EvaluationInv ==
  /\ TypeOK /\ GraphIsWhole /\ TakeTurns /\ Clocked
  /\ \A r \in Run : RunInv(r)
  /\ EvaluationMirrorsGraph /\ AdminsWrittenThisRun

-----------------------------------------------------------------------------
(* What may hold, and of whom. *)

(* An escalation names a source, a target and a kind.                      *)
LEMMA FoundOf ==
  ASSUME NEW f \in Found
  PROVE  f[1] \in Principal /\ f[2] \in Principal /\ f[3] \in {"assume", "pass"}
BY DEF Found

(* When an escalation holds, by its kind.                                  *)
LEMMA HoldsWhen ==
  ASSUME NEW pol, NEW ts, NEW f \in Found
  PROVE  f \in Holds(pol, ts) <=>
           \/ f[3] = "assume" /\ pol[f[2]] \in {"pass", "admin"} /\ f[1] \in Reach(ts, f[2])
           \/ f[3] = "pass" /\ pol[f[1]] = "pass" /\ pol[f[2]] = "admin" /\ f[2] \in Passable
<1>1. CASE f[3] = "assume"
  BY <1>1, FoundOf DEF Holds, Reach
<1>2. CASE f[3] = "pass"
  BY <1>2, FoundOf DEF Holds
<1> QED
  BY <1>1, <1>2, FoundOf

(* Both principals of an escalation that holds are in the graph.           *)
LEMMA HoldsPresent ==
  ASSUME WalksFindAll, NEW pol \in [Principal -> Grant \cup {Gone}], NEW ts,
         ts \subseteq Between(pol), NEW f \in Holds(pol, ts)
  PROVE  f \in Found /\ {f[1], f[2]} \subseteq Present(pol)
<1>1. f \in Found
  BY DEF Holds
<1>2. CASE f[3] = "assume"
  <2>1. ts \in SUBSET Trusts /\ f[1] \in Reach(ts, f[2]) /\ f[2] \in Principal
    BY <1>1, <1>2, HoldsWhen, FoundOf DEF Between
  <2>2. PICK t1 \in ts, t2 \in ts : t1.from = f[1] /\ t2.to = f[2]
    BY <2>1 DEF WalksFindAll
  <2> QED
    BY <1>1, <2>2 DEF Between
<1>3. CASE f[3] = "pass"
  BY <1>1, <1>3, HoldsWhen, FoundOf DEF Present, Gone
<1> QED
  BY <1>1, <1>2, <1>3, FoundOf

-----------------------------------------------------------------------------
(* What each step makes of the run that takes it. *)

RunSteps(r) == run' \in [Run -> RunState] /\ \A q \in Run \ {r} : run'[q] = run[q]

(* What a run holds has its type.                                          *)
LEMMA FieldsOf ==
  ASSUME TypeOK, NEW r \in Run
  PROVE  /\ run[r].pc \in Active \cup {"idle", "done", "failed"} /\ run[r].started \in Nat
         /\ run[r].todo \subseteq Principal /\ run[r].read \in [Principal -> Grant \cup {None}]
         /\ run[r].trusts \subseteq Trust /\ run[r].found \in [Found -> Nat \cup {None}]
         /\ run[r].unlinked \in Found \cup {None} /\ run[r].left \subseteq Found
         /\ run[r] \in RunState
BY DEF TypeOK, RunState

(* handler begins: the principals it is to read, and its own start.        *)
LEMMA StartStep ==
  ASSUME TypeOK, NEW r \in Run, Start(r)
  PROVE  /\ RunSteps(r)
         /\ run'[r].pc = "principals"
         /\ run'[r].started = clock'
         /\ run'[r].todo = Present(policy)
         /\ run'[r].read = run[r].read
         /\ run'[r].trusts = run[r].trusts
         /\ run'[r].found = run[r].found
         /\ run'[r].unlinked = run[r].unlinked
         /\ run'[r].left = run[r].left
<1>1. clock' \in Nat /\ Present(policy) \subseteq Principal
  BY DEF TypeOK, Start, Present
<1>2. run' = [run EXCEPT ![r] =
        [run[r] EXCEPT !.pc = "principals", !.started = clock', !.todo = Present(policy)]]
  BY DEF TypeOK, Start
<1>3. /\ run'[r] = [run[r] EXCEPT !.pc = "principals", !.started = clock', !.todo = Present(policy)]
      /\ \A q \in Run \ {r} : run'[q] = run[q]
  BY <1>2 DEF TypeOK
<1>4. "principals" \in Active \cup {"idle", "done", "failed"}
  BY DEF Active
<1>5. run'[r] \in RunState
  BY ZenonT(60), <1>3, FieldsOf, <1>1, <1>4 DEF RunState
<1> QED
  BY <1>2, <1>3, <1>5, FieldsOf DEF TypeOK, RunSteps, RunState

(* fetchPoliciesForPrincipal adds to what the run has read.                *)
LEMMA ReadPoliciesStep ==
  ASSUME TypeOK, NEW r \in Run, NEW p \in Principal, ReadPolicies(r, p)
  PROVE  /\ RunSteps(r)
         /\ run'[r].pc = run[r].pc
         /\ run'[r].started = run[r].started
         /\ run'[r].todo = run[r].todo
         /\ run'[r].read = [run[r].read EXCEPT ![p] = IF policy[p] = Gone THEN "none" ELSE policy[p]]
         /\ run'[r].trusts = run[r].trusts
         /\ run'[r].found = run[r].found
         /\ run'[r].unlinked = run[r].unlinked
         /\ run'[r].left = run[r].left
<1>1. [run[r].read EXCEPT ![p] = IF policy[p] = Gone THEN "none" ELSE policy[p]]
        \in [Principal -> Grant \cup {None}]
  BY FieldsOf DEF TypeOK, Grant
<1>2. run' = [run EXCEPT ![r] =
        [run[r] EXCEPT !.read = [run[r].read EXCEPT ![p] = IF policy[p] = Gone THEN "none" ELSE policy[p]]]]
  BY DEF TypeOK, ReadPolicies
<1>3. /\ run'[r] = [run[r] EXCEPT !.read = [run[r].read EXCEPT ![p] = IF policy[p] = Gone THEN "none" ELSE policy[p]]]
      /\ \A q \in Run \ {r} : run'[q] = run[q]
  BY <1>2 DEF TypeOK
<1>5. run'[r] \in RunState
  BY <1>3, FieldsOf, <1>1 DEF RunState
<1> QED
  BY <1>2, <1>3, <1>5, FieldsOf DEF TypeOK, RunSteps, RunState

(* writeEffectivePermission takes the principal off the list.              *)
LEMMA WritePermissionStep ==
  ASSUME TypeOK, NEW r \in Run, NEW p \in Principal, WritePermission(r, p)
  PROVE  /\ RunSteps(r)
         /\ run'[r].pc = run[r].pc
         /\ run'[r].started = run[r].started
         /\ run'[r].todo = run[r].todo \ {p}
         /\ run'[r].read = run[r].read
         /\ run'[r].trusts = run[r].trusts
         /\ run'[r].found = run[r].found
         /\ run'[r].unlinked = run[r].unlinked
         /\ run'[r].left = run[r].left
<1>2. run' = [run EXCEPT ![r] = [run[r] EXCEPT !.todo = run[r].todo \ {p}]]
  BY DEF TypeOK, WritePermission
<1>3. /\ run'[r] = [run[r] EXCEPT !.todo = run[r].todo \ {p}]
      /\ \A q \in Run \ {r} : run'[q] = run[q]
  BY <1>2 DEF TypeOK
<1>5. run'[r] \in RunState
  BY <1>3, FieldsOf DEF RunState
<1> QED
  BY <1>2, <1>3, <1>5, FieldsOf DEF TypeOK, RunSteps, RunState

(* fetchTrustEdges keeps the trusts as they are then.                      *)
LEMMA FetchTrustsStep ==
  ASSUME TypeOK, NEW r \in Run, FetchTrusts(r)
  PROVE  /\ RunSteps(r)
         /\ run'[r].pc = "roles"
         /\ run'[r].started = run[r].started
         /\ run'[r].todo = run[r].todo
         /\ run'[r].read = run[r].read
         /\ run'[r].trusts = trusts
         /\ run'[r].found = run[r].found
         /\ run'[r].unlinked = run[r].unlinked
         /\ run'[r].left = run[r].left
<1>1. trusts \subseteq Trust
  BY DEF TypeOK
<1>2. run' = [run EXCEPT ![r] = [run[r] EXCEPT !.pc = "roles", !.trusts = trusts]]
  BY DEF TypeOK, FetchTrusts
<1>3. /\ run'[r] = [run[r] EXCEPT !.pc = "roles", !.trusts = trusts]
      /\ \A q \in Run \ {r} : run'[q] = run[q]
  BY <1>2 DEF TypeOK
<1>4. "roles" \in Active \cup {"idle", "done", "failed"}
  BY DEF Active
<1>5. run'[r] \in RunState
  BY <1>3, FieldsOf, <1>1, <1>4 DEF RunState
<1> QED
  BY <1>2, <1>3, <1>5, FieldsOf DEF TypeOK, RunSteps, RunState

(* The pass-role detection completes what is found, all of it left to write. *)
LEMMA DetectPassStep ==
  ASSUME TypeOK, NEW r \in Run, DetectPass(r)
  PROVE  /\ RunSteps(r)
         /\ run'[r].pc = "writing"
         /\ run'[r].started = run[r].started
         /\ run'[r].todo = run[r].todo
         /\ run'[r].read = run[r].read
         /\ run'[r].trusts = run[r].trusts
         /\ run'[r].found = Stamped(run[r].found, PassFound(run[r].read, isAdmin), run[r].started)
         /\ run'[r].unlinked = run[r].unlinked
         /\ run'[r].left = {f \in Found : run'[r].found[f] # None}
<1> DEFINE found == Stamped(run[r].found, PassFound(run[r].read, isAdmin), run[r].started)
           left == {f \in Found : found[f] # None}
<1>1. found \in [Found -> Nat \cup {None}] /\ left \subseteq Found
  BY FieldsOf DEF Stamped
<1>2. run' = [run EXCEPT ![r] = [run[r] EXCEPT !.pc = "writing", !.found = found, !.left = left]]
  BY DEF TypeOK, DetectPass
<1> HIDE DEF found, left
<1>3. /\ run'[r] = [run[r] EXCEPT !.pc = "writing", !.found = found, !.left = left]
      /\ \A q \in Run \ {r} : run'[q] = run[q]
  BY <1>2 DEF TypeOK
<1>4. "writing" \in Active
  BY DEF Active
<1>5. run'[r] \in RunState
  BY ZenonT(60), <1>1, <1>3, <1>4, FieldsOf DEF RunState
<1>6. run'[r].found = found /\ run'[r].left = left
  BY <1>3, FieldsOf DEF RunState
<1> QED
  BY <1>2, <1>3, <1>5, <1>6, FieldsOf DEF TypeOK, RunSteps, RunState, found, left

(* writeEscalationPath leaves the link of the path to be written.          *)
LEMMA WritePathStep ==
  ASSUME TypeOK, NEW r \in Run, NEW f \in Found, WritePath(r, f)
  PROVE  /\ RunSteps(r)
         /\ run'[r].pc = run[r].pc
         /\ run'[r].started = run[r].started
         /\ run'[r].todo = run[r].todo
         /\ run'[r].read = run[r].read
         /\ run'[r].trusts = run[r].trusts
         /\ run'[r].found = run[r].found
         /\ run'[r].unlinked = f
         /\ run'[r].left = run[r].left \ {f}
<1>2. run' = [run EXCEPT ![r] = [run[r] EXCEPT !.unlinked = f, !.left = run[r].left \ {f}]]
  BY DEF TypeOK, WritePath
<1>3. /\ run'[r] = [run[r] EXCEPT !.unlinked = f, !.left = run[r].left \ {f}]
      /\ \A q \in Run \ {r} : run'[q] = run[q]
  BY <1>2 DEF TypeOK
<1>4. run[r].left \ {f} \subseteq Found /\ f \in Found \cup {None}
  BY FieldsOf
<1>5. run'[r] \in RunState
  BY ZenonT(60), <1>3, <1>4, FieldsOf DEF RunState
<1> QED
  BY <1>2, <1>3, <1>5, FieldsOf DEF TypeOK, RunSteps, RunState

(* writeEscalationEdge leaves no path without its link.                    *)
LEMMA WriteLinkStep ==
  ASSUME TypeOK, NEW r \in Run, NEW f \in Found, WriteLink(r, f)
  PROVE  /\ RunSteps(r)
         /\ run'[r].pc = run[r].pc
         /\ run'[r].started = run[r].started
         /\ run'[r].todo = run[r].todo
         /\ run'[r].read = run[r].read
         /\ run'[r].trusts = run[r].trusts
         /\ run'[r].found = run[r].found
         /\ run'[r].unlinked = None
         /\ run'[r].left = run[r].left
<1>2. run' = [run EXCEPT ![r] = [run[r] EXCEPT !.unlinked = None]]
  BY DEF TypeOK, WriteLink
<1>3. /\ run'[r] = [run[r] EXCEPT !.unlinked = None]
      /\ \A q \in Run \ {r} : run'[q] = run[q]
  BY <1>2 DEF TypeOK
<1>5. run'[r] \in RunState
  BY <1>3, FieldsOf DEF RunState
<1> QED
  BY <1>2, <1>3, <1>5, FieldsOf DEF TypeOK, RunSteps, RunState

(* The drop of the vertices is followed by that of the edges.              *)
LEMMA DropPathsStep ==
  ASSUME TypeOK, NEW r \in Run, DropPaths(r)
  PROVE  /\ RunSteps(r)
         /\ run'[r].pc = "links"
         /\ run'[r].started = run[r].started
         /\ run'[r].todo = run[r].todo
         /\ run'[r].read = run[r].read
         /\ run'[r].trusts = run[r].trusts
         /\ run'[r].found = run[r].found
         /\ run'[r].unlinked = run[r].unlinked
         /\ run'[r].left = run[r].left
<1>2. run' = [run EXCEPT ![r] = [run[r] EXCEPT !.pc = "links"]]
  BY DEF TypeOK, DropPaths
<1>3. /\ run'[r] = [run[r] EXCEPT !.pc = "links"]
      /\ \A q \in Run \ {r} : run'[q] = run[q]
  BY <1>2 DEF TypeOK
<1>4. "links" \in Active \cup {"idle", "done", "failed"}
  BY DEF Active
<1>5. run'[r] \in RunState
  BY <1>3, FieldsOf, <1>4 DEF RunState
<1> QED
  BY <1>2, <1>3, <1>5, FieldsOf DEF TypeOK, RunSteps, RunState

(* The drop of the edges ends the run.                                     *)
LEMMA DropLinksStep ==
  ASSUME TypeOK, NEW r \in Run, DropLinks(r)
  PROVE  /\ RunSteps(r)
         /\ run'[r].pc = "done"
         /\ run'[r].started = run[r].started
         /\ run'[r].todo = run[r].todo
         /\ run'[r].read = run[r].read
         /\ run'[r].trusts = run[r].trusts
         /\ run'[r].found = run[r].found
         /\ run'[r].unlinked = run[r].unlinked
         /\ run'[r].left = run[r].left
<1>2. run' = [run EXCEPT ![r] = [run[r] EXCEPT !.pc = "done"]]
  BY DEF TypeOK, DropLinks
<1>3. /\ run'[r] = [run[r] EXCEPT !.pc = "done"]
      /\ \A q \in Run \ {r} : run'[q] = run[q]
  BY <1>2 DEF TypeOK
<1>4. "done" \in Active \cup {"idle", "done", "failed"}
  BY DEF Active
<1>5. run'[r] \in RunState
  BY <1>3, FieldsOf, <1>4 DEF RunState
<1> QED
  BY <1>2, <1>3, <1>5, FieldsOf DEF TypeOK, RunSteps, RunState

(* A failed query ends the run with what it holds.                         *)
LEMMA FailStep ==
  ASSUME TypeOK, NEW r \in Run, Fail(r)
  PROVE  /\ RunSteps(r)
         /\ run'[r].pc = "failed"
         /\ run'[r].started = run[r].started
         /\ run'[r].todo = run[r].todo
         /\ run'[r].read = run[r].read
         /\ run'[r].trusts = run[r].trusts
         /\ run'[r].found = run[r].found
         /\ run'[r].unlinked = run[r].unlinked
         /\ run'[r].left = run[r].left
<1>2. run' = [run EXCEPT ![r] = [run[r] EXCEPT !.pc = "failed"]]
  BY DEF TypeOK, Fail
<1>3. /\ run'[r] = [run[r] EXCEPT !.pc = "failed"]
      /\ \A q \in Run \ {r} : run'[q] = run[q]
  BY <1>2 DEF TypeOK
<1>4. "failed" \in Active \cup {"idle", "done", "failed"}
  BY DEF Active
<1>5. run'[r] \in RunState
  BY <1>3, FieldsOf, <1>4 DEF RunState
<1> QED
  BY <1>2, <1>3, <1>5, FieldsOf DEF TypeOK, RunSteps, RunState

(* The walk is made over some order of the trusts that were read.          *)
LEMMA DetectAssumeStep ==
  ASSUME TypeOK, NEW r \in Run, DetectAssume(r)
  PROVE  \E ts \in Orders(run[r].trusts) :
           /\ RunSteps(r)
           /\ run'[r].pc = "admins"
           /\ run'[r].started = run[r].started
           /\ run'[r].todo = run[r].todo
           /\ run'[r].read = run[r].read
           /\ run'[r].trusts = run[r].trusts
           /\ run'[r].found = Stamped(run[r].found, AssumeFound(ts, perm), clock')
           /\ run'[r].unlinked = run[r].unlinked
           /\ run'[r].left = run[r].left
<1>1. PICK ts \in Orders(run[r].trusts) :
         run' = [run EXCEPT ![r].pc = "admins",
                            ![r].found = Stamped(@, AssumeFound(ts, perm), clock')]
  BY DEF DetectAssume
<1> DEFINE found == Stamped(run[r].found, AssumeFound(ts, perm), clock')
<1>2. run' = [run EXCEPT ![r] = [run[r] EXCEPT !.pc = "admins", !.found = found]]
  BY <1>1 DEF TypeOK
<1>3. found \in [Found -> Nat \cup {None}]
  BY FieldsOf DEF Stamped, DetectAssume, TypeOK
<1> HIDE DEF found
<1>4. /\ run'[r] = [run[r] EXCEPT !.pc = "admins", !.found = found]
      /\ \A q \in Run \ {r} : run'[q] = run[q]
  BY <1>2 DEF TypeOK
<1>5. "admins" \in Active
  BY DEF Active
<1>6. run'[r] \in RunState
  BY <1>3, <1>4, <1>5, FieldsOf DEF RunState
<1> QED
  BY <1>2, <1>4, <1>6, FieldsOf DEF TypeOK, RunSteps, RunState, found

(* The graph as first collected has the types.                             *)
LEMMA InitType == Init => TypeOK
<1> SUFFICES ASSUME Init PROVE TypeOK
  OBVIOUS
<1>1. \A r \in Run : run[r] \in RunState
  BY DEF Init, RunState, Active
<1>2. run \in [Run -> RunState]
  BY <1>1 DEF Init
<1>3. policy \in [Principal -> Grant \cup {Gone}] /\ trusts \subseteq Trust
  BY GraphAssumption DEF Init, Between
<1> QED
  BY <1>2, <1>3, RunsAssumption DEF Init, TypeOK

(* A change of the graph keeps the types.                                  *)
LEMMA CollectorType ==
  ASSUME TypeOK,
         \/ \E p \in Principal, grant \in Grant \cup {Gone} : ChangePolicy(p, grant)
         \/ \E t \in Trusts : ChangeTrust(t)
  PROVE  TypeOK'
<1>1. ASSUME NEW p \in Principal, NEW grant \in Grant \cup {Gone}, ChangePolicy(p, grant)
      PROVE  TypeOK'
  BY <1>1 DEF TypeOK, ChangePolicy, Present, Between
<1>2. ASSUME NEW t \in Trusts, ChangeTrust(t)
      PROVE  TypeOK'
  BY <1>2, GraphAssumption DEF TypeOK, ChangeTrust
<1> QED
  BY <1>1, <1>2

(* Every step keeps the types.                                             *)
LEMMA StepType == TypeOK /\ [Next]_vars => TypeOK'
<1> SUFFICES ASSUME TypeOK, [Next]_vars PROVE TypeOK'
  OBVIOUS
<1>1. CASE UNCHANGED vars
  BY <1>1 DEF TypeOK, vars
<1>2. ASSUME NEW r \in Run, Evaluate(r)
      PROVE  TypeOK'
  <2> USE DEF graphVars, history
  <2>1. CASE Start(r)
    <3>1. /\ clock' \in Nat /\ UNCHANGED <<policy, trusts, changes, perm, isAdmin, path, link, overlap>>
          /\ held' = [held EXCEPT ![r] = Holds(policy, trusts)]
          /\ alone' = [q \in Run |-> q = r /\ Others(r) = {}]
      BY <2>1 DEF Start, TypeOK
    <3>2. held' \in [Run -> SUBSET Found]
      BY <3>1 DEF TypeOK, Holds
    <3>3. run' \in [Run -> RunState]
      BY <2>1, StartStep DEF RunSteps
    <3>4. alone' \in [Run -> BOOLEAN]
      BY <3>1
    <3> QED
      BY <3>1, <3>2, <3>3, <3>4 DEF TypeOK
  <2>2. ASSUME NEW p \in Principal, ReadPolicies(r, p)
        PROVE  TypeOK'
    BY <2>2, ReadPoliciesStep DEF TypeOK, ReadPolicies, RunSteps
  <2>3. ASSUME NEW p \in Principal, WritePermission(r, p)
        PROVE  TypeOK'
    <3>1. perm' \in [Principal -> Grant \cup {None}] /\ isAdmin' \subseteq Principal
      BY <2>3, FieldsOf DEF TypeOK, WritePermission
    <3> QED
      BY <2>3, <3>1, WritePermissionStep DEF TypeOK, WritePermission, RunSteps
  <2>4. CASE FetchTrusts(r)
    BY <2>4, FetchTrustsStep DEF TypeOK, FetchTrusts, RunSteps
  <2>5. CASE DetectAssume(r)
    <3>1. run' \in [Run -> RunState]
      BY <2>5, DetectAssumeStep DEF RunSteps
    <3>2. clock' \in Nat /\ UNCHANGED <<policy, trusts, changes, perm, isAdmin, path, link, held, overlap, alone>>
      BY <2>5 DEF DetectAssume, TypeOK
    <3> QED
      BY <3>1, <3>2 DEF TypeOK
  <2>6. CASE DetectPass(r)
    BY <2>6, DetectPassStep DEF TypeOK, DetectPass, RunSteps
  <2>7. ASSUME NEW f \in Found, WritePath(r, f)
        PROVE  TypeOK'
    <3>1. path' \in [Found -> Nat \cup {None}]
      BY <2>7, FieldsOf DEF TypeOK, WritePath
    <3> QED
      BY <2>7, <3>1, WritePathStep DEF TypeOK, WritePath, RunSteps
  <2>8. ASSUME NEW f \in Found, WriteLink(r, f)
        PROVE  TypeOK'
    <3>1. link' \in [Found -> Nat \cup {None}]
      BY <2>8, FieldsOf DEF TypeOK, WriteLink
    <3> QED
      BY <2>8, <3>1, WriteLinkStep DEF TypeOK, WriteLink, RunSteps
  <2>9. CASE DropPaths(r)
    BY <2>9, DropPathsStep DEF TypeOK, DropPaths, RunSteps
  <2>10. CASE DropLinks(r)
    BY <2>10, DropLinksStep DEF TypeOK, DropLinks, RunSteps
  <2>11. CASE Fail(r)
    BY <2>11, FailStep DEF TypeOK, Fail, RunSteps
  <2> QED
    BY <1>2, <2>1, <2>2, <2>3, <2>4, <2>5, <2>6, <2>7, <2>8, <2>9, <2>10, <2>11 DEF Evaluate
<1> QED
  BY <1>1, <1>2, CollectorType DEF Next

-----------------------------------------------------------------------------
(* The collector. *)

(* Both principals of what has held since a run started are in the graph.  *)
LEMMA HeldPresent ==
  ASSUME WalksFindAll, EvaluationInv, NEW r \in Run, NEW f \in held[r]
  PROVE  f \in Found /\ {f[1], f[2]} \subseteq Present(policy)
<1>1. f \in Holds(policy, trusts)
  BY DEF EvaluationInv, RunInv, ReadsHeld
<1> QED
  BY <1>1, HoldsPresent DEF EvaluationInv, TypeOK, GraphIsWhole

Collector ==
  \/ \E p \in Principal, grant \in Grant \cup {Gone} : ChangePolicy(p, grant)
  \/ \E t \in Trusts : ChangeTrust(t)

(* What a change of the graph does to the rest.                            *)
GraphChanges ==
  /\ UNCHANGED <<run, clock, perm, path, overlap>>
  /\ trusts' \subseteq Between(policy') /\ isAdmin' = isAdmin \cap Present(policy')
  /\ \A f \in Found :
       link'[f] = link[f] \/ (link'[f] = None /\ ~({f[1], f[2]} \subseteq Present(policy')))
  /\ \A r \in Run : held'[r] = held[r] \cap Holds(policy', trusts') /\ ~alone'[r]

(* The collector's writes are changes of that kind.                        *)
LEMMA CollectorSteps ==
  ASSUME EvaluationInv, Collector
  PROVE  GraphChanges
<1>1. ASSUME NEW p \in Principal, NEW grant \in Grant \cup {Gone}, ChangePolicy(p, grant)
      PROVE  GraphChanges
  BY <1>1 DEF ChangePolicy, GraphChanges
<1>2. ASSUME NEW t \in Trusts, ChangeTrust(t)
      PROVE  GraphChanges
  BY <1>2 DEF ChangeTrust, GraphChanges, EvaluationInv, GraphIsWhole, Between
<1> QED
  BY <1>1, <1>2 DEF Collector

(* A change of the graph only takes from what a run must still find.       *)
LEMMA CollectorInv ==
  ASSUME WalksFindAll, EvaluationInv, Collector
  PROVE  EvaluationInv'
<1>0. TypeOK /\ TypeOK' /\ Clocked /\ TakeTurns /\ AdminsWrittenThisRun /\ \A r \in Run : RunInv(r)
  BY CollectorType DEF EvaluationInv, Collector
<1>1. GraphChanges
  BY CollectorSteps
<1> USE DEF GraphChanges
<1>2. GraphIsWhole'
  BY <1>1 DEF GraphIsWhole
<1>3. TakeTurns'
  BY <1>0, <1>1 DEF TakeTurns, Busy
<1>4. Clocked'
  BY <1>0, <1>1 DEF Clocked
<1>5. EvaluationMirrorsGraph' /\ AdminsWrittenThisRun'
  BY <1>0, <1>1 DEF EvaluationMirrorsGraph, AdminsWrittenThisRun
<1>6. ASSUME NEW r \in Run
      PROVE  RunInv(r)'
  <2>1. Progress(r)'
    BY <1>0, <1>1 DEF RunInv, Progress
  <2>2. ReadsHeld(r)'
    BY <1>0, <1>1 DEF RunInv, ReadsHeld, Suits, Busy
  <2>3. ASSUME Busy(r)', (~overlap)'
        PROVE  (Resolved(r) /\ Detected(r) /\ Written(r))'
    <3>1. Resolved(r) /\ Detected(r) /\ Written(r)
      BY <1>0, <1>1, <2>3 DEF RunInv, Busy
    <3>2. ASSUME NEW f \in held'[r]
          PROVE  f \in Found /\ {f[1], f[2]} \subseteq Present(policy')
      <4>1. f \in Holds(policy', trusts')
        BY <1>1
      <4> QED
        BY <1>0, <1>1, <4>1, HoldsPresent DEF TypeOK
    <3>3. Resolved(r)'
      BY <1>1, <3>1, <3>2 DEF Resolved
    <3>4. Detected(r)'
      BY <1>1, <3>1 DEF Detected
    <3>5. Written(r)'
      BY <1>1, <3>1, <3>2 DEF Written
    <3> QED
      BY <3>3, <3>4, <3>5
  <2> QED
    BY <1>1, <2>1, <2>2, <2>3 DEF RunInv
<1> QED
  BY <1>0, <1>2, <1>3, <1>4, <1>5, <1>6 DEF EvaluationInv

-----------------------------------------------------------------------------
(* The runs that do not act. *)

(* A run that is not the one that acts keeps its part.                     *)
LEMMA OtherRuns ==
  ASSUME EvaluationInv, NEW q \in Run, run'[q] = run[q], held'[q] = held[q],
         UNCHANGED <<policy, trusts, overlap>>, ~alone'[q], ~overlap => ~Busy(q)
  PROVE  RunInv(q)'
<1>1. Progress(q)' /\ ReadsHeld(q)'
  <2>1. Progress(q) /\ ReadsHeld(q)
    BY DEF EvaluationInv, RunInv
  <2> QED
    BY <2>1 DEF Progress, ReadsHeld, Suits, Busy
<1>2. ~(Busy(q)' /\ (~overlap \/ alone[q])')
  BY DEF Busy
<1> QED
  BY <1>1, <1>2 DEF RunInv

-----------------------------------------------------------------------------
(* The run that acts. *)

Mirrored(r) ==
  At(r, "done") /\ alone[r] =>
    /\ {f \in Found : path[f] # None} = Holds(policy, trusts)
    /\ {f \in Found : link[f] # None} = Holds(policy, trusts)
    /\ isAdmin = {p \in Principal : policy[p] = "admin"}

AdminsRead(r) ==
  \A f \in Found :
    ~overlap /\ f[3] = "pass" /\ run[r].found[f] # None => run[r].read[f[2]] = "admin"

(* So a step of a run is settled by what it does to its own part.          *)
LEMMA ActingRun ==
  ASSUME EvaluationInv, TypeOK', NEW r \in Run, Busy(r), RunSteps(r),
         UNCHANGED <<policy, trusts, held, overlap, alone>>,
         GraphIsWhole', Clocked', Progress(r)', ReadsHeld(r)',
         Busy(r)' /\ (~overlap \/ alone[r]) => Resolved(r)' /\ Detected(r)' /\ Written(r)',
         alone[r] => Alone(r)',
         Mirrored(r)', AdminsRead(r)'
  PROVE  EvaluationInv'
<1>1. \A q \in Run \ {r} : run'[q] = run[q] /\ ~alone[q] /\ (~overlap => ~Busy(q))
  BY DEF EvaluationInv, TakeTurns, RunSteps
<1>2. \A q \in Run : RunInv(q)'
  <2>1. RunInv(r)'
    BY DEF RunInv
  <2> QED
    BY <1>1, <2>1, OtherRuns
<1>3. TakeTurns'
  BY <1>1 DEF EvaluationInv, TakeTurns, Busy
<1>4. EvaluationMirrorsGraph'
  BY <1>1 DEF EvaluationMirrorsGraph, Mirrored, At
<1>5. AdminsWrittenThisRun'
  <2> SUFFICES ASSUME NEW q \in Run, NEW f \in Found
               PROVE  (~overlap /\ f[3] = "pass" /\ run[q].found[f] # None
                       => run[q].read[f[2]] = "admin")'
    BY DEF AdminsWrittenThisRun
  <2>1. CASE q = r
    BY <2>1 DEF AdminsRead
  <2>2. CASE q # r
    BY <1>1, <2>2 DEF EvaluationInv, AdminsWrittenThisRun
  <2> QED
    BY <2>1, <2>2
<1> QED
  BY <1>2, <1>3, <1>4, <1>5 DEF EvaluationInv

(* What holds of the run that acts, before it does.                        *)
LEMMA ActingInv ==
  ASSUME EvaluationInv, NEW r \in Run
  PROVE  /\ TypeOK /\ GraphIsWhole /\ Clocked /\ Progress(r) /\ ReadsHeld(r) /\ AdminsRead(r)
         /\ Busy(r) /\ (~overlap \/ alone[r]) => Resolved(r) /\ Detected(r) /\ Written(r)
         /\ alone[r] => Alone(r)
BY DEF EvaluationInv, RunInv, AdminsRead, AdminsWrittenThisRun

(* A run that starts has read nothing, and every stamp is older.           *)
LEMMA StartInv ==
  ASSUME WalksFindAll, EvaluationInv, TypeOK', NEW r \in Run, Start(r)
  PROVE  EvaluationInv'
<1> USE StartStep DEF Busy
<1>0. /\ TypeOK /\ GraphIsWhole /\ Clocked /\ Progress(r) /\ TakeTurns
  BY ActingInv DEF EvaluationInv
<1>1. /\ UNCHANGED <<policy, trusts, perm, isAdmin, path, link, overlap>>
      /\ clock' = clock + 1 /\ run[r].pc = "idle" /\ run'[r].pc = "principals"
      /\ held'[r] = Holds(policy, trusts)
      /\ \A q \in Run \ {r} : held'[q] = held[q] /\ ~alone'[q]
      /\ overlap \/ Others(r) = {}
      /\ alone'[r] <=> Others(r) = {}
  BY <1>0 DEF Start, At, graphVars, TypeOK
<1>2. \A q \in Run \ {r} : run'[q] = run[q] /\ (Others(r) = {} => ~Busy(q))
  BY <1>0 DEF RunSteps, Others
<1>3. \A q \in Run \ {r} : RunInv(q)'
  BY <1>1, <1>2, OtherRuns
<1>4. TakeTurns'
  BY <1>0, <1>1, <1>2 DEF TakeTurns
<1>5. GraphIsWhole'
  BY <1>0, <1>1 DEF GraphIsWhole
<1>6. Clocked'
  <2>1. clock \in Nat /\ \A f \in Found : path[f] \in Nat \cup {None} /\ link[f] \in Nat \cup {None}
    BY <1>0 DEF TypeOK
  <2>2. \A q \in Run \ {r} : (run[q].started <= clock /\ \A f \in Found :
          run[q].found[f] # None => run[q].started <= run[q].found[f] /\ run[q].found[f] <= clock)'
    BY <1>0, <1>1, <1>2, <2>1, FieldsOf DEF Clocked
  <2>3. run'[r].started = clock' /\ \A f \in Found : run'[r].found[f] = None
    BY <1>0, <1>1 DEF Progress
  <2> QED
    BY <1>0, <1>1, <2>1, <2>2, <2>3 DEF Clocked
<1>7. RunInv(r)'
  <2>1. /\ run'[r].pc = "principals" /\ run'[r].todo = Present(policy)
        /\ \A p \in Principal : run'[r].read[p] = None
        /\ \A f \in Found : run'[r].found[f] = None
        /\ run'[r].left = {} /\ run'[r].unlinked = None /\ run'[r].started = clock + 1
    BY <1>0, <1>1 DEF Progress
  <2>2. Progress(r)'
    BY <2>1 DEF Progress
  <2>3. ASSUME NEW f \in Holds(policy, trusts)
        PROVE  f \in Found /\ {f[1], f[2]} \subseteq Present(policy)
    BY <1>0, HoldsPresent DEF TypeOK, GraphIsWhole
  <2>4. ReadsHeld(r)'
    BY <1>1, <2>1, <2>3, FoundOf DEF ReadsHeld, Suits
  <2>5. Resolved(r)'
    BY <1>0, <1>1, <2>1, <2>3 DEF Resolved, GraphIsWhole
  <2>6. Detected(r)' /\ Written(r)'
    BY <2>1 DEF Detected, Written
  <2>7. Alone(r)'
    <3>1. \A f \in Found : /\ path[f] # None => path[f] < run'[r].started
                           /\ link[f] # None => link[f] < run'[r].started
      BY <1>0, <2>1 DEF Clocked, TypeOK
    <3>2. held'[r] = Holds(policy', trusts')
      BY <1>1
    <3>3. \A p \in Principal : run'[r].read[p] = None /\ run'[r].read[p] # "admin"
      BY <2>1, NoneAssumption DEF Grant
    <3>4. /\ run'[r].todo \subseteq Present(policy')
          /\ \A p \in Principal : p \in Present(policy') => p \in run'[r].todo
      BY <1>1, <2>1
    <3>5. \A f \in Found :
             /\ path'[f] \in {None, run'[r].found[f]} \/ (path'[f] < run'[r].started /\ run'[r].pc # "links")
             /\ link'[f] \in {None, run'[r].found[f]} \/ link'[f] < run'[r].started
      <4> SUFFICES ASSUME NEW f \in Found
                   PROVE  /\ path[f] = None \/ (path[f] < run'[r].started /\ run'[r].pc # "links")
                          /\ link[f] = None \/ link[f] < run'[r].started
        BY <1>1, <2>1
      <4> QED
        BY <1>1, <3>1
    <3> QED
      BY <2>1, <3>2, <3>3, <3>4, <3>5 DEF Alone
  <2> QED
    BY <2>2, <2>4, <2>5, <2>6, <2>7 DEF RunInv
<1>8. EvaluationMirrorsGraph'
  BY <1>1 DEF EvaluationMirrorsGraph, At
<1>9. AdminsWrittenThisRun'
  <2>1. \A f \in Found : run'[r].found[f] = None
    BY <1>0, <1>1 DEF Progress
  <2> QED
    BY <1>1, <1>2, <2>1 DEF EvaluationInv, AdminsWrittenThisRun
<1> QED
  BY <1>3, <1>4, <1>5, <1>6, <1>7, <1>8, <1>9 DEF EvaluationInv
(* What a run reads is what the graph holds then.                          *)
LEMMA ReadPoliciesInv ==
  ASSUME WalksFindAll, EvaluationInv, TypeOK', NEW r \in Run,
         NEW p \in Principal, ReadPolicies(r, p)
  PROVE  EvaluationInv'
<1>0. /\ TypeOK /\ GraphIsWhole /\ Clocked /\ Progress(r) /\ ReadsHeld(r) /\ TakeTurns
  BY ActingInv DEF EvaluationInv
<1>1. /\ UNCHANGED <<policy, trusts, perm, isAdmin, path, link, clock, held, overlap, alone>>
      /\ run[r].pc = "principals" /\ p \in run[r].todo /\ run[r].read[p] = None
  BY DEF ReadPolicies, At, graphVars, history
<1>2. /\ RunSteps(r)
      /\ run'[r].pc = "principals" /\ run'[r].started = run[r].started
      /\ run'[r].todo = run[r].todo /\ run'[r].found = run[r].found
      /\ run'[r].left = run[r].left /\ run'[r].unlinked = run[r].unlinked
      /\ run'[r].read[p] = (IF policy[p] = Gone THEN "none" ELSE policy[p])
      /\ run'[r].read[p] # None
      /\ \A q \in Principal \ {p} : run'[r].read[q] = run[r].read[q]
  <2>1. run'[r].read = [run[r].read EXCEPT ![p] = IF policy[p] = Gone THEN "none" ELSE policy[p]]
    BY <1>0, ReadPoliciesStep
  <2>2. run[r].read \in [Principal -> Grant \cup {None}]
    BY <1>0, FieldsOf
  <2>3. None \notin {"none", "pass", "admin"} /\ policy[p] \in {"none", "pass", "admin", Gone}
    BY <1>0, NoneAssumption DEF TypeOK, Grant
  <2>4. /\ run'[r].read[p] = (IF policy[p] = Gone THEN "none" ELSE policy[p])
        /\ \A q \in Principal \ {p} : run'[r].read[q] = run[r].read[q]
    BY <2>1, <2>2
  <2>5. run'[r].read[p] # None
    BY <2>3, <2>4
  <2> QED
    BY <1>0, <1>1, <2>4, <2>5, ReadPoliciesStep
<1>3. Busy(r) /\ \A f \in Found : run[r].found[f] = None
  BY <1>0, <1>1 DEF Busy, Active, Progress
<1>4. Progress(r)'
  BY <1>0, <1>1, <1>2 DEF Progress
<1>5. ReadsHeld(r)'
  <2>1. ASSUME NEW q \in Principal, NEW grants \in SUBSET {"pass", "admin"},
               Suits(r, q, grants), q = p => policy[p] \in grants
        PROVE  Suits(r, q, grants)'
    BY <1>1, <1>2, <2>1 DEF Suits, Gone
  <2>2. ASSUME NEW f \in held[r]
        PROVE  f \in Found /\ \/ f[3] = "assume" /\ policy[f[2]] \in {"pass", "admin"}
                              \/ f[3] = "pass" /\ policy[f[1]] = "pass" /\ policy[f[2]] = "admin"
    BY <1>0, HoldsWhen DEF ReadsHeld, Holds
  <2>3. ASSUME NEW f \in held[r], f[3] = "assume"
        PROVE  Suits(r, f[2], {"pass", "admin"})'
    BY <1>0, <1>3, <2>1, <2>2, <2>3, FoundOf DEF ReadsHeld
  <2>4. ASSUME NEW f \in held[r], f[3] # "assume"
        PROVE  Suits(r, f[1], {"pass"})' /\ Suits(r, f[2], {"admin"})'
    BY <1>0, <1>3, <2>1, <2>2, <2>4, FoundOf DEF ReadsHeld
  <2> QED
    BY <1>0, <1>1, <1>2, <2>3, <2>4 DEF ReadsHeld
<1>6. ASSUME ~overlap \/ alone[r]
      PROVE  Resolved(r)' /\ Detected(r)' /\ Written(r)'
  <2>1. Resolved(r)
    BY <1>3, <1>6, ActingInv
  <2>2. isAdmin \subseteq Principal
    BY <1>0 DEF TypeOK
  <2>3. Resolved(r)'
    BY <1>1, <1>2, <2>1, <2>2 DEF Resolved
  <2> QED
    BY <1>2, <2>3 DEF Detected, Written
<1>7. ASSUME alone[r]
      PROVE  Alone(r)'
  <2>1. Alone(r)
    BY <1>7, ActingInv
  <2> QED
    BY <1>1, <1>2, <1>3, <2>1 DEF Alone, Busy, Present
<1>8. Clocked'
  BY <1>0, <1>1, <1>2 DEF Clocked, RunSteps
<1>9. GraphIsWhole' /\ Mirrored(r)' /\ AdminsRead(r)'
  BY <1>0, <1>1, <1>2, <1>3 DEF GraphIsWhole, Mirrored, At, AdminsRead
<1> QED
  BY <1>1, <1>2, <1>3, <1>4, <1>5, <1>6, <1>7, <1>8, <1>9, ActingRun

(* What a run writes back is what it read.                                 *)
LEMMA WritePermissionInv ==
  ASSUME WalksFindAll, EvaluationInv, TypeOK', NEW r \in Run,
         NEW p \in Principal, WritePermission(r, p)
  PROVE  EvaluationInv'
<1>0. /\ TypeOK /\ GraphIsWhole /\ Clocked /\ Progress(r) /\ ReadsHeld(r) /\ TakeTurns
  BY ActingInv DEF EvaluationInv
<1>1. /\ UNCHANGED <<policy, trusts, path, link, clock, held, overlap, alone>>
      /\ run[r].pc = "principals" /\ p \in run[r].todo /\ run[r].read[p] # None
      /\ perm'[p] = run[r].read[p] /\ \A q \in Principal \ {p} : perm'[q] = perm[q]
      /\ isAdmin' = IF run[r].read[p] = "admin" THEN isAdmin \cup ({p} \cap Present(policy))
                    ELSE isAdmin \ {p}
  BY <1>0 DEF WritePermission, At, graphVars, history, TypeOK
<1>2. /\ RunSteps(r)
      /\ run'[r].pc = "principals" /\ run'[r].started = run[r].started
      /\ run'[r].todo = run[r].todo \ {p} /\ run'[r].found = run[r].found
      /\ run'[r].left = run[r].left /\ run'[r].unlinked = run[r].unlinked
      /\ run'[r].read = run[r].read
  BY <1>0, <1>1, WritePermissionStep
<1>3. Busy(r) /\ \A f \in Found : run[r].found[f] = None
  BY <1>0, <1>1 DEF Busy, Active, Progress
<1>4. Progress(r)'
  BY <1>0, <1>1, <1>2 DEF Progress
<1>5. ReadsHeld(r)'
  BY <1>0, <1>1, <1>2, <1>3 DEF ReadsHeld, Suits
<1>6. ASSUME ~overlap \/ alone[r]
      PROVE  Resolved(r)' /\ Detected(r)' /\ Written(r)'
  <2>1. Resolved(r)
    BY <1>3, <1>6, ActingInv
  <2>2. ASSUME NEW f \in held[r], f[3] = "pass"
        PROVE  f[2] \in run'[r].todo \cup isAdmin'
    <3>1. f \in Found /\ f[2] \in Present(policy) /\ Suits(r, f[2], {"admin"})
      BY <1>0, <1>3, <2>2, HeldPresent DEF ReadsHeld
    <3>2. f[2] = p => run[r].read[p] = "admin"
      BY <1>1, <3>1 DEF Suits
    <3> QED
      BY <1>1, <1>2, <2>1, <2>2, <3>1, <3>2 DEF Resolved
  <2>3. Resolved(r)'
    BY <1>1, <1>2, <2>1, <2>2 DEF Resolved
  <2> QED
    BY <1>2, <2>3 DEF Detected, Written
<1>7. ASSUME alone[r]
      PROVE  Alone(r)'
  <2>1. Alone(r)
    BY <1>7, ActingInv
  <2> QED
    BY <1>1, <1>2, <1>3, <2>1 DEF Alone, Busy
<1>8. Clocked'
  BY <1>0, <1>1, <1>2 DEF Clocked, RunSteps
<1>9. GraphIsWhole' /\ Mirrored(r)' /\ AdminsRead(r)'
  BY <1>0, <1>1, <1>2, <1>3 DEF GraphIsWhole, Mirrored, At, AdminsRead
<1> QED
  BY <1>1, <1>2, <1>3, <1>4, <1>5, <1>6, <1>7, <1>8, <1>9, ActingRun

(* What has held reaches its target over the trusts just read.             *)
LEMMA FetchTrustsInv ==
  ASSUME WalksFindAll, EvaluationInv, TypeOK', NEW r \in Run, FetchTrusts(r)
  PROVE  EvaluationInv'
<1>0. /\ TypeOK /\ GraphIsWhole /\ Clocked /\ Progress(r) /\ ReadsHeld(r) /\ TakeTurns
  BY ActingInv DEF EvaluationInv
<1>1. /\ UNCHANGED <<policy, trusts, perm, isAdmin, path, link, clock, held, overlap, alone>>
      /\ run[r].pc = "principals" /\ run[r].todo = {}
  BY DEF FetchTrusts, At, graphVars, history
<1>2. /\ RunSteps(r)
      /\ run'[r].pc = "roles" /\ run'[r].started = run[r].started
      /\ run'[r].todo = {} /\ run'[r].found = run[r].found
      /\ run'[r].left = run[r].left /\ run'[r].unlinked = run[r].unlinked
      /\ run'[r].read = run[r].read /\ run'[r].trusts = trusts
  BY <1>0, <1>1, FetchTrustsStep
<1>3. Busy(r) /\ \A f \in Found : run[r].found[f] = None
  BY <1>0, <1>1 DEF Busy, Active, Progress
<1>4. Progress(r)'
  BY <1>0, <1>1, <1>2 DEF Progress, GraphIsWhole, Between
<1>5. ReadsHeld(r)'
  <2>1. ASSUME NEW f \in held[r], f[3] = "assume"
        PROVE  f[1] \in Reach(trusts, f[2])
    BY <1>0, <2>1, HoldsWhen DEF ReadsHeld, Holds
  <2> QED
    BY <1>0, <1>1, <1>2, <1>3, <2>1 DEF ReadsHeld, Suits
<1>6. ASSUME ~overlap \/ alone[r]
      PROVE  Resolved(r)' /\ Detected(r)' /\ Written(r)'
  <2>1. Resolved(r)
    BY <1>3, <1>6, ActingInv
  <2> QED
    BY <1>1, <1>2, <2>1 DEF Resolved, Detected, Written
<1>7. ASSUME alone[r]
      PROVE  Alone(r)'
  <2>1. Alone(r)
    BY <1>7, ActingInv
  <2> QED
    BY <1>1, <1>2, <1>3, <2>1 DEF Alone, Busy
<1>8. Clocked'
  BY <1>0, <1>1, <1>2 DEF Clocked, RunSteps
<1>9. GraphIsWhole' /\ Mirrored(r)' /\ AdminsRead(r)'
  BY <1>0, <1>1, <1>2, <1>3 DEF GraphIsWhole, Mirrored, At, AdminsRead
<1> QED
  BY <1>1, <1>2, <1>3, <1>4, <1>5, <1>6, <1>7, <1>8, <1>9, ActingRun

(* The walk finds what has held, and in an undisturbed run only what holds. *)
LEMMA DetectAssumeInv ==
  ASSUME WalksFindAll, EvaluationInv, TypeOK', NEW r \in Run, DetectAssume(r)
  PROVE  EvaluationInv'
<1>0. /\ TypeOK /\ GraphIsWhole /\ Clocked /\ Progress(r) /\ ReadsHeld(r) /\ TakeTurns
  BY ActingInv DEF EvaluationInv
<1>1. /\ UNCHANGED <<policy, trusts, perm, isAdmin, path, link, held, overlap, alone>>
      /\ clock' = clock + 1 /\ clock \in Nat /\ run[r].pc = "roles"
  BY <1>0 DEF DetectAssume, At, graphVars, history, TypeOK
<1>11. PICK ts \in Orders(run[r].trusts) :
        /\ RunSteps(r)
        /\ run'[r].pc = "admins" /\ run'[r].started = run[r].started
        /\ run'[r].todo = run[r].todo /\ run'[r].read = run[r].read
        /\ run'[r].found = Stamped(run[r].found, AssumeFound(ts, perm), clock')
        /\ run'[r].unlinked = run[r].unlinked /\ run'[r].left = run[r].left
  BY <1>0, DetectAssumeStep
<1>3. Busy(r) /\ run[r].todo = {} /\ \A f \in Found : run[r].found[f] = None
  BY <1>0, <1>1 DEF Busy, Active, Progress
<1>12. \A f \in Found :
        run'[r].found[f] = IF f \in AssumeFound(ts, perm) THEN clock' ELSE None
  BY <1>11, <1>3 DEF Stamped
<1>13. clock' # None
  BY <1>1, NoneAssumption
<1>2. /\ RunSteps(r)
      /\ run'[r].pc = "admins" /\ run'[r].started = run[r].started
      /\ run'[r].todo = {} /\ run'[r].read = run[r].read
      /\ run'[r].unlinked = run[r].unlinked /\ run'[r].left = run[r].left
      /\ \A f \in Found : IF f \in AssumeFound(ts, perm) THEN run'[r].found[f] = clock'
                          ELSE run'[r].found[f] = None
  BY <1>11, <1>12, <1>3
<1>14. ASSUME NEW f \in Found
      PROVE  f \in AssumeFound(ts, perm) <=>
               /\ f[3] = "assume" /\ perm[f[2]] \in {"pass", "admin"}
               /\ f[1] \in Reach(run[r].trusts, f[2])
  <2>1. run[r].trusts \in SUBSET Trusts
    BY <1>0, <1>1 DEF Progress
  <2>2. Sources(ts, f[2]) = Reach(run[r].trusts, f[2])
    BY <2>1, FoundOf DEF WalksFindAll
  <2> QED
    BY <2>2 DEF AssumeFound
<1>4. Progress(r)'
  <2>1. run[r].left = {}
    BY <1>0, <1>3, FieldsOf DEF Progress
  <2> QED
    BY <1>1, <1>2, <1>14, <2>1 DEF Progress, Active
<1>5. ReadsHeld(r)'
  BY <1>0, <1>1, <1>2, <1>3 DEF ReadsHeld, Suits
<1>6. ASSUME ~overlap \/ alone[r]
      PROVE  Resolved(r)' /\ Detected(r)' /\ Written(r)'
  <2>1. Resolved(r)
    BY <1>3, <1>6, ActingInv
  <2>2. Resolved(r)'
    BY <1>1, <1>2, <1>3, <2>1 DEF Resolved
  <2>3. ASSUME NEW f \in held[r], f[3] = "assume"
        PROVE  run'[r].found[f] # None
    <3>1. /\ f \in Found /\ Suits(r, f[2], {"pass", "admin"})
          /\ f[1] \in Reach(run[r].trusts, f[2])
      BY <1>0, <1>1, <1>3, <2>3, HeldPresent DEF ReadsHeld
    <3>2. run[r].read[f[2]] \in {"pass", "admin"} /\ run[r].read[f[2]] # None
      BY <1>3, <3>1, NoneAssumption DEF Suits, Grant
    <3>3. perm[f[2]] \in {"pass", "admin"}
      BY <1>3, <2>1, <3>1, <3>2, FoundOf DEF Resolved
    <3> QED
      BY <1>2, <1>13, <1>14, <2>3, <3>1, <3>3
  <2> QED
    BY <1>1, <1>2, <2>2, <2>3 DEF Detected, Written
<1>7. ASSUME alone[r]
      PROVE  Alone(r)'
  <2>1. Alone(r) /\ Resolved(r)
    BY <1>3, <1>7, ActingInv
  <2>2. ASSUME NEW f \in Found, run'[r].found[f] # None
        PROVE  f \in held[r]
    <3>1. /\ f[3] = "assume" /\ perm[f[2]] \in {"pass", "admin"}
          /\ f[1] \in Reach(trusts, f[2]) /\ f[2] \in Principal
      BY <1>1, <1>2, <1>3, <1>14, <2>1, <2>2, FoundOf DEF Alone
    <3>2. trusts \subseteq Trusts
      BY <1>0 DEF GraphIsWhole, Between
    <3>3. f[2] \in Present(policy)
      BY <1>0, <3>1, <3>2 DEF WalksFindAll, GraphIsWhole, Between
    <3>4. run[r].read[f[2]] # None
      BY <1>3, <2>1, <3>1, <3>3 DEF Alone
    <3>5. policy[f[2]] = perm[f[2]]
      BY <1>3, <2>1, <3>1, <3>4 DEF Alone, Resolved
    <3> QED
      BY <2>1, <3>1, <3>5, HoldsWhen DEF Alone
  <2>3. \A f \in Found : /\ path[f] = None \/ path[f] < run[r].started
                         /\ link[f] = None \/ link[f] < run[r].started
    BY <1>3, <2>1 DEF Alone
  <2>4. \A f \in Found :
          /\ path'[f] \in {None, run'[r].found[f]} \/ (path'[f] < run'[r].started /\ run'[r].pc # "links")
          /\ link'[f] \in {None, run'[r].found[f]} \/ link'[f] < run'[r].started
    BY <1>1, <1>2, <2>3
  <2> QED
    BY <1>1, <1>2, <1>3, <2>1, <2>2, <2>4 DEF Alone
<1>8. Clocked'
  <2>1. \A f \in Found : path[f] \in Nat \cup {None} /\ link[f] \in Nat \cup {None}
    BY <1>0 DEF TypeOK
  <2>2. \A q \in Run \ {r} : (run[q].started <= clock /\ \A f \in Found :
          run[q].found[f] # None => run[q].started <= run[q].found[f] /\ run[q].found[f] <= clock)'
    BY <1>0, <1>1, <1>2, FieldsOf DEF Clocked, RunSteps
  <2>3. (run[r].started <= clock /\ \A f \in Found :
          run[r].found[f] # None => run[r].started <= run[r].found[f] /\ run[r].found[f] <= clock)'
    BY <1>0, <1>1, <1>2, FieldsOf DEF Clocked
  <2> QED
    BY <1>0, <1>1, <2>1, <2>2, <2>3 DEF Clocked
<1>9. GraphIsWhole' /\ Mirrored(r)' /\ AdminsRead(r)'
  BY <1>0, <1>1, <1>2, <1>14 DEF GraphIsWhole, Mirrored, At, AdminsRead
<1> QED
  BY <1>1, <1>2, <1>3, <1>4, <1>5, <1>6, <1>7, <1>8, <1>9, ActingRun

(* The pass-role detection does too.                                       *)
LEMMA DetectPassInv ==
  ASSUME WalksFindAll, EvaluationInv, TypeOK', NEW r \in Run, DetectPass(r)
  PROVE  EvaluationInv'
<1>0. /\ TypeOK /\ GraphIsWhole /\ Clocked /\ Progress(r) /\ ReadsHeld(r) /\ TakeTurns
  BY ActingInv DEF EvaluationInv
<1> DEFINE passing == PassFound(run[r].read, isAdmin)
<1>1. /\ UNCHANGED <<policy, trusts, perm, isAdmin, path, link, clock, held, overlap, alone>>
      /\ run[r].pc = "admins"
  BY DEF DetectPass, At, graphVars, history
<1>2. /\ RunSteps(r)
      /\ run'[r].pc = "writing" /\ run'[r].started = run[r].started
      /\ run'[r].todo = run[r].todo /\ run'[r].read = run[r].read
      /\ run'[r].unlinked = run[r].unlinked
      /\ run'[r].left = {f \in Found : run'[r].found[f] # None}
      /\ \A f \in Found : run'[r].found[f] = IF f \in passing THEN run[r].started ELSE run[r].found[f]
  BY <1>0, DetectPassStep DEF Stamped
<1>3. /\ Busy(r) /\ run[r].todo = {} /\ run[r].started \in Nat /\ run[r].started # None
      /\ \A f \in Found : run[r].found[f] # None => f[3] = "assume"
  BY <1>0, <1>1, FieldsOf, NoneAssumption DEF Busy, Active, Progress
<1>14. ASSUME NEW f \in Found
      PROVE  f \in passing <=> /\ f[3] = "pass" /\ run[r].read[f[1]] = "pass"
                               /\ f[2] \in isAdmin \cap Passable /\ f[1] # f[2]
  BY DEF PassFound
<1> HIDE DEF passing
<1>4. Progress(r)'
  BY <1>0, <1>1, <1>2, <1>3 DEF Progress, Active
<1>5. ReadsHeld(r)'
  BY <1>0, <1>1, <1>2, <1>3 DEF ReadsHeld, Suits
<1>6. ASSUME ~overlap \/ alone[r]
      PROVE  Resolved(r)' /\ Detected(r)' /\ Written(r)'
  <2>1. Resolved(r) /\ Detected(r)
    BY <1>3, <1>6, ActingInv
  <2>2. Resolved(r)'
    BY <1>1, <1>2, <1>3, <2>1 DEF Resolved
  <2>3. ASSUME NEW f \in held[r]
        PROVE  f \in Found /\ run'[r].found[f] # None
    <3>1. f \in Found /\ f \in Holds(policy, trusts)
      BY <1>0, <2>3, HeldPresent DEF ReadsHeld
    <3>2. CASE f[3] = "assume"
      BY <1>1, <1>2, <1>3, <2>1, <3>1, <3>2 DEF Detected
    <3>3. CASE f[3] = "pass"
      <4>1. run[r].read[f[1]] = "pass" /\ run[r].read[f[2]] = "admin"
        BY <1>0, <1>3, <2>3, <3>3 DEF ReadsHeld, Suits
      <4>2. f[2] \in isAdmin
        BY <1>3, <2>1, <2>3, <3>3 DEF Resolved
      <4>3. f[2] \in Passable
        BY <3>1, <3>3, HoldsWhen
      <4> QED
        BY <1>2, <1>3, <1>14, <3>1, <3>3, <4>1, <4>2, <4>3
    <3> QED
      BY <3>1, <3>2, <3>3, FoundOf
  <2>4. Detected(r)'
    BY <1>1, <2>3 DEF Detected
  <2>5. Written(r)'
    BY <1>1, <1>2, <2>3 DEF Written
  <2> QED
    BY <2>2, <2>4, <2>5
<1>7. ASSUME alone[r]
      PROVE  Alone(r)'
  <2>1. Alone(r) /\ Resolved(r)
    BY <1>3, <1>7, ActingInv
  <2>2. ASSUME NEW f \in Found, run'[r].found[f] # None
        PROVE  f \in held[r]
    <3>1. CASE f \in passing
      <4>1. /\ f[3] = "pass" /\ run[r].read[f[1]] = "pass" /\ f[2] \in Passable
            /\ run[r].read[f[2]] = "admin" /\ f[1] \in Principal /\ f[2] \in Principal
        BY <1>3, <1>14, <2>1, <3>1, FoundOf DEF Resolved
      <4>2. policy[f[1]] = "pass" /\ policy[f[2]] = "admin"
        BY <1>3, <2>1, <4>1, NoneAssumption DEF Alone, Grant
      <4> QED
        BY <2>1, <4>1, <4>2, HoldsWhen DEF Alone
    <3>2. CASE f \notin passing
      BY <1>2, <1>3, <2>1, <2>2, <3>2 DEF Alone
    <3> QED
      BY <3>1, <3>2
  <2>3. ASSUME NEW f \in Found
        PROVE  run[r].found[f] \in {None, run'[r].found[f]}
    BY <1>2, <1>3, <1>14
  <2>4. \A f \in Found :
          /\ path'[f] \in {None, run'[r].found[f]} \/ (path'[f] < run'[r].started /\ run'[r].pc # "links")
          /\ link'[f] \in {None, run'[r].found[f]} \/ link'[f] < run'[r].started
    BY <1>1, <1>2, <1>3, <2>1, <2>3 DEF Alone
  <2> QED
    BY <1>1, <1>2, <1>3, <2>1, <2>2, <2>4 DEF Alone
<1>8. Clocked'
  <2>1. (run[r].started <= clock /\ \A f \in Found :
          run[r].found[f] # None => run[r].started <= run[r].found[f] /\ run[r].found[f] <= clock)'
    BY <1>0, <1>1, <1>2, <1>3 DEF Clocked
  <2>2. \A q \in Run \ {r} : (run[q].started <= clock /\ \A f \in Found :
          run[q].found[f] # None => run[q].started <= run[q].found[f] /\ run[q].found[f] <= clock)'
    BY <1>0, <1>1, <1>2 DEF Clocked, RunSteps
  <2> QED
    BY <1>0, <1>1, <2>1, <2>2 DEF Clocked
<1>9. GraphIsWhole' /\ Mirrored(r)'
  BY <1>0, <1>1, <1>2 DEF GraphIsWhole, Mirrored, At
<1>10. AdminsRead(r)'
  <2> SUFFICES ASSUME NEW f \in Found, ~overlap, f[3] = "pass", run'[r].found[f] # None
               PROVE  run[r].read[f[2]] = "admin"
    BY <1>1, <1>2 DEF AdminsRead
  <2>1. Resolved(r)
    BY <1>3, ActingInv
  <2> QED
    BY <1>2, <1>3, <1>14, <2>1 DEF Resolved
<1> QED
  BY <1>1, <1>2, <1>3, <1>4, <1>5, <1>6, <1>7, <1>8, <1>9, <1>10, ActingRun

(* A path takes the stamp its escalation was found with.                   *)
LEMMA WritePathInv ==
  ASSUME WalksFindAll, EvaluationInv, TypeOK', NEW r \in Run,
         NEW f \in Found, WritePath(r, f)
  PROVE  EvaluationInv'
<1>0. /\ TypeOK /\ GraphIsWhole /\ Clocked /\ Progress(r) /\ ReadsHeld(r) /\ TakeTurns
  BY ActingInv DEF EvaluationInv
<1>1. /\ UNCHANGED <<policy, trusts, perm, isAdmin, link, clock, held, overlap, alone>>
      /\ run[r].pc = "writing" /\ run[r].unlinked = None /\ f \in run[r].left
      /\ path'[f] = run[r].found[f] /\ \A g \in Found \ {f} : path'[g] = path[g]
  BY <1>0 DEF WritePath, At, graphVars, history, TypeOK
<1>2. /\ RunSteps(r)
      /\ run'[r].pc = "writing" /\ run'[r].started = run[r].started
      /\ run'[r].todo = run[r].todo /\ run'[r].found = run[r].found
      /\ run'[r].read = run[r].read
      /\ run'[r].left = run[r].left \ {f} /\ run'[r].unlinked = f
  BY <1>0, <1>1, WritePathStep
<1>3. Busy(r) /\ run[r].todo = {}
  BY <1>0, <1>1 DEF Busy, Active, Progress
<1>4. Progress(r)'
  BY <1>0, <1>1, <1>2, <1>3 DEF Progress
<1>5. ReadsHeld(r)'
  BY <1>0, <1>1, <1>2, <1>3 DEF ReadsHeld, Suits
<1>6. ASSUME ~overlap \/ alone[r]
      PROVE  Resolved(r)' /\ Detected(r)' /\ Written(r)'
  <2>1. Resolved(r) /\ Detected(r) /\ Written(r)
    BY <1>3, <1>6, ActingInv
  <2>2. Resolved(r)' /\ Detected(r)'
    BY <1>1, <1>2, <2>1 DEF Resolved, Detected
  <2>3. ASSUME NEW g \in held[r], g \notin run'[r].left
        PROVE  run'[r].unlinked = g \/ link'[g] = run'[r].found[g]
    BY <1>1, <1>2, <2>1, <2>3, HeldPresent, NoneAssumption DEF Written
  <2>4. ASSUME NEW g \in Found, g \notin run'[r].left, run'[r].found[g] # None
        PROVE  path'[g] = run'[r].found[g]
    BY <1>1, <1>2, <2>1, <2>4 DEF Written
  <2>5. Written(r)'
    BY <1>1, <1>2, <2>3, <2>4 DEF Written
  <2> QED
    BY <2>2, <2>5
<1>7. ASSUME alone[r]
      PROVE  Alone(r)'
  <2>1. Alone(r)
    BY <1>7, ActingInv
  <2> QED
    BY <1>1, <1>2, <1>3, <2>1 DEF Alone
<1>8. Clocked'
  BY <1>0, <1>1, <1>2 DEF Clocked, RunSteps
<1>9. GraphIsWhole' /\ Mirrored(r)' /\ AdminsRead(r)'
  BY <1>0, <1>1, <1>2, ActingInv DEF GraphIsWhole, Mirrored, At, AdminsRead
<1> QED
  BY <1>1, <1>2, <1>3, <1>4, <1>5, <1>6, <1>7, <1>8, <1>9, ActingRun

(* So does a link: both ends of what has held are still there.             *)
LEMMA WriteLinkInv ==
  ASSUME WalksFindAll, EvaluationInv, TypeOK', NEW r \in Run,
         NEW f \in Found, WriteLink(r, f)
  PROVE  EvaluationInv'
<1>0. /\ TypeOK /\ GraphIsWhole /\ Clocked /\ Progress(r) /\ ReadsHeld(r) /\ TakeTurns
  BY ActingInv DEF EvaluationInv
<1>1. /\ UNCHANGED <<policy, trusts, perm, isAdmin, path, clock, held, overlap, alone>>
      /\ run[r].pc = "writing" /\ run[r].unlinked = f
      /\ link'[f] = IF link[f] # None \/ {f[1], f[2]} \subseteq Present(policy)
                    THEN run[r].found[f] ELSE None
      /\ \A g \in Found \ {f} : link'[g] = link[g]
  BY <1>0 DEF WriteLink, At, graphVars, history, TypeOK
<1>2. /\ RunSteps(r)
      /\ run'[r].pc = "writing" /\ run'[r].started = run[r].started
      /\ run'[r].todo = run[r].todo /\ run'[r].found = run[r].found
      /\ run'[r].read = run[r].read
      /\ run'[r].left = run[r].left /\ run'[r].unlinked = None
  BY <1>0, <1>1, WriteLinkStep
<1>3. Busy(r) /\ run[r].todo = {}
  BY <1>0, <1>1 DEF Busy, Active, Progress
<1>4. Progress(r)'
  BY <1>0, <1>1, <1>2, <1>3 DEF Progress
<1>5. ReadsHeld(r)'
  BY <1>0, <1>1, <1>2, <1>3 DEF ReadsHeld, Suits
<1>6. ASSUME ~overlap \/ alone[r]
      PROVE  Resolved(r)' /\ Detected(r)' /\ Written(r)'
  <2>1. Resolved(r) /\ Detected(r) /\ Written(r)
    BY <1>3, <1>6, ActingInv
  <2>2. Resolved(r)' /\ Detected(r)'
    BY <1>1, <1>2, <2>1 DEF Resolved, Detected
  <2>3. ASSUME NEW g \in held[r], g \notin run'[r].left
        PROVE  link'[g] = run'[r].found[g]
    <3>1. g \in Found /\ {g[1], g[2]} \subseteq Present(policy)
      BY <2>3, HeldPresent
    <3> QED
      BY <1>1, <1>2, <2>1, <2>3, <3>1 DEF Written
  <2>4. Written(r)'
    BY <1>1, <1>2, <2>1, <2>3 DEF Written
  <2> QED
    BY <2>2, <2>4
<1>7. ASSUME alone[r]
      PROVE  Alone(r)'
  <2>1. Alone(r)
    BY <1>7, ActingInv
  <2> QED
    BY <1>1, <1>2, <1>3, <2>1 DEF Alone
<1>8. Clocked'
  BY <1>0, <1>1, <1>2 DEF Clocked, RunSteps
<1>9. GraphIsWhole' /\ Mirrored(r)' /\ AdminsRead(r)'
  BY <1>0, <1>1, <1>2, ActingInv DEF GraphIsWhole, Mirrored, At, AdminsRead
<1> QED
  BY <1>1, <1>2, <1>3, <1>4, <1>5, <1>6, <1>7, <1>8, <1>9, ActingRun

(* Only paths older than the run are dropped: none it has detected.        *)
LEMMA DropPathsInv ==
  ASSUME WalksFindAll, EvaluationInv, TypeOK', NEW r \in Run, DropPaths(r)
  PROVE  EvaluationInv'
<1>0. /\ TypeOK /\ GraphIsWhole /\ Clocked /\ Progress(r) /\ ReadsHeld(r) /\ TakeTurns
  BY ActingInv DEF EvaluationInv
<1>1. /\ UNCHANGED <<policy, trusts, perm, isAdmin, link, clock, held, overlap, alone>>
      /\ run[r].pc = "writing" /\ run[r].left = {} /\ run[r].unlinked = None
      /\ \A f \in Found : path'[f] = IF StaleStamp(path[f], r) THEN None ELSE path[f]
  BY DEF DropPaths, At, graphVars, history
<1>2. /\ RunSteps(r)
      /\ run'[r].pc = "links" /\ run'[r].started = run[r].started
      /\ run'[r].todo = run[r].todo /\ run'[r].found = run[r].found
      /\ run'[r].read = run[r].read
      /\ run'[r].left = {} /\ run'[r].unlinked = None
  BY <1>0, <1>1, DropPathsStep
<1>3. Busy(r) /\ run[r].todo = {}
  BY <1>0, <1>1 DEF Busy, Active, Progress
<1>4. Progress(r)'
  BY <1>0, <1>1, <1>2, <1>3 DEF Progress
<1>5. ReadsHeld(r)'
  BY <1>0, <1>1, <1>2, <1>3 DEF ReadsHeld, Suits
<1>10. ASSUME NEW f \in Found
       PROVE  /\ path[f] = run[r].found[f] => path'[f] = path[f]
              /\ path'[f] = path[f] \/ path'[f] = None
              /\ path[f] < run[r].started => path'[f] = None
  <2>1. run[r].found[f] # None => run[r].started <= run[r].found[f]
    BY <1>0 DEF Clocked
  <2>2. path[f] \in Nat \cup {None} /\ run[r].started \in Nat
    BY <1>0, FieldsOf DEF TypeOK
  <2> QED
    BY <1>1, <2>1, <2>2 DEF StaleStamp
<1>6. ASSUME ~overlap \/ alone[r]
      PROVE  Resolved(r)' /\ Detected(r)' /\ Written(r)'
  <2>1. Resolved(r) /\ Detected(r) /\ Written(r)
    BY <1>3, <1>6, ActingInv
  <2>2. Resolved(r)' /\ Detected(r)'
    BY <1>1, <1>2, <2>1 DEF Resolved, Detected
  <2>3. Written(r)'
    BY <1>1, <1>2, <1>10, <2>1 DEF Written
  <2> QED
    BY <2>2, <2>3
<1>7. ASSUME alone[r]
      PROVE  Alone(r)'
  <2>1. Alone(r)
    BY <1>7, ActingInv
  <2>2. \A f \in Found : path'[f] \in {None, run'[r].found[f]}
    BY <1>2, <1>3, <1>10, <2>1 DEF Alone
  <2>3. \A f \in Found : link'[f] \in {None, run'[r].found[f]} \/ link'[f] < run'[r].started
    BY <1>1, <1>2, <1>3, <2>1 DEF Alone
  <2> QED
    BY <1>1, <1>2, <1>3, <2>1, <2>2, <2>3 DEF Alone
<1>8. Clocked'
  BY <1>0, <1>1, <1>2, <1>10 DEF Clocked, RunSteps
<1>9. GraphIsWhole' /\ Mirrored(r)' /\ AdminsRead(r)'
  BY <1>0, <1>1, <1>2, ActingInv DEF GraphIsWhole, Mirrored, At, AdminsRead
<1> QED
  BY <1>1, <1>2, <1>3, <1>4, <1>5, <1>6, <1>7, <1>8, <1>9, ActingRun

(* Neither drop removes what the run found: it is stamped at or after the  *)
(* start of the run.                                                       *)
LEMMA LinksDropped ==
  ASSUME TypeOK, Clocked, NEW r \in Run, DropLinks(r), NEW f \in Found
  PROVE  /\ link[f] = run[r].found[f] => link'[f] = link[f]
         /\ link'[f] = link[f] \/ link'[f] = None
         /\ link[f] < run[r].started => link'[f] = None
<1>1. run[r].found[f] # None => run[r].started <= run[r].found[f]
  BY DEF Clocked
<1>2. link[f] \in Nat \cup {None} /\ run[r].started \in Nat
  BY FieldsOf DEF TypeOK
<1> QED
  BY <1>1, <1>2 DEF DropLinks, StaleStamp

(* Only such links are dropped, and what is left is what the run detected. *)
LEMMA DropLinksInv ==
  ASSUME WalksFindAll, EvaluationInv, TypeOK', NEW r \in Run, DropLinks(r)
  PROVE  EvaluationInv'
<1>0. /\ TypeOK /\ GraphIsWhole /\ Clocked /\ Progress(r) /\ ReadsHeld(r) /\ TakeTurns
  BY ActingInv DEF EvaluationInv
<1>1. /\ UNCHANGED <<policy, trusts, perm, isAdmin, path, clock, held, overlap, alone>>
      /\ run[r].pc = "links"
  BY DEF DropLinks, At, graphVars, history
<1>2. /\ RunSteps(r)
      /\ run'[r].pc = "done" /\ run'[r].started = run[r].started
      /\ run'[r].todo = run[r].todo /\ run'[r].found = run[r].found
      /\ run'[r].read = run[r].read
      /\ run'[r].left = run[r].left /\ run'[r].unlinked = run[r].unlinked
  BY <1>0, DropLinksStep
<1>3. Busy(r) /\ ~Busy(r)' /\ run[r].todo = {}
  BY <1>0, <1>1, <1>2 DEF Busy, Active, Progress
<1>4. Progress(r)'
  BY <1>0, <1>1, <1>2, <1>3 DEF Progress
<1>5. ReadsHeld(r)'
  BY <1>0, <1>1, <1>2, <1>3 DEF ReadsHeld
<1>7. ASSUME alone[r]
      PROVE  Alone(r)'
  <2>1. Alone(r)
    BY <1>7, ActingInv
  <2> QED
    BY <1>1, <1>3, <2>1 DEF Alone
<1>8. Clocked'
  BY <1>0, <1>1, <1>2, LinksDropped DEF Clocked, RunSteps
<1>9. ASSUME alone[r]
      PROVE  Mirrored(r)'
  <2>1. Alone(r) /\ Resolved(r) /\ Detected(r) /\ Written(r)
    BY <1>3, <1>9, ActingInv
  <2>2. ASSUME NEW f \in Found
        PROVE  /\ run[r].found[f] # None <=> f \in Holds(policy, trusts)
               /\ path[f] # None <=> run[r].found[f] # None
               /\ link'[f] # None <=> run[r].found[f] # None
    <3>1. run[r].found[f] # None <=> f \in Holds(policy, trusts)
      BY <1>1, <1>3, <2>1 DEF Alone, Detected
    <3>2. path[f] \in {None, run[r].found[f]} /\ (run[r].found[f] # None => path[f] = run[r].found[f])
      BY <1>1, <1>3, <2>1 DEF Alone, Written
    <3>3. link[f] \in {None, run[r].found[f]} \/ link[f] < run[r].started
      BY <1>3, <2>1 DEF Alone
    <3>4. run[r].found[f] # None => link[f] = run[r].found[f]
      BY <1>1, <2>1, <3>1, NoneAssumption DEF Alone, Written
    <3> QED
      BY <1>0, <3>1, <3>2, <3>3, <3>4, LinksDropped
  <2>3. {f \in Found : path[f] # None} = Holds(policy, trusts)
    BY <2>2 DEF Holds
  <2>4. {f \in Found : link'[f] # None} = Holds(policy, trusts)
    BY <2>2 DEF Holds
  <2>5. ASSUME NEW p \in Principal
        PROVE  p \in isAdmin <=> policy[p] = "admin"
    <3>1. run[r].read[p] = None => p \notin Present(policy)
      BY <1>3, <2>1 DEF Alone
    <3>2. run[r].read[p] # None => policy[p] = run[r].read[p]
      BY <1>3, <2>1 DEF Alone
    <3>3. p \in isAdmin <=> run[r].read[p] = "admin"
      <4>1. p \in isAdmin => run[r].read[p] = "admin"
        BY <1>3, <2>1 DEF Resolved
      <4>2. run[r].read[p] = "admin" => p \in isAdmin
        BY <1>3, <2>1 DEF Alone
      <4> QED
        BY <4>1, <4>2
    <3> QED
      BY <3>1, <3>2, <3>3, NoneAssumption DEF Present, Gone, Grant
  <2>6. isAdmin = {p \in Principal : policy[p] = "admin"}
    BY <1>0, <2>5 DEF TypeOK
  <2> QED
    BY <1>1, <2>3, <2>4, <2>6 DEF Mirrored
<1>10. GraphIsWhole' /\ Mirrored(r)' /\ AdminsRead(r)'
  BY <1>0, <1>1, <1>2, <1>9, ActingInv DEF GraphIsWhole, Mirrored, At, AdminsRead
<1> QED
  BY <1>1, <1>2, <1>3, <1>4, <1>5, <1>7, <1>8, <1>10, ActingRun

(* A failed run promises nothing but what holds of every run.              *)
LEMMA FailInv ==
  ASSUME WalksFindAll, EvaluationInv, TypeOK', NEW r \in Run, Fail(r)
  PROVE  EvaluationInv'
<1>0. /\ TypeOK /\ GraphIsWhole /\ Clocked /\ Progress(r) /\ ReadsHeld(r) /\ TakeTurns
  BY ActingInv DEF EvaluationInv
<1>1. /\ UNCHANGED <<policy, trusts, perm, isAdmin, path, link, clock, held, overlap, alone>>
      /\ run[r].pc \in Active
  BY DEF Fail, graphVars, history
<1>2. /\ RunSteps(r)
      /\ run'[r].pc = "failed" /\ run'[r].started = run[r].started
      /\ run'[r].found = run[r].found /\ run'[r].read = run[r].read
      /\ run'[r].left = run[r].left
  BY <1>0, FailStep
<1>3. Busy(r) /\ ~Busy(r)'
  BY <1>1, <1>2 DEF Busy, Active
<1>4. Progress(r)' /\ ReadsHeld(r)'
  BY <1>0, <1>1, <1>2, <1>3 DEF Progress, Active, ReadsHeld
<1>5. alone[r] => Alone(r)'
  BY <1>1, <1>3, ActingInv DEF Alone
<1>6. Clocked'
  BY <1>0, <1>1, <1>2 DEF Clocked, RunSteps
<1>7. GraphIsWhole' /\ Mirrored(r)' /\ AdminsRead(r)'
  BY <1>0, <1>1, <1>2, ActingInv DEF GraphIsWhole, Mirrored, At, AdminsRead
<1> QED
  BY <1>1, <1>2, <1>3, <1>4, <1>5, <1>6, <1>7, ActingRun

-----------------------------------------------------------------------------

(* An empty graph of escalations, and no run yet.                          *)
LEMMA InitInv == Init => EvaluationInv
<1> SUFFICES ASSUME Init PROVE EvaluationInv
  OBVIOUS
<1>1. TypeOK /\ GraphIsWhole
  BY InitType DEF Init, GraphIsWhole
<1>2. /\ \A r \in Run : run[r].pc = "idle" /\ ~Busy(r) /\ ~alone[r] /\ held[r] = {}
      /\ \A r \in Run : run[r].started = 0 /\ run[r].unlinked = None /\ run[r].left = {}
      /\ \A r \in Run, p \in Principal : run[r].read[p] = None
      /\ \A r \in Run, f \in Found : run[r].found[f] = None
      /\ clock = 0 /\ \A f \in Found : path[f] = None /\ link[f] = None
  BY DEF Init, Busy, Active
<1>3. TakeTurns /\ Clocked
  BY <1>2 DEF TakeTurns, Clocked
<1>4. \A r \in Run : RunInv(r)
  BY <1>2 DEF RunInv, Progress, ReadsHeld, Active
<1>5. EvaluationMirrorsGraph /\ AdminsWrittenThisRun
  BY <1>2 DEF EvaluationMirrorsGraph, At, AdminsWrittenThisRun
<1> QED
  BY <1>1, <1>3, <1>4, <1>5 DEF EvaluationInv

(* Every step keeps the invariant.                                         *)
LEMMA StepInv ==
  ASSUME WalksFindAll, EvaluationInv, [Next]_vars
  PROVE  EvaluationInv'
<1>1. TypeOK'
  BY StepType DEF EvaluationInv
<1>2. CASE UNCHANGED vars
  <2>1. UNCHANGED <<policy, trusts, perm, isAdmin, path, link, clock, run, held, overlap, alone>>
    BY <1>2 DEF vars
  <2>2. /\ GraphIsWhole' /\ TakeTurns' /\ Clocked'
        /\ EvaluationMirrorsGraph' /\ AdminsWrittenThisRun'
    BY <2>1 DEF EvaluationInv, GraphIsWhole, TakeTurns, Busy, Clocked,
                EvaluationMirrorsGraph, At, AdminsWrittenThisRun
  <2>3. ASSUME NEW r \in Run
        PROVE  RunInv(r)'
    BY <2>1, <2>3 DEF EvaluationInv, RunInv, Progress, ReadsHeld, Suits, Busy, Resolved,
                      Detected, Written, Alone
  <2> QED
    BY <1>1, <2>2, <2>3 DEF EvaluationInv
<1>3. CASE Collector
  BY <1>3, CollectorInv
<1>4. ASSUME NEW r \in Run, Evaluate(r)
      PROVE  EvaluationInv'
  BY <1>1, <1>4, StartInv, ReadPoliciesInv, WritePermissionInv, FetchTrustsInv,
     DetectAssumeInv, DetectPassInv, WritePathInv, WriteLinkInv, DropPathsInv,
     DropLinksInv, FailInv DEF Evaluate
<1> QED
  BY <1>2, <1>3, <1>4 DEF Next, Collector

(* The invariant holds of every behaviour.                                 *)
LEMMA Invariance == WalksFindAll => (Spec => []EvaluationInv)
<1> SUFFICES ASSUME WalksFindAll PROVE Spec => []EvaluationInv
  OBVIOUS
<1>1. EvaluationInv /\ [Next]_vars => EvaluationInv'
  BY StepInv
<1> QED
  BY InitInv, <1>1, PTL DEF Spec

(* An evaluation nothing interleaved with leaves exactly the escalations   *)
(* the graph allows, each with its link and its admins, whatever failed    *)
(* runs left; and where runs do not overlap, a pass-role escalation ends   *)
(* at a role the same run resolved as admin (index.ts:60-130, 203).        *)
THEOREM EvaluationsAreExact == WalksFindAll => (Spec => []EvaluationIsExact)
<1>1. EvaluationInv => EvaluationIsExact
  BY DEF EvaluationInv, EvaluationIsExact
<1> QED
  BY Invariance, <1>1, PTL

(* The step that ends a run leaves what has held since it started.         *)
LEMMA DropsKeepWhatHeld ==
  ASSUME WalksFindAll, EvaluationInv, [Next]_vars, NEW r \in Run,
         ~overlap, At(r, "links"), run'[r].pc = "done"
  PROVE  held[r] \subseteq {f \in Found : path'[f] # None /\ link'[f] # None}
<1>1. /\ TypeOK /\ Clocked /\ Progress(r) /\ Busy(r) /\ run[r].pc = "links"
      /\ Detected(r) /\ Written(r)
  BY ActingInv DEF At, Busy, Active
<1>2. run' # run
  BY <1>1
<1>3. DropLinks(r)
  <2>1. CASE Collector
    BY <2>1, <1>2 DEF Collector, ChangePolicy, ChangeTrust
  <2>2. ASSUME NEW q \in Run, Evaluate(q), q # r
        PROVE  FALSE
    <3>1. RunSteps(q)
      BY <1>1, <2>2, StartStep, ReadPoliciesStep, WritePermissionStep, FetchTrustsStep,
         DetectAssumeStep, DetectPassStep, WritePathStep, WriteLinkStep, DropPathsStep,
         DropLinksStep, FailStep DEF Evaluate
    <3> QED
      BY <1>1, <2>2, <3>1 DEF RunSteps
  <2>3. CASE Evaluate(r)
    <3>1. ~Fail(r)
      BY <1>1, FailStep
    <3> QED
      BY <1>1, <2>3, <3>1 DEF Evaluate, Start, ReadPolicies, WritePermission, FetchTrusts,
         DetectAssume, DetectPass, WritePath, WriteLink, DropPaths, At
  <2> QED
    BY <1>2, <2>1, <2>2, <2>3 DEF Next, Collector, vars
<1>4. ASSUME NEW f \in held[r]
      PROVE  f \in Found /\ path'[f] # None /\ link'[f] # None
  <2>1. f \in Found /\ run[r].found[f] # None
    BY <1>1, HeldPresent DEF Detected
  <2>2. path[f] = run[r].found[f] /\ link[f] = run[r].found[f]
    BY <1>1, <2>1, NoneAssumption DEF Written
  <2> QED
    BY <1>1, <1>3, <2>1, <2>2, LinksDropped DEF DropLinks
<1> QED
  BY <1>4

(* However the graph changes between the reads of a run, it ends, where    *)
(* runs do not overlap, with every escalation that was possible all along  *)
(* still recorded (index.ts:383-397).                                      *)
THEOREM HeldIsKept == WalksFindAll => (Spec => WhatHoldsIsKept)
<1> SUFFICES ASSUME WalksFindAll PROVE Spec => WhatHoldsIsKept
  OBVIOUS
<1>1. EvaluationInv /\ [Next]_vars =>
        [\A r \in Run : ~overlap /\ At(r, "links") /\ run'[r].pc = "done" =>
           held[r] \subseteq {f \in Found : path'[f] # None /\ link'[f] # None}]_vars
  BY DropsKeepWhatHeld
<1> QED
  BY Invariance, <1>1, PTL DEF Spec, WhatHoldsIsKept

-----------------------------------------------------------------------------
(* PolicyEffects: what is made of any documents is what IAM says of them.  *)
EffectsInv == EffectsTypeOK /\ IsFiniteSet(statements)

LEMMA EffectsStart == EffectsParameters /\ EffectsInit => EffectsInv
BY FS_EmptySet DEF EffectsParameters, EffectsInit, EffectsInv, EffectsTypeOK

LEMMA EffectsStep ==
  ASSUME EffectsParameters, EffectsInv, [EffectsNext]_statements
  PROVE  EffectsInv'
<1>1. CASE Attach
  <2>1. PICK s \in Statements \ statements : statements' = statements \cup {s}
    BY <1>1 DEF Attach
  <2>2. IsFiniteSet(statements') /\ Cardinality(statements') = Cardinality(statements) + 1
    BY <2>1, FS_AddElement DEF EffectsInv
  <2>3. Cardinality(statements) \in Nat /\ Cardinality(statements) < MaxStatements
    BY <1>1, FS_CardinalityType DEF EffectsInv, Attach
  <2> QED
    BY <2>1, <2>2, <2>3 DEF EffectsInv, EffectsTypeOK, EffectsParameters
<1>2. CASE Detach
  <2>1. PICK s \in statements : statements' = statements \ {s}
    BY <1>2 DEF Detach
  <2>2. /\ IsFiniteSet(statements') /\ Cardinality(statements') <= Cardinality(statements)
        /\ Cardinality(statements) \in Nat /\ Cardinality(statements') \in Nat
    BY <2>1, FS_Subset, FS_CardinalityType DEF EffectsInv
  <2> QED
    BY <2>1, <2>2 DEF EffectsInv, EffectsTypeOK, EffectsParameters
<1>3. CASE UNCHANGED statements
  BY <1>3 DEF EffectsInv, EffectsTypeOK
<1> QED
  BY <1>1, <1>2, <1>3 DEF EffectsNext

(* A condition that counts holds only where its service is passed.         *)
LEMMA CountedNeedsService ==
  ASSUME EffectsParameters, NEW s \in Statements, Counted(s), NEW x, NEW mfa,
         \A i \in DOMAIN s.conditions : Met(s.conditions[i], x, mfa)
  PROVE  /\ x = "none" => s.conditions = <<>>
         /\ x \in DOMAIN PASS_ROLE_COMPUTE => x \in PassedToServices(s)
<1>1. \A i \in DOMAIN s.conditions : x # "none" /\ Matched(s.conditions[i].values, x)
  BY DEF Counted, Met
<1>2. CASE s.conditions = <<>>
  BY <1>2 DEF PassedToServices
<1>3. CASE 1 \in DOMAIN s.conditions
  BY <1>1, <1>3 DEF PassedToServices
<1> QED
  BY <1>2, <1>3 DEF EffectsParameters

(* A Deny without conditions denies.                                       *)
LEMMA PlainDenyDenies ==
  ASSUME NEW ss, NEW t \in ss, PlainDeny(t), ~ t.notResource, NEW action, NEW resource,
         NEW service, NEW mfa, CoversAction(t, action), Matched(t.resources, resource)
  PROVE  ~ IamAllows(ss, action, resource, service, mfa)
<1>1. Matched(t.actions, action) <=> ~ t.notAction
  BY DEF CoversAction
<1>2. t.effect = "Deny" /\ t.conditions = <<>>
  BY DEF PlainDeny
<1>3. Applies(t, action, resource, service, mfa)
  BY <1>1, <1>2 DEF Applies
<1> QED
  BY <1>2, <1>3 DEF IamAllows

LEMMA AppliesPlainly ==
  ASSUME NEW s, s.conditions = <<>>, ~ s.notResource, NEW action, NEW resource, NEW service, NEW mfa
  PROVE  Applies(s, action, resource, service, mfa)
           <=> CoversAction(s, action) /\ Matched(s.resources, resource)
BY DEF Applies, CoversAction

LEMMA NothingHidden ==
  ASSUME EffectsParameters, NEW ss \in SUBSET Statements, NEW r \in AdminRoles,
         CanBecome(ss, r, FALSE), r.accountId = Self.accountId, r.arn # Self.arn,
         ~ \E s \in ss : Uncounted(s), ~ ResolveEffectivePermissions(ss).isAdmin
  PROVE  r \in PassRolePaths(ss)
<1>1. PICK x \in r.trusted \cap DOMAIN PASS_ROLE_COMPUTE :
         /\ IamAllows(ss, PASS_ROLE, r.passArn, x, FALSE)
         /\ \E actions \in PASS_ROLE_COMPUTE[x] :
              \A a \in actions : IamAllows(ss, a, "anything", "none", FALSE)
  BY DEF CanBecome
<1>2. ASSUME NEW t \in ss, PlainDeny(t)
      PROVE  ~ t.notResource
  BY <1>2 DEF PlainDeny, EffectsParameters
<1>3. ASSUME NEW s \in ss, NEW a, NEW resource, NEW y \in DOMAIN PASS_ROLE_COMPUTE \cup {"none"},
             s.effect = "Allow", Applies(s, a, resource, y, FALSE)
      PROVE  /\ Counted(s) /\ CoversAction(s, a)
             /\ y = "none" => s.conditions = <<>>
             /\ y \in DOMAIN PASS_ROLE_COMPUTE => y \in PassedToServices(s)
  <2>1. (Matched(s.actions, a) <=> ~ s.notAction) /\ \A i \in DOMAIN s.conditions : Met(s.conditions[i], y, FALSE)
    BY <1>3 DEF Applies
  <2>2. Counted(s)
    BY <1>3, <2>1, Zenon DEF Uncounted
  <2>3. CoversAction(s, a)
    BY <2>1 DEF CoversAction
  <2> QED
    BY <2>1, <2>2, <2>3, CountedNeedsService, Zenon
<1>4. \A a : IamAllows(ss, a, "anything", "none", FALSE) => ActionAllowed(ss, a)
  <2> SUFFICES ASSUME NEW a, IamAllows(ss, a, "anything", "none", FALSE)
               PROVE  ActionAllowed(ss, a)
    OBVIOUS
  <2>1. PICK s \in ss : s.effect = "Allow" /\ Applies(s, a, "anything", "none", FALSE)
    BY DEF IamAllows
  <2>2. s \in Allows(ss) /\ s.conditions = <<>> /\ CoversAction(s, a)
    BY <1>3, <2>1 DEF Allows
  <2>3. ASSUME NEW t \in ss, PlainDeny(t), CoversAction(t, a), "*" \in t.resources
        PROVE  FALSE
    <3>1. Matched(t.resources, "anything")
      BY <2>3 DEF Matched, EffectsParameters
    <3> QED
      BY <1>2, <2>3, <3>1, PlainDenyDenies
  <2> QED
    BY <2>2, <2>3 DEF ActionAllowed
<1>5. x \in PassRoleCapability(ss).services
  BY <1>1, <1>4 DEF PassRoleCapability
<1>6. \E g \in PassRoleCapability(ss).grants : GrantAllows(g, r, x)
  <2>1. PICK s \in ss : s.effect = "Allow" /\ Applies(s, PASS_ROLE, r.passArn, x, FALSE)
    BY <1>1 DEF IamAllows
  <2>2. Counted(s) /\ CoversAction(s, PASS_ROLE) /\ x \in PassedToServices(s)
    BY <1>1, <1>3, <2>1
  <2>3. Matched(s.resources, r.passArn) <=> ~ s.notResource
    BY <2>1 DEF Applies
  <2>4. s \in PassRoleCapability(ss).grants
    BY <2>1, <2>2 DEF PassRoleCapability, Allows
  <2> QED
    BY <2>2, <2>3, <2>4 DEF GrantAllows
<1>7. ~ Matched(PassRoleCapability(ss).denied, r.passArn)
  <2>1. SUFFICES ASSUME Matched(PassRoleCapability(ss).denied, r.passArn)
                 PROVE  FALSE
    OBVIOUS
  <2>2. PICK t \in ss : /\ PlainDeny(t) /\ CoversAction(t, PASS_ROLE)
                        /\ Matched(t.resources, r.passArn)
    BY <2>1 DEF PassRoleCapability, Matched
  <2> QED
    BY <1>1, <1>2, <2>2, PlainDenyDenies
<1>8. r \in PassableAdminRoles
  BY <1>1 DEF PassableAdminRoles
<1>9. r \in DetectPassRoleEscalations(ss)
  BY <1>1, <1>5, <1>6, <1>7, <1>8 DEF DetectPassRoleEscalations
<1> QED
  BY <1>9 DEF PassRolePaths

LEMMA ReportedIsReal ==
  ASSUME EffectsParameters, NEW ss \in SUBSET Statements, NEW r \in PassRolePaths(ss),
         \A s \in ss : s.conditions = <<>> /\ ~ s.notResource /\ s.resources = {"*"}
  PROVE  CanBecome(ss, r, FALSE)
<1>1. r \in DetectPassRoleEscalations(ss)
  BY DEF PassRolePaths
<1>2. PICK x \in r.trusted \cap PassRoleCapability(ss).services,
           g \in PassRoleCapability(ss).grants : GrantAllows(g, r, x)
  BY <1>1 DEF DetectPassRoleEscalations
<1>3. ~ Matched(PassRoleCapability(ss).denied, r.passArn)
  BY <1>1 DEF DetectPassRoleEscalations
<1>4. PICK actions \in PASS_ROLE_COMPUTE[x] : \A a \in actions : ActionAllowed(ss, a)
  BY <1>2 DEF PassRoleCapability
<1>5. x \in DOMAIN PASS_ROLE_COMPUTE
  BY <1>2 DEF PassRoleCapability
<1>6. \A s \in ss : ~ s.notResource
  OBVIOUS
<1>7. \A s \in ss : \A y : Matched(s.resources, y) <=> y \in Covers["*"]
  BY DEF Matched
<1>8. g \in ss /\ g.effect = "Allow" /\ CoversAction(g, PASS_ROLE)
  BY <1>2 DEF PassRoleCapability, Allows
<1>9. r.passArn \in Covers["*"]
  BY <1>2, <1>6, <1>7, <1>8 DEF GrantAllows
<1>10. \A s \in ss : \A a, y, z : y \in Covers["*"] => (Applies(s, a, y, z, FALSE) <=> CoversAction(s, a))
  BY <1>7, AppliesPlainly, Zenon
<1>11. IamAllows(ss, PASS_ROLE, r.passArn, x, FALSE)
  <2>1. Applies(g, PASS_ROLE, r.passArn, x, FALSE)
    BY <1>8, <1>9, <1>10
  <2>2. ASSUME NEW t \in ss, t.effect = "Deny", Applies(t, PASS_ROLE, r.passArn, x, FALSE)
        PROVE  FALSE
    <3>1. CoversAction(t, PASS_ROLE) /\ PlainDeny(t) /\ t.resources = {"*"}
      BY <1>9, <1>10, <2>2, <1>6 DEF PlainDeny
    <3>2. "*" \in PassRoleCapability(ss).denied
      BY <3>1 DEF PassRoleCapability
    <3> QED
      BY <1>3, <1>9, <3>2 DEF Matched
  <2> QED
    BY <1>8, <2>1, <2>2 DEF IamAllows
<1>12. ASSUME NEW a \in actions
       PROVE  IamAllows(ss, a, "anything", "none", FALSE)
  <2>1. ActionAllowed(ss, a) /\ "anything" \in Covers["*"]
    BY <1>4 DEF EffectsParameters
  <2>2. PICK s \in Allows(ss) : CoversAction(s, a)
    BY <2>1 DEF ActionAllowed
  <2>3. ASSUME NEW t \in ss, t.effect = "Deny", Applies(t, a, "anything", "none", FALSE)
        PROVE  FALSE
    <3>1. CoversAction(t, a) /\ PlainDeny(t) /\ "*" \in t.resources
      BY <1>6, <1>10, <2>1, <2>3 DEF PlainDeny
    <3> QED
      BY <2>1, <3>1 DEF ActionAllowed
  <2>4. s \in ss /\ s.effect = "Allow" /\ Applies(s, a, "anything", "none", FALSE)
    BY <1>10, <2>1, <2>2 DEF Allows
  <2> QED
    BY <2>3, <2>4 DEF IamAllows
<1> QED
  BY <1>2, <1>4, <1>5, <1>11, <1>12 DEF CanBecome

LEMMA GivenIsAllowed ==
  ASSUME EffectsParameters, NEW ss \in SUBSET Statements, NEW a,
         \A s \in ss : ~ s.notAction /\ s.resources = {"*"} /\ ~ s.notResource /\ s.conditions = <<>>,
         IamAllows(ss, a, "anything", "none", FALSE)
  PROVE  Matched(AllowedPatterns(ss), a)
<1>1. \A s \in ss : ~ s.notResource /\ ~ s.notAction
  OBVIOUS
<1>2. \A s \in ss : Applies(s, a, "anything", "none", FALSE) <=> Matched(s.actions, a)
  <2>1. \A s \in ss : Matched(s.resources, "anything")
    BY DEF Matched, EffectsParameters
  <2> QED
    BY <1>1, <2>1, AppliesPlainly, Zenon DEF CoversAction
<1>3. PICK s \in ss : s.effect = "Allow" /\ Matched(s.actions, a)
  BY <1>2 DEF IamAllows
<1>4. PICK p \in s.actions : a \in Covers[p]
  BY <1>3 DEF Matched
<1>5. ASSUME p \in DeniedPatterns(ss)
      PROVE  FALSE
  <2>1. PICK t \in ss : t.effect = "Deny" /\ p \in t.actions
    BY <1>1, <1>5 DEF DeniedPatterns, ActionsOf
  <2>2. Matched(t.actions, a)
    BY <1>4, <2>1 DEF Matched
  <2> QED
    BY <1>2, <2>1, <2>2 DEF IamAllows
<1>6. p \in AllowedPatterns(ss)
  <2>1. s \in {t \in Allows(ss) : t.conditions = <<>>} /\ p \in ActionsOf(s)
    BY <1>1, <1>3 DEF Allows, ActionsOf
  <2> QED
    BY <1>5, <2>1 DEF AllowedPatterns
<1> QED
  BY <1>4, <1>6 DEF Matched

(* PoliciesMeanWhatIamSays (PolicyEffects): whatever statements a          *)
(* principal has, no path that needs no context is hidden, without         *)
(* conditions and resources none is invented, and what IAM gives           *)
(* unconditionally is among the allowed patterns.                          *)
THEOREM PoliciesAreIams == EffectsSpec => []PoliciesMeanWhatIamSays
<1> USE EffectsParameters
<1>1. EffectsInit => EffectsInv
  BY EffectsStart
<1>2. EffectsInv /\ [EffectsNext]_statements => EffectsInv'
  BY EffectsStep
<1>3. EffectsInv => PoliciesMeanWhatIamSays
  <2> SUFFICES ASSUME EffectsInv
               PROVE  NoPathIsHidden /\ PathsAreReal /\ AllowedIsWhatIamAllows
    BY DEF PoliciesMeanWhatIamSays, EffectsInv
  <2>1. statements \in SUBSET Statements
    BY DEF EffectsInv, EffectsTypeOK
  <2>2. NoPathIsHidden
    BY <2>1, NothingHidden DEF NoPathIsHidden
  <2>3. PathsAreReal
    BY <2>1, ReportedIsReal DEF PathsAreReal
  <2>4. AllowedPatterns(statements) \cap DeniedPatterns(statements) = {}
    BY DEF AllowedPatterns
  <2>5. ResolveEffectivePermissions(statements).allowed = AllowedPatterns(statements)
    BY DEF ResolveEffectivePermissions
  <2>6. AllowedIsWhatIamAllows
    BY <2>1, <2>4, <2>5, GivenIsAllowed DEF AllowedIsWhatIamAllows
  <2> QED
    BY <2>2, <2>3, <2>6
<1> QED
  BY <1>1, <1>2, <1>3, PTL DEF EffectsSpec
=============================================================================
