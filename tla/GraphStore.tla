------------------------------ MODULE GraphStore ------------------------------
(***************************************************************************)
(* The security graph under its writers.  A collection run                 *)
(* (lambdas/collector/index.ts, collect) reads one account's resources     *)
(* stage by stage while AWS changes, stamps everything it saw with the     *)
(* instant the reading ended, upserts vertices, then edges, and last       *)
(* reconciles: it drops what its scope holds from earlier runs.  Runs of   *)
(* other accounts, an overlapping run of the same account (a second job,   *)
(* or a write that outlived its client's timeout) and the incremental      *)
(* collector (lambdas/incremental-collector/index.ts) write between any    *)
(* two of its steps.  One upsert of one element, and one batch of a        *)
(* reconcile, is one step: lambdas/shared/graph-repository.ts.             *)
(***************************************************************************)
EXTENDS Integers, FiniteSets

CONSTANTS
  Resource,    \* what has a vertex: its id is the ARN
  Account,     \* the accounts collected, one Region each
  Shared,      \* owner of the vertices every account writes under one id
  Owner,       \* the account a resource belongs to, or Shared
  Link,        \* the edges <<from, to>> a linked resource may have
  Evented,     \* resources whose changes processEvent turns into a vertex
  Blind,       \* those of them it writes without asking AWS (buckets)
  Run,         \* run ids
  AccountOf,   \* the account a run collects
  None,        \* no element, no run id, no answer yet
  BatchSize,   \* elements a reconcile drops in one round (reconcileBatchSize)
  MaxChanges   \* bound on the changes AWS makes

Gone    == "gone"      \* the resource does not exist in AWS
Failed  == "failed"    \* the stage that reads the resource failed
Bare    == "bare"      \* a vertex written from an event: identity only
Config  == {"plain", "linked"}  \* what a stage reads of an existing resource

Owned(a) == {x \in Resource : Owner[x] = a}

ASSUME OwnerAssumption == Shared \notin Account /\ Owner \in [Resource -> Account \cup {Shared}]
ASSUME LinkAssumption ==
  /\ Link \subseteq {l \in Resource \X Resource : Owner[l[1]] # Shared}
  /\ Link \cap Resource = {}
ASSUME RunAssumption == AccountOf \in [Run -> Account]
ASSUME NoneAssumption ==
  /\ None \notin Run
  /\ None \notin Config \cup {Gone, Failed}
  /\ None \notin [config : Config \cup {Bare}, at : Nat, run : Run \cup {None}]
  /\ None \notin [at : Nat, run : Run]
ASSUME BoundAssumption ==
  /\ Blind \subseteq Evented /\ Evented \subseteq Resource
  /\ BatchSize \in Nat \ {0}
  /\ MaxChanges \in Nat

VARIABLES
  aws,      \* what exists in AWS, and its configuration
  clock,
  changes,  \* changes made so far
  events,   \* messages on the incremental queue, and how far each got
  vertex,   \* the graph's vertices
  edge,     \* the graph's edges
  pc,       \* where each run is
  saw,      \* what each run's stages returned
  stamp,    \* each run's completedAt, the observedAt of all it writes
  written,  \* the elements each run has upserted
  overlap,  \* runs of one account may be active together: never changes
  alone     \* history: only this run has acted since it started

vars == <<aws, clock, changes, events, vertex, edge, pc, saw, stamp, written,
          overlap, alone>>
runVars == <<pc, saw, stamp, written>>

Vertex == [config : Config \cup {Bare}, at : Nat, run : Run \cup {None}]
Edge   == [at : Nat, run : Run]
Event  == [res : Resource, at : Nat, step : {"queued", "described", "written"}]
Active == {"reading", "writing", "vertices", "edges"}

TypeOK ==
  /\ aws \in [Resource -> Config \cup {Gone}]
  /\ clock \in Nat
  /\ changes \in Nat
  /\ events \subseteq Event
  /\ vertex \in [Resource -> Vertex \cup {None}]
  /\ edge \in [Link -> Edge \cup {None}]
  /\ pc \in [Run -> Active \cup {"idle", "done", "partial", "aborted"}]
  /\ saw \in [Run -> [Resource -> Config \cup {Gone, Failed, None}]]
  /\ stamp \in [Run -> Nat]
  /\ written \in [Run -> SUBSET (Resource \cup Link)]
  /\ overlap \in BOOLEAN
  /\ alone \in [Run -> BOOLEAN]

Init ==
  /\ aws \in [Resource -> Config \cup {Gone}]
  /\ \A x \in Owned(Shared) : aws[x] = "plain"
  /\ clock = 0
  /\ changes = 0
  /\ events = {}
  /\ vertex = [x \in Resource |-> None]
  /\ edge = [l \in Link |-> None]
  /\ pc = [r \in Run |-> "idle"]
  /\ saw = [r \in Run |-> [x \in Resource |-> None]]
  /\ stamp = [r \in Run |-> 0]
  /\ written = [r \in Run |-> {}]
  /\ overlap \in BOOLEAN
  /\ alone = [r \in Run |-> FALSE]

-----------------------------------------------------------------------------
(* One element. *)

\* Mutant: the last writer wins, whatever was observed.
UpsertedByLastWriter(old, at, config, run) ==
  IF old = None THEN [config |-> config, at |-> at, run |-> run]
  ELSE [config |-> IF config = Bare THEN old.config ELSE config,
        at     |-> at,
        run    |-> IF run = None THEN old.run ELSE run]

\* A vertex after an upsert stamped at: created when absent, refreshed when
\* the stored stamp is older, else left as it is.  Bare and None stand for
\* properties the writer does not send; a refresh keeps what is stored.
Upserted(old, at, config, run) ==
  IF old = None THEN [config |-> config, at |-> at, run |-> run]
  ELSE IF old.at < at
       THEN [config |-> IF config = Bare THEN old.config ELSE config,
             at     |-> at,
             run    |-> IF run = None THEN old.run ELSE run]
       ELSE old

\* Mutant: an edge is written without looking for its vertices.
EdgeUpsertedAnyway(old, l, at, run) ==
  IF old = None \/ old.at < at THEN [at |-> at, run |-> run] ELSE old

\* Mutant: an edge is stamped, but not with the run.
EdgeUpsertedUnscoped(old, l, at, run) ==
  IF old = None
  THEN IF vertex[l[1]] # None /\ vertex[l[2]] # None THEN [at |-> at, run |-> None] ELSE None
  ELSE IF old.at < at THEN [at |-> at, run |-> None] ELSE old

\* An edge is created only between vertices that are in the graph.
EdgeUpserted(old, l, at, run) ==
  IF old = None
  THEN IF vertex[l[1]] # None /\ vertex[l[2]] # None THEN [at |-> at, run |-> run] ELSE None
  ELSE IF old.at < at THEN [at |-> at, run |-> run] ELSE old

\* Mutant: shared vertices are stamped like the run's own.
ScopeOfEverything(r, x) == r

\* The run id a run sends for a vertex: none for the shared ones.
ScopeOf(r, x) == IF Owner[x] = Shared THEN None ELSE r

\* Mutant: whatever another run wrote is stale, also what was observed since.
StaleWhateverObserved(e, r) ==
  /\ e # None
  /\ e.run # None /\ e.run # r
  /\ AccountOf[e.run] = AccountOf[r]

\* What a reconcile of run r selects: same account and scope, a different run
\* id and an older observation.  An element without a run id has no scope.
StaleElement(e, r) ==
  /\ e # None
  /\ e.run # None /\ e.run # r
  /\ AccountOf[e.run] = AccountOf[r]
  /\ e.at < stamp[r]

\* Mutant: the edge pass finds nothing.
StaleEdgesOverlooked(r) == {}

StaleVertices(r) == {x \in Resource : StaleElement(vertex[x], r)}
StaleEdges(r)    == {l \in Link : StaleElement(edge[l], r)}

\* Dropping a vertex drops its edges.
Drop(S) ==
  /\ vertex' = [x \in Resource |-> IF x \in S THEN None ELSE vertex[x]]
  /\ edge' = [l \in Link |-> IF l[1] \in S \/ l[2] \in S THEN None ELSE edge[l]]

\* One round's selection: everything, or a full batch of it.
Batch(stale) ==
  IF Cardinality(stale) < BatchSize THEN {stale}
  ELSE {S \in SUBSET stale : Cardinality(S) = BatchSize}

-----------------------------------------------------------------------------
(* AWS and the incremental collector. *)

\* A resource is created, reconfigured or deleted, and CloudTrail's event for
\* it reaches the incremental queue, stamped with the time of the change.
Change(x, config) ==
  /\ changes < MaxChanges
  /\ Owner[x] # Shared
  /\ aws[x] # config
  /\ aws' = [aws EXCEPT ![x] = config]
  /\ clock' = clock + 1
  /\ changes' = changes + 1
  /\ events' = events \cup {[res |-> y, at |-> clock', step |-> "queued"] : y \in Evented \cap {x}}
  /\ alone' = [r \in Run |-> FALSE]
  /\ UNCHANGED <<vertex, edge, runVars, overlap>>

Moved(e, step) == (events \ {e}) \cup {[e EXCEPT !.step = step]}

\* processEvent: the resource is described, and a missing one fails the
\* message; a bucket's vertex is built from the event alone.
Describe(e) ==
  /\ e.step = "queued"
  /\ e.res \in Blind \/ aws[e.res] # Gone
  /\ events' = Moved(e, "described")
  /\ UNCHANGED <<aws, clock, changes, vertex, edge, runVars, overlap, alone>>

\* writeGraph with the event's time: identity properties, no scope, no run id.
WriteEvent(e) ==
  /\ e.step = "described"
  /\ events' = Moved(e, "written")
  /\ vertex' = [vertex EXCEPT ![e.res] = Upserted(@, e.at, Bare, None)]
  /\ alone' = [r \in Run |-> FALSE]
  /\ UNCHANGED <<aws, clock, changes, edge, runVars, overlap>>

\* The message is deleted after its write, or dead-lettered unhandled.
Consume(e) ==
  /\ e.step \in {"written", "queued"}
  /\ events' = events \ {e}
  /\ UNCHANGED <<aws, clock, changes, vertex, edge, runVars, overlap, alone>>

\* A failure before the deletion leaves the message to be received again.
Redeliver(e) ==
  /\ e.step # "queued"
  /\ events' = Moved(e, "queued")
  /\ UNCHANGED <<aws, clock, changes, vertex, edge, runVars, overlap, alone>>

-----------------------------------------------------------------------------
(* A collection run. *)

Others(r) == {q \in Run \ {r} : pc[q] \in Active}

Start(r) ==
  /\ pc[r] = "idle"
  /\ overlap \/ \A q \in Others(r) : AccountOf[q] # AccountOf[r]
  /\ pc' = [pc EXCEPT ![r] = "reading"]
  /\ alone' = [q \in Run |-> q = r /\ Others(r) = {}]
  /\ UNCHANGED <<aws, clock, changes, events, vertex, edge, saw, stamp, written, overlap>>

Reads(r, x, answer) ==
  /\ pc[r] = "reading"
  /\ Owner[x] = AccountOf[r]
  /\ saw[r][x] = None
  /\ saw' = [saw EXCEPT ![r][x] = answer]
  /\ UNCHANGED <<aws, clock, changes, events, vertex, edge, pc, stamp, written, overlap, alone>>

ReadStage(r, x) == Reads(r, x, aws[x])
FailStage(r, x) == Reads(r, x, Failed)

\* completedAt is taken once every stage has answered.
Complete(r) ==
  /\ pc[r] = "reading"
  /\ \A x \in Owned(AccountOf[r]) : saw[r][x] # None
  /\ clock' = clock + 1
  /\ stamp' = [stamp EXCEPT ![r] = clock']
  /\ pc' = [pc EXCEPT ![r] = "writing"]
  /\ UNCHANGED <<aws, changes, events, vertex, edge, saw, written, overlap, alone>>

\* The links, and the vertices (the run's own and the shared ones its
\* resources are linked to), that the run's answers hold.
SeenLinks(r) == {l \in Link : saw[r][l[1]] = "linked"}
Seen(r) ==
  {x \in Resource : \/ saw[r][x] \in Config
                    \/ Owner[x] = Shared /\ \E l \in SeenLinks(r) : l[2] = x}

NoStageFailed(r) == \A x \in Resource : saw[r][x] # Failed

Nothing == [x \in Resource |-> None]

\* A run's memory goes with it.
Leaves(r, end) ==
  /\ pc' = [pc EXCEPT ![r] = end]
  /\ saw' = [saw EXCEPT ![r] = Nothing]
  /\ written' = [written EXCEPT ![r] = {}]

WriteVertex(r, x) ==
  /\ pc[r] = "writing"
  /\ x \in Seen(r) \ written[r]
  /\ vertex' = [vertex EXCEPT ![x] =
                  Upserted(@, stamp[r], IF Owner[x] = Shared THEN "plain" ELSE saw[r][x],
                           ScopeOf(r, x))]
  /\ written' = [written EXCEPT ![r] = @ \cup {x}]
  /\ UNCHANGED <<aws, clock, changes, events, edge, pc, saw, stamp, overlap, alone>>

\* Edge batches follow the vertex batches.
WriteEdge(r, l) ==
  /\ pc[r] = "writing"
  /\ Seen(r) \subseteq written[r]
  /\ l \in SeenLinks(r) \ written[r]
  /\ edge' = [edge EXCEPT ![l] = EdgeUpserted(@, l, stamp[r], r)]
  /\ written' = [written EXCEPT ![r] = @ \cup {l}]
  /\ UNCHANGED <<aws, clock, changes, events, vertex, pc, saw, stamp, overlap, alone>>

\* The reconcile request follows the last batch, if no stage failed.
EndWrites(r) ==
  /\ pc[r] = "writing"
  /\ Seen(r) \cup SeenLinks(r) \subseteq written[r]
  /\ IF NoStageFailed(r)
     THEN pc' = [pc EXCEPT ![r] = "vertices"] /\ UNCHANGED <<saw, written>>
     ELSE Leaves(r, "partial")
  /\ UNCHANGED <<aws, clock, changes, events, vertex, edge, stamp, overlap, alone>>

\* Rounds of at most a batch; a short round is the last.
ReconcileVertices(r) ==
  /\ pc[r] = "vertices"
  /\ \E S \in Batch(StaleVertices(r)) :
       /\ Drop(S)
       /\ pc' = [pc EXCEPT ![r] = IF Cardinality(S) < BatchSize THEN "edges" ELSE @]
  /\ UNCHANGED <<aws, clock, changes, events, saw, stamp, written, overlap, alone>>

ReconcileEdges(r) ==
  /\ pc[r] = "edges"
  /\ \E S \in Batch(StaleEdges(r)) :
       /\ edge' = [l \in Link |-> IF l \in S THEN None ELSE edge[l]]
       /\ IF Cardinality(S) < BatchSize THEN Leaves(r, "done")
                                       ELSE UNCHANGED <<pc, saw, written>>
  /\ UNCHANGED <<aws, clock, changes, events, vertex, stamp, overlap, alone>>

\* A write that exhausts its retries, or the end of the pod.
Abort(r) ==
  /\ pc[r] \in Active
  /\ Leaves(r, "aborted")
  /\ UNCHANGED <<aws, clock, changes, events, vertex, edge, stamp, overlap, alone>>

-----------------------------------------------------------------------------

Incremental == \E e \in events : Describe(e) \/ WriteEvent(e) \/ Consume(e) \/ Redeliver(e)

Collect(r) ==
  \/ Start(r) \/ Complete(r) \/ EndWrites(r) \/ Abort(r)
  \/ ReconcileVertices(r) \/ ReconcileEdges(r)
  \/ \E x \in Resource : ReadStage(r, x) \/ FailStage(r, x) \/ WriteVertex(r, x)
  \/ \E l \in Link : WriteEdge(r, l)

Next ==
  \/ \E x \in Resource, config \in Config \cup {Gone} : Change(x, config)
  \/ Incremental
  \/ \E r \in Run : Collect(r)

Spec == Init /\ [][Next]_vars
-----------------------------------------------------------------------------
(* What the graph promises. *)

\* An edge never outlives either of its vertices, whoever drops them: rules
\* traverse edges without checking (graph-repository.ts:145-147, 435-459).
EdgesHaveEndpoints ==
  \A l \in Link : edge[l] # None => vertex[l[1]] # None /\ vertex[l[2]] # None

\* An account's edge to a shared vertex (an AWS-managed policy, an external
\* account) is lost only to a reconcile of that account: other accounts' runs
\* neither drop it nor the vertex under it (collector/index.ts:827-843).
AttachmentsKept ==
  [][\A l \in Link :
       Owner[l[2]] = Shared /\ edge[l] # None /\ edge'[l] = None
       => \E r \in Run : /\ AccountOf[r] = Owner[l[1]]
                         /\ pc[r] \in {"vertices", "edges"}]_vars

\* What was observed after a run ended its reading is neither overwritten nor
\* dropped by that run, however late its writes land
\* (graph-repository.ts:246-261, 466-468).
NewerObservationsKept ==
  [][\A x \in Resource :
       vertex[x] # None /\ vertex'[x] # vertex[x]
       => \E at \in {stamp[q] : q \in Run} \cup {e.at : e \in events} :
            /\ vertex[x].at < at
            /\ vertex'[x] = None \/ vertex'[x].at = at]_vars

\* Where runs of one account do not overlap, a run drops nothing it saw, even
\* when the incremental collector writes between the run's upserts and its
\* reconcile (collector/index.ts:892-909, graph-repository.ts:241-261).
SeenIsNotDropped ==
  [][\A r \in Run : \A x \in Owned(AccountOf[r]) :
       ~overlap /\ pc[r] = "vertices" /\ vertex[x] # None /\ vertex'[x] = None
       => x \notin Seen(r)]_vars

\* A complete run that nothing interleaved with leaves its account's part of
\* the graph equal to AWS: every resource with its configuration, every link
\* whose end is in the graph, and nothing else that has a scope
\* (collector/index.ts:811-909).
RunMirrorsAws ==
  \A r \in Run :
    pc[r] = "done" /\ alone[r] =>
      \A x \in Owned(AccountOf[r]) :
        /\ IF aws[x] = Gone
           THEN vertex[x] = None \/ vertex[x].run = None
           ELSE vertex[x] = [config |-> aws[x], at |-> stamp[r], run |-> r]
        /\ \A l \in Link :
             l[1] = x => (edge[l] # None <=> aws[x] = "linked" /\ vertex[l[2]] # None)

=============================================================================
