-------------------------- MODULE GraphStore_proofs --------------------------
(***************************************************************************)
(* Proofs about GraphStore, for any number of accounts, resources, links,  *)
(* runs and events, and any batch size.                                    *)
(***************************************************************************)
EXTENDS GraphStore, TLAPS

-----------------------------------------------------------------------------
(* The operators. *)

LEMMA NoneIsNone == None \notin Vertex /\ None \notin Edge
BY NoneAssumption DEF Vertex, Edge

LEMMA UpsertedType ==
  ASSUME NEW old \in Vertex \cup {None}, NEW at \in Nat, NEW config \in Config \cup {Bare},
         NEW r \in Run \cup {None}
  PROVE  Upserted(old, at, config, r) \in Vertex
BY NoneAssumption DEF Upserted, Vertex

LEMMA EdgeUpsertedType ==
  ASSUME NEW old \in Edge \cup {None}, NEW l, NEW at \in Nat, NEW r \in Run
  PROVE  EdgeUpserted(old, l, at, r) \in Edge \cup {None}
BY NoneAssumption DEF EdgeUpserted, Edge

(* A round drops some of what is stale, and nothing else.                  *)
LEMMA BatchOfStale ==
  ASSUME NEW stale, NEW S \in Batch(stale)
  PROVE  S \subseteq stale
BY DEF Batch

LEMMA LinkEnds ==
  ASSUME NEW l \in Link
  PROVE  l[1] \in Resource /\ l[2] \in Resource /\ Owner[l[1]] # Shared
BY LinkAssumption

LEMMA DropType ==
  ASSUME NEW S, Drop(S),
         vertex \in [Resource -> Vertex \cup {None}], edge \in [Link -> Edge \cup {None}]
  PROVE  vertex' \in [Resource -> Vertex \cup {None}] /\ edge' \in [Link -> Edge \cup {None}]
BY DEF Drop

-----------------------------------------------------------------------------
(* Types. *)

LEMMA InitType == Init => TypeOK
BY DEF Init, TypeOK, Owned

LEMMA ChangeType ==
  ASSUME TypeOK, NEW x \in Resource, NEW config \in Config \cup {Gone}, Change(x, config)
  PROVE  TypeOK'
<1>1. clock' \in Nat /\ changes' \in Nat /\ aws' \in [Resource -> Config \cup {Gone}]
  BY DEF TypeOK, Change
<1>2. events' \subseteq Event
  BY <1>1 DEF TypeOK, Change, Event
<1>3. alone' \in [Run -> BOOLEAN]
  BY DEF Change
<1> QED
  BY <1>1, <1>2, <1>3 DEF TypeOK, Change, runVars

LEMMA MovedType ==
  ASSUME events \subseteq Event, NEW e \in Event,
         NEW step \in {"queued", "described", "written"}
  PROVE  Moved(e, step) \subseteq Event
<1>1. [e EXCEPT !.step = step] \in Event
  BY DEF Event
<1> QED
  BY <1>1 DEF Moved

LEMMA IncrementalType ==
  ASSUME TypeOK, Incremental
  PROVE  TypeOK'
<1>1. PICK e \in events : Describe(e) \/ WriteEvent(e) \/ Consume(e) \/ Redeliver(e)
  BY DEF Incremental
<1>2. e \in Event
  BY DEF TypeOK
<1>3. events' \subseteq Event
  BY <1>1, <1>2, MovedType DEF TypeOK, Describe, WriteEvent, Consume, Redeliver
<1>4. vertex' \in [Resource -> Vertex \cup {None}]
  <2>1. CASE WriteEvent(e)
    <3>1. Upserted(vertex[e.res], e.at, Bare, None) \in Vertex
      BY <1>2, UpsertedType DEF TypeOK, Event
    <3> QED
      BY <2>1, <3>1 DEF WriteEvent, TypeOK
  <2> QED
    BY <1>1, <2>1 DEF Describe, Consume, Redeliver, TypeOK
<1>5. alone' \in [Run -> BOOLEAN]
  BY <1>1 DEF Describe, WriteEvent, Consume, Redeliver, TypeOK
<1> QED
  BY <1>1, <1>3, <1>4, <1>5 DEF Describe, WriteEvent, Consume, Redeliver, TypeOK, runVars

LEMMA LeavesType ==
  ASSUME TypeOK, NEW r \in Run, NEW end \in {"done", "partial", "aborted"}, Leaves(r, end)
  PROVE  /\ pc' \in [Run -> Active \cup {"idle", "done", "partial", "aborted"}]
         /\ saw' \in [Run -> [Resource -> Config \cup {Gone, Failed, None}]]
         /\ written' \in [Run -> SUBSET (Resource \cup Link)]
<1>1. Nothing \in [Resource -> Config \cup {Gone, Failed, None}]
  BY DEF Nothing
<1> QED
  BY <1>1 DEF Leaves, TypeOK

LEMMA StagesType ==
  ASSUME TypeOK, NEW r \in Run,
         \/ Start(r) \/ Complete(r) \/ EndWrites(r) \/ Abort(r)
         \/ \E x \in Resource : ReadStage(r, x) \/ FailStage(r, x)
  PROVE  TypeOK'
<1>1. CASE Start(r)
  BY <1>1 DEF Start, TypeOK, Active
<1>2. CASE Complete(r)
  <2>1. clock' \in Nat /\ stamp' \in [Run -> Nat]
    BY <1>2 DEF Complete, TypeOK
  <2> QED
    BY <1>2, <2>1 DEF Complete, TypeOK, Active
<1>3. CASE EndWrites(r)
  <2>1. CASE NoStageFailed(r)
    BY <1>3, <2>1 DEF EndWrites, TypeOK, Active
  <2>2. CASE ~NoStageFailed(r)
    BY <1>3, <2>2, LeavesType DEF EndWrites, TypeOK
  <2> QED
    BY <2>1, <2>2
<1>4. CASE Abort(r)
  BY <1>4, LeavesType DEF Abort, TypeOK
<1>5. ASSUME NEW x \in Resource, ReadStage(r, x) \/ FailStage(r, x)
      PROVE  TypeOK'
  <2>1. PICK answer \in Config \cup {Gone, Failed} : Reads(r, x, answer)
    BY <1>5 DEF ReadStage, FailStage, TypeOK
  <2> QED
    BY <2>1 DEF Reads, TypeOK
<1> QED
  BY <1>1, <1>2, <1>3, <1>4, <1>5

(* What a run sends for a vertex it saw.                                   *)
Sent(r, x) == IF Owner[x] = Shared THEN "plain" ELSE saw[r][x]

LEMMA SentType ==
  ASSUME NEW r \in Run, NEW x \in Seen(r)
  PROVE  x \in Resource /\ Sent(r, x) \in Config /\ ScopeOf(r, x) \in Run \cup {None}
BY DEF Seen, Sent, ScopeOf, Config

LEMMA WritesType ==
  ASSUME TypeOK, NEW r \in Run,
         \/ \E x \in Resource : WriteVertex(r, x)
         \/ \E l \in Link : WriteEdge(r, l)
         \/ ReconcileVertices(r) \/ ReconcileEdges(r)
  PROVE  TypeOK'
<1>1. ASSUME NEW x \in Resource, WriteVertex(r, x)
      PROVE  TypeOK'
  <2>1. Upserted(vertex[x], stamp[r], Sent(r, x), ScopeOf(r, x)) \in Vertex
    BY <1>1, SentType, UpsertedType DEF WriteVertex, TypeOK
  <2>2. vertex' \in [Resource -> Vertex \cup {None}]
    BY <1>1, <2>1 DEF WriteVertex, TypeOK, Sent
  <2>3. written' \in [Run -> SUBSET (Resource \cup Link)]
    BY <1>1 DEF WriteVertex, TypeOK
  <2> QED
    BY <1>1, <2>2, <2>3 DEF WriteVertex, TypeOK
<1>2. ASSUME NEW l \in Link, WriteEdge(r, l)
      PROVE  TypeOK'
  <2>1. EdgeUpserted(edge[l], l, stamp[r], r) \in Edge \cup {None}
    BY EdgeUpsertedType DEF TypeOK
  <2>2. edge' \in [Link -> Edge \cup {None}]
    BY <1>2, <2>1 DEF WriteEdge, TypeOK
  <2>3. written' \in [Run -> SUBSET (Resource \cup Link)]
    BY <1>2 DEF WriteEdge, TypeOK
  <2> QED
    BY <1>2, <2>2, <2>3 DEF WriteEdge, TypeOK
<1>3. CASE ReconcileVertices(r)
  <2>1. vertex' \in [Resource -> Vertex \cup {None}] /\ edge' \in [Link -> Edge \cup {None}]
    BY <1>3, DropType DEF ReconcileVertices, TypeOK
  <2>2. pc' \in [Run -> Active \cup {"idle", "done", "partial", "aborted"}]
    BY <1>3 DEF ReconcileVertices, TypeOK, Active
  <2> QED
    BY <1>3, <2>1, <2>2 DEF ReconcileVertices, TypeOK
<1>4. CASE ReconcileEdges(r)
  <2>1. edge' \in [Link -> Edge \cup {None}]
    BY <1>4 DEF ReconcileEdges, TypeOK
  <2>2. \/ Leaves(r, "done")
        \/ UNCHANGED <<pc, saw, written>>
    BY <1>4 DEF ReconcileEdges
  <2> QED
    BY <1>4, <2>1, <2>2, LeavesType DEF ReconcileEdges, TypeOK
<1> QED
  BY <1>1, <1>2, <1>3, <1>4

LEMMA StepType == TypeOK /\ [Next]_vars => TypeOK'
<1> SUFFICES ASSUME TypeOK, [Next]_vars PROVE TypeOK'
  OBVIOUS
<1>1. CASE UNCHANGED vars
  BY <1>1 DEF vars, TypeOK
<1>2. CASE Next
  BY <1>2, ChangeType, IncrementalType, StagesType, WritesType DEF Next, Collect
<1> QED
  BY <1>1, <1>2

(* Every vertex, edge, event and run stays in its domain: no reconcile and *)
(* no upsert leaves a half-built element, whatever interleaves.            *)
THEOREM TypeCorrect == Spec => []TypeOK
<1> QED
  BY InitType, StepType, PTL DEF Spec

-----------------------------------------------------------------------------
(* What one step can do to one element.                                    *)

(* A vertex is upserted by an event or by a run that saw it, or dropped by *)
(* a run that finds it stale.                                              *)
VertexStep(x) ==
  \/ vertex'[x] = vertex[x]
  \/ \E e \in events : vertex'[x] = Upserted(vertex[x], e.at, Bare, None)
  \/ \E r \in Run : /\ pc[r] = "writing" /\ x \in Seen(r)
                    /\ vertex'[x] = Upserted(vertex[x], stamp[r], Sent(r, x), ScopeOf(r, x))
  \/ \E r \in Run : /\ pc[r] = "vertices" /\ x \in StaleVertices(r)
                    /\ vertex'[x] = None

(* An edge is upserted by a run that saw it, or dropped by a run that      *)
(* finds it, or one of its ends, stale.                                    *)
EdgeStep(l) ==
  \/ edge'[l] = edge[l]
  \/ \E r \in Run : /\ pc[r] = "writing" /\ l \in SeenLinks(r) /\ vertex' = vertex
                    /\ edge'[l] = EdgeUpserted(edge[l], l, stamp[r], r)
  \/ \E r \in Run : /\ edge'[l] = None
                    /\ \/ pc[r] = "vertices" /\ {l[1], l[2]} \cap StaleVertices(r) # {}
                       \/ pc[r] = "edges" /\ l \in StaleEdges(r)

(* The edges of a vertex go with it.                                       *)
EdgesFollow ==
  \A x \in Resource : vertex[x] # None /\ vertex'[x] = None =>
    \A l \in Link : x \in {l[1], l[2]} => edge'[l] = None

LEMMA ElementSteps ==
  ASSUME TypeOK, [Next]_vars
  PROVE  (\A x \in Resource : VertexStep(x)) /\ (\A l \in Link : EdgeStep(l)) /\ EdgesFollow
<1>1. CASE UNCHANGED <<vertex, edge>>
  BY <1>1 DEF VertexStep, EdgeStep, EdgesFollow
<1>2. ASSUME NEW e \in events, WriteEvent(e)
      PROVE  /\ \A x \in Resource : VertexStep(x)
             /\ \A l \in Link : EdgeStep(l)
             /\ EdgesFollow
  <2>1. e \in Event
    BY DEF TypeOK
  <2>2. Upserted(vertex[e.res], e.at, Bare, None) # None
    <3>1. vertex[e.res] \in Vertex \cup {None} /\ e.at \in Nat
      BY <2>1 DEF TypeOK, Event
    <3> QED
      BY <3>1, UpsertedType, NoneIsNone
  <2>3. \A x \in Resource :
          vertex'[x] = IF x = e.res THEN Upserted(vertex[x], e.at, Bare, None) ELSE vertex[x]
    BY <1>2 DEF WriteEvent, TypeOK
  <2>4. edge' = edge
    BY <1>2 DEF WriteEvent
  <2> QED
    BY <2>2, <2>3, <2>4 DEF VertexStep, EdgeStep, EdgesFollow
<1>3. ASSUME NEW r \in Run, NEW y \in Resource, WriteVertex(r, y)
      PROVE  /\ \A x \in Resource : VertexStep(x)
             /\ \A l \in Link : EdgeStep(l)
             /\ EdgesFollow
  <2>1. Upserted(vertex[y], stamp[r], Sent(r, y), ScopeOf(r, y)) # None
    <3>1. /\ vertex[y] \in Vertex \cup {None} /\ stamp[r] \in Nat
          /\ Sent(r, y) \in Config \cup {Bare} /\ ScopeOf(r, y) \in Run \cup {None}
      BY <1>3, SentType DEF WriteVertex, TypeOK
    <3> QED
      BY <3>1, UpsertedType, NoneIsNone
  <2>2. \A x \in Resource :
          vertex'[x] = IF x = y THEN Upserted(vertex[x], stamp[r], Sent(r, x), ScopeOf(r, x))
                                ELSE vertex[x]
    BY <1>3 DEF WriteVertex, TypeOK, Sent
  <2>3. pc[r] = "writing" /\ y \in Seen(r) /\ edge' = edge
    BY <1>3 DEF WriteVertex
  <2> QED
    BY <2>1, <2>2, <2>3 DEF VertexStep, EdgeStep, EdgesFollow
<1>4. ASSUME NEW r \in Run, NEW k \in Link, WriteEdge(r, k)
      PROVE  /\ \A x \in Resource : VertexStep(x)
             /\ \A l \in Link : EdgeStep(l)
             /\ EdgesFollow
  <2>1. \A l \in Link :
          edge'[l] = IF l = k THEN EdgeUpserted(edge[l], l, stamp[r], r) ELSE edge[l]
    BY <1>4 DEF WriteEdge, TypeOK
  <2>2. pc[r] = "writing" /\ k \in SeenLinks(r) /\ vertex' = vertex
    BY <1>4 DEF WriteEdge
  <2> QED
    BY <2>1, <2>2 DEF VertexStep, EdgeStep, EdgesFollow
<1>5. ASSUME NEW r \in Run, ReconcileVertices(r)
      PROVE  /\ \A x \in Resource : VertexStep(x)
             /\ \A l \in Link : EdgeStep(l)
             /\ EdgesFollow
  <2>1. PICK S \in Batch(StaleVertices(r)) : Drop(S)
    BY <1>5 DEF ReconcileVertices
  <2>2. S \subseteq StaleVertices(r) /\ pc[r] = "vertices"
    BY <1>5, BatchOfStale DEF ReconcileVertices
  <2>3. \A x \in Resource : VertexStep(x)
    BY <2>1, <2>2 DEF Drop, VertexStep
  <2>4. \A l \in Link : EdgeStep(l)
    BY <2>1, <2>2 DEF Drop, EdgeStep
  <2>5. EdgesFollow
    BY <2>1 DEF Drop, EdgesFollow
  <2> QED
    BY <2>3, <2>4, <2>5
<1>6. ASSUME NEW r \in Run, ReconcileEdges(r)
      PROVE  /\ \A x \in Resource : VertexStep(x)
             /\ \A l \in Link : EdgeStep(l)
             /\ EdgesFollow
  <2>1. PICK S \in Batch(StaleEdges(r)) :
          edge' = [l \in Link |-> IF l \in S THEN None ELSE edge[l]]
    BY <1>6 DEF ReconcileEdges
  <2>2. S \subseteq StaleEdges(r) /\ pc[r] = "edges" /\ vertex' = vertex
    BY <1>6, BatchOfStale DEF ReconcileEdges
  <2> QED
    BY <2>1, <2>2 DEF VertexStep, EdgeStep, EdgesFollow
<1>7. \/ UNCHANGED <<vertex, edge>>
      \/ \E e \in events : WriteEvent(e)
      \/ \E r \in Run, x \in Resource : WriteVertex(r, x)
      \/ \E r \in Run, l \in Link : WriteEdge(r, l)
      \/ \E r \in Run : ReconcileVertices(r) \/ ReconcileEdges(r)
  BY DEF Next, Change, Incremental, Describe, Consume, Redeliver, Collect, Start, Complete,
         EndWrites, Abort, ReadStage, FailStage, Reads, vars
<1> QED
  BY <1>1, <1>2, <1>3, <1>4, <1>5, <1>6, <1>7

(* An upsert keeps or replaces a vertex, and never turns back its stamp.   *)
LEMMA UpsertedAt ==
  ASSUME NEW old \in Vertex \cup {None}, NEW at \in Nat, NEW config, NEW r
  PROVE  /\ Upserted(old, at, config, r).at >= at
         /\ old # None => Upserted(old, at, config, r).at >= old.at
         /\ old # None /\ Upserted(old, at, config, r) # old =>
              old.at < at /\ Upserted(old, at, config, r).at = at
BY NoneAssumption DEF Upserted, Vertex

-----------------------------------------------------------------------------
(* Endpoints. *)

LEMMA InitEndpoints == Init => EdgesHaveEndpoints
BY DEF Init, EdgesHaveEndpoints

LEMMA StepEndpoints ==
  ASSUME TypeOK, EdgesHaveEndpoints, [Next]_vars
  PROVE  EdgesHaveEndpoints'
<1> SUFFICES ASSUME NEW l \in Link, edge'[l] # None
             PROVE  vertex'[l[1]] # None /\ vertex'[l[2]] # None
  BY DEF EdgesHaveEndpoints
<1>1. EdgeStep(l) /\ EdgesFollow
  BY ElementSteps
<1>2. l[1] \in Resource /\ l[2] \in Resource
  BY LinkEnds
<1>3. vertex[l[1]] # None /\ vertex[l[2]] # None
  <2>1. CASE edge[l] # None
    BY <2>1 DEF EdgesHaveEndpoints
  <2>2. CASE edge[l] = None
    BY <1>1, <2>2 DEF EdgeStep, EdgeUpserted
  <2> QED
    BY <2>1, <2>2
<1> QED
  BY <1>1, <1>2, <1>3 DEF EdgesFollow

(* No interleaving of upserts and reconciles, of any number of runs, leaves *)
(* an edge without one of its vertices.                                     *)
THEOREM Endpoints == Spec => []EdgesHaveEndpoints
<1>1. Init => TypeOK /\ EdgesHaveEndpoints
  BY InitType, InitEndpoints
<1>2. TypeOK /\ EdgesHaveEndpoints /\ [Next]_vars => (TypeOK /\ EdgesHaveEndpoints)'
  BY StepType, StepEndpoints
<1> QED
  BY <1>1, <1>2, PTL DEF Spec

-----------------------------------------------------------------------------
(* Observations. *)

LEMMA StepObservations ==
  ASSUME TypeOK, [Next]_vars, NEW x \in Resource, vertex[x] # None, vertex'[x] # vertex[x]
  PROVE  \E at \in {stamp[q] : q \in Run} \cup {e.at : e \in events} :
           /\ vertex[x].at < at
           /\ vertex'[x] = None \/ vertex'[x].at = at
<1>1. VertexStep(x) /\ vertex[x] \in Vertex
  BY ElementSteps DEF TypeOK
<1>2. ASSUME NEW e \in events, vertex'[x] = Upserted(vertex[x], e.at, Bare, None)
      PROVE  vertex[x].at < e.at /\ vertex'[x].at = e.at
  <2>1. e.at \in Nat
    BY DEF TypeOK, Event
  <2> QED
    BY <1>1, <1>2, <2>1, UpsertedAt
<1>3. ASSUME NEW r \in Run,
             vertex'[x] = Upserted(vertex[x], stamp[r], Sent(r, x), ScopeOf(r, x))
      PROVE  vertex[x].at < stamp[r] /\ vertex'[x].at = stamp[r]
  <2>1. stamp[r] \in Nat
    BY DEF TypeOK
  <2> QED
    BY <1>1, <1>3, <2>1, UpsertedAt
<1>4. ASSUME NEW r \in Run, x \in StaleVertices(r), vertex'[x] = None
      PROVE  vertex[x].at < stamp[r] /\ vertex'[x] = None
  BY <1>4 DEF StaleVertices, StaleElement
<1> QED
  BY <1>1, <1>2, <1>3, <1>4 DEF VertexStep

(* Whatever is written or dropped, and however late, gives way to nothing  *)
(* but a later observation.                                                *)
THEOREM Observations == Spec => NewerObservationsKept
<1>1. TypeOK /\ [Next]_vars =>
        [\A x \in Resource :
           vertex[x] # None /\ vertex'[x] # vertex[x]
           => \E at \in {stamp[q] : q \in Run} \cup {e.at : e \in events} :
                /\ vertex[x].at < at
                /\ vertex'[x] = None \/ vertex'[x].at = at]_vars
  BY StepObservations
<1> QED
  BY <1>1, TypeCorrect, PTL DEF Spec, NewerObservationsKept

-----------------------------------------------------------------------------
(* Scopes: what a run reads, stamps and drops is its account's.            *)

SawOwn == \A r \in Run, x \in Resource : saw[r][x] # None => Owner[x] = AccountOf[r]

VerticesScoped ==
  \A x \in Resource : vertex[x] # None /\ vertex[x].run # None =>
                        AccountOf[vertex[x].run] = Owner[x]

EdgesScoped == \A l \in Link : edge[l] # None => AccountOf[edge[l].run] = Owner[l[1]]

ScopeInv == TypeOK /\ SawOwn /\ VerticesScoped /\ EdgesScoped

LEMMA InitScope == Init => ScopeInv
BY InitType DEF Init, ScopeInv, SawOwn, VerticesScoped, EdgesScoped

(* A step changes at most what one run saw, to nothing or by one answer.   *)
LEMMA StepSawOwn ==
  ASSUME TypeOK, SawOwn, [Next]_vars
  PROVE  SawOwn'
<1>1. CASE UNCHANGED saw
  BY <1>1 DEF SawOwn
<1>2. ASSUME NEW r \in Run, NEW end, Leaves(r, end)
      PROVE  SawOwn'
  BY <1>2 DEF Leaves, Nothing, SawOwn, TypeOK
<1>3. ASSUME NEW r \in Run, NEW x \in Resource, NEW answer, Reads(r, x, answer)
      PROVE  SawOwn'
  BY <1>3 DEF Reads, SawOwn, TypeOK
<1>4. \/ UNCHANGED saw
      \/ \E r \in Run : Leaves(r, "done") \/ Leaves(r, "partial") \/ Leaves(r, "aborted")
      \/ \E r \in Run, x \in Resource : Reads(r, x, aws[x]) \/ Reads(r, x, Failed)
  BY DEF Next, Change, Incremental, WriteEvent, Describe, Consume, Redeliver, Collect, Start,
         Complete, EndWrites, Abort, ReadStage, FailStage, WriteVertex, WriteEdge,
         ReconcileVertices, ReconcileEdges, vars, runVars
<1> QED
  BY <1>1, <1>2, <1>3, <1>4

(* A run sees a resource of its own, or a shared one it is linked to, and  *)
(* stamps only the first with itself.                                      *)
LEMMA SeenScope ==
  ASSUME SawOwn, NEW r \in Run, NEW x \in Seen(r), ScopeOf(r, x) # None
  PROVE  ScopeOf(r, x) = r /\ Owner[x] = AccountOf[r]
<1>1. x \in Resource /\ Owner[x] # Shared /\ ScopeOf(r, x) = r
  BY DEF Seen, ScopeOf
<1>2. saw[r][x] # None
  BY <1>1, NoneAssumption DEF Seen
<1> QED
  BY <1>1, <1>2 DEF SawOwn

LEMMA StepVerticesScoped ==
  ASSUME ScopeInv, [Next]_vars
  PROVE  VerticesScoped'
<1> SUFFICES ASSUME NEW x \in Resource, vertex'[x] # None, vertex'[x].run # None
             PROVE  AccountOf[vertex'[x].run] = Owner[x]
  BY DEF VerticesScoped
<1>1. VertexStep(x) /\ vertex[x] \in Vertex \cup {None}
  BY ElementSteps DEF ScopeInv, TypeOK
<1>2. \A at, config, run :
        vertex'[x] = Upserted(vertex[x], at, config, run) =>
          \/ vertex[x] # None /\ vertex'[x].run = vertex[x].run
          \/ vertex'[x].run = run
  BY <1>1 DEF Upserted, Vertex
<1>3. CASE vertex[x] # None /\ vertex'[x].run = vertex[x].run
  BY <1>3 DEF ScopeInv, VerticesScoped
<1>4. ASSUME NEW r \in Run, x \in Seen(r), vertex'[x].run = ScopeOf(r, x)
      PROVE  AccountOf[vertex'[x].run] = Owner[x]
  BY <1>4, SeenScope DEF ScopeInv
<1> QED
  BY <1>1, <1>2, <1>3, <1>4 DEF VertexStep

LEMMA StepEdgesScoped ==
  ASSUME ScopeInv, [Next]_vars
  PROVE  EdgesScoped'
<1> SUFFICES ASSUME NEW l \in Link, edge'[l] # None
             PROVE  AccountOf[edge'[l].run] = Owner[l[1]]
  BY DEF EdgesScoped
<1>1. EdgeStep(l)
  BY ElementSteps DEF ScopeInv
<1>2. CASE edge'[l] = edge[l]
  BY <1>2 DEF ScopeInv, EdgesScoped
<1>3. ASSUME NEW r \in Run, l \in SeenLinks(r),
             edge'[l] = EdgeUpserted(edge[l], l, stamp[r], r), edge'[l] # edge[l]
      PROVE  AccountOf[edge'[l].run] = Owner[l[1]]
  <2>1. edge'[l].run = r
    BY <1>3 DEF EdgeUpserted
  <2>2. saw[r][l[1]] # None /\ l[1] \in Resource
    BY <1>3, LinkEnds, NoneAssumption DEF SeenLinks, Config
  <2> QED
    BY <2>1, <2>2 DEF ScopeInv, SawOwn
<1> QED
  BY <1>1, <1>2, <1>3 DEF EdgeStep

LEMMA StepScope == ScopeInv /\ [Next]_vars => ScopeInv'
BY StepType, StepSawOwn, StepVerticesScoped, StepEdgesScoped DEF ScopeInv

(* A run that finds a vertex stale is a run of its owner.                  *)
LEMMA StaleIsOwned ==
  ASSUME ScopeInv, NEW r \in Run, NEW x \in StaleVertices(r)
  PROVE  x \in Resource /\ Owner[x] = AccountOf[r] /\ vertex[x].at < stamp[r]
BY DEF StaleVertices, StaleElement, ScopeInv, VerticesScoped

LEMMA StepAttachments ==
  ASSUME ScopeInv, [Next]_vars,
         NEW l \in Link, Owner[l[2]] = Shared, edge[l] # None, edge'[l] = None
  PROVE  \E r \in Run : AccountOf[r] = Owner[l[1]] /\ pc[r] \in {"vertices", "edges"}
<1>1. EdgeStep(l)
  BY ElementSteps DEF ScopeInv
<1>2. PICK r \in Run : \/ pc[r] = "vertices" /\ {l[1], l[2]} \cap StaleVertices(r) # {}
                       \/ pc[r] = "edges" /\ l \in StaleEdges(r)
  <2>1. \A r \in Run : EdgeUpserted(edge[l], l, stamp[r], r) # None
    BY NoneAssumption DEF EdgeUpserted, ScopeInv, TypeOK
  <2> QED
    BY <1>1, <2>1 DEF EdgeStep
<1>3. CASE pc[r] = "vertices" /\ {l[1], l[2]} \cap StaleVertices(r) # {}
  <2>1. l[2] \notin StaleVertices(r)
    BY StaleIsOwned, OwnerAssumption, RunAssumption
  <2> QED
    BY <1>3, <2>1, StaleIsOwned
<1>4. CASE pc[r] = "edges" /\ l \in StaleEdges(r)
  BY <1>4 DEF StaleEdges, StaleElement, ScopeInv, EdgesScoped
<1> QED
  BY <1>2, <1>3, <1>4

(* However many accounts link to a shared vertex, one account's reconcile  *)
(* takes none of the others' edges, nor the vertex from under them.        *)
THEOREM Attachments == Spec => AttachmentsKept
<1>1. ScopeInv /\ [Next]_vars => ScopeInv'
  BY StepScope
<1>2. ScopeInv /\ [Next]_vars =>
        [\A l \in Link :
           Owner[l[2]] = Shared /\ edge[l] # None /\ edge'[l] = None
           => \E r \in Run : /\ AccountOf[r] = Owner[l[1]]
                             /\ pc[r] \in {"vertices", "edges"}]_vars
  BY StepAttachments
<1> QED
  BY <1>1, <1>2, InitScope, PTL DEF Spec, AttachmentsKept

-----------------------------------------------------------------------------
(* What a run saw stays, where runs of one account do not overlap.         *)

Writing == {"writing", "vertices", "edges"}

OneAtATime ==
  ~overlap => \A q, r \in Run :
    pc[q] \in Active /\ pc[r] \in Active /\ AccountOf[q] = AccountOf[r] => q = r

(* A run that has read has not written, one that reconciles has written    *)
(* all it saw.                                                             *)
SeenWritten ==
  \A r \in Run : /\ pc[r] \in {"idle", "reading"} => written[r] = {}
                 /\ pc[r] \in {"vertices", "edges"} => Seen(r) \subseteq written[r]

(* What a run has written is there, observed when the run did or later.    *)
WrittenStays ==
  ~overlap => \A r \in Run, x \in Resource :
    pc[r] \in Writing /\ x \in written[r] /\ Owner[x] = AccountOf[r]
    => vertex[x] # None /\ vertex[x].at >= stamp[r]

SeenInv == ScopeInv /\ OneAtATime /\ SeenWritten /\ WrittenStays

LEMMA InitSeen == Init => SeenInv
BY InitScope DEF Init, SeenInv, OneAtATime, SeenWritten, WrittenStays, Writing, Active

(* What a step can do to one run: nothing, or take it one stage further.   *)
RunStep(r) ==
  \/ UNCHANGED <<pc[r], saw[r], written[r], stamp[r]>>
  \/ pc[r] = "idle" /\ pc'[r] = "reading" /\ UNCHANGED <<saw[r], written[r], stamp[r]>>
  \/ pc[r] = "reading" /\ UNCHANGED <<pc[r], written[r], stamp[r]>>
  \/ pc[r] = "reading" /\ pc'[r] = "writing" /\ UNCHANGED <<saw[r], written[r]>>
  \/ /\ pc[r] = "writing" /\ UNCHANGED <<pc[r], saw[r], stamp[r]>>
     /\ \/ \E l \in Link : written'[r] = written[r] \cup {l}
        \/ \E x \in Resource : WriteVertex(r, x)
  \/ /\ pc[r] = "writing" /\ pc'[r] = "vertices" /\ Seen(r) \subseteq written[r]
     /\ UNCHANGED <<saw[r], written[r], stamp[r]>>
  \/ pc[r] = "vertices" /\ pc'[r] = "edges" /\ UNCHANGED <<saw[r], written[r], stamp[r]>>
  \/ pc'[r] \in {"done", "partial", "aborted"} /\ written'[r] = {} /\ UNCHANGED stamp[r]

LEMMA RunSteps ==
  ASSUME TypeOK, [Next]_vars, NEW r \in Run
  PROVE  RunStep(r)
<1>1. CASE UNCHANGED <<pc, saw, written, stamp>>
  BY <1>1 DEF RunStep
<1>2. ASSUME NEW q \in Run, Start(q) \/ Complete(q)
      PROVE  RunStep(r)
  BY <1>2 DEF Start, Complete, RunStep, TypeOK
<1>3. ASSUME NEW q \in Run, NEW x \in Resource, NEW answer, Reads(q, x, answer)
      PROVE  RunStep(r)
  BY <1>3 DEF Reads, RunStep, TypeOK
<1>4. ASSUME NEW q \in Run, NEW x \in Resource, WriteVertex(q, x)
      PROVE  RunStep(r)
  <2>1. CASE q = r
    BY <1>4, <2>1 DEF WriteVertex, RunStep, TypeOK
  <2>2. CASE q # r
    BY <1>4, <2>2 DEF WriteVertex, RunStep, TypeOK
  <2> QED
    BY <2>1, <2>2
<1>5. ASSUME NEW q \in Run, NEW l \in Link, WriteEdge(q, l)
      PROVE  RunStep(r)
  <2>1. UNCHANGED <<pc, saw, stamp>> /\ pc[q] = "writing"
    BY <1>5 DEF WriteEdge
  <2>2. written'[r] = IF q = r THEN written[r] \cup {l} ELSE written[r]
    BY <1>5 DEF WriteEdge, TypeOK
  <2> QED
    BY <2>1, <2>2 DEF RunStep
<1>6. ASSUME NEW q \in Run, NEW end \in {"done", "partial", "aborted"}, Leaves(q, end),
             UNCHANGED stamp
      PROVE  RunStep(r)
  <2>1. CASE q = r
    BY <1>6, <2>1 DEF Leaves, RunStep, TypeOK
  <2>2. CASE q # r
    BY <1>6, <2>2 DEF Leaves, RunStep, TypeOK
  <2> QED
    BY <2>1, <2>2
<1>7. ASSUME NEW q \in Run, EndWrites(q)
      PROVE  RunStep(r)
  <2>1. CASE NoStageFailed(q)
    <3>1. /\ pc[q] = "writing" /\ Seen(q) \subseteq written[q]
          /\ UNCHANGED <<saw, written, stamp>>
      BY <1>7, <2>1 DEF EndWrites
    <3>2. pc'[r] = IF q = r THEN "vertices" ELSE pc[r]
      BY <1>7, <2>1 DEF EndWrites, TypeOK
    <3> QED
      BY <3>1, <3>2 DEF RunStep
  <2>2. CASE ~NoStageFailed(q)
    BY <1>6, <1>7, <2>2 DEF EndWrites
  <2> QED
    BY <2>1, <2>2
<1>8. ASSUME NEW q \in Run, ReconcileVertices(q)
      PROVE  RunStep(r)
  <2>1. pc'[r] = pc[r] \/ (q = r /\ pc'[r] = "edges")
    <3>1. PICK S \in Batch(StaleVertices(q)) :
            pc' = [pc EXCEPT ![q] = IF Cardinality(S) < BatchSize THEN "edges" ELSE @]
      BY <1>8 DEF ReconcileVertices
    <3> QED
      BY <3>1 DEF TypeOK
  <2>2. pc[q] = "vertices" /\ UNCHANGED <<saw, written, stamp>>
    BY <1>8 DEF ReconcileVertices
  <2> QED
    BY <2>1, <2>2 DEF RunStep
<1>9. ASSUME NEW q \in Run, ReconcileEdges(q)
      PROVE  RunStep(r)
  <2>1. UNCHANGED stamp /\ (Leaves(q, "done") \/ UNCHANGED <<pc, saw, written>>)
    BY <1>9 DEF ReconcileEdges
  <2> QED
    BY <2>1, <1>1, <1>6
<1>10. ASSUME NEW q \in Run, Abort(q)
       PROVE  RunStep(r)
  BY <1>6, <1>10 DEF Abort
<1>11. \/ UNCHANGED <<pc, saw, written, stamp>>
       \/ \E q \in Run : \/ Start(q) \/ Complete(q) \/ EndWrites(q) \/ Abort(q)
                         \/ ReconcileVertices(q) \/ ReconcileEdges(q)
       \/ \E q \in Run, x \in Resource : \/ WriteVertex(q, x)
                                         \/ Reads(q, x, aws[x]) \/ Reads(q, x, Failed)
       \/ \E q \in Run, l \in Link : WriteEdge(q, l)
  BY DEF Next, Change, Incremental, Describe, WriteEvent, Consume, Redeliver, Collect,
         ReadStage, FailStage, vars, runVars
<1> QED
  BY <1>1, <1>2, <1>3, <1>4, <1>5, <1>7, <1>8, <1>9, <1>10, <1>11

LEMMA StepSeenWritten ==
  ASSUME TypeOK, SeenWritten, [Next]_vars
  PROVE  SeenWritten'
<1> SUFFICES ASSUME NEW r \in Run
             PROVE  /\ pc'[r] \in {"idle", "reading"} => written'[r] = {}
                    /\ pc'[r] \in {"vertices", "edges"} => Seen(r)' \subseteq written'[r]
  BY DEF SeenWritten
<1>1. RunStep(r)
  BY RunSteps
<1>2. saw'[r] = saw[r] => Seen(r)' = Seen(r)
  BY DEF Seen, SeenLinks
<1> QED
  BY <1>1, <1>2 DEF RunStep, SeenWritten

LEMMA StepOneAtATime ==
  ASSUME TypeOK, OneAtATime, [Next]_vars
  PROVE  OneAtATime'
<1>1. overlap' = overlap
  BY DEF Next, Change, Incremental, Describe, WriteEvent, Consume, Redeliver, Collect, Start,
         Complete, EndWrites, Abort, ReadStage, FailStage, Reads, WriteVertex, WriteEdge,
         ReconcileVertices, ReconcileEdges, vars
<1>2. CASE \A r \in Run : pc'[r] \in Active => pc[r] \in Active
  BY <1>1, <1>2 DEF OneAtATime
<1>3. ASSUME NEW s \in Run, Start(s)
      PROVE  OneAtATime'
  <2>1. \A r \in Run : pc'[r] = IF r = s THEN "reading" ELSE pc[r]
    BY <1>3 DEF Start, TypeOK
  <2>2. ~overlap => \A q \in Run \ {s} : pc[q] \in Active => AccountOf[q] # AccountOf[s]
    BY <1>3 DEF Start, Others
  <2> QED
    BY <1>1, <2>1, <2>2 DEF OneAtATime
<1>4. \A r \in Run : pc'[r] \in Active /\ pc[r] \notin Active => Start(r)
  <2> SUFFICES ASSUME NEW r \in Run, pc'[r] \in Active, pc[r] \notin Active
               PROVE  Start(r)
    OBVIOUS
  <2>1. pc'[r] = "reading" /\ pc[r] = "idle"
    BY RunSteps DEF RunStep, Active
  <2>2. PICK q \in Run : Start(q)
    BY <2>1 DEF TypeOK, Next, Change, Incremental, Describe, WriteEvent, Consume, Redeliver,
         Collect, Complete, EndWrites, Abort, ReadStage, FailStage, Reads, WriteVertex,
         WriteEdge, ReconcileVertices, ReconcileEdges, Leaves, vars, runVars
  <2>3. q = r
    BY <2>1, <2>2 DEF Start, TypeOK
  <2> QED
    BY <2>2, <2>3
<1> QED
  BY <1>2, <1>3, <1>4

LEMMA StepWrittenStays ==
  ASSUME SeenInv, [Next]_vars
  PROVE  WrittenStays'
<1>1. overlap' = overlap
  BY DEF Next, Change, Incremental, Describe, WriteEvent, Consume, Redeliver, Collect, Start,
         Complete, EndWrites, Abort, ReadStage, FailStage, Reads, WriteVertex, WriteEdge,
         ReconcileVertices, ReconcileEdges, vars
<1> SUFFICES ASSUME ~overlap, NEW r \in Run, NEW x \in Resource,
                    pc'[r] \in Writing, x \in written'[r], Owner[x] = AccountOf[r]
             PROVE  vertex'[x] # None /\ vertex'[x].at >= stamp'[r]
  BY <1>1 DEF WrittenStays
<1>2. RunStep(r)
  BY RunSteps DEF SeenInv, ScopeInv
<1>3. /\ vertex[x] \in Vertex \cup {None} /\ stamp[r] \in Nat /\ x \notin Link
      /\ \A e \in events : e.at \in Nat
      /\ \A q \in Run : stamp[q] \in Nat
  BY LinkAssumption DEF SeenInv, ScopeInv, TypeOK, Event
<1>4. stamp'[r] = stamp[r] /\ ((pc[r] \in Writing /\ x \in written[r]) \/ WriteVertex(r, x))
  <2>1. written[r] = {} \/ pc[r] \notin {"idle", "reading"}
    BY DEF SeenInv, SeenWritten
  <2>2. \A y \in Resource : WriteVertex(r, y) => written'[r] = written[r] \cup {y}
    BY DEF WriteVertex, SeenInv, ScopeInv, TypeOK
  <2> QED
    BY <1>2, <1>3, <2>1, <2>2 DEF RunStep, Writing
<1>5. CASE WriteVertex(r, x)
  <2>1. vertex'[x] = Upserted(vertex[x], stamp[r], Sent(r, x), ScopeOf(r, x))
    BY <1>5 DEF WriteVertex, Sent, SeenInv, ScopeInv, TypeOK
  <2>2. Sent(r, x) \in Config /\ ScopeOf(r, x) \in Run \cup {None}
    BY <1>5, SentType DEF WriteVertex
  <2>3. vertex'[x] \in Vertex
    BY <1>3, <2>1, <2>2, UpsertedType
  <2> QED
    BY <1>3, <1>4, <2>1, <2>3, UpsertedAt, NoneIsNone
<1>6. CASE pc[r] \in Writing /\ x \in written[r]
  <2>1. vertex[x] # None /\ vertex[x].at >= stamp[r]
    BY <1>6 DEF SeenInv, WrittenStays
  <2>2. vertex[x] \in Vertex /\ vertex[x].at \in Nat
    BY <1>3, <2>1 DEF Vertex
  <2>3. VertexStep(x) /\ vertex'[x] \in Vertex \cup {None}
    BY ElementSteps, StepType DEF SeenInv, ScopeInv, TypeOK
  <2>4. \A q \in Run : pc[q] = "vertices" => x \notin StaleVertices(q)
    <3> SUFFICES ASSUME NEW q \in Run, pc[q] = "vertices", x \in StaleVertices(q)
                 PROVE  FALSE
      OBVIOUS
    <3>1. AccountOf[q] = AccountOf[r] /\ vertex[x].at < stamp[q]
      BY StaleIsOwned DEF SeenInv
    <3>2. q = r
      BY <1>6, <3>1 DEF SeenInv, OneAtATime, Writing, Active
    <3> QED
      BY <1>3, <2>1, <2>2, <3>1, <3>2
  <2>5. \A at \in Nat, config \in Config \cup {Bare}, run \in Run \cup {None} :
          vertex'[x] = Upserted(vertex[x], at, config, run) =>
            vertex'[x] # None /\ vertex'[x].at >= vertex[x].at
    <3> SUFFICES ASSUME NEW at \in Nat, NEW config \in Config \cup {Bare},
                        NEW run \in Run \cup {None}
                 PROVE  /\ Upserted(vertex[x], at, config, run) # None
                        /\ Upserted(vertex[x], at, config, run).at >= vertex[x].at
      OBVIOUS
    <3>1. Upserted(vertex[x], at, config, run) # None
      BY <2>2, UpsertedType, NoneIsNone
    <3>2. Upserted(vertex[x], at, config, run).at >= vertex[x].at
      BY <2>1, <2>2, UpsertedAt
    <3> QED
      BY <3>1, <3>2
  <2>6. vertex'[x] # None /\ vertex'[x].at >= vertex[x].at
    <3>1. CASE vertex'[x] = vertex[x]
      BY <2>1, <2>2, <3>1
    <3>2. CASE \E e \in events : vertex'[x] = Upserted(vertex[x], e.at, Bare, None)
      BY <1>3, <2>5, <3>2
    <3>3. ASSUME NEW q \in Run, x \in Seen(q),
                 vertex'[x] = Upserted(vertex[x], stamp[q], Sent(q, x), ScopeOf(q, x))
          PROVE  vertex'[x] # None /\ vertex'[x].at >= vertex[x].at
      <4>1. Sent(q, x) \in Config \cup {Bare} /\ ScopeOf(q, x) \in Run \cup {None}
        BY <3>3, SentType
      <4> QED
        BY <1>3, <2>5, <3>3, <4>1
    <3> QED
      BY <2>3, <2>4, <3>1, <3>2, <3>3 DEF VertexStep
  <2>7. vertex'[x].at \in Nat
    BY <2>3, <2>6 DEF Vertex
  <2> QED
    BY <1>3, <1>4, <2>1, <2>2, <2>6, <2>7
<1> QED
  BY <1>4, <1>5, <1>6

LEMMA StepSeen == SeenInv /\ [Next]_vars => SeenInv'
BY StepScope, StepOneAtATime, StepSeenWritten, StepWrittenStays DEF SeenInv, ScopeInv

LEMMA StepNotDropped ==
  ASSUME SeenInv, [Next]_vars, NEW r \in Run, NEW x \in Owned(AccountOf[r]),
         ~overlap, pc[r] = "vertices", vertex[x] # None, vertex'[x] = None
  PROVE  x \notin Seen(r)
<1> SUFFICES ASSUME x \in Seen(r) PROVE FALSE
  OBVIOUS
<1>1. x \in Resource /\ Owner[x] = AccountOf[r]
  BY DEF Owned
<1>2. x \in written[r]
  BY DEF SeenInv, SeenWritten
<1>3. VertexStep(x) /\ vertex[x] \in Vertex
  BY <1>1, ElementSteps DEF SeenInv, ScopeInv, TypeOK
<1>4. /\ \A e \in events : e.at \in Nat
      /\ \A q \in Run : stamp[q] \in Nat
  BY DEF SeenInv, ScopeInv, TypeOK, Event
<1>5. \A at \in Nat, config \in Config \cup {Bare}, run \in Run \cup {None} :
        Upserted(vertex[x], at, config, run) # None
  <2> TAKE at \in Nat, config \in Config \cup {Bare}, run \in Run \cup {None}
  <2>1. vertex[x] \in Vertex \cup {None}
    BY <1>3
  <2>2. Upserted(vertex[x], at, config, run) \in Vertex
    BY <2>1, UpsertedType
  <2> QED
    BY <2>2, NoneIsNone
<1>6. PICK q \in Run : pc[q] = "vertices" /\ x \in StaleVertices(q)
  BY <1>3, <1>4, <1>5, SentType DEF VertexStep
<1>7. AccountOf[q] = AccountOf[r] /\ vertex[x].at < stamp[q]
  BY <1>1, <1>6, StaleIsOwned DEF SeenInv
<1>8. q = r
  BY <1>6, <1>7 DEF SeenInv, OneAtATime, Active
<1>9. vertex[x].at >= stamp[r]
  BY <1>1, <1>2 DEF SeenInv, WrittenStays, Writing
<1> QED
  BY <1>3, <1>4, <1>7, <1>8, <1>9 DEF Vertex

(* Where runs of an account do not overlap, the incremental collector and  *)
(* the other accounts' runs may write at any time: a reconcile drops no    *)
(* resource that the run itself has seen.                                  *)
THEOREM SeenStays == Spec => SeenIsNotDropped
<1>1. SeenInv /\ [Next]_vars => SeenInv'
  BY StepSeen
<1>2. SeenInv /\ [Next]_vars =>
        [\A r \in Run : \A x \in Owned(AccountOf[r]) :
           ~overlap /\ pc[r] = "vertices" /\ vertex[x] # None /\ vertex'[x] = None
           => x \notin Seen(r)]_vars
  BY StepNotDropped
<1> QED
  BY <1>1, <1>2, InitSeen, PTL DEF Spec, SeenIsNotDropped

-----------------------------------------------------------------------------
(* A complete run that nothing interleaved with leaves the graph as AWS is.*)

(* No stamp is ahead of the clock.                                         *)
Clocked ==
  /\ \A x \in Resource : vertex[x] # None => vertex[x].at <= clock
  /\ \A l \in Link : edge[l] # None => edge[l].at <= clock
  /\ \A e \in events : e.at <= clock
  /\ \A r \in Run : stamp[r] <= clock

(* What carries a run's id was written by it: observed when the run was or *)
(* later.                                                                  *)
RunStamps == \A r \in Run :
  /\ \A x \in Resource : vertex[x] # None /\ vertex[x].run = r =>
       pc[r] \notin {"idle", "reading"} /\ stamp[r] <= vertex[x].at
  /\ \A l \in Link : edge[l] # None /\ edge[l].run = r =>
       pc[r] \notin {"idle", "reading"} /\ stamp[r] <= edge[l].at

(* A run writes what it saw and nothing else, edges after vertices, and    *)
(* reconciles only with every stage answered and everything written.       *)
RunMemory == \A r \in Run :
  /\ pc[r] = "idle" => \A x \in Resource : saw[r][x] = None
  /\ pc[r] \in Writing =>
       /\ \A x \in Owned(AccountOf[r]) : saw[r][x] # None
       /\ written[r] \subseteq Seen(r) \cup SeenLinks(r)
       /\ written[r] \cap Link # {} => Seen(r) \subseteq written[r]
  /\ pc[r] \in {"vertices", "edges"} =>
       Seen(r) \cup SeenLinks(r) \subseteq written[r] /\ NoStageFailed(r)

(* Of a run that nothing interleaved with, what it wrote is in the graph   *)
(* as it wrote it, and everything else is older.                           *)
VerticesAsWritten(r) == \A x \in Resource :
  IF x \in written[r]
  THEN /\ vertex[x] # None /\ vertex[x].at = stamp[r]
       /\ Owner[x] # Shared => vertex[x] = [config |-> saw[r][x], at |-> stamp[r], run |-> r]
  ELSE vertex[x] # None => vertex[x].at < stamp[r]

EdgesAsWritten(r) == \A l \in Link :
  IF l \in written[r]
  THEN /\ edge[l] # None <=> vertex[l[2]] # None
       /\ edge[l] # None => edge[l].at = stamp[r]
  ELSE edge[l] # None => edge[l].at < stamp[r]

SawAws(r) == \A x \in Owned(AccountOf[r]) : saw[r][x] \in {None, Failed, aws[x]}

UndisturbedRun(r) ==
  /\ pc[r] # "idle" /\ Others(r) = {}
  /\ pc[r] \in Active => SawAws(r)
  /\ pc[r] \in Writing => VerticesAsWritten(r) /\ EdgesAsWritten(r)
  /\ pc[r] = "edges" => StaleVertices(r) = {}

Undisturbed == \A r \in Run : alone[r] => UndisturbedRun(r)

MirrorInv ==
  /\ ScopeInv /\ EdgesHaveEndpoints
  /\ SeenWritten
  /\ Clocked /\ RunStamps /\ RunMemory
  /\ Undisturbed /\ RunMirrorsAws

LEMMA InitMirror == Init => MirrorInv
<1> SUFFICES ASSUME Init PROVE MirrorInv
  OBVIOUS
<1>1. ScopeInv /\ EdgesHaveEndpoints
  BY InitScope, InitEndpoints
<1>2. SeenWritten /\ RunMemory
  BY DEF Init, SeenWritten, RunMemory, Writing
<1>3. Clocked
  BY DEF Init, Clocked
<1>4. RunStamps
  BY DEF Init, RunStamps
<1>5. Undisturbed /\ RunMirrorsAws
  BY DEF Init, Undisturbed, RunMirrorsAws
<1> QED
  BY <1>1, <1>2, <1>3, <1>4, <1>5 DEF MirrorInv

(* The clock never goes back, and every new stamp is taken from it.        *)
LEMMA StepClocked ==
  ASSUME TypeOK, Clocked, [Next]_vars
  PROVE  Clocked'
<1>1. clock \in Nat /\ clock' \in Nat /\ clock <= clock'
  BY StepType DEF TypeOK, Next, Change, Incremental, Describe, WriteEvent, Consume, Redeliver,
     Collect, Start, Complete, EndWrites, Abort, ReadStage, FailStage, Reads, WriteVertex,
     WriteEdge, ReconcileVertices, ReconcileEdges, vars
<1>2. ASSUME NEW r \in Run
      PROVE  stamp'[r] <= clock'
  <2>1. stamp'[r] = stamp[r] \/ stamp'[r] = clock'
    BY DEF TypeOK, Next, Change, Incremental, Describe, WriteEvent, Consume, Redeliver,
     Collect, Start, Complete, EndWrites, Abort, ReadStage, FailStage, Reads, WriteVertex,
     WriteEdge, ReconcileVertices, ReconcileEdges, vars, runVars
  <2> QED
    BY <1>1, <2>1 DEF Clocked, TypeOK
<1>3. \A e \in events' : e.at <= clock'
  <2>1. ASSUME NEW d \in events, NEW step, events' = Moved(d, step)
        PROVE  \A e \in events' : \E old \in events : e.at = old.at
    <3>1. [d EXCEPT !.step = step].at = d.at
      BY DEF TypeOK, Event
    <3> QED
      BY <2>1, <3>1 DEF Moved
  <2>2. \A e \in events' : e.at = clock' \/ \E old \in events : e.at = old.at
    <3>1. CASE events' \subseteq events
      BY <3>1
    <3>2. ASSUME NEW x \in Resource, NEW config, Change(x, config)
          PROVE  \A e \in events' : e.at = clock' \/ \E old \in events : e.at = old.at
      BY <3>2 DEF Change
    <3>3. \/ events' \subseteq events
          \/ \E d \in events, step \in {"queued", "described", "written"} : events' = Moved(d, step)
          \/ \E x \in Resource, config \in Config \cup {Gone} : Change(x, config)
      BY DEF Next, Incremental, Describe, WriteEvent, Consume, Redeliver,
         Collect, Start, Complete, EndWrites, Abort, ReadStage, FailStage, Reads, WriteVertex,
         WriteEdge, ReconcileVertices, ReconcileEdges, vars
    <3> QED
      BY <2>1, <3>1, <3>2, <3>3
  <2>3. \A e \in events : e.at \in Nat /\ e.at <= clock
    BY DEF TypeOK, Event, Clocked
  <2> QED
    BY <1>1, <2>2, <2>3
<1>4. \A e \in events : e.at \in Nat /\ e.at <= clock
  BY DEF TypeOK, Event, Clocked
<1>5. \A q \in Run : stamp[q] \in Nat /\ stamp[q] <= clock
  BY DEF TypeOK, Clocked
<1>6. ASSUME NEW x \in Resource, vertex'[x] # None
      PROVE  vertex'[x].at <= clock'
  <2>1. \A at, config, run : vertex'[x] = Upserted(vertex[x], at, config, run) =>
          vertex'[x].at = at \/ (vertex[x] # None /\ vertex'[x].at = vertex[x].at)
    BY DEF Upserted, TypeOK, Vertex
  <2>2. vertex[x] # None => vertex[x].at <= clock /\ vertex[x].at \in Nat
    BY DEF Clocked, TypeOK, Vertex
  <2>3. vertex'[x].at <= clock
    BY <1>4, <1>5, <1>6, <2>1, <2>2, ElementSteps DEF VertexStep
  <2>4. vertex'[x].at \in Nat
    BY <1>6, StepType DEF TypeOK, Vertex
  <2> QED
    BY <1>1, <2>3, <2>4
<1>7. ASSUME NEW l \in Link, edge'[l] # None
      PROVE  edge'[l].at <= clock'
  <2>1. \A at, run : edge'[l] = EdgeUpserted(edge[l], l, at, run) =>
          edge'[l].at = at \/ (edge[l] # None /\ edge'[l].at = edge[l].at)
    BY <1>7 DEF EdgeUpserted
  <2>2. edge[l] # None => edge[l].at <= clock /\ edge[l].at \in Nat
    BY DEF Clocked, TypeOK, Edge
  <2>3. edge'[l].at <= clock
    BY <1>5, <1>7, <2>1, <2>2, ElementSteps DEF EdgeStep
  <2>4. edge'[l].at \in Nat
    BY <1>7, StepType DEF TypeOK, Edge
  <2> QED
    BY <1>1, <2>3, <2>4
<1> QED
  BY <1>2, <1>3, <1>6, <1>7 DEF Clocked

LEMMA StepRunStamps ==
  ASSUME ScopeInv, RunStamps, Clocked, [Next]_vars
  PROVE  RunStamps'
<1> SUFFICES ASSUME NEW r \in Run
             PROVE  /\ \A x \in Resource : vertex'[x] # None /\ vertex'[x].run = r =>
                         pc'[r] \notin {"idle", "reading"} /\ stamp'[r] <= vertex'[x].at
                    /\ \A l \in Link : edge'[l] # None /\ edge'[l].run = r =>
                         pc'[r] \notin {"idle", "reading"} /\ stamp'[r] <= edge'[l].at
  BY DEF RunStamps
<1>1. pc[r] \notin {"idle", "reading"} =>
        pc'[r] \notin {"idle", "reading"} /\ stamp'[r] = stamp[r]
  BY RunSteps DEF RunStep, ScopeInv
<1>2. /\ \A q \in Run : stamp[q] \in Nat
      /\ \A e \in events : e.at \in Nat
      /\ r # None
  BY NoneAssumption DEF ScopeInv, TypeOK, Event
<1>3. ASSUME NEW x \in Resource, vertex'[x] # None, vertex'[x].run = r
      PROVE  pc[r] \notin {"idle", "reading"} /\ stamp[r] <= vertex'[x].at
  <2>1. VertexStep(x) /\ vertex[x] \in Vertex \cup {None}
    BY ElementSteps DEF ScopeInv, TypeOK
  <2>2. CASE vertex'[x] = vertex[x]
    BY <1>3, <2>2 DEF RunStamps
  <2>3. CASE \E e \in events : vertex'[x] = Upserted(vertex[x], e.at, Bare, None)
    <3>1. PICK e \in events : vertex'[x] = Upserted(vertex[x], e.at, Bare, None)
      BY <2>3
    <3>2. vertex[x] # None /\ vertex[x].run = r /\ vertex[x].at \in Nat
      BY <1>2, <1>3, <2>1, <3>1 DEF Upserted, Vertex
    <3>3. vertex'[x].at \in Nat /\ vertex[x].at <= vertex'[x].at
      BY <1>2, <2>1, <3>1, <3>2 DEF Upserted, Vertex
    <3> QED
      BY <1>2, <3>2, <3>3 DEF RunStamps
  <2>4. ASSUME NEW q \in Run, pc[q] = "writing", x \in Seen(q),
               vertex'[x] = Upserted(vertex[x], stamp[q], Sent(q, x), ScopeOf(q, x))
        PROVE  pc[r] \notin {"idle", "reading"} /\ stamp[r] <= vertex'[x].at
    <3>1. ScopeOf(q, x) \in {q, None}
      BY DEF ScopeOf
    <3>2. CASE vertex[x] # None /\ vertex[x].run = r
      <4>1. vertex[x].at \in Nat /\ vertex'[x].at \in Nat /\ vertex[x].at <= vertex'[x].at
        BY <1>2, <2>1, <2>4, <3>2 DEF Upserted, Vertex
      <4> QED
        BY <1>2, <3>2, <4>1 DEF RunStamps
    <3>3. CASE ~(vertex[x] # None /\ vertex[x].run = r)
      <4>1. q = r /\ vertex'[x].at = stamp[r]
        BY <1>2, <1>3, <2>4, <3>1, <3>3 DEF Upserted
      <4> QED
        BY <1>2, <2>4, <4>1
    <3> QED
      BY <3>2, <3>3
  <2> QED
    BY <1>3, <2>1, <2>2, <2>3, <2>4 DEF VertexStep
<1>4. ASSUME NEW l \in Link, edge'[l] # None, edge'[l].run = r
      PROVE  pc[r] \notin {"idle", "reading"} /\ stamp[r] <= edge'[l].at
  <2>1. EdgeStep(l) /\ edge[l] \in Edge \cup {None}
    BY ElementSteps DEF ScopeInv, TypeOK
  <2>2. CASE edge'[l] = edge[l]
    BY <1>4, <2>2 DEF RunStamps
  <2>3. ASSUME NEW q \in Run, pc[q] = "writing", edge'[l] # edge[l],
               edge'[l] = EdgeUpserted(edge[l], l, stamp[q], q)
        PROVE  pc[r] \notin {"idle", "reading"} /\ stamp[r] <= edge'[l].at
    <3>1. q = r /\ edge'[l].at = stamp[r]
      BY <1>4, <2>3 DEF EdgeUpserted
    <3> QED
      BY <1>2, <2>3, <3>1
  <2> QED
    BY <1>4, <2>1, <2>2, <2>3 DEF EdgeStep
<1> QED
  BY <1>1, <1>3, <1>4

LEMMA StepRunMemory ==
  ASSUME TypeOK, SeenWritten, RunMemory, [Next]_vars
  PROVE  RunMemory'
<1> SUFFICES ASSUME NEW r \in Run
             PROVE  /\ pc'[r] = "idle" => \A x \in Resource : saw'[r][x] = None
                    /\ pc'[r] \in Writing =>
                         /\ \A x \in Owned(AccountOf[r]) : saw'[r][x] # None
                         /\ written'[r] \subseteq Seen(r)' \cup SeenLinks(r)'
                         /\ written'[r] \cap Link # {} => Seen(r)' \subseteq written'[r]
                    /\ pc'[r] \in {"vertices", "edges"} =>
                         /\ Seen(r)' \cup SeenLinks(r)' \subseteq written'[r]
                         /\ NoStageFailed(r)'
  BY DEF RunMemory
<1>1. saw'[r] = saw[r] =>
        Seen(r)' = Seen(r) /\ SeenLinks(r)' = SeenLinks(r) /\ NoStageFailed(r)' = NoStageFailed(r)
  BY DEF Seen, SeenLinks, NoStageFailed
<1>2. CASE UNCHANGED <<pc[r], saw[r], written[r]>>
  BY <1>1, <1>2 DEF RunMemory
<1>3. CASE Start(r)
  BY <1>1, <1>3 DEF Start, TypeOK, Writing
<1>4. CASE Complete(r)
  <2>1. pc'[r] = "writing" /\ UNCHANGED <<saw[r], written[r]>> /\ written[r] = {}
    BY <1>4 DEF Complete, TypeOK, SeenWritten
  <2>2. \A x \in Owned(AccountOf[r]) : saw[r][x] # None
    BY <1>4 DEF Complete
  <2> QED
    BY <2>1, <2>2 DEF Writing
<1>5. ASSUME NEW x \in Resource, WriteVertex(r, x)
      PROVE  /\ pc'[r] = "writing" /\ saw'[r] = saw[r] /\ Seen(r) \subseteq Seen(r)
             /\ written'[r] = written[r] \cup {x} /\ x \in Seen(r) /\ x \notin Link
             /\ pc[r] = "writing"
  BY <1>5, LinkAssumption DEF WriteVertex, TypeOK
<1>6. ASSUME NEW l \in Link, WriteEdge(r, l)
      PROVE  /\ pc'[r] = "writing" /\ saw'[r] = saw[r] /\ Seen(r) \subseteq written[r]
             /\ written'[r] = written[r] \cup {l} /\ l \in SeenLinks(r)
             /\ pc[r] = "writing"
  BY <1>6 DEF WriteEdge, TypeOK
<1>7. CASE EndWrites(r) /\ NoStageFailed(r)
  <2>1. /\ pc[r] = "writing" /\ pc'[r] = "vertices" /\ UNCHANGED <<saw[r], written[r]>>
        /\ Seen(r) \cup SeenLinks(r) \subseteq written[r]
    BY <1>7 DEF EndWrites, TypeOK
  <2> QED
    BY <1>1, <1>7, <2>1 DEF RunMemory, Writing
<1>8. CASE ReconcileVertices(r)
  <2>1. pc[r] = "vertices" /\ UNCHANGED <<saw[r], written[r]>> /\ pc'[r] \in {"vertices", "edges"}
    BY <1>8 DEF ReconcileVertices, TypeOK
  <2> QED
    BY <1>1, <2>1 DEF RunMemory, Writing
<1>9. ASSUME NEW end \in {"done", "partial", "aborted"}, Leaves(r, end)
      PROVE  pc'[r] = end
  BY <1>9 DEF Leaves, TypeOK
<1>10. ASSUME NEW x \in Resource, NEW answer, Reads(r, x, answer)
       PROVE  pc'[r] = "reading"
  BY <1>10 DEF Reads
<1>11. \/ UNCHANGED <<pc[r], saw[r], written[r]>>
       \/ Start(r) \/ Complete(r) \/ (EndWrites(r) /\ NoStageFailed(r)) \/ ReconcileVertices(r)
       \/ Leaves(r, "done") \/ Leaves(r, "partial") \/ Leaves(r, "aborted")
       \/ \E x \in Resource : Reads(r, x, aws[x]) \/ Reads(r, x, Failed) \/ WriteVertex(r, x)
       \/ \E l \in Link : WriteEdge(r, l)
  <2>1. ASSUME NEW q \in Run, q # r, Collect(q)
        PROVE  UNCHANGED <<pc[r], saw[r], written[r]>>
    <3>1. ASSUME NEW end, Leaves(q, end)
          PROVE  UNCHANGED <<pc[r], saw[r], written[r]>>
      BY <2>1, <3>1 DEF Leaves, TypeOK
    <3>2. CASE Start(q) \/ Complete(q)
      BY <2>1, <3>2 DEF Start, Complete, TypeOK
    <3>3. ASSUME NEW x \in Resource, ReadStage(q, x) \/ FailStage(q, x) \/ WriteVertex(q, x)
          PROVE  UNCHANGED <<pc[r], saw[r], written[r]>>
      BY <2>1, <3>3 DEF ReadStage, FailStage, Reads, WriteVertex, TypeOK
    <3>4. ASSUME NEW l \in Link, WriteEdge(q, l)
          PROVE  UNCHANGED <<pc[r], saw[r], written[r]>>
      BY <2>1, <3>4 DEF WriteEdge, TypeOK
    <3>5. CASE EndWrites(q) \/ Abort(q)
      <4>1. CASE EndWrites(q) /\ NoStageFailed(q)
        BY <2>1, <4>1 DEF EndWrites, TypeOK
      <4> QED
        BY <3>1, <3>5, <4>1 DEF EndWrites, Abort
    <3>6. CASE ReconcileVertices(q)
      BY <2>1, <3>6 DEF ReconcileVertices, TypeOK
    <3>7. CASE ReconcileEdges(q)
      BY <3>1, <3>7 DEF ReconcileEdges
    <3> QED
      BY <2>1, <3>2, <3>3, <3>4, <3>5, <3>6, <3>7 DEF Collect
  <2>2. Collect(r) =>
       \/ UNCHANGED <<pc[r], saw[r], written[r]>>
       \/ Start(r) \/ Complete(r) \/ (EndWrites(r) /\ NoStageFailed(r)) \/ ReconcileVertices(r)
       \/ Leaves(r, "done") \/ Leaves(r, "partial") \/ Leaves(r, "aborted")
       \/ \E x \in Resource : Reads(r, x, aws[x]) \/ Reads(r, x, Failed) \/ WriteVertex(r, x)
       \/ \E l \in Link : WriteEdge(r, l)
    BY DEF Collect, EndWrites, Abort, ReadStage, FailStage, ReconcileEdges
  <2> QED
    BY <2>1, <2>2 DEF Next, Change, Incremental, Describe, WriteEvent, Consume, Redeliver, vars,
       runVars
<1> QED
  BY <1>1, <1>2, <1>3, <1>4, <1>5, <1>6, <1>7, <1>8, <1>9, <1>10, <1>11 DEF RunMemory, Writing

(* What has happened when a run is still undisturbed after a step: it      *)
(* started, or it was undisturbed before and the step was its own or left  *)
(* it, the graph and AWS alone.                                            *)
OwnStep(r) ==
  \/ Complete(r) \/ EndWrites(r) \/ Abort(r) \/ ReconcileVertices(r) \/ ReconcileEdges(r)
  \/ \E x \in Resource : Reads(r, x, aws[x]) \/ Reads(r, x, Failed) \/ WriteVertex(r, x)
  \/ \E l \in Link : WriteEdge(r, l)

LEMMA AloneSteps ==
  ASSUME TypeOK, Undisturbed, [Next]_vars, NEW r \in Run, alone'[r]
  PROVE  \/ Start(r) /\ Others(r) = {}
         \/ alone[r] /\ OwnStep(r)
         \/ alone[r] /\ UNCHANGED <<aws, vertex, edge, runVars>>
<1>1. ASSUME NEW q \in Run, Start(q)
      PROVE  q = r /\ Others(r) = {}
  BY <1>1 DEF Start
<1>2. ASSUME NEW q \in Run, Collect(q), ~Start(q)
      PROVE  alone[r] /\ q = r /\ OwnStep(r)
  <2>1. alone' = alone /\ pc[q] \in Active
    BY <1>2 DEF Collect, Complete, EndWrites, Abort, ReadStage, FailStage, Reads, WriteVertex,
       WriteEdge, ReconcileVertices, ReconcileEdges, Active
  <2>2. q = r
    BY <2>1 DEF Undisturbed, UndisturbedRun, Others
  <2> QED
    BY <1>2, <2>1, <2>2 DEF Collect, OwnStep, ReadStage, FailStage
<1>3. ASSUME NEW x \in Resource, NEW config, Change(x, config)
      PROVE  FALSE
  BY <1>3 DEF Change
<1>4. CASE Incremental \/ UNCHANGED vars
  BY <1>4 DEF Incremental, Describe, WriteEvent, Consume, Redeliver, vars, runVars
<1> QED
  BY <1>1, <1>2, <1>3, <1>4 DEF Next

LEMMA OthersKept ==
  ASSUME TypeOK, NEW r \in Run, Others(r) = {}, \A q \in Run \ {r} : pc'[q] = pc[q]
  PROVE  Others(r)' = {}
BY DEF Others

(* One step of the run's own.                                              *)
LEMMA UndisturbedWrites ==
  ASSUME MirrorInv, NEW r \in Run, UndisturbedRun(r), pc[r] = "writing",
         (\E x \in Resource : WriteVertex(r, x)) \/ (\E l \in Link : WriteEdge(r, l))
  PROVE  VerticesAsWritten(r)' /\ EdgesAsWritten(r)'
<1> USE DEF MirrorInv, ScopeInv
<1>1. VerticesAsWritten(r) /\ EdgesAsWritten(r)
  BY DEF UndisturbedRun, Writing
<1>2. CASE \E x \in Resource : WriteVertex(r, x)
  <2>1. PICK y \in Resource : WriteVertex(r, y)
    BY <1>2
  <2>2. /\ y \in Seen(r) /\ y \notin written[r]
        /\ UNCHANGED <<edge, stamp, saw>>
        /\ written'[r] = written[r] \cup {y}
        /\ \A x \in Resource :
             vertex'[x] = IF x = y THEN Upserted(vertex[x], stamp[r], Sent(r, x), ScopeOf(r, x))
                                   ELSE vertex[x]
    BY <2>1 DEF WriteVertex, Sent, TypeOK
  <2>3. /\ vertex[y] # None => vertex[y].at < stamp[r]
        /\ Sent(r, y) \in Config
    BY <1>1, <2>2, SentType DEF VerticesAsWritten
  <2>4. /\ vertex'[y] # None /\ vertex'[y].at = stamp[r]
        /\ Owner[y] # Shared => vertex'[y] = [config |-> saw[r][y], at |-> stamp[r], run |-> r]
    <3>1. vertex'[y] = [config |-> Sent(r, y), at |-> stamp[r],
                        run |-> IF vertex[y] # None /\ ScopeOf(r, y) = None
                                THEN vertex[y].run ELSE ScopeOf(r, y)]
      BY <2>2, <2>3 DEF Upserted, Config, Bare
    <3>2. vertex'[y] # None
      <4>1. Upserted(vertex[y], stamp[r], Sent(r, y), ScopeOf(r, y)) \in Vertex
        BY <2>2, UpsertedType, SentType DEF TypeOK
      <4> QED
        BY <2>2, <4>1, NoneIsNone
    <3>3. Owner[y] # Shared => ScopeOf(r, y) = r /\ Sent(r, y) = saw[r][y] /\ r # None
      BY NoneAssumption DEF ScopeOf, Sent
    <3> QED
      BY <3>1, <3>2, <3>3
  <2>5. VerticesAsWritten(r)'
    BY <1>1, <2>2, <2>4 DEF VerticesAsWritten
  <2>6. written[r] \cap Link = {}
    BY <2>2 DEF RunMemory, Writing
  <2>7. \A l \in Link : l \notin written'[r]
    BY <2>2, <2>6, LinkAssumption
  <2> QED
    BY <1>1, <2>2, <2>5, <2>6, <2>7 DEF EdgesAsWritten
<1>3. CASE \E l \in Link : WriteEdge(r, l)
  <2>1. PICK k \in Link : WriteEdge(r, k)
    BY <1>3
  <2>2. /\ k \in SeenLinks(r) /\ k \notin written[r] /\ Seen(r) \subseteq written[r]
        /\ UNCHANGED <<vertex, stamp, saw>>
        /\ written'[r] = written[r] \cup {k}
        /\ \A l \in Link :
             edge'[l] = IF l = k THEN EdgeUpserted(edge[l], l, stamp[r], r) ELSE edge[l]
    BY <2>1 DEF WriteEdge, TypeOK
  <2>3. VerticesAsWritten(r)'
    BY <1>1, <2>2, LinkAssumption DEF VerticesAsWritten
  <2>4. k[1] \in Resource /\ vertex[k[1]] # None
    <3>1. k[1] \in Resource /\ saw[r][k[1]] = "linked"
      BY <2>2, LinkEnds DEF SeenLinks
    <3>2. k[1] \in written[r]
      BY <2>2, <3>1 DEF Seen, Config
    <3> QED
      BY <1>1, <3>1, <3>2 DEF VerticesAsWritten
  <2>5. edge[k] # None => edge[k].at < stamp[r] /\ vertex[k[2]] # None
    BY <1>1, <2>2 DEF EdgesAsWritten, EdgesHaveEndpoints
  <2>6. /\ edge'[k] # None <=> vertex[k[2]] # None
        /\ edge'[k] # None => edge'[k].at = stamp[r]
    <3>1. [at |-> stamp[r], run |-> r] # None
      BY NoneAssumption DEF TypeOK
    <3> QED
      BY <2>2, <2>4, <2>5, <3>1 DEF EdgeUpserted
  <2> QED
    BY <1>1, <2>2, <2>3, <2>6 DEF EdgesAsWritten
<1> QED
  BY <1>2, <1>3

LEMMA UndisturbedDrops ==
  ASSUME MirrorInv, NEW r \in Run, UndisturbedRun(r),
         ReconcileVertices(r) \/ (ReconcileEdges(r) /\ UNCHANGED <<saw, written>>)
  PROVE  VerticesAsWritten(r)' /\ EdgesAsWritten(r)'
<1> USE DEF MirrorInv, ScopeInv
<1>1. VerticesAsWritten(r) /\ EdgesAsWritten(r) /\ UNCHANGED <<saw, written, stamp>>
  BY DEF UndisturbedRun, Writing, ReconcileVertices, ReconcileEdges
<1>2. stamp[r] \in Nat
  BY DEF TypeOK
<1>3. CASE ReconcileVertices(r)
  <2>1. PICK S \in Batch(StaleVertices(r)) : Drop(S)
    BY <1>3 DEF ReconcileVertices
  <2>2. S \subseteq StaleVertices(r)
    BY BatchOfStale
  <2>3. \A x \in written[r] : x \notin S
    <3>1. \A x \in S : x \in Resource /\ vertex[x].at < stamp[r]
      BY <2>2 DEF StaleVertices, StaleElement
    <3>2. \A x \in Resource : x \in written[r] => vertex[x].at = stamp[r]
      BY <1>1 DEF VerticesAsWritten
    <3> QED
      BY <1>2, <3>1, <3>2
  <2>4. VerticesAsWritten(r)'
    BY <1>1, <2>1, <2>3 DEF Drop, VerticesAsWritten
  <2>5. ASSUME NEW l \in Link, l \in written[r]
        PROVE  l[1] \in Resource /\ l[2] \in Resource /\ l[1] \notin S
    <3>1. saw[r][l[1]] = "linked" /\ pc[r] = "vertices"
      BY <1>3, <2>5, LinkAssumption DEF RunMemory, Writing, SeenLinks, Seen, ReconcileVertices
    <3>2. l[1] \in written[r]
      BY <2>5, <3>1, LinkEnds DEF RunMemory, Seen, Config
    <3> QED
      BY <2>3, <2>5, <3>2, LinkEnds
  <2>6. EdgesAsWritten(r)'
    BY <1>1, <2>1, <2>5 DEF Drop, EdgesAsWritten
  <2> QED
    BY <2>4, <2>6
<1>4. CASE ReconcileEdges(r)
  <2>1. PICK S \in Batch(StaleEdges(r)) :
          edge' = [l \in Link |-> IF l \in S THEN None ELSE edge[l]]
    BY <1>4 DEF ReconcileEdges
  <2>2. \A l \in S : l \notin written[r]
    BY <1>1, <1>2, BatchOfStale DEF EdgesAsWritten, StaleEdges, StaleElement
  <2>3. vertex' = vertex
    BY <1>4 DEF ReconcileEdges
  <2> QED
    BY <1>1, <2>1, <2>2, <2>3 DEF VerticesAsWritten, EdgesAsWritten
<1> QED
  BY <1>3, <1>4

LEMMA StepUndisturbed ==
  ASSUME MirrorInv, [Next]_vars
  PROVE  Undisturbed'
<1> SUFFICES ASSUME NEW r \in Run, alone'[r]
             PROVE  UndisturbedRun(r)'
  BY DEF Undisturbed
<1> USE DEF MirrorInv, ScopeInv
<1>1. CASE Start(r) /\ Others(r) = {}
  <2>1. pc'[r] = "reading" /\ saw' = saw
    BY <1>1 DEF Start, TypeOK
  <2>2. SawAws(r)'
    BY <1>1, <2>1 DEF Start, RunMemory, SawAws, Owned
  <2>3. Others(r)' = {}
    BY <1>1, OthersKept DEF Start, TypeOK
  <2> QED
    BY <2>1, <2>2, <2>3 DEF UndisturbedRun, Writing
<1>2. CASE alone[r] /\ UNCHANGED <<aws, vertex, edge, runVars>>
  BY <1>2 DEF Undisturbed, UndisturbedRun, runVars, SawAws, VerticesAsWritten, EdgesAsWritten,
     StaleVertices, StaleElement, Others
<1>3. CASE alone[r] /\ OwnStep(r)
  <2>1. UndisturbedRun(r) /\ pc[r] \in Active
    BY <1>3 DEF Undisturbed, UndisturbedRun, OwnStep, Complete, EndWrites, Abort, Reads,
       WriteVertex, WriteEdge, ReconcileVertices, ReconcileEdges, Active
  <2>2. /\ \A q \in Run \ {r} : pc'[q] = pc[q]
        /\ pc'[r] # "idle"
        /\ aws' = aws
    BY <1>3, <2>1 DEF OwnStep, Complete, EndWrites, Abort, Reads, WriteVertex, WriteEdge,
       ReconcileVertices, ReconcileEdges, Leaves, TypeOK, Active
  <2>3. Others(r)' = {}
    BY <2>1, <2>2, OthersKept DEF UndisturbedRun
  <2>4. ASSUME NEW end \in {"done", "partial", "aborted"}, Leaves(r, end)
        PROVE  UndisturbedRun(r)'
    <3>1. pc'[r] = end
      BY <2>4 DEF Leaves, TypeOK
    <3> QED
      BY <2>3, <3>1 DEF UndisturbedRun, Active, Writing
  <2>5. ASSUME saw'[r] = saw[r]
        PROVE  SawAws(r)'
    BY <2>1, <2>2, <2>5 DEF UndisturbedRun, SawAws
  <2>6. ASSUME NEW x \in Resource, Reads(r, x, aws[x]) \/ Reads(r, x, Failed)
        PROVE  UndisturbedRun(r)'
    <3>1. pc'[r] = "reading"
      BY <2>6 DEF Reads
    <3>2. SawAws(r)'
      BY <2>1, <2>2, <2>6 DEF UndisturbedRun, Reads, SawAws, TypeOK, Owned
    <3> QED
      BY <2>3, <3>1, <3>2 DEF UndisturbedRun, Writing
  <2>7. CASE Complete(r)
    <3>1. /\ pc'[r] = "writing" /\ stamp'[r] = clock + 1 /\ pc[r] = "reading"
          /\ UNCHANGED <<vertex, edge, saw, written>>
      BY <2>7 DEF Complete, TypeOK
    <3>2. written[r] = {} /\ clock \in Nat
      BY <3>1 DEF SeenWritten, TypeOK
    <3>3. \A x \in Resource : vertex[x] # None => vertex[x].at < clock + 1
      BY <3>2 DEF Clocked, TypeOK, Vertex
    <3>4. \A l \in Link : edge[l] # None => edge[l].at < clock + 1
      BY <3>2 DEF Clocked, TypeOK, Edge
    <3>5. VerticesAsWritten(r)' /\ EdgesAsWritten(r)'
      BY <3>1, <3>2, <3>3, <3>4 DEF VerticesAsWritten, EdgesAsWritten
    <3> QED
      BY <2>3, <2>5, <3>1, <3>5 DEF UndisturbedRun
  <2>8. CASE (\E x \in Resource : WriteVertex(r, x)) \/ (\E l \in Link : WriteEdge(r, l))
    <3>1. pc[r] = "writing" /\ UNCHANGED <<pc, saw>>
      BY <2>8 DEF WriteVertex, WriteEdge
    <3>2. VerticesAsWritten(r)' /\ EdgesAsWritten(r)'
      BY <2>1, <2>8, <3>1, UndisturbedWrites
    <3> QED
      BY <2>3, <2>5, <3>1, <3>2 DEF UndisturbedRun
  <2>9. CASE EndWrites(r)
    <3>1. CASE NoStageFailed(r)
      <4>1. pc[r] = "writing" /\ pc'[r] = "vertices"
            /\ UNCHANGED <<saw, written, vertex, edge, stamp>>
        BY <2>9, <3>1 DEF EndWrites, TypeOK
      <4> QED
        BY <2>1, <2>3, <2>5, <4>1
        DEF UndisturbedRun, Writing, VerticesAsWritten, EdgesAsWritten
    <3>2. CASE ~NoStageFailed(r)
      BY <2>4, <2>9, <3>2 DEF EndWrites
    <3> QED
      BY <3>1, <3>2
  <2>10. CASE ReconcileVertices(r)
    <3>1. PICK S \in Batch(StaleVertices(r)) :
            /\ Drop(S)
            /\ pc' = [pc EXCEPT ![r] = IF Cardinality(S) < BatchSize THEN "edges" ELSE @]
      BY <2>10 DEF ReconcileVertices
    <3>2. pc[r] = "vertices" /\ UNCHANGED <<saw, stamp>>
      BY <2>10 DEF ReconcileVertices
    <3>3. pc'[r] = "edges" => StaleVertices(r)' = {}
      <4> SUFFICES ASSUME pc'[r] = "edges" PROVE StaleVertices(r)' = {}
        OBVIOUS
      <4>1. Cardinality(S) < BatchSize
        BY <3>1, <3>2 DEF TypeOK
      <4>2. S = StaleVertices(r)
        BY <3>1, <4>1, BoundAssumption DEF Batch
      <4> QED
        BY <3>1, <3>2, <4>2 DEF Drop, StaleVertices, StaleElement
    <3>4. pc'[r] \in {"vertices", "edges"}
      BY <3>1, <3>2 DEF TypeOK
    <3>5. VerticesAsWritten(r)' /\ EdgesAsWritten(r)'
      BY <2>1, <2>10, UndisturbedDrops
    <3> QED
      BY <2>3, <2>5, <3>2, <3>3, <3>4, <3>5 DEF UndisturbedRun
  <2>11. CASE ReconcileEdges(r)
    <3>1. CASE Leaves(r, "done")
      BY <2>4, <3>1
    <3>2. CASE UNCHANGED <<pc, saw, written>>
      <4>1. VerticesAsWritten(r)' /\ EdgesAsWritten(r)'
        BY <2>1, <2>11, <3>2, UndisturbedDrops
      <4>2. StaleVertices(r)' = StaleVertices(r) /\ pc[r] = "edges"
        BY <2>11 DEF ReconcileEdges, StaleVertices, StaleElement
      <4> QED
        BY <2>1, <2>3, <2>5, <3>2, <4>1, <4>2 DEF UndisturbedRun
    <3> QED
      BY <2>11, <3>1, <3>2 DEF ReconcileEdges
  <2>12. CASE Abort(r)
    BY <2>4, <2>12 DEF Abort
  <2> QED
    BY <1>3, <2>6, <2>7, <2>8, <2>9, <2>10, <2>11, <2>12 DEF OwnStep
<1> QED
  BY <1>1, <1>2, <1>3, AloneSteps

(* The last round of a reconcile leaves the account's part of the graph as *)
(* the run wrote it, and the run wrote what AWS holds.                     *)
LEMMA LastRound ==
  ASSUME MirrorInv, NEW r \in Run, UndisturbedRun(r), ReconcileEdges(r), pc'[r] = "done",
         NEW x \in Owned(AccountOf[r])
  PROVE  /\ IF aws[x] = Gone
            THEN vertex[x] = None \/ vertex[x].run = None
            ELSE vertex[x] = [config |-> aws[x], at |-> stamp[r], run |-> r]
         /\ \A l \in Link :
              l[1] = x => (edge'[l] # None <=> aws[x] = "linked" /\ vertex[l[2]] # None)
<1> USE DEF MirrorInv, ScopeInv
<1>1. /\ pc[r] = "edges" /\ r # None /\ stamp[r] \in Nat
      /\ VerticesAsWritten(r) /\ EdgesAsWritten(r) /\ SawAws(r)
      /\ StaleVertices(r) = {} /\ NoStageFailed(r)
  BY NoneAssumption DEF ReconcileEdges, UndisturbedRun, Active, Writing, RunMemory, TypeOK
<1>2. x \in Resource /\ Owner[x] = AccountOf[r] /\ Owner[x] # Shared /\ x \notin Link
  BY OwnerAssumption, RunAssumption, LinkAssumption DEF Owned
<1>3. saw[r][x] = aws[x] /\ aws[x] \in Config \cup {Gone}
  BY <1>1, <1>2 DEF SawAws, NoStageFailed, RunMemory, Writing, TypeOK
<1>4. /\ x \in written[r] <=> x \in Seen(r)
      /\ \A l \in Link : l \in written[r] <=> l \in SeenLinks(r)
  BY <1>1, <1>2, LinkAssumption DEF RunMemory, Writing, Seen, SeenLinks
<1>5. ASSUME aws[x] = Gone, vertex[x] # None, vertex[x].run # None
      PROVE  FALSE
  <2>1. x \notin written[r]
    BY <1>2, <1>3, <1>4, <1>5 DEF Seen, Config, Gone
  <2>2. vertex[x].at < stamp[r] /\ vertex[x].at \in Nat
    BY <1>1, <1>2, <1>5, <2>1 DEF VerticesAsWritten, TypeOK, Vertex
  <2>3. vertex[x].run # r
    BY <1>1, <1>2, <1>5, <2>2 DEF RunStamps
  <2>4. AccountOf[vertex[x].run] = AccountOf[r]
    BY <1>2, <1>5 DEF VerticesScoped
  <2> QED
    BY <1>1, <1>2, <1>5, <2>2, <2>3, <2>4 DEF StaleVertices, StaleElement
<1>6. ASSUME aws[x] # Gone
      PROVE  vertex[x] = [config |-> aws[x], at |-> stamp[r], run |-> r]
  <2>1. x \in written[r]
    BY <1>2, <1>3, <1>4, <1>6 DEF Seen
  <2> QED
    BY <1>1, <1>2, <1>3, <2>1 DEF VerticesAsWritten
<1>7. ASSUME NEW l \in Link, l[1] = x
      PROVE  edge'[l] # None <=> aws[x] = "linked" /\ vertex[l[2]] # None
  <2>1. PICK S \in Batch(StaleEdges(r)) :
          /\ edge' = [k \in Link |-> IF k \in S THEN None ELSE edge[k]]
          /\ IF Cardinality(S) < BatchSize THEN Leaves(r, "done") ELSE UNCHANGED <<pc, saw, written>>
    BY DEF ReconcileEdges
  <2>2. Cardinality(S) < BatchSize
    BY <1>1, <2>1
  <2>3. S = StaleEdges(r)
    BY <2>1, <2>2, BoundAssumption DEF Batch
  <2>4. l \in SeenLinks(r) <=> aws[x] = "linked"
    BY <1>3, <1>7 DEF SeenLinks
  <2>5. CASE l \in SeenLinks(r)
    <3>1. /\ edge[l] # None <=> vertex[l[2]] # None
          /\ edge[l] # None => edge[l].at = stamp[r]
      BY <1>1, <1>4, <2>5 DEF EdgesAsWritten
    <3>2. l \notin StaleEdges(r)
      BY <1>1, <3>1 DEF StaleEdges, StaleElement
    <3> QED
      BY <2>1, <2>3, <2>4, <2>5, <3>1, <3>2
  <2>6. CASE l \notin SeenLinks(r)
    <3>1. edge[l] # None => l \in StaleEdges(r)
      <4> SUFFICES ASSUME edge[l] # None PROVE l \in StaleEdges(r)
        OBVIOUS
      <4>1. edge[l].at < stamp[r] /\ edge[l].at \in Nat /\ edge[l].run \in Run
        BY <1>1, <1>4, <2>6 DEF EdgesAsWritten, TypeOK, Edge
      <4>2. edge[l].run # r
        BY <1>1, <4>1 DEF RunStamps
      <4>3. AccountOf[edge[l].run] = AccountOf[r]
        BY <1>2, <1>7 DEF EdgesScoped
      <4> QED
        BY <4>1, <4>2, <4>3, NoneAssumption DEF StaleEdges, StaleElement
    <3> QED
      BY <2>1, <2>3, <2>4, <2>6, <3>1
  <2> QED
    BY <2>5, <2>6
<1> QED
  BY <1>5, <1>6, <1>7

LEMMA StepMirror ==
  ASSUME MirrorInv, [Next]_vars
  PROVE  RunMirrorsAws'
<1> SUFFICES ASSUME NEW r \in Run, pc'[r] = "done", alone'[r], NEW x \in Owned(AccountOf[r])
             PROVE  /\ IF aws'[x] = Gone
                       THEN vertex'[x] = None \/ vertex'[x].run = None
                       ELSE vertex'[x] = [config |-> aws'[x], at |-> stamp'[r], run |-> r]
                    /\ \A l \in Link :
                         l[1] = x => (edge'[l] # None <=> aws'[x] = "linked" /\ vertex'[l[2]] # None)
  BY DEF RunMirrorsAws, Owned
<1>1. CASE Start(r) /\ Others(r) = {}
  BY <1>1 DEF Start, MirrorInv, ScopeInv, TypeOK
<1>2. CASE alone[r] /\ UNCHANGED <<aws, vertex, edge, runVars>>
  BY <1>2 DEF MirrorInv, RunMirrorsAws, runVars
<1>3. CASE alone[r] /\ OwnStep(r)
  <2>1. UndisturbedRun(r)
    BY <1>3 DEF MirrorInv, Undisturbed
  <2>2. ReconcileEdges(r)
    BY <1>3 DEF OwnStep, Complete, EndWrites, Abort, Reads, WriteVertex, WriteEdge,
       ReconcileVertices, Leaves, MirrorInv, ScopeInv, TypeOK
  <2>3. UNCHANGED <<aws, vertex, stamp>>
    BY <2>2 DEF ReconcileEdges
  <2> QED
    BY <2>1, <2>2, <2>3, LastRound
<1> QED
  BY <1>1, <1>2, <1>3, AloneSteps DEF MirrorInv, ScopeInv

LEMMA StepMirrorInv == MirrorInv /\ [Next]_vars => MirrorInv'
<1> SUFFICES ASSUME MirrorInv, [Next]_vars PROVE MirrorInv'
  OBVIOUS
<1>1. TypeOK /\ ScopeInv /\ EdgesHaveEndpoints /\ SeenWritten /\ Clocked /\ RunStamps /\ RunMemory
  BY DEF MirrorInv, ScopeInv
<1>2. ScopeInv' /\ EdgesHaveEndpoints'
  BY <1>1, StepScope, StepEndpoints
<1>3. SeenWritten' /\ Clocked' /\ RunStamps' /\ RunMemory'
  BY <1>1, StepSeenWritten, StepClocked, StepRunStamps, StepRunMemory
<1>4. Undisturbed' /\ RunMirrorsAws'
  BY StepUndisturbed, StepMirror
<1> QED
  BY <1>2, <1>3, <1>4 DEF MirrorInv

(* When a run that neither AWS, an event nor another run interleaved with  *)
(* ends complete, the account's part of the graph is what AWS holds,       *)
(* whatever earlier runs, whole or interrupted, and events left in it.     *)
THEOREM Mirrors == Spec => []RunMirrorsAws
<1>1. MirrorInv => RunMirrorsAws
  BY DEF MirrorInv
<1> QED
  BY <1>1, InitMirror, StepMirrorInv, PTL DEF Spec
=============================================================================
