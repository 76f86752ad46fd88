------------------------------ MODULE FindingSweep ------------------------------
(***************************************************************************)
(* The GuardDuty sweep that ends an organization collection: region by     *)
(* region it lists the administrator's unarchived findings, gets them in   *)
(* batches, writes their vertices and their DETECTS_ON edges, and          *)
(* reconciles the region's own scope.  GuardDuty archives and raises       *)
(* findings meanwhile; account runs drop and write the resources.          *)
(***************************************************************************)
EXTENDS Naturals, Sequences, FiniteSets, SequencesExt

CONSTANTS
    RegionOrder,        \* the regions of the event, in order
    RegionOf,           \* of each finding
    TargetOf,           \* the resource each finding is about
    GetBatch,           \* findings per GetFindings
    MaxSweepChanges, MaxSweepFaults, MaxSweeps    \* bounds of the model

VARIABLES
    unarchived,         \* GuardDuty: its unarchived findings
    detectors,          \* the regions the administrator has a detector in
    presentTargets,     \* the resources that have a vertex
    findingNodes,       \* the findings that have a vertex
    findingEdges,       \* and an edge to their resource
    stamp,              \* the run that last wrote each finding
    sweep,              \* the sweep in progress
    turn,               \* the runId: every region gets one of its own
    results,            \* per region, what the last sweep reported
    throughout,         \* the findings unarchived, and the targets present, since the turn began
    ever,               \* those unarchived at some time since, and not archived when they were got
    kept,               \* the findings unarchived ever since they got their vertex
    guardDutyChanges, sweepFaults, sweeps
guardDutyVars == <<unarchived, detectors, guardDutyChanges>>
findingVars == <<presentTargets, findingNodes, findingEdges, stamp>>
findingSweepVars == <<guardDutyVars, findingVars, sweep, turn, results, throughout, ever, kept,
                      sweepFaults, sweeps>>

GuardDutyFindings == DOMAIN RegionOf
Regions == ToSet(RegionOrder)
Targets == {TargetOf[f] : f \in GuardDutyFindings}
NoSweep == [stage |-> "idle"]

\* Findings and what they are about are different vertices; a sweep has regions.
ASSUME SweepParameters ==
    GuardDutyFindings \cap Targets = {} /\ RegionOrder \in Seq(Regions) \ {<<>>}

SweepInit ==
    /\ unarchived \in SUBSET GuardDutyFindings /\ detectors = Regions
    /\ presentTargets = Targets /\ findingNodes = {} /\ findingEdges = {}
    /\ stamp = [f \in GuardDutyFindings |-> 0]
    /\ sweep = NoSweep /\ turn = 0 /\ results = [r \in Regions |-> "none"]
    /\ throughout = GuardDutyFindings \cup Targets /\ ever = {} /\ kept = {}
    /\ guardDutyChanges = 0 /\ sweepFaults = 0 /\ sweeps = 0

GuardDutyChanges ==
    guardDutyChanges < MaxSweepChanges /\ guardDutyChanges' = guardDutyChanges + 1
SweepFault == sweepFaults < MaxSweepFaults /\ sweepFaults' = sweepFaults + 1
NoSweepFault == sweepFaults' = sweepFaults

-----------------------------------------------------------------------------
(* GuardDuty and the account runs.                                         *)

Raise(f) ==
    /\ GuardDutyChanges /\ f \notin unarchived /\ RegionOf[f] \in detectors
    /\ unarchived' = unarchived \cup {f} /\ ever' = ever \cup {f}
    /\ UNCHANGED <<detectors, findingVars, sweep, results, throughout, kept,
                   sweepFaults, sweeps, turn>>

Archive(f) ==
    /\ GuardDutyChanges /\ f \in unarchived
    /\ unarchived' = unarchived \ {f} /\ throughout' = throughout \ {f} /\ kept' = kept \ {f}
    /\ UNCHANGED <<detectors, findingVars, sweep, results, ever, sweepFaults, sweeps, turn>>

\* The detector goes with its findings.
RemoveDetector(r) ==
    /\ GuardDutyChanges /\ r \in detectors
    /\ LET lost == {f \in GuardDutyFindings : RegionOf[f] = r}
       IN /\ unarchived' = unarchived \ lost
          /\ throughout' = throughout \ lost /\ kept' = kept \ lost
    /\ detectors' = detectors \ {r}
    /\ UNCHANGED <<findingVars, sweep, results, ever, sweepFaults, sweeps, turn>>

\* A run of the resource's account drops its vertex, and the edges with it, or writes it.
AccountRun(x) ==
    /\ GuardDutyChanges
    /\ presentTargets' =
          IF x \in presentTargets THEN presentTargets \ {x} ELSE presentTargets \cup {x}
    /\ findingEdges' = {f \in findingEdges : TargetOf[f] # x}
    /\ throughout' = throughout \ {x}
    /\ UNCHANGED <<unarchived, detectors, findingNodes, stamp, sweep, results, ever,
                   kept, sweepFaults, sweeps, turn>>

-----------------------------------------------------------------------------
(* collectGuardDutyFindings().                                             *)

StartSweep ==
    /\ sweep.stage = "idle" /\ sweeps < MaxSweeps /\ sweeps' = sweeps + 1
    /\ sweep' = [stage |-> "region", todo |-> RegionOrder]
    /\ UNCHANGED <<guardDutyVars, findingVars, results, throughout, ever, kept, sweepFaults,
                   turn>>

Region == Head(sweep.todo)

\* Whatever became of a region, the next one follows.
LeaveRegion(status) ==
    /\ results' = [results EXCEPT ![Region] = status]
    /\ sweep' = IF Len(sweep.todo) = 1 THEN NoSweep
                ELSE [stage |-> "region", todo |-> Tail(sweep.todo)]

\* ListDetectors: without a detector there is nothing to write, nor to reconcile away.
EnterRegion ==
    /\ sweep.stage = "region"
    /\ turn' = turn + 1
    /\ throughout' = unarchived \cup presentTargets /\ ever' = unarchived
    /\ \/ SweepFault /\ LeaveRegion("FAILED")
       \/ NoSweepFault /\ Region \notin detectors /\ LeaveRegion("NO_DETECTOR")
       \/ /\ NoSweepFault /\ Region \in detectors
          /\ sweep' = [stage |-> "list", todo |-> sweep.todo]
          /\ UNCHANGED results
    /\ UNCHANGED <<guardDutyVars, findingVars, kept, sweeps>>

ListFindings ==
    /\ sweep.stage = "list"
    /\ \/ SweepFault /\ LeaveRegion("FAILED")
       \/ /\ NoSweepFault /\ UNCHANGED results
          /\ sweep' = [stage |-> "get", todo |-> sweep.todo, found |-> {},
                       ids |-> {f \in unarchived : RegionOf[f] = Region}]
    /\ UNCHANGED <<guardDutyVars, findingVars, throughout, ever, kept, sweeps, turn>>

\* GetFindings: a finding archived since it was listed is dropped.
Unarchived(batch) == batch \cap unarchived

GetFindings ==
    /\ sweep.stage = "get" /\ sweep.ids # {}
    /\ \/ SweepFault /\ LeaveRegion("FAILED") /\ UNCHANGED ever
       \/ /\ NoSweepFault /\ UNCHANGED results
          /\ \E batch \in SUBSET sweep.ids :
                /\ batch # {} /\ (Cardinality(batch) = GetBatch \/ batch = sweep.ids)
                /\ Cardinality(batch) <= GetBatch
                /\ sweep' = [sweep EXCEPT !.ids = @ \ batch, !.found = @ \cup Unarchived(batch)]
                /\ ever' = ever \ (batch \ unarchived)
    /\ UNCHANGED <<guardDutyVars, findingVars, throughout, kept, sweeps, turn>>

\* writeGraphInBatches(): vertices; a batch that fails leaves those before it.
WriteFindings ==
    /\ sweep.stage = "get" /\ sweep.ids = {}
    /\ \E taken \in SUBSET sweep.found :
          /\ \/ NoSweepFault /\ taken = sweep.found /\ UNCHANGED results
                        /\ sweep' = [stage |-> "edges", todo |-> sweep.todo, found |-> sweep.found]
             \/ SweepFault /\ taken # sweep.found /\ LeaveRegion("FAILED")
          /\ findingNodes' = findingNodes \cup taken
          /\ stamp' = [f \in GuardDutyFindings |-> IF f \in taken THEN turn ELSE stamp[f]]
          /\ kept' = kept \cup ((taken \ findingNodes) \cap unarchived)
    /\ UNCHANGED <<guardDutyVars, presentTargets, findingEdges, throughout, ever, sweeps, turn>>

\* The writer skips an edge to a vertex the graph does not have.
EdgesOf(found) == {f \in found : TargetOf[f] \in presentTargets}

WriteFindingEdges ==
    /\ sweep.stage = "edges"
    /\ \E taken \in SUBSET EdgesOf(sweep.found) :
          /\ \/ NoSweepFault /\ taken = EdgesOf(sweep.found) /\ UNCHANGED results
                        /\ sweep' = [stage |-> "reconcile", todo |-> sweep.todo]
             \/ SweepFault /\ LeaveRegion("FAILED")
          /\ findingEdges' = findingEdges \cup taken
    /\ UNCHANGED <<guardDutyVars, presentTargets, findingNodes, stamp, throughout, ever, kept,
                   sweeps, turn>>

\* Mutant: one scope for all regions.
ScopeAll(r) == GuardDutyFindings

\* guardDutyFindingsScope(): the region's findings, of whatever account.
Scope(r) == {f \in GuardDutyFindings : RegionOf[f] = r}

ReconcileRegion ==
    /\ sweep.stage = "reconcile"
    /\ \E dropped \in SUBSET {f \in Scope(Region) \cap findingNodes : stamp[f] # turn} :
          /\ \/ NoSweepFault /\ dropped = {f \in Scope(Region) \cap findingNodes : stamp[f] # turn}
                        /\ LeaveRegion("SUCCEEDED")
             \/ SweepFault /\ LeaveRegion("FAILED")
          /\ findingNodes' = findingNodes \ dropped /\ findingEdges' = findingEdges \ dropped
    /\ UNCHANGED <<guardDutyVars, presentTargets, stamp, throughout, ever, kept, sweeps, turn>>

SweepNext ==
    \/ \E f \in GuardDutyFindings : Raise(f) \/ Archive(f)
    \/ \E r \in Regions : RemoveDetector(r)
    \/ \E x \in Targets : AccountRun(x)
    \/ StartSweep \/ EnterRegion \/ ListFindings \/ GetFindings
    \/ WriteFindings \/ WriteFindingEdges \/ ReconcileRegion

SweepSpec == SweepInit /\ [][SweepNext]_findingSweepVars

-----------------------------------------------------------------------------
(* Type correctness; an edge has its finding and its resource.             *)
SweepTypeOK ==
    /\ unarchived \subseteq GuardDutyFindings /\ detectors \subseteq Regions
    /\ presentTargets \subseteq Targets
    /\ findingEdges \subseteq findingNodes
    /\ \A f \in findingEdges : TargetOf[f] \in presentTargets
    /\ turn \in Nat /\ stamp \in [GuardDutyFindings -> 0..turn] /\ kept \subseteq unarchived
    /\ results \in [Regions -> {"none", "SUCCEEDED", "NO_DETECTOR", "FAILED"}]
    /\ sweep.stage \in {"idle", "region", "list", "get", "edges", "reconcile"}

(* A finding that stays unarchived once it has a vertex keeps it, whatever *)
(* fails and whichever region or run reconciles (guardduty-sweep.ts: "A    *)
(* failed region keeps its previous findings").                            *)
OpenFindingsKept == kept \subseteq findingNodes

(* A region that succeeded shows the findings that were unarchived all     *)
(* through its turn, and none that was archived when it was got, though it *)
(* was listed; a steady finding about a steady resource has its edge.      *)
RegionMirrored ==
    [][sweep.stage = "reconcile" /\ results'[Region] = "SUCCEEDED" /\ sweep' # sweep =>
         LET mine == {f \in GuardDutyFindings : RegionOf[f] = Region}
             steady == throughout \cap mine
         IN /\ steady \subseteq findingNodes'
            /\ findingNodes' \cap mine \subseteq ever
            /\ {f \in steady : TargetOf[f] \in throughout} \subseteq findingEdges'
      ]_findingSweepVars

(* A GuardDuty finding that stays open is not dropped, whichever Region or *)
(* batch fails, and a Region swept without a failure holds exactly its     *)
(* unarchived findings.                                                    *)
FindingsAreMirrored ==
    /\ [](SweepTypeOK /\ OpenFindingsKept)
    /\ RegionMirrored
===============================================================================
