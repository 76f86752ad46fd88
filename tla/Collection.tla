------------------------------ MODULE Collection ------------------------------
(* One account and region as its collector reads it: stages that each read a   *)
(* part of AWS and may fail alone, then the capped lists of findings and the   *)
(* tags, and the batches that carry the result to the graph. AWS is a set of   *)
(* facts that changes while the run reads it: what exists, whether the one     *)
(* instance has a public address and a tag, and whether the one bucket is      *)
(* tagged with a classification. A batch is split by size in the code; here it *)
(* ends where one kind of element ends. How one stage makes its reads is       *)
(* ServiceStages.                                                              *)
EXTENDS ServiceStages, FiniteSets

CONSTANTS StageOrder,        \* the independent stages, in the order they start
          StageConcurrency,  \* stages that run at once
          Resources,         \* <<stage, fact>>: which stage reads which resource
          Findings,          \* Security Hub's findings
          Vulnerabilities,   \* Inspector's findings, all of the instance
          Limit,             \* most findings of one list
          MaxAccountChanges, MaxAccountFaults, MaxAccountRuns  \* bounds

VARIABLES aws, accountChanges, accountFaults, \* the account, and the bounds' counters
          accountPhase, runId,           \* the run's progress
          serviceOutcome, seen, truncated, \* what it has read: per service, in all
          steadyFacts, missingFacts,     \* history: facts that held, or did not, all along
          accountVertices, accountEdges, \* the graph: element -> run that wrote it
          exposed, tagged,               \* properties of the instance's vertex
          classified,                    \* data_classification of the bucket's vertex
          covered                        \* CollectionCoverage: service -> status, run

collectionVars == <<aws, accountChanges, accountFaults, accountPhase, runId, serviceOutcome,
                    seen, truncated, steadyFacts, missingFacts, accountVertices, accountEdges,
                    exposed, tagged, classified, covered>>

ResourceFacts == {r[2] : r \in Resources}
Elements == ResourceFacts \cup Findings \cup Vulnerabilities
Facts == Elements \cup {"address", "tag", "class"}
Stages == {StageOrder[i] : i \in DOMAIN StageOrder}
Services == Stages \cup {"credentials", "securityhub", "inspector", "tags", "resource-inventory"}
Statuses == {"none", "SUCCEEDED", "FAILED", "SKIPPED"}
ReadBy(s) == {r[2] : r \in {q \in Resources : q[1] = s}}

\* No stage has the name of what follows the stages, every resource is some stage's,
\* the instance among them, and resources, findings and properties are different facts.
ASSUME CollectionParameters ==
  /\ Stages \cap {"credentials", "securityhub", "inspector", "tags", "resource-inventory"} = {}
  /\ \A r \in Resources : r[1] \in Stages
  /\ "instance" \in ResourceFacts
  /\ ResourceFacts \cap (Findings \cup Vulnerabilities) = {}
  /\ Elements \cap {"address", "tag", "class"} = {}
  /\ MaxAccountRuns \in Nat

CollectionTypeOK ==
  /\ aws \subseteq Facts
  /\ accountPhase \in {"idle", "stages", "securityhub", "inspector", "tags",
                "vertices", "coverage", "edges", "reconcile"}
  /\ serviceOutcome \in [Services -> Statuses]
  /\ seen \subseteq Facts
  /\ truncated \subseteq {"securityhub", "inspector"}
  /\ steadyFacts \subseteq aws /\ missingFacts \cap aws = {}
  /\ accountVertices \in [Elements -> 0 .. MaxAccountRuns]
  /\ accountEdges \in [Elements -> 0 .. MaxAccountRuns]
  /\ exposed \in {"unset", "true", "false"}
  /\ tagged \in BOOLEAN
  /\ classified \in {"unset", "", "restricted"}
  /\ covered \in [Services -> [status : Statuses, run : 0 .. MaxAccountRuns]]

AccountInit ==
  /\ aws = Facts
  /\ accountChanges = 0 /\ accountFaults = 0
  /\ accountPhase = "idle" /\ runId = 0
  /\ serviceOutcome = [s \in Services |-> "none"]
  /\ seen = {} /\ truncated = {}
  /\ steadyFacts = {} /\ missingFacts = {}
  /\ accountVertices = [e \in Elements |-> 0]
  /\ accountEdges = [e \in Elements |-> 0]
  /\ exposed = "unset" /\ tagged = FALSE /\ classified = "unset"
  /\ covered = [s \in Services |-> [status |-> "none", run |-> 0]]

accountGraphVars == <<accountVertices, accountEdges, exposed, tagged, classified, covered>>
historyVars == <<aws, accountChanges, steadyFacts, missingFacts>>

Toggle(f) ==
  /\ accountChanges < MaxAccountChanges
  /\ accountChanges' = accountChanges + 1
  /\ aws' = IF f \in aws THEN aws \ {f} ELSE aws \cup {f}
  /\ steadyFacts' = steadyFacts \ {f}
  /\ missingFacts' = missingFacts \ {f}
  /\ UNCHANGED <<accountFaults, accountPhase, runId, serviceOutcome, seen, truncated,
                 accountGraphVars>>

\* A service answers, or it fails for this run.
Answers == UNCHANGED accountFaults
Fails == accountFaults < MaxAccountFaults /\ accountFaults' = accountFaults + 1

-----------------------------------------------------------------------------
(* Reading.                                                                  *)

BeginRun ==
  /\ accountPhase = "idle" /\ runId < MaxAccountRuns
  /\ runId' = runId + 1
  /\ accountPhase' = "stages"
  /\ serviceOutcome' = [s \in Services |-> "none"]
  /\ seen' = {} /\ truncated' = {}
  /\ steadyFacts' = aws /\ missingFacts' = Facts \ aws
  /\ Answers
  /\ UNCHANGED <<aws, accountChanges, accountGraphVars>>

\* Without credentials only that is recorded, outside any collection scope.
NoCredentials ==
  /\ accountPhase = "idle" /\ runId < MaxAccountRuns
  /\ Fails
  /\ runId' = runId + 1
  /\ covered' = [covered EXCEPT !["credentials"] = [status |-> "FAILED", run |-> runId + 1]]
  /\ UNCHANGED <<accountPhase, serviceOutcome, seen, truncated, historyVars,
                 accountVertices, accountEdges, exposed, tagged, classified>>

\* mapBounded starts stage i when all but StageConcurrency of the earlier ended.
Started(i) ==
  i <= StageConcurrency + Cardinality({s \in Stages : serviceOutcome[s] # "none"})

ReadStage(i) ==
  LET s == StageOrder[i] IN
  /\ accountPhase = "stages" /\ Started(i) /\ serviceOutcome[s] = "none"
  /\ \/ /\ Answers
        /\ serviceOutcome' = [serviceOutcome EXCEPT ![s] = "SUCCEEDED"]
        /\ seen' = seen \cup (aws \cap (ReadBy(s) \cup (IF "instance" \in ReadBy(s)
                                                        THEN {"address"} ELSE {})))
     \/ /\ Fails
        /\ serviceOutcome' = [serviceOutcome EXCEPT ![s] = "FAILED"]
        /\ UNCHANGED seen
  /\ accountPhase' =
       IF \A t \in Stages : serviceOutcome'[t] # "none" THEN "securityhub" ELSE "stages"
  /\ UNCHANGED <<runId, truncated, historyVars, accountGraphVars>>

\* The worst findings up to the limit; the rest is only known to exist.
Capped(list, page) ==
  /\ page \subseteq list
  /\ Cardinality(page) = IF Cardinality(list) > Limit THEN Limit ELSE Cardinality(list)

\* A vulnerability of a resource no stage contributed is not written.
Attached(source, page) ==
  IF source = "inspector" /\ "instance" \notin seen THEN {} ELSE page

ReadFindings(source, list, after) ==
  /\ accountPhase = source
  /\ \/ \E page \in SUBSET list :
          /\ Answers
          /\ Capped(list, page)
          /\ seen' = seen \cup Attached(source, page)
          /\ truncated' = IF page # list THEN truncated \cup {source} ELSE truncated
          /\ serviceOutcome' = [serviceOutcome EXCEPT ![source] = "SUCCEEDED"]
     \/ /\ Fails
        /\ serviceOutcome' = [serviceOutcome EXCEPT ![source] = "FAILED"]
        /\ UNCHANGED <<seen, truncated>>
  /\ accountPhase' = after
  /\ UNCHANGED <<runId, historyVars, accountGraphVars>>

\* Inspector is not enabled: nothing was read, and that is no failure.
SkipInspector ==
  /\ accountPhase = "inspector" /\ aws \cap Vulnerabilities = {}
  /\ serviceOutcome' = [serviceOutcome EXCEPT !["inspector"] = "SKIPPED"]
  /\ accountPhase' = "tags"
  /\ UNCHANGED <<accountFaults, runId, seen, truncated, historyVars, accountGraphVars>>

\* Tags are looked up for what the stages found; then the run is summed up.
FailedStages(of) == {s \in Stages : of[s] = "FAILED"}

Failed(of) == {s \in Services : of[s] = "FAILED"}

SummedUp(of) ==
  [of EXCEPT !["resource-inventory"] = IF Failed(of) = {} THEN "SUCCEEDED" ELSE "FAILED"]

TagsOf(found) == (IF "instance" \in found THEN {"tag"} ELSE {})
                   \cup (IF "bucket" \in found THEN {"class"} ELSE {})

ReadTags ==
  /\ accountPhase = "tags"
  /\ \/ /\ Answers
        /\ seen' = seen \cup (aws \cap TagsOf(seen))
        /\ serviceOutcome' = SummedUp([serviceOutcome EXCEPT !["tags"] = "SUCCEEDED"])
     \/ /\ Fails
        /\ serviceOutcome' = SummedUp([serviceOutcome EXCEPT !["tags"] = "FAILED"])
        /\ UNCHANGED seen
  /\ accountPhase' = "vertices"
  /\ UNCHANGED <<runId, truncated, historyVars, accountGraphVars>>

-----------------------------------------------------------------------------
(* What is written, batch by batch. A write that fails ends the run.         *)

\* The subnet's gateway is looked for in a property no stage writes, so only an
\* address exposes the instance.
Derived == "address" \in seen
NetworkComplete ==
  serviceOutcome["subnets"] = "SUCCEEDED" /\ serviceOutcome["internet-gateways"] = "SUCCEEDED"

Exposure == IF Derived THEN "true" ELSE IF NetworkComplete THEN "false" ELSE exposed

TagAfter == "tag" \in seen \/ (tagged /\ serviceOutcome["tags"] # "SUCCEEDED")

\* A bucket's own stage sets its classification to nothing, and a tag wins.
ClassAfter == IF "class" \in seen THEN "restricted" ELSE ""

Stamp(stamped, elements) == [e \in Elements |-> IF e \in elements THEN runId ELSE stamped[e]]

WriteVertices ==
  /\ accountPhase = "vertices"
  /\ accountVertices' = Stamp(accountVertices, seen)
  /\ exposed' = IF "instance" \in seen THEN Exposure ELSE exposed
  /\ tagged' = IF "instance" \in seen THEN TagAfter ELSE tagged
  /\ classified' = IF "bucket" \in seen THEN ClassAfter ELSE classified
  /\ accountPhase' = "coverage"
  /\ UNCHANGED <<accountFaults, runId, serviceOutcome, seen, truncated, historyVars,
                 accountEdges, covered>>

Covered ==
  [s \in Services |->
     IF serviceOutcome[s] = "none" THEN covered[s]
     ELSE [status |-> serviceOutcome[s], run |-> runId]]

WriteCoverage ==
  /\ accountPhase = "coverage"
  /\ covered' = Covered
  /\ accountPhase' = "edges"
  /\ UNCHANGED <<accountFaults, runId, serviceOutcome, seen, truncated, historyVars,
                 accountVertices, accountEdges, exposed, tagged, classified>>

\* An edge needs its end in the graph.
WriteEdges ==
  /\ accountPhase = "edges"
  /\ accountEdges' = Stamp(accountEdges, seen)
  /\ accountPhase' = IF Failed(serviceOutcome) = {} THEN "reconcile" ELSE "idle"
  /\ UNCHANGED <<accountFaults, runId, serviceOutcome, seen, truncated, historyVars,
                 accountVertices, exposed, tagged, classified, covered>>

Kept(stamped) == [e \in Elements |-> IF stamped[e] = runId THEN runId ELSE 0]

\* What an earlier run of the scope wrote and this one did not is dropped, with
\* its edges and properties; the unscoped credentials vertex is in no scope.
ReconcileAccount ==
  /\ accountPhase = "reconcile"
  /\ accountVertices' = Kept(accountVertices)
  /\ accountEdges' = Kept(accountEdges)
  /\ exposed' = IF accountVertices["instance"] = runId THEN exposed ELSE "unset"
  /\ tagged' = (tagged /\ accountVertices["instance"] = runId)
  /\ classified' = IF accountVertices["bucket"] = runId THEN classified ELSE "unset"
  /\ covered' = [s \in Services |->
       IF s = "credentials" \/ covered[s].run = runId THEN covered[s]
       ELSE [status |-> "none", run |-> 0]]
  /\ accountPhase' = "idle"
  /\ UNCHANGED <<accountFaults, runId, serviceOutcome, seen, truncated, historyVars>>

WriteThrows ==
  /\ accountPhase \in {"vertices", "coverage", "edges", "reconcile"}
  /\ Fails
  /\ accountPhase' = "idle"
  /\ UNCHANGED <<runId, serviceOutcome, seen, truncated, historyVars, accountGraphVars>>

\* Nothing is left to happen.
Done == accountPhase = "idle" /\ runId = MaxAccountRuns /\ UNCHANGED collectionVars

AccountNext ==
  \/ \E f \in Facts : Toggle(f)
  \/ BeginRun
  \/ NoCredentials
  \/ \E i \in DOMAIN StageOrder : ReadStage(i)
  \/ ReadFindings("securityhub", aws \cap Findings, "inspector")
  \/ ReadFindings("inspector", aws \cap Vulnerabilities, "tags")
  \/ SkipInspector
  \/ ReadTags
  \/ WriteVertices
  \/ WriteCoverage
  \/ WriteEdges
  \/ ReconcileAccount
  \/ WriteThrows
  \/ Done

AccountSpec == AccountInit /\ [][AccountNext]_collectionVars

-----------------------------------------------------------------------------
(* Properties.                                                               *)

CutOff == (IF "securityhub" \in truncated THEN Findings ELSE {})
            \cup (IF "inspector" \in truncated THEN Vulnerabilities ELSE {})
\* A vulnerability is there for the run as long as its instance is.
SteadyElements ==
  {e \in Elements \cap steadyFacts : e \in Vulnerabilities => "instance" \in steadyFacts}

\* A reconciliation drops nothing that was in AWS for the whole run, except from
\* a list of findings that was cut off at its limit and says so.
SteadyKept ==
  [][accountPhase = "reconcile" /\ accountPhase' = "idle" /\ accountFaults' = accountFaults =>
       \A e \in SteadyElements \ CutOff :
          accountVertices'[e] = runId /\ accountEdges'[e] = runId]_collectionVars

\* A stage that reports success has all it read in the graph, whatever write
\* failed since: those who wait for its coverage find its vertices.
CoverageFollowsVertices ==
  \A s \in Stages :
    covered[s].status = "SUCCEEDED" /\ covered[s].run = runId =>
      \A e \in ReadBy(s) \cap steadyFacts : accountVertices[e] = runId

\* An instance stops being marked exposed, and loses its tag, only by a run
\* during which it had lost its address, or its tag; a failed read changes nothing.
NothingBlanked ==
  [][ /\ exposed = "true" /\ exposed' = "false" => "address" \notin steadyFacts
      /\ tagged /\ ~tagged' =>
           "tag" \notin steadyFacts \/ "instance" \notin steadyFacts]_collectionVars

\* A stage that fails, is cut off or is denied neither drops nor changes what is
\* known: what was in AWS throughout a run stays in the graph, with its tag and
\* its exposure, a stage reported as successful is in the graph, what was not
\* read is not written as a value, and a denied read fails no other.
CollectionKeepsWhatStands ==
  /\ [](CollectionTypeOK /\ CoverageFollowsVertices /\ StagesTypeOK)
  /\ SteadyKept /\ NothingBlanked
  /\ NothingGuessed /\ DenialFailsNobody
=============================================================================
