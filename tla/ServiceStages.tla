---------------------------- MODULE ServiceStages ----------------------------
(* How the collector's stages read one resource of a service: a listing, then  *)
(* some questions about each resource listed, which may meanwhile be gone or   *)
(* whose own policy may deny the answer. Services differ in what they make of  *)
(* those two errors; here each is a row of treatments, one per question. An    *)
(* answer is a property of the resource's vertex, or an edge that exists or    *)
(* not; at the end the graph is brought up to date by the run's writes.        *)
EXTENDS Integers, Sequences

CONSTANTS MaxStageChanges, MaxStageRuns  \* bounds

ASSUME StageBounds == MaxStageChanges \in Nat /\ MaxStageRuns \in Nat

VARIABLES service,
          stagePresent, value, denied,  \* AWS: the resource, the answers, what is refused
          stageChanges,
          readable,            \* history of the run: the answers that could be read
          stage, question, got, restricted, stageRuns,  \* the run
          vertex, known, marked                \* the graph

stageVars == <<service, stagePresent, value, denied, stageChanges, readable,
               stage, question, got, restricted, stageRuns, vertex, known, marked>>

Values == {"off", "on"}
Questions == 1 .. 3

\* What the error becomes: the stage fails, the resource is marked restricted,
\* the answer is what the listing told, is taken as off, or is left unset. A
\* property left unset keeps its earlier value; an edge or vertex is dropped.
Row(gone, refused, stays) == [gone |-> gone, refused |-> refused, stays |-> stays]
Strict == Row("fail", "fail", TRUE)

S3Reads      == << Row("fail", "restrict", TRUE) >>
Ec2Reads     == << Row("unset", "unset", FALSE) >>
KmsReads     == << Row("fail", "restrict", TRUE), Row("unset", "unset", TRUE) >>
SecretReads  == << Row("fail", "listed", TRUE), Row("fail", "restrict", FALSE) >>
ExposureReads == << Row("fail", "restrict", TRUE), Row("off", "restrict", TRUE) >>
LambdaReads  == << ExposureReads[1], ExposureReads[2], Strict >>
TrailReads   == << Row("unset", "fail", TRUE), Strict >>
AnalyzerReads == << Strict >>
ClusterReads == << Strict >>
TableReads   == << Strict >>
GatewayReads == << Strict >>
DomainReads  == << Strict >>
DatabaseReads == << >>
BackupReads  == << >>

Reads == [s3 |-> S3Reads, ec2 |-> Ec2Reads, kms |-> KmsReads, secrets |-> SecretReads,
          lambda |-> LambdaReads, cloudtrail |-> TrailReads,
          accessanalyzer |-> AnalyzerReads, eks |-> ClusterReads,
          dynamodb |-> TableReads, apigateway |-> GatewayReads,
          opensearch |-> DomainReads, rds |-> DatabaseReads, backup |-> BackupReads]
ReadServices == DOMAIN Reads

\* Services whose absence is itself a fact get a vertex that says so.
Announced == {"accessanalyzer"}

StagesTypeOK ==
  /\ service \in ReadServices
  /\ stagePresent \in BOOLEAN
  /\ value \in [Questions -> Values] /\ denied \subseteq Questions
  /\ readable \in [Questions -> SUBSET Values]
  /\ stage \in {"idle", "reading", "failed"}
  /\ question \in 1 .. 5 /\ stageRuns \in 0 .. MaxStageRuns
  /\ got \in [Questions -> Values \cup {"unset"}]
  /\ known \in [Questions -> Values \cup {"unset"}]
  /\ restricted \in BOOLEAN /\ marked \in BOOLEAN
  /\ vertex \in {"none", "missing", "resource"}

Unset == [q \in Questions |-> "unset"]
Asked == DOMAIN Reads[service]

StagesInit ==
  /\ service \in ReadServices
  /\ stagePresent = TRUE /\ denied = {} /\ stageChanges = 0
  /\ value = [q \in Questions |-> "on"]
  /\ readable = [q \in Questions |-> {}]
  /\ stage = "idle" /\ question = 1 /\ got = Unset /\ restricted = FALSE /\ stageRuns = 0
  /\ vertex = "none" /\ known = Unset /\ marked = FALSE

runVars == <<stage, question, got, restricted, stageRuns>>
resourceVars == <<vertex, known, marked>>

-----------------------------------------------------------------------------
(* AWS.                                                                      *)

Answerable(q) == IF stagePresent' /\ q \notin denied' THEN {value'[q]} ELSE {}

ServiceChanges ==
  /\ stageChanges < MaxStageChanges
  /\ stageChanges' = stageChanges + 1
  \* made anew, the resource has nothing configured
  /\ \/ /\ stagePresent' = ~stagePresent
        /\ value' = IF stagePresent' THEN [q \in Questions |-> "off"] ELSE value
        /\ denied' = IF stagePresent' THEN {} ELSE denied
     \/ \E q \in Asked : /\ value' = [value EXCEPT ![q] = IF @ = "on" THEN "off" ELSE "on"]
                         /\ UNCHANGED <<stagePresent, denied>>
     \/ \E q \in Asked : /\ denied' = IF q \in denied THEN denied \ {q} ELSE denied \cup {q}
                         /\ UNCHANGED <<stagePresent, value>>
  /\ readable' = [q \in Questions |-> readable[q] \cup Answerable(q)]
  /\ UNCHANGED <<service, runVars, resourceVars>>

serviceVars == <<service, stagePresent, value, denied, stageChanges>>

-----------------------------------------------------------------------------
(* A run. A vertex the run does not write is dropped when its stage succeeds.  *)

\* A stage that ends well is written, and what it did not write is dropped.
WriteFound ==
  /\ vertex' = "resource"
  /\ known' = [q \in Questions |->
       IF got'[q] # "unset" \/ (q \in Asked /\ Reads[service][q].stays)
       THEN IF got'[q] = "unset" THEN known[q] ELSE got'[q]
       ELSE "unset"]
  /\ marked' = restricted'
  /\ stage' = "idle"

WriteNone ==
  /\ vertex' = IF service \in Announced THEN "missing" ELSE "none"
  /\ known' = Unset /\ marked' = FALSE
  /\ stage' = "idle"

\* The listing: what it tells of a secret is the answer to the first question.
ListResource ==
  /\ stage = "idle" /\ stageRuns < MaxStageRuns
  /\ stageRuns' = stageRuns + 1
  /\ question' = 1 /\ restricted' = FALSE
  /\ readable' = [q \in Questions |->
       IF stagePresent /\ (q \notin denied \/ (service = "secrets" /\ q = 1))
       THEN {value[q]} ELSE {}]
  /\ got' = [Unset EXCEPT ![1] =
               IF service = "secrets" /\ stagePresent THEN value[1] ELSE "unset"]
  /\ IF ~stagePresent THEN WriteNone
     ELSE IF Asked = {} THEN WriteFound
     ELSE stage' = "reading" /\ UNCHANGED resourceVars
  /\ UNCHANGED serviceVars

Treatment(q) ==
  IF ~stagePresent THEN Reads[service][q].gone
  ELSE IF q \in denied THEN Reads[service][q].refused ELSE "answer"

\* A resource that refuses the first question is not asked the second.
Following(q, t) == IF q = 1 /\ t \in {"restrict", "listed"} THEN q + 2 ELSE q + 1

\* got is what is known after question q, by treatment t.
After(q, t) ==
  CASE t = "answer" -> [got EXCEPT ![q] = value[q]]
    [] t = "off" -> [got EXCEPT ![q] = "off"]
    \* a function's URLs and policies are read as one, all or nothing
    [] t = "restrict" /\ service = "lambda" -> Unset
    [] OTHER -> got

Ask ==
  /\ stage = "reading"
  /\ LET t == Treatment(question) IN
       IF t = "fail"
       THEN /\ stage' = "failed"
            /\ UNCHANGED <<question, got, restricted, resourceVars>>
       ELSE /\ got' = After(question, t)
            /\ restricted' = (restricted \/ t \in {"restrict", "listed"})
            /\ question' = Following(question, t)
            /\ IF Following(question, t) \notin Asked THEN WriteFound
               ELSE stage' = "reading" /\ UNCHANGED resourceVars
  /\ UNCHANGED <<serviceVars, readable, stageRuns>>

\* A failed stage writes nothing, and its account is not reconciled.
GiveUpStage ==
  /\ stage = "failed"
  /\ stage' = "idle"
  /\ UNCHANGED <<serviceVars, readable, question, got, restricted, stageRuns, resourceVars>>

StagesNext == ServiceChanges \/ ListResource \/ Ask \/ GiveUpStage

StagesSpec == StagesInit /\ [][StagesNext]_stageVars

-----------------------------------------------------------------------------
(* Properties.                                                               *)

StageWritten == stage # "idle" /\ stage' = "idle" /\ stage # "failed"

\* A value that a run writes is one it could read while it ran: a refused
\* question, or one about a resource that is gone, is never guessed at.
NothingGuessed ==
  [][StageWritten => \A q \in Questions :
       known'[q] \in {"unset", known[q]} \cup readable[q]]_stageVars

\* A question that a resource's own policy refuses does not fail the stage, and
\* with it everything the account has, for the services that say so.
DenialFailsNobody ==
  [][stage = "reading" /\ stage' = "failed" /\ stagePresent
       => service \notin {"s3", "kms", "secrets", "lambda"} \/ question = 3]_stageVars
=============================================================================
