-------------------------- MODULE Collection_proofs --------------------------
(* Proofs about the collection of an account: how a stage reads a resource      *)
(* (ServiceStages), how a run reads, writes and reconciles (Collection), the    *)
(* walk through IAM (IamCollection), the GuardDuty sweep (FindingSweep), the    *)
(* batches of events (IncrementalBatch) and what is read from network rules     *)
(* (NetworkCollection), each for every value of its constants.                  *)
EXTENDS Collection, IamCollection, FindingSweep, IncrementalBatch, NetworkCollection,
        WellFoundedInduction, TLAPS

-----------------------------------------------------------------------------
(* ServiceStages: what is got while a resource is read was readable.         *)
(* What is got while the resource is read was readable; a function that is    *)
(* gone has its policy taken as off until its last question fails the stage.  *)
GotIsReadable ==
  stage = "reading" =>
    /\ question \in Asked
    /\ \A q \in Questions :
         /\ stagePresent /\ q \notin denied => value[q] \in readable[q]
         /\ got[q] \in {"unset"} \cup readable[q] \cup
              (IF ~stagePresent /\ service = "lambda" /\ question = 3 THEN {"off"} ELSE {})

StagesInv == StagesTypeOK /\ GotIsReadable

Treatments == {"fail", "restrict", "listed", "unset", "off"}

(* Every service asks at most three questions, and what each row says.        *)
LEMMA ReadRows ==
  ASSUME NEW s \in ReadServices
  PROVE  /\ DOMAIN Reads[s] \subseteq 1..3
         /\ \A q \in DOMAIN Reads[s] :
              /\ Reads[s][q].gone \in Treatments /\ Reads[s][q].refused \in Treatments
              /\ Reads[s][q].gone = "off" => s = "lambda" /\ q = 2
              /\ Reads[s][q].refused # "off"
              /\ s = "lambda" /\ q = 3 => Reads[s][q].gone = "fail"
              /\ s = "lambda" => q + 1 \in DOMAIN Reads[s] \/ q = 3
              /\ s \in {"s3", "kms", "secrets", "lambda"} /\ q # 3 => Reads[s][q].refused # "fail"
<1>1. /\ DOMAIN LambdaReads = 1..3 /\ LambdaReads[1] = Row("fail", "restrict", TRUE)
      /\ LambdaReads[2] = Row("off", "restrict", TRUE) /\ LambdaReads[3] = Strict
  <2>1. ExposureReads[1] = Row("fail", "restrict", TRUE) /\ ExposureReads[2] = Row("off", "restrict", TRUE)
    BY DEF ExposureReads
  <2> QED
    BY <2>1 DEF LambdaReads
<1>2. s \in {"s3", "ec2", "kms", "secrets", "lambda", "cloudtrail", "accessanalyzer", "eks",
             "dynamodb", "apigateway", "opensearch", "rds", "backup"}
  BY DEF ReadServices, Reads
<1>3. CASE s = "lambda"
  BY <1>1, <1>3 DEF Reads, Row, Strict, Treatments
<1>4. CASE s \in {"s3", "ec2", "kms", "secrets"}
  BY <1>4 DEF Reads, Row, Strict, Treatments, S3Reads, Ec2Reads, KmsReads, SecretReads
<1>5. CASE s \in {"cloudtrail", "accessanalyzer", "eks", "dynamodb", "apigateway", "opensearch"}
  BY <1>5 DEF Reads, Row, Strict, Treatments, TrailReads, AnalyzerReads, ClusterReads,
              TableReads, GatewayReads, DomainReads
<1>6. CASE s \in {"rds", "backup"}
  BY <1>6 DEF Reads, DatabaseReads, BackupReads
<1> QED
  BY <1>2, <1>3, <1>4, <1>5, <1>6

LEMMA StagesInvInit == StagesInit => StagesInv
<1> SUFFICES ASSUME StagesInit PROVE StagesInv
  OBVIOUS
<1> USE DEF StagesInit
<1>1. value \in [Questions -> Values] /\ readable \in [Questions -> SUBSET Values]
  BY DEF Values
<1>2. got \in [Questions -> Values \cup {"unset"}] /\ known \in [Questions -> Values \cup {"unset"}]
  BY DEF Unset
<1>3. 1 \in 1..5 /\ 0 \in 0..MaxStageRuns
  BY StageBounds
<1> QED
  BY <1>1, <1>2, <1>3 DEF StagesInv, StagesTypeOK, GotIsReadable

LEMMA StagesInvNext == StagesInv /\ [StagesNext]_stageVars => StagesInv'
<1> SUFFICES ASSUME StagesInv, [StagesNext]_stageVars PROVE StagesInv'
  OBVIOUS
<1> USE DEF StagesInv
<1>0. Asked \subseteq Questions
  BY ReadRows DEF StagesTypeOK, Asked, Questions
<1>1. CASE ServiceChanges
  <2> USE <1>1 DEF ServiceChanges, runVars, resourceVars
  <2>1. stagePresent' \in BOOLEAN /\ value' \in [Questions -> Values] /\ denied' \subseteq Questions
    BY <1>0 DEF StagesTypeOK, Values
  <2>2. readable' \in [Questions -> SUBSET Values]
    BY <2>1 DEF Answerable, StagesTypeOK
  <2>3. StagesTypeOK'
    BY <2>1, <2>2 DEF StagesTypeOK
  <2>4. ASSUME stage' = "reading", NEW q \in Questions
        PROVE  /\ stagePresent' /\ q \notin denied' => value'[q] \in readable'[q]
               /\ got'[q] \in {"unset"} \cup readable'[q] \cup
                    (IF ~stagePresent' /\ service' = "lambda" /\ question' = 3
                     THEN {"off"} ELSE {})
    <3>1. readable'[q] = readable[q] \cup Answerable(q)
      OBVIOUS
    <3>2. ~stagePresent /\ stagePresent' => Answerable(q) = {"off"}
      BY DEF Answerable, StagesTypeOK
    <3> QED
      BY <2>4, <3>1, <3>2 DEF GotIsReadable, Answerable
  <2> QED
    BY <2>3, <2>4 DEF GotIsReadable, Asked
<1>2. CASE ListResource
  <2> USE <1>2 DEF ListResource, serviceVars
  <2>1. /\ readable' \in [Questions -> SUBSET Values]
        /\ got' \in [Questions -> Values \cup {"unset"}]
    BY DEF StagesTypeOK, Unset, Questions
  <2>2. stage' \in {"idle", "reading"} /\ (stage' = "reading" => Asked # {})
    BY DEF WriteNone, WriteFound
  <2>3. ASSUME NEW q \in Questions
        PROVE  /\ stagePresent /\ q \notin denied => value[q] \in readable'[q]
               /\ got'[q] \in {"unset"} \cup readable'[q]
    BY DEF StagesTypeOK, Unset, Questions
  <2>4. Asked # {} => 1 \in Asked
    BY DEF Asked, StagesTypeOK, ReadServices, Reads, LambdaReads, ExposureReads, S3Reads, Ec2Reads,
           KmsReads, SecretReads, TrailReads, AnalyzerReads, ClusterReads, TableReads,
           GatewayReads, DomainReads, DatabaseReads, BackupReads
  <2>5. known' \in [Questions -> Values \cup {"unset"}] /\ vertex' \in {"none", "missing", "resource"}
        /\ marked' \in BOOLEAN
    <3>1. WriteNone \/ WriteFound \/ UNCHANGED resourceVars
      OBVIOUS
    <3>2. restricted' \in BOOLEAN
      OBVIOUS
    <3> QED
      BY <2>1, <3>1, <3>2 DEF WriteNone, WriteFound, Unset, StagesTypeOK, resourceVars
  <2>6. StagesTypeOK'
    <3>1. stageRuns' \in 0..MaxStageRuns
      <4>1. stageRuns \in 0..MaxStageRuns /\ stageRuns < MaxStageRuns /\ stageRuns' = stageRuns + 1
        BY DEF StagesTypeOK
      <4> QED
        BY <4>1, StageBounds
    <3>3. question' \in 1..5 /\ restricted' \in BOOLEAN
      BY 1 \in 1..5
    <3>2. stage' \in {"idle", "reading", "failed"}
      BY <2>2
    <3> QED
      BY <2>1, <2>5, <3>1, <3>2, <3>3 DEF StagesTypeOK
  <2> QED
    BY <2>2, <2>3, <2>4, <2>6 DEF GotIsReadable, Asked
<1>3. CASE Ask
  <2> USE <1>3 DEF Ask, serviceVars
  <2> DEFINE t == Treatment(question)
  <2>1. question \in Asked /\ question \in 1..3
    BY <1>0 DEF GotIsReadable, Questions
  <2>2. t \in Treatments \cup {"answer"}
    BY <2>1, ReadRows DEF Treatment, StagesTypeOK, Asked
  <2>3. CASE t = "fail"
    BY <2>3 DEF StagesTypeOK, GotIsReadable, resourceVars
  <2>4. CASE t # "fail"
    <3>1. /\ got' = After(question, t) /\ question' = Following(question, t)
          /\ restricted' = (restricted \/ t \in {"restrict", "listed"})
          /\ stage' \in {"idle", "reading"} /\ (stage' = "reading" => question' \in Asked)
      BY <2>4 DEF WriteFound
    <3>2. After(question, t) \in [Questions -> Values \cup {"unset"}]
      BY <2>1, <2>2, <1>0 DEF After, StagesTypeOK, Unset, Values, Questions
    <3>3. Following(question, t) \in 1..5
      BY <2>1 DEF Following
    <3>4. known' \in [Questions -> Values \cup {"unset"}] /\ vertex' \in {"none", "missing", "resource"}
          /\ marked' \in BOOLEAN
      BY <2>4, <3>1, <3>2 DEF WriteFound, StagesTypeOK, resourceVars
    <3>5. StagesTypeOK'
      BY <3>1, <3>2, <3>3, <3>4 DEF StagesTypeOK
    <3>6. ASSUME stage' = "reading", NEW q \in Questions
          PROVE  got'[q] \in {"unset"} \cup readable[q] \cup
                   (IF ~stagePresent /\ service = "lambda" /\ question' = 3 THEN {"off"} ELSE {})
      <4>1. ~(~stagePresent /\ service = "lambda" /\ question = 3)
        BY <2>1, <2>4, ReadRows DEF Treatment, StagesTypeOK, Asked
      <4>2. got[q] \in {"unset"} \cup readable[q]
        BY <4>1 DEF GotIsReadable
      <4>3. CASE t = "off"
        <5>1. ~stagePresent /\ service = "lambda" /\ question = 2
          BY <2>1, <4>3, ReadRows DEF Treatment, StagesTypeOK, Asked
        <5> QED
          BY <3>1, <4>2, <4>3, <5>1 DEF After, Following, StagesTypeOK
      <4>4. CASE t = "answer"
        <5>1. stagePresent /\ question \notin denied
          BY <2>1, <4>4, ReadRows DEF Treatment, StagesTypeOK, Asked, Treatments
        <5> QED
          BY <3>1, <4>2, <4>4, <5>1, <2>1, <1>0 DEF After, GotIsReadable, StagesTypeOK
      <4>5. CASE t \notin {"off", "answer"}
        BY <3>1, <4>2, <4>5 DEF After, Unset
      <4> QED
        BY <4>3, <4>4, <4>5
    <3>7. stage' = "reading" =>
            \A q \in Questions : stagePresent /\ q \notin denied => value[q] \in readable[q]
      BY DEF GotIsReadable
    <3> QED
      BY <3>1, <3>5, <3>6, <3>7 DEF GotIsReadable, Asked
  <2> QED
    BY <2>3, <2>4
<1>4. CASE GiveUpStage
  BY <1>4 DEF GiveUpStage, serviceVars, resourceVars, StagesTypeOK, GotIsReadable
<1>5. CASE UNCHANGED stageVars
  BY <1>5 DEF stageVars, StagesTypeOK, GotIsReadable, Asked
<1> QED
  BY <1>1, <1>2, <1>3, <1>4, <1>5 DEF StagesNext

(* A step that writes the resource is the answer to its last question.        *)
LEMMA WritesWereReadable ==
  StagesInv /\ [StagesNext]_stageVars =>
    [StageWritten => \A q \in Questions :
       known'[q] \in {"unset", known[q]} \cup readable[q]]_stageVars
<1> SUFFICES ASSUME StagesInv, StagesNext, StageWritten, NEW q \in Questions
             PROVE  known'[q] \in {"unset", known[q]} \cup readable[q]
  BY DEF stageVars, StageWritten
<1>1. Ask /\ stage = "reading" /\ WriteFound /\ Treatment(question) # "fail"
  BY DEF StagesInv, StagesTypeOK, StageWritten, StagesNext, ServiceChanges, runVars, ListResource,
         Ask, GiveUpStage
<1> DEFINE t == Treatment(question)
<1>2. question \in Asked /\ question \in 1..3 /\ Asked \subseteq Questions
  BY <1>1, ReadRows DEF StagesInv, GotIsReadable, StagesTypeOK, Asked, Questions
<1>3. got' = After(question, t) /\ Following(question, t) \notin Asked
  BY <1>1 DEF Ask, StageWritten
<1>4. ~(~stagePresent /\ service = "lambda" /\ question = 3)
  BY <1>1, <1>2, ReadRows DEF Treatment, StagesInv, StagesTypeOK, Asked
<1>5. got[q] \in {"unset"} \cup readable[q]
  BY <1>1, <1>4 DEF StagesInv, GotIsReadable
<1>6. got'[q] \in {"unset"} \cup readable[q]
  <2>1. t # "off"
    <3>1. SUFFICES ASSUME t = "off" PROVE FALSE
      OBVIOUS
    <3>2. service = "lambda" /\ question = 2
      BY <1>2, <3>1, ReadRows DEF Treatment, StagesInv, StagesTypeOK, Asked
    <3>3. 3 \in Asked
      BY <1>2, <3>2, ReadRows DEF StagesInv, StagesTypeOK, Asked
    <3> QED
      BY <1>3, <3>1, <3>2, <3>3 DEF Following
  <2>2. CASE t = "answer"
    <3>1. stagePresent /\ question \notin denied
      BY <1>2, <2>2, ReadRows DEF Treatment, StagesInv, StagesTypeOK, Asked, Treatments
    <3> QED
      BY <1>1, <1>2, <1>3, <1>5, <2>2, <3>1 DEF After, StagesInv, GotIsReadable, StagesTypeOK
  <2>3. CASE t \notin {"off", "answer"}
    BY <1>3, <1>5, <2>3 DEF After, Unset
  <2> QED
    BY <2>1, <2>2, <2>3
<1> QED
  BY <1>1, <1>6 DEF WriteFound

LEMMA DenialsAreTaken ==
  StagesInv /\ [StagesNext]_stageVars =>
    [stage = "reading" /\ stage' = "failed" /\ stagePresent
       => service \notin {"s3", "kms", "secrets", "lambda"} \/ question = 3]_stageVars
<1> SUFFICES ASSUME StagesInv, StagesNext, stage = "reading", stage' = "failed", stagePresent
             PROVE  service \notin {"s3", "kms", "secrets", "lambda"} \/ question = 3
  BY DEF stageVars
<1>1. Ask /\ Treatment(question) = "fail"
  BY DEF StagesNext, ServiceChanges, runVars, ListResource, Ask, GiveUpStage, WriteFound
<1>2. Reads[service][question].refused = "fail"
  BY <1>1 DEF Treatment
<1> QED
  BY <1>2, ReadRows DEF StagesInv, StagesTypeOK, GotIsReadable, Asked

(* A value the graph gets was readable during the run, and a refused question *)
(* fails no stage of the services that say so, for every number of changes.   *)
THEOREM StagesAreHonest == StagesSpec => []StagesTypeOK /\ NothingGuessed /\ DenialFailsNobody
<1>1. StagesSpec => []StagesInv
  BY StagesInvInit, StagesInvNext, PTL DEF StagesSpec
<1>2. StagesInv => StagesTypeOK
  BY DEF StagesInv
<1> QED
  BY <1>1, <1>2, WritesWereReadable, DenialsAreTaken, PTL DEF StagesSpec, NothingGuessed,
     DenialFailsNobody

-----------------------------------------------------------------------------
(* Collection: what was read is seen, what was seen is written in order.     *)
Counts == accountFaults \in Nat /\ runId \in 0..MaxAccountRuns

PastStages == accountPhase \notin {"idle", "stages"}
Summed == accountPhase \in {"vertices", "coverage", "edges", "reconcile"}

(* What a stage, a source or the tags reported read is among what was seen.   *)
ReadIsSeen ==
  /\ \A s \in Stages : serviceOutcome[s] \in {"none", "SUCCEEDED", "FAILED"}
  /\ \A s \in Stages : serviceOutcome[s] = "SUCCEEDED" => ReadBy(s) \cap steadyFacts \subseteq seen
  /\ "instance" \in seen /\ "address" \in steadyFacts => "address" \in seen
  /\ PastStages => \A s \in Stages : serviceOutcome[s] # "none"
  /\ accountPhase \notin {"idle", "stages", "securityhub"} /\ serviceOutcome["securityhub"] # "FAILED"
       => Findings \cap steadyFacts \subseteq seen \/ "securityhub" \in truncated
  /\ accountPhase \notin {"idle", "stages", "securityhub", "inspector"}
     /\ serviceOutcome["inspector"] # "FAILED"
     /\ (\A s \in Stages : serviceOutcome[s] = "SUCCEEDED") /\ "instance" \in steadyFacts
       => Vulnerabilities \cap steadyFacts \subseteq seen \/ "inspector" \in truncated
  /\ Summed /\ serviceOutcome["tags"] = "SUCCEEDED" /\ "instance" \in seen /\ "tag" \in steadyFacts
       => "tag" \in seen

(* What was seen is written, vertices before coverage and coverage before edges. *)
SeenIsWritten ==
  /\ accountPhase \in {"coverage", "edges", "reconcile"} =>
       \A e \in Elements \cap seen : accountVertices[e] = runId
  /\ accountPhase = "reconcile" =>
       /\ Failed(serviceOutcome) = {}
       /\ \A e \in Elements \cap seen : accountEdges[e] = runId

(* Coverage of this run is written once its vertices are.                     *)
CoverageIsOfItsRun ==
  /\ \A s \in Stages : covered[s].run <= runId
  /\ \A s \in Stages : accountPhase \notin {"idle", "edges", "reconcile"} /\ covered[s].status = "SUCCEEDED"
       => covered[s].run < runId

AccountInv ==
  /\ CollectionTypeOK /\ Counts /\ ReadIsSeen /\ SeenIsWritten
  /\ CoverageIsOfItsRun /\ CoverageFollowsVertices

LEMMA AccountNames ==
  /\ Stages \subseteq Services
  /\ "securityhub" \in Services \ Stages /\ "inspector" \in Services \ Stages
  /\ "tags" \in Services \ Stages /\ "resource-inventory" \in Services \ Stages
  /\ "credentials" \in Services \ Stages
  /\ \A s \in Stages : ReadBy(s) \subseteq ResourceFacts
  /\ \A e \in ResourceFacts : \E s \in Stages : e \in ReadBy(s)
  /\ ResourceFacts \subseteq Elements /\ Elements \subseteq Facts
  /\ "instance" \in Elements /\ {"address", "tag", "class"} \subseteq Facts
  /\ "instance" \notin Findings \cup Vulnerabilities
  /\ "address" \notin Elements /\ "tag" \notin Elements
<1>1. /\ Stages \subseteq Services
      /\ "securityhub" \in Services \ Stages /\ "inspector" \in Services \ Stages
      /\ "tags" \in Services \ Stages /\ "resource-inventory" \in Services \ Stages
      /\ "credentials" \in Services \ Stages
  BY CollectionParameters DEF Services
<1>2. /\ \A s \in Stages : ReadBy(s) \subseteq ResourceFacts
      /\ \A e \in ResourceFacts : \E s \in Stages : e \in ReadBy(s)
  BY CollectionParameters DEF ReadBy, ResourceFacts
<1>3. /\ ResourceFacts \subseteq Elements /\ Elements \subseteq Facts
      /\ "instance" \in Elements /\ {"address", "tag", "class"} \subseteq Facts
      /\ "instance" \notin Findings \cup Vulnerabilities
      /\ "address" \notin Elements /\ "tag" \notin Elements
  BY CollectionParameters DEF Elements, Facts
<1> QED
  BY <1>1, <1>2, <1>3

LEMMA AccountInvInit == AccountInit => AccountInv
<1> SUFFICES ASSUME AccountInit PROVE AccountInv
  OBVIOUS
<1> USE DEF AccountInit
<1>1. 0 \in 0..MaxAccountRuns /\ runId = 0
  BY CollectionParameters
<1>2. CollectionTypeOK
  BY <1>1 DEF CollectionTypeOK, Statuses
<1>3. Counts /\ SeenIsWritten
  BY <1>1 DEF Counts, SeenIsWritten
<1>4. \A s \in Stages : serviceOutcome[s] = "none" /\ covered[s] = [status |-> "none", run |-> 0]
  BY AccountNames
<1>5. ReadIsSeen
  BY <1>4 DEF ReadIsSeen, PastStages, Summed
<1>6. CoverageIsOfItsRun /\ CoverageFollowsVertices
  BY <1>1, <1>4 DEF CoverageIsOfItsRun, CoverageFollowsVertices
<1> QED
  BY <1>2, <1>3, <1>5, <1>6 DEF AccountInv

(* Every operation keeps the types.                                           *)
LEMMA AccountTypesKept ==
  ASSUME AccountInv, [AccountNext]_collectionVars
  PROVE  CollectionTypeOK' /\ Counts'
<1> USE DEF AccountInv, historyVars, accountGraphVars, Answers, Fails
<1>0. /\ accountFaults \in Nat /\ runId \in 0..MaxAccountRuns /\ MaxAccountRuns \in Nat
      /\ 0 \in 0..MaxAccountRuns
  BY CollectionParameters DEF Counts
<1>F. Fails => accountFaults' \in Nat
  BY <1>0
<1>1. ASSUME NEW f \in Facts, Toggle(f) PROVE CollectionTypeOK' /\ Counts'
  BY <1>1 DEF Toggle, CollectionTypeOK, Counts
<1>2. CASE BeginRun
  <2>1. runId' \in 0..MaxAccountRuns
    BY <1>0, <1>2 DEF BeginRun
  <2> QED
    BY <1>2, <2>1 DEF BeginRun, CollectionTypeOK, Counts, Statuses
<1>3. CASE NoCredentials
  <2>1. runId' \in 0..MaxAccountRuns /\ runId' = runId + 1 /\ accountFaults' \in Nat
    BY <1>0, <1>3 DEF NoCredentials
  <2>2. covered' \in [Services -> [status : Statuses, run : 0 .. MaxAccountRuns]]
    BY <1>3, <2>1 DEF NoCredentials, CollectionTypeOK, Statuses
  <2> QED
    BY <1>3, <2>1, <2>2 DEF NoCredentials, CollectionTypeOK, Counts
<1>4. ASSUME NEW i \in DOMAIN StageOrder, ReadStage(i) PROVE CollectionTypeOK' /\ Counts'
  <2>1. serviceOutcome' \in [Services -> Statuses] /\ seen' \subseteq Facts
    BY <1>4 DEF ReadStage, CollectionTypeOK, Statuses
  <2>3. accountFaults' \in Nat
    BY <1>0, <1>F, <1>4 DEF ReadStage
  <2>2. accountPhase' \in {"securityhub", "stages"}
    BY <1>4 DEF ReadStage
  <2> QED
    BY <1>4, <2>1, <2>2, <2>3 DEF ReadStage, CollectionTypeOK, Counts
<1>5. ASSUME NEW source \in {"securityhub", "inspector"}, NEW list \in SUBSET Facts,
             NEW after \in {"inspector", "tags"}, ReadFindings(source, list, after)
      PROVE  CollectionTypeOK' /\ Counts'
  <2>1. serviceOutcome' \in [Services -> Statuses]
    BY <1>5 DEF ReadFindings, CollectionTypeOK, Statuses
  <2>3. accountFaults' \in Nat
    BY <1>0, <1>F, <1>5 DEF ReadFindings
  <2>4. seen' \subseteq Facts
    <3>1. \A page \in SUBSET list : Attached(source, page) \subseteq Facts
      BY DEF Attached
    <3> QED
      BY <1>5, <3>1 DEF ReadFindings, CollectionTypeOK
  <2>2. truncated' \subseteq {"securityhub", "inspector"}
    <3>1. truncated' \subseteq truncated \cup {source}
      BY <1>5 DEF ReadFindings
    <3> QED
      BY <3>1 DEF ReadFindings, CollectionTypeOK
  <2> QED
    BY <1>5, <2>1, <2>2, <2>3, <2>4 DEF ReadFindings, CollectionTypeOK, Counts
<1>6. CASE SkipInspector
  BY <1>6 DEF SkipInspector, CollectionTypeOK, Counts, Statuses
<1>7. CASE ReadTags
  <2>1. seen' \subseteq Facts
    BY <1>7 DEF ReadTags, CollectionTypeOK
  <2>3. accountFaults' \in Nat
    BY <1>0, <1>F, <1>7 DEF ReadTags
  <2>2. serviceOutcome' \in [Services -> Statuses]
    BY <1>7 DEF ReadTags, SummedUp, CollectionTypeOK, Statuses
  <2> QED
    BY <1>7, <2>1, <2>2, <2>3 DEF ReadTags, CollectionTypeOK, Counts
<1>8. CASE WriteVertices
  <2>1. accountVertices' \in [Elements -> 0 .. MaxAccountRuns]
    BY <1>0, <1>8 DEF WriteVertices, Stamp, CollectionTypeOK
  <2>2. exposed' \in {"unset", "true", "false"} /\ classified' \in {"unset", "", "restricted"}
    BY <1>8 DEF WriteVertices, Exposure, ClassAfter, CollectionTypeOK
  <2>3. tagged' \in BOOLEAN
    BY <1>8 DEF WriteVertices, TagAfter, CollectionTypeOK
  <2> QED
    BY <1>8, <2>1, <2>2, <2>3 DEF WriteVertices, CollectionTypeOK, Counts
<1>9. CASE WriteCoverage
  <2>1. covered' \in [Services -> [status : Statuses, run : 0 .. MaxAccountRuns]]
    BY <1>0, <1>9 DEF WriteCoverage, Covered, CollectionTypeOK
  <2> QED
    BY <1>9, <2>1 DEF WriteCoverage, CollectionTypeOK, Counts
<1>10. CASE WriteEdges
  <2>1. accountEdges' \in [Elements -> 0 .. MaxAccountRuns]
    BY <1>0, <1>10 DEF WriteEdges, Stamp, CollectionTypeOK
  <2>2. accountPhase' \in {"reconcile", "idle"}
    BY <1>10 DEF WriteEdges
  <2> QED
    BY <1>10, <2>1, <2>2 DEF WriteEdges, CollectionTypeOK, Counts
<1>11. CASE ReconcileAccount
  <2>1. accountVertices' \in [Elements -> 0 .. MaxAccountRuns] /\ accountEdges' \in [Elements -> 0 .. MaxAccountRuns]
    BY <1>0, <1>11 DEF ReconcileAccount, Kept, CollectionTypeOK
  <2>2. covered' \in [Services -> [status : Statuses, run : 0 .. MaxAccountRuns]]
    BY <1>0, <1>11 DEF ReconcileAccount, CollectionTypeOK, Statuses
  <2>3. exposed' \in {"unset", "true", "false"} /\ classified' \in {"unset", "", "restricted"}
        /\ tagged' \in BOOLEAN
    BY <1>11 DEF ReconcileAccount, CollectionTypeOK
  <2> QED
    BY <1>11, <2>1, <2>2, <2>3 DEF ReconcileAccount, CollectionTypeOK, Counts
<1>12. CASE WriteThrows
  <2>1. accountFaults' \in Nat
    BY <1>F, <1>12 DEF WriteThrows
  <2> QED
    BY <1>12, <2>1 DEF WriteThrows, CollectionTypeOK, Counts
<1>13. CASE UNCHANGED collectionVars
  BY <1>13 DEF collectionVars, CollectionTypeOK, Counts
<1>14. aws \cap Findings \in SUBSET Facts /\ aws \cap Vulnerabilities \in SUBSET Facts
  BY DEF Facts, Elements
<1> QED
  BY <1>1, <1>2, <1>3, <1>4, <1>5, <1>6, <1>7, <1>8, <1>9, <1>10, <1>11, <1>12, <1>13, <1>14
     DEF AccountNext, Done

LEMMA AccountInvNext == AccountInv /\ [AccountNext]_collectionVars => AccountInv'
<1> SUFFICES ASSUME AccountInv, [AccountNext]_collectionVars PROVE AccountInv'
  OBVIOUS
<1> USE DEF AccountInv, historyVars, accountGraphVars, Answers, Fails
<1>0. CollectionTypeOK' /\ Counts' /\ runId \in Nat /\ runId <= MaxAccountRuns /\ runId' \in Nat
  BY AccountTypesKept, CollectionParameters DEF Counts
<1>R. \A s \in Stages : covered[s].run \in Nat /\ covered'[s].run \in Nat
  <2>1. \A s \in Services : covered[s].run \in 0..MaxAccountRuns /\ covered'[s].run \in 0..MaxAccountRuns
    BY <1>0 DEF CollectionTypeOK
  <2> QED
    BY <2>1, AccountNames, CollectionParameters
<1> DEFINE Parts == /\ ReadIsSeen' /\ SeenIsWritten' /\ CoverageIsOfItsRun'
                    /\ CoverageFollowsVertices'
<1>1. ASSUME NEW f \in Facts, Toggle(f) PROVE Parts
  <2> USE <1>1 DEF Toggle
  <2>1. steadyFacts' \subseteq steadyFacts
    OBVIOUS
  <2>2. ReadIsSeen'
    BY <2>1 DEF ReadIsSeen, PastStages, Summed, ReadBy
  <2>3. SeenIsWritten'
    BY DEF SeenIsWritten, Failed
  <2>4. CoverageIsOfItsRun'
    BY DEF CoverageIsOfItsRun
  <2>5. CoverageFollowsVertices'
    BY <2>1 DEF CoverageFollowsVertices, ReadBy
  <2> QED
    BY <2>2, <2>3, <2>4, <2>5
<1>2. ASSUME BeginRun PROVE Parts
  <2> USE <1>2 DEF BeginRun
  <2>1. \A s \in Stages : serviceOutcome'[s] = "none" /\ covered'[s].run < runId'
    <3>1. \A s \in Stages : covered'[s] = covered[s]
      BY AccountNames DEF CollectionTypeOK
    <3>2. \A s \in Stages : covered[s].run \in Nat /\ covered[s].run <= runId
      BY <1>R DEF CoverageIsOfItsRun
    <3>3. runId' = runId + 1
      OBVIOUS
    <3>4. \A s \in Stages : covered'[s].run < runId'
      BY <1>0, <3>1, <3>2, <3>3
    <3>5. \A s \in Stages : s \in Services
      BY AccountNames
    <3> QED
      BY <3>1, <3>4, <3>5
  <2>2. ReadIsSeen'
    BY <2>1 DEF ReadIsSeen, PastStages, Summed
  <2>3. SeenIsWritten'
    BY DEF SeenIsWritten
  <2>5. \A s \in Stages : covered'[s].run # runId' /\ covered'[s].run <= runId'
    BY <1>0, <1>R, <2>1
  <2>4. CoverageIsOfItsRun' /\ CoverageFollowsVertices'
    BY <2>1, <2>5 DEF CoverageIsOfItsRun, CoverageFollowsVertices
  <2> QED
    BY <2>2, <2>3, <2>4
<1>3. ASSUME NoCredentials PROVE Parts
  <2> USE <1>3 DEF NoCredentials
  <2>1. \A s \in Stages : covered'[s] = covered[s] /\ covered'[s].run < runId'
    <3>1. \A s \in Stages : covered'[s] = covered[s]
      BY AccountNames DEF CollectionTypeOK
    <3>2. \A s \in Stages : covered[s].run \in Nat /\ covered[s].run <= runId
      BY <1>R DEF CoverageIsOfItsRun
    <3>3. runId' = runId + 1
      OBVIOUS
    <3>4. \A s \in Stages : covered'[s].run < runId'
      BY <1>0, <3>1, <3>2, <3>3
    <3>5. \A s \in Stages : s \in Services
      BY AccountNames
    <3> QED
      BY <3>1, <3>4, <3>5
  <2>2. ReadIsSeen'
    BY DEF ReadIsSeen, PastStages, Summed, ReadBy
  <2>3. SeenIsWritten'
    BY DEF SeenIsWritten
  <2>5. \A s \in Stages : covered'[s].run # runId' /\ covered'[s].run <= runId'
    BY <1>0, <1>R, <2>1
  <2>4. CoverageIsOfItsRun' /\ CoverageFollowsVertices'
    BY <2>1, <2>5 DEF CoverageIsOfItsRun, CoverageFollowsVertices
  <2> QED
    BY <2>2, <2>3, <2>4
<1>4. ASSUME NEW i \in DOMAIN StageOrder, ReadStage(i) PROVE Parts
  <2> USE <1>4 DEF ReadStage
  <2> DEFINE s == StageOrder[i]
  <2>1. /\ s \in Stages /\ accountPhase = "stages" /\ accountPhase' \in {"securityhub", "stages"}
        /\ steadyFacts' = steadyFacts /\ steadyFacts \subseteq aws /\ seen \subseteq seen'
    BY DEF Stages, CollectionTypeOK
  <2>2. \/ /\ serviceOutcome' = [serviceOutcome EXCEPT ![s] = "SUCCEEDED"]
           /\ aws \cap ReadBy(s) \subseteq seen'
           /\ \/ "instance" \in ReadBy(s) /\ ("address" \in aws => "address" \in seen')
              \/ "instance" \notin ReadBy(s) /\ seen' = seen \cup (aws \cap ReadBy(s))
        \/ /\ serviceOutcome' = [serviceOutcome EXCEPT ![s] = "FAILED"] /\ seen' = seen
    OBVIOUS
  <2>3. \A t \in Stages : serviceOutcome'[t] = IF t = s THEN serviceOutcome'[s] ELSE serviceOutcome[t]
    BY <2>1, <2>2, AccountNames DEF CollectionTypeOK
  <2>4. serviceOutcome'[s] \in {"SUCCEEDED", "FAILED"} /\ (serviceOutcome'[s] = "SUCCEEDED" =>
          aws \cap ReadBy(s) \subseteq seen')
    BY <2>1, <2>2, AccountNames DEF CollectionTypeOK
  <2>5. /\ \A t \in Stages : serviceOutcome'[t] \in {"none", "SUCCEEDED", "FAILED"}
        /\ \A t \in Stages : serviceOutcome'[t] = "SUCCEEDED" => ReadBy(t) \cap steadyFacts \subseteq seen'
    BY <2>1, <2>3, <2>4 DEF ReadIsSeen
  <2>6. "instance" \in seen' /\ "address" \in steadyFacts => "address" \in seen'
    BY <2>1, <2>2 DEF ReadIsSeen
  <2>7. accountPhase' = "securityhub" => \A t \in Stages : serviceOutcome'[t] # "none"
    OBVIOUS
  <2>8. ReadIsSeen'
    BY <2>1, <2>5, <2>6, <2>7 DEF ReadIsSeen, PastStages, Summed, ReadBy
  <2>9. SeenIsWritten'
    BY <2>1 DEF SeenIsWritten
  <2>10. CoverageIsOfItsRun' /\ CoverageFollowsVertices'
    BY <2>1 DEF CoverageIsOfItsRun, CoverageFollowsVertices, ReadBy
  <2> QED
    BY <2>8, <2>9, <2>10
<1>5. ASSUME NEW source \in {"securityhub", "inspector"}, NEW list,
             NEW after \in {"inspector", "tags"}, ReadFindings(source, list, after),
             \/ source = "securityhub" /\ list = aws \cap Findings /\ after = "inspector"
             \/ source = "inspector" /\ list = aws \cap Vulnerabilities /\ after = "tags"
      PROVE  Parts
  <2> USE <1>5 DEF ReadFindings
  <2>1. /\ accountPhase = source /\ accountPhase' = after /\ seen \subseteq seen'
        /\ truncated \subseteq truncated'
        /\ steadyFacts' = steadyFacts /\ steadyFacts \subseteq aws
    BY DEF CollectionTypeOK
  <2>2. /\ \A s \in Stages : serviceOutcome'[s] = serviceOutcome[s]
        /\ source = "inspector" => serviceOutcome'["securityhub"] = serviceOutcome["securityhub"]
        /\ serviceOutcome'[source] \in {"SUCCEEDED", "FAILED"}
    BY AccountNames DEF CollectionTypeOK
  <2>3. \/ serviceOutcome'[source] = "FAILED" /\ seen' = seen
        \/ \E page \in SUBSET list : /\ seen' = seen \cup Attached(source, page)
                                     /\ page = list \/ source \in truncated'
    BY AccountNames DEF CollectionTypeOK
  <2>4. /\ \A s \in Stages : serviceOutcome'[s] = "SUCCEEDED" => ReadBy(s) \cap steadyFacts \subseteq seen'
        /\ \A s \in Stages : serviceOutcome'[s] \in {"SUCCEEDED", "FAILED"}
    BY <2>1, <2>2 DEF ReadIsSeen, PastStages
  <2>5. "instance" \in seen' => "instance" \in seen
    BY <2>1, <2>3, AccountNames DEF Attached
  <2>6. source = "securityhub" /\ serviceOutcome'["securityhub"] # "FAILED"
           => Findings \cap steadyFacts \subseteq seen' \/ "securityhub" \in truncated'
    BY <2>1, <2>3 DEF Attached
  <2>7. source = "inspector" /\ serviceOutcome'["securityhub"] # "FAILED"
           => Findings \cap steadyFacts \subseteq seen' \/ "securityhub" \in truncated'
    BY <2>1, <2>2 DEF ReadIsSeen
  <2>8. ASSUME source = "inspector", serviceOutcome'["inspector"] # "FAILED",
               \A s \in Stages : serviceOutcome'[s] = "SUCCEEDED", "instance" \in steadyFacts
        PROVE  Vulnerabilities \cap steadyFacts \subseteq seen' \/ "inspector" \in truncated'
    <3>1. "instance" \in seen
      BY <2>2, <2>8, AccountNames, CollectionParameters DEF ReadIsSeen
    <3> QED
      BY <2>1, <2>3, <2>8, <3>1 DEF Attached
  <2>9. ReadIsSeen'
    BY <2>1, <2>4, <2>5, <2>6, <2>7, <2>8 DEF ReadIsSeen, PastStages, Summed, ReadBy
  <2>10. SeenIsWritten'
    BY <2>1 DEF SeenIsWritten
  <2>11. CoverageIsOfItsRun' /\ CoverageFollowsVertices'
    BY <2>1 DEF CoverageIsOfItsRun, CoverageFollowsVertices, ReadBy
  <2> QED
    BY <2>9, <2>10, <2>11
<1>6. ASSUME SkipInspector PROVE Parts
  <2> USE <1>6 DEF SkipInspector
  <2>1. /\ \A s \in Stages : serviceOutcome'[s] = serviceOutcome[s]
        /\ serviceOutcome'["securityhub"] = serviceOutcome["securityhub"]
    BY AccountNames DEF CollectionTypeOK
  <2>2. Vulnerabilities \cap steadyFacts = {}
    BY DEF CollectionTypeOK
  <2>3. ReadIsSeen'
    BY <2>1, <2>2 DEF ReadIsSeen, PastStages, Summed, ReadBy
  <2> QED
    BY <2>3 DEF SeenIsWritten, CoverageIsOfItsRun, CoverageFollowsVertices, ReadBy
<1>7. ASSUME ReadTags PROVE Parts
  <2> USE <1>7 DEF ReadTags
  <2>1. /\ \A s \in Services \ {"tags", "resource-inventory"} : serviceOutcome'[s] = serviceOutcome[s]
        /\ serviceOutcome'["tags"] = "SUCCEEDED" => aws \cap TagsOf(seen) \subseteq seen'
        /\ seen \subseteq seen' /\ seen' \ seen \subseteq {"tag", "class"}
    BY AccountNames DEF CollectionTypeOK, SummedUp, TagsOf
  <2>2. "instance" \in seen' => "instance" \in seen
    BY <2>1
  <2>3. serviceOutcome'["tags"] = "SUCCEEDED" /\ "instance" \in seen' /\ "tag" \in steadyFacts
          => "tag" \in seen'
    BY <2>1, <2>2 DEF TagsOf, CollectionTypeOK
  <2>4. /\ \A s \in Stages : serviceOutcome'[s] = serviceOutcome[s]
        /\ serviceOutcome'["securityhub"] = serviceOutcome["securityhub"]
        /\ serviceOutcome'["inspector"] = serviceOutcome["inspector"]
    BY <2>1, AccountNames
  <2>5. ReadIsSeen'
    BY <2>1, <2>2, <2>3, <2>4 DEF ReadIsSeen, PastStages, Summed, ReadBy
  <2> QED
    BY <2>5 DEF SeenIsWritten, CoverageIsOfItsRun, CoverageFollowsVertices, ReadBy
<1>8. ASSUME WriteVertices PROVE Parts
  <2> USE <1>8 DEF WriteVertices
  <2>1. \A e \in Elements \cap seen : accountVertices'[e] = runId
    BY DEF Stamp
  <2>2. ReadIsSeen'
    BY DEF ReadIsSeen, PastStages, Summed, ReadBy
  <2>3. CoverageIsOfItsRun' /\ SeenIsWritten'
    BY <2>1 DEF CoverageIsOfItsRun, SeenIsWritten
  <2>4. CoverageFollowsVertices'
    BY <1>0 DEF CoverageIsOfItsRun, CoverageFollowsVertices
  <2> QED
    BY <2>2, <2>3, <2>4
<1>9. ASSUME WriteCoverage PROVE Parts
  <2> USE <1>9 DEF WriteCoverage
  <2>1. \A s \in Stages : \/ covered'[s] = covered[s]
                          \/ covered'[s] = [status |-> serviceOutcome[s], run |-> runId]
    BY AccountNames DEF Covered
  <2>2. ReadIsSeen' /\ SeenIsWritten'
    BY DEF ReadIsSeen, PastStages, Summed, ReadBy, SeenIsWritten
  <2>3. CoverageIsOfItsRun'
    <3>1. ASSUME NEW s \in Stages PROVE covered'[s].run <= runId
      <4>1. covered[s].run <= runId /\ runId <= runId
        BY <1>0 DEF CoverageIsOfItsRun
      <4>2. CASE covered'[s] = covered[s]
        BY ONLY <4>1, <4>2
      <4>3. CASE covered'[s] = [status |-> serviceOutcome[s], run |-> runId]
        BY ONLY <4>1, <4>3
      <4> QED
        BY <2>1, <4>2, <4>3, Zenon
    <3> QED
      BY <3>1 DEF CoverageIsOfItsRun
  <2>4. ASSUME NEW s \in Stages, covered'[s].status = "SUCCEEDED", covered'[s].run = runId,
               NEW e \in ReadBy(s) \cap steadyFacts
        PROVE  accountVertices[e] = runId
    <3>1. CASE covered'[s] = covered[s]
      BY <2>4, <3>1 DEF CoverageFollowsVertices
    <3>2. CASE covered'[s] = [status |-> serviceOutcome[s], run |-> runId]
      BY <2>4, <3>2, AccountNames DEF ReadIsSeen, SeenIsWritten
    <3> QED
      BY <2>1, <3>1, <3>2
  <2> QED
    BY <2>2, <2>3, <2>4 DEF CoverageFollowsVertices, ReadBy
<1>10. ASSUME WriteEdges PROVE Parts
  <2> USE <1>10 DEF WriteEdges
  <2>1. \A e \in Elements \cap seen : accountEdges'[e] = runId
    BY DEF Stamp
  <2>2. ReadIsSeen'
    BY DEF ReadIsSeen, PastStages, Summed, ReadBy
  <2>3. CoverageIsOfItsRun' /\ SeenIsWritten'
    BY <2>1 DEF CoverageIsOfItsRun, SeenIsWritten, Failed
  <2> QED
    BY <2>2, <2>3 DEF CoverageFollowsVertices, ReadBy
<1>11. ASSUME ReconcileAccount PROVE Parts
  <2> USE <1>11 DEF ReconcileAccount
  <2>1. \A s \in Stages : covered'[s] = covered[s] \/ covered'[s] = [status |-> "none", run |-> 0]
    BY AccountNames
  <2>2. \A e \in Elements : accountVertices[e] = runId => accountVertices'[e] = runId
    BY DEF Kept
  <2>3. ReadIsSeen'
    BY DEF ReadIsSeen, PastStages, Summed, ReadBy
  <2>4. CoverageIsOfItsRun' /\ SeenIsWritten'
    BY <1>0, <1>R, <2>1 DEF CoverageIsOfItsRun, SeenIsWritten
  <2>5. CoverageFollowsVertices'
    BY <2>1, <2>2, AccountNames DEF CoverageFollowsVertices, ReadBy
  <2> QED
    BY <2>3, <2>4, <2>5
<1>12. ASSUME WriteThrows PROVE Parts
  BY <1>12 DEF WriteThrows, ReadIsSeen, PastStages, Summed, ReadBy, SeenIsWritten,
     CoverageIsOfItsRun, CoverageFollowsVertices
<1>13. ASSUME UNCHANGED collectionVars PROVE Parts
  BY <1>13 DEF collectionVars, ReadIsSeen, PastStages, Summed, ReadBy, SeenIsWritten, Failed,
     CoverageIsOfItsRun, CoverageFollowsVertices
<1>14. Parts
  BY <1>1, <1>2, <1>3, <1>4, <1>5, <1>6, <1>7, <1>8, <1>9, <1>10, <1>11, <1>12, <1>13
     DEF AccountNext, Done
<1> QED
  BY <1>0, <1>14

(* Past its stages without a failure, a run has seen every steady resource.   *)
LEMMA SteadyIsSeen ==
  ASSUME AccountInv, accountPhase = "reconcile"
  PROVE  /\ "instance" \in steadyFacts => "instance" \in seen
         /\ \A e \in SteadyElements \ CutOff : e \in seen
<1> USE DEF AccountInv
<1>1. \A s \in Services : serviceOutcome[s] # "FAILED"
  BY DEF SeenIsWritten, Failed
<1>2. \A s \in Stages : serviceOutcome[s] = "SUCCEEDED"
  BY <1>1, AccountNames DEF ReadIsSeen, PastStages
<1>3. ResourceFacts \cap steadyFacts \subseteq seen
  BY <1>2, AccountNames DEF ReadIsSeen
<1>4. "instance" \in steadyFacts => "instance" \in seen
  BY <1>3, CollectionParameters
<1>5. ASSUME NEW e \in SteadyElements \ CutOff PROVE e \in seen
  <2>1. e \in Elements \cap steadyFacts /\ (e \in Vulnerabilities => "instance" \in steadyFacts)
    BY DEF SteadyElements
  <2>2. CASE e \in Findings
    BY <1>1, <1>5, <2>1, <2>2, AccountNames DEF ReadIsSeen, CutOff
  <2>3. CASE e \in Vulnerabilities
    BY <1>1, <1>2, <1>5, <2>1, <2>3, AccountNames DEF ReadIsSeen, CutOff
  <2> QED
    BY <1>3, <2>1, <2>2, <2>3 DEF Elements
<1> QED
  BY <1>4, <1>5

LEMMA SteadyStays ==
  AccountInv /\ [AccountNext]_collectionVars =>
    [accountPhase = "reconcile" /\ accountPhase' = "idle" /\ accountFaults' = accountFaults =>
       \A e \in SteadyElements \ CutOff :
          accountVertices'[e] = runId /\ accountEdges'[e] = runId]_collectionVars
<1> SUFFICES ASSUME AccountInv, AccountNext, accountPhase = "reconcile", accountPhase' = "idle",
                    accountFaults' = accountFaults, NEW e \in SteadyElements \ CutOff
             PROVE  accountVertices'[e] = runId /\ accountEdges'[e] = runId
  BY DEF collectionVars
<1>1. ReconcileAccount
  BY DEF AccountNext, Toggle, BeginRun, NoCredentials, ReadStage, ReadFindings, SkipInspector,
         ReadTags, WriteVertices, WriteCoverage, WriteEdges, WriteThrows, Done, Fails, AccountInv,
         Counts
<1>2. e \in seen /\ e \in Elements
  BY SteadyIsSeen DEF SteadyElements
<1>3. accountVertices[e] = runId /\ accountEdges[e] = runId
  BY <1>2 DEF AccountInv, SeenIsWritten
<1> QED
  BY <1>1, <1>2, <1>3 DEF ReconcileAccount, Kept

LEMMA NoFactBlanked ==
  AccountInv /\ [AccountNext]_collectionVars =>
    [ /\ exposed = "true" /\ exposed' = "false" => "address" \notin steadyFacts
      /\ tagged /\ ~tagged' =>
           "tag" \notin steadyFacts \/ "instance" \notin steadyFacts]_collectionVars
<1> SUFFICES ASSUME AccountInv, AccountNext
             PROVE  /\ exposed = "true" /\ exposed' = "false" => "address" \notin steadyFacts
                    /\ tagged /\ ~tagged' =>
                         "tag" \notin steadyFacts \/ "instance" \notin steadyFacts
  BY DEF collectionVars
<1> USE DEF AccountInv
<1>1. CASE WriteVertices
  <2>1. exposed = "true" /\ exposed' = "false" => "address" \notin steadyFacts
    BY <1>1 DEF WriteVertices, Exposure, Derived, ReadIsSeen
  <2>2. tagged /\ ~tagged' => "tag" \notin steadyFacts
    BY <1>1 DEF WriteVertices, TagAfter, ReadIsSeen, Summed
  <2> QED
    BY <2>1, <2>2
<1>2. CASE ReconcileAccount
  <2>1. "instance" \in steadyFacts => accountVertices["instance"] = runId
    BY <1>2, SteadyIsSeen, AccountNames DEF ReconcileAccount, SeenIsWritten
  <2> QED
    BY <1>2, <2>1 DEF ReconcileAccount
<1>3. ASSUME ~WriteVertices, ~ReconcileAccount
      PROVE  exposed' = exposed /\ tagged' = tagged
  BY <1>3 DEF AccountNext, Toggle, BeginRun, NoCredentials, ReadStage, ReadFindings,
         SkipInspector, ReadTags, WriteCoverage, WriteEdges, WriteThrows, Done, accountGraphVars,
         collectionVars
<1> QED
  BY <1>1, <1>2, <1>3

(* A run's reconciliation keeps what stood throughout, covered stages have    *)
(* their vertices, and exposure and tags are only lost with their cause.      *)
THEOREM SteadyStaysKnown ==
  AccountSpec => [](CollectionTypeOK /\ CoverageFollowsVertices) /\ SteadyKept /\ NothingBlanked
<1>1. AccountSpec => []AccountInv
  BY AccountInvInit, AccountInvNext, PTL DEF AccountSpec
<1>2. AccountInv => CollectionTypeOK /\ CoverageFollowsVertices
  BY DEF AccountInv
<1> QED
  BY <1>1, <1>2, SteadyStays, NoFactBlanked, PTL DEF AccountSpec, SteadyKept, NothingBlanked

(* What stood in AWS throughout a run of an account stays known as it was,    *)
(* whichever stages fail, are cut off or are denied, and what a stage could   *)
(* not read is not written.                                                   *)
THEOREM StandingIsKept == AccountSpec /\ StagesSpec => CollectionKeepsWhatStands
<1>1. AccountSpec /\ StagesSpec =>
        /\ [](CollectionTypeOK /\ CoverageFollowsVertices) /\ SteadyKept /\ NothingBlanked
        /\ []StagesTypeOK /\ NothingGuessed /\ DenialFailsNobody
  BY SteadyStaysKnown, StagesAreHonest
<1> QED
  BY <1>1, PTL DEF CollectionKeepsWhatStands

-----------------------------------------------------------------------------
(* IamCollection: what the walk has found so far, and what has its document. *)
IamShape ==
  /\ iamTodo \in [Accounts -> SUBSET Principals]
  /\ iamPending \in [Accounts -> SUBSET Policies]
  /\ iamFound \in [Accounts -> SUBSET Attachments]
  /\ began \in [Accounts -> [steady : SUBSET Attachments, absent : SUBSET Attachments]]

(* What stands steady is attached, what is absent is not and was not found.   *)
HistoryFollows ==
  \A a \in Accounts :
    /\ began[a].steady \subseteq attached \cap AttachmentsOf(a)
    /\ began[a].absent \cap attached = {} /\ iamFound[a] \cap began[a].absent = {}

(* The principals of account a that its walk is done with.                    *)
Walked(a, p) ==
  \/ step[a] \in {"local", "managed", "write", "reconcile"}
  \/ \E i \in 1 .. Len(KindOrder) : i < kind[a] /\ KindOrder[i] = p.kind
  \/ step[a] = "visit" /\ p.kind = KindOrder[kind[a]] /\ p \notin iamTodo[a]

SteadyOfWalkedFound ==
  \A a \in Accounts : step[a] # "idle" =>
    \A x \in began[a].steady : Walked(a, x[1]) => x \in iamFound[a]

(* What was found has its document, or is still to get it.                    *)
DocumentsFollow ==
  \A a \in Accounts :
    /\ step[a] \in {"idle", "list", "local", "reconcile"} => iamPending[a] = {}
    /\ step[a] # "idle" => \A x \in iamFound[a] : documents[a][x[2]] # 0 \/ x[2] \in iamPending[a]

(* An account meets its own policies and AWS's, and the edge to the document  *)
(* of an own policy is its own.                                               *)
OwnPoliciesApart ==
  /\ \A a \in Accounts : \A q \in DOMAIN LocalPolicies :
       documents[a][q] # 0 \/ q \in iamPending[a] => LocalPolicies[q] = a
  /\ \A q \in DOMAIN LocalPolicies : contains[q].by \in {LocalPolicies[q], Nobody}
  /\ \A a \in Accounts : step[a] = "reconcile" =>
       \A x \in iamFound[a] : x[2] \in DOMAIN LocalPolicies => Readable(x)

IamInv ==
  /\ IamTypeOK /\ IamShape /\ HistoryFollows /\ SteadyOfWalkedFound
  /\ DocumentsFollow /\ OwnPoliciesApart /\ OwnDocumentsKept

LEMMA AttachmentParts ==
  /\ \A x \in Attachments :
       /\ x = <<x[1], x[2]>> /\ x[1] \in Principals /\ x[2] \in Policies
       /\ x[2] \in DOMAIN LocalPolicies => LocalPolicies[x[2]] = x[1].account
  /\ \A a \in Accounts : \A x \in AttachmentsOf(a) : x \in Attachments /\ x[1].account = a
<1>1. ASSUME NEW x \in Attachments
      PROVE  /\ x = <<x[1], x[2]>> /\ x[1] \in Principals /\ x[2] \in Policies
             /\ x[2] \in DOMAIN LocalPolicies => LocalPolicies[x[2]] = x[1].account
  <2>1. PICK p \in Principals, q \in Policies : x = <<p, q>>
    BY DEF Attachments
  <2>2. x[1] = p /\ x[2] = q /\ q \in Attachable(p)
    BY <2>1 DEF Attachments
  <2>3. q \in DOMAIN LocalPolicies => q \notin ManagedPolicies
    BY IamParameters
  <2> QED
    BY <2>1, <2>2, <2>3 DEF Attachable
<1> QED
  BY <1>1 DEF AttachmentsOf

LEMMA IamInvInit == IamInit => IamInv
<1> SUFFICES ASSUME IamInit PROVE IamInv
  OBVIOUS
<1> USE DEF IamInit
<1>1. 0 \in 0..MaxVersion /\ 1 \in 1..MaxVersion /\ 1 \in 1..Len(KindOrder)
  BY IamParameters
<1>2. NoDocuments \in [Policies -> 0..MaxVersion]
  BY <1>1 DEF NoDocuments
<1>3. attached \subseteq {x \in Attachments : x[1] \in alive}
  BY IamParameters, AttachmentParts
<1>4. IamTypeOK
  BY <1>1, <1>2, <1>3 DEF IamTypeOK, Steps
<1>5. IamShape /\ HistoryFollows /\ SteadyOfWalkedFound /\ DocumentsFollow
  BY DEF IamShape, HistoryFollows, SteadyOfWalkedFound, DocumentsFollow
<1>6. OwnPoliciesApart /\ OwnDocumentsKept
  <2>1. \A q \in DOMAIN LocalPolicies : q \in Policies
    BY DEF Policies
  <2> QED
    BY <2>1 DEF OwnPoliciesApart, OwnDocumentsKept, NoDocuments
<1> QED
  BY <1>4, <1>5, <1>6 DEF IamInv

(* IAM changes: what is attached, alive or published is what it was or what   *)
(* the change made it, and the walks only forget what no longer stands.       *)
LEMMA IamChanges ==
  ASSUME IamInv, UNCHANGED <<step, kind, iamTodo, iamPending, iamFound, documents, policyVars>>,
         alive' \subseteq Principals, version' \in [Policies -> 1 .. MaxVersion],
         attached' \subseteq {x \in Attachments : x[1] \in alive'},
         Observe(attached') \/ UNCHANGED <<began, attached>>
  PROVE  IamInv'
<1> USE DEF IamInv, policyVars
<1>1. IamTypeOK'
  BY DEF IamTypeOK
<1>2. \A a \in Accounts : /\ began'[a].steady \subseteq began[a].steady \cap attached'
                          /\ began'[a].absent \subseteq began[a].absent
                          /\ began'[a].absent \cap attached' = {}
  BY DEF Observe, HistoryFollows
<1>3. began' \in [Accounts -> [steady : SUBSET Attachments, absent : SUBSET Attachments]]
  <2>1. CASE UNCHANGED <<began, attached>>
    BY <2>1 DEF IamShape
  <2>2. CASE Observe(attached')
    BY <2>2 DEF Observe, IamShape
  <2> QED
    BY <2>1, <2>2
<1>4. IamShape' /\ HistoryFollows'
  BY <1>2, <1>3 DEF IamShape, HistoryFollows
<1>5. SteadyOfWalkedFound'
  BY <1>2 DEF SteadyOfWalkedFound, Walked
<1>6. DocumentsFollow' /\ OwnPoliciesApart' /\ OwnDocumentsKept'
  BY DEF DocumentsFollow, OwnPoliciesApart, OwnDocumentsKept, Readable
<1> QED
  BY <1>1, <1>4, <1>5, <1>6

LEMMA IamInvIam == IamInv /\ Iam => IamInv'
<1> SUFFICES ASSUME IamInv, Iam PROVE IamInv'
  OBVIOUS
<1>1. IamTypeOK /\ attached \subseteq {x \in Attachments : x[1] \in alive}
  BY DEF IamInv, IamTypeOK
<1>2. ASSUME NEW x \in Attachments, Attach(x) PROVE IamInv'
  <2>1. attached' \subseteq {y \in Attachments : y[1] \in alive'}
    BY <1>1, <1>2 DEF Attach
  <2>2. alive' \subseteq Principals /\ version' \in [Policies -> 1 .. MaxVersion]
    BY <1>1, <1>2 DEF Attach, IamTypeOK
  <2> QED
    BY <1>2, <2>1, <2>2, IamChanges DEF Attach, WalkGoesOn
<1>3. ASSUME NEW p \in Principals, Delete(p) PROVE IamInv'
  <2>1. attached' \subseteq {y \in Attachments : y[1] \in alive'}
    BY <1>1, <1>3 DEF Delete
  <2>2. alive' \subseteq Principals /\ version' \in [Policies -> 1 .. MaxVersion]
    BY <1>1, <1>3 DEF Delete, IamTypeOK
  <2> QED
    BY <1>3, <2>1, <2>2, IamChanges DEF Delete, WalkGoesOn
<1>4. ASSUME NEW q \in Policies, Publish(q) PROVE IamInv'
  <2>1. version[q] + 1 \in 1 .. MaxVersion
    BY <1>1, <1>4, IamParameters DEF Publish, IamTypeOK
  <2>2. alive' \subseteq Principals /\ version' \in [Policies -> 1 .. MaxVersion]
    BY <1>1, <1>4, <2>1 DEF Publish, IamTypeOK
  <2> QED
    BY <1>1, <1>4, <2>2, IamChanges DEF Publish, WalkGoesOn
<1> QED
  BY <1>2, <1>3, <1>4 DEF Iam

LEMMA IamInvWalk == ASSUME IamInv, NEW a \in Accounts, Walk(a) PROVE IamInv'
<1> USE DEF IamInv, iamVars, policyVars
<1>0. \A p \in Of(a) : p \in Principals /\ p.account = a
  BY DEF Of
<1>00. Len(KindOrder) \in Nat /\ Len(KindOrder) > 0 /\ \A b \in Accounts : kind[b] \in 1..Len(KindOrder)
  BY IamParameters DEF IamTypeOK
<1> DEFINE Types == IamTypeOK' /\ IamShape'
           Rest == HistoryFollows' /\ SteadyOfWalkedFound' /\ DocumentsFollow'
                   /\ OwnPoliciesApart' /\ OwnDocumentsKept'
<1>1. ASSUME BeginIam(a) PROVE Types /\ Rest
  <2> USE <1>1 DEF BeginIam
  <2>1. Types
    <3>1. 1 \in 1..Len(KindOrder) /\ NoDocuments \in [Policies -> 0..MaxVersion]
      BY <1>00, IamParameters DEF NoDocuments
    <3>2. kind' \in [Accounts -> 1..Len(KindOrder)] /\ step' \in [Accounts -> Steps]
          /\ documents' \in [Accounts -> [Policies -> 0..MaxVersion]]
      BY <3>1 DEF IamTypeOK, Steps
    <3>3. iamFound' \in [Accounts -> SUBSET Attachments] /\ \A b \in Accounts : iamFound'[b] \subseteq AttachmentsOf(b)
      BY DEF IamTypeOK, IamShape
    <3>4. began' \in [Accounts -> [steady : SUBSET Attachments, absent : SUBSET Attachments]]
      BY AttachmentParts DEF IamShape
    <3> QED
      BY <3>2, <3>3, <3>4 DEF IamTypeOK, IamShape
  <2>2. HistoryFollows'
    BY AttachmentParts DEF HistoryFollows, IamShape
  <2>3. SteadyOfWalkedFound'
    <3>1. ASSUME NEW b \in Accounts, step'[b] # "idle", NEW x \in began'[b].steady, Walked(b, x[1])'
          PROVE  x \in iamFound'[b]
      <4>1. CASE b = a
        <5>1. step'[a] = "list" /\ kind'[a] = 1
          BY DEF IamTypeOK
        <5> QED
          BY <1>00, <3>1, <4>1, <5>1 DEF Walked
      <4>2. CASE b # a
        BY <3>1, <4>2 DEF SteadyOfWalkedFound, Walked, IamTypeOK, IamShape
      <4> QED
        BY <4>1, <4>2
    <3> QED
      BY <3>1 DEF SteadyOfWalkedFound
  <2>4. DocumentsFollow'
    BY DEF DocumentsFollow, IamTypeOK, IamShape
  <2>5. OwnPoliciesApart' /\ OwnDocumentsKept'
    <3>1. \A q \in DOMAIN LocalPolicies : q \in Policies
      BY DEF Policies
    <3> QED
      BY <3>1 DEF OwnPoliciesApart, OwnDocumentsKept, Readable, IamTypeOK, IamShape, NoDocuments,
                  DocumentsFollow
  <2> QED
    BY <2>1, <2>2, <2>3, <2>4, <2>5
<1>2. ASSUME ListKind(a) PROVE Types /\ Rest
  <2> USE <1>2 DEF ListKind
  <2>1. Types
    BY <1>0 DEF IamTypeOK, IamShape, Steps, Of
  <2>2. HistoryFollows'
    BY DEF HistoryFollows
  <2>3. SteadyOfWalkedFound'
    <3>1. ASSUME NEW b \in Accounts, step'[b] # "idle", NEW x \in began[b].steady, Walked(b, x[1])'
          PROVE  x \in iamFound[b]
      <4>1. CASE b = a
        <5>1. x \in attached /\ x[1] \in alive /\ x[1] \in Of(a)
          BY <4>1, AttachmentParts DEF HistoryFollows, IamTypeOK, Of
        <5>2. step'[a] = "visit" /\ iamTodo'[a] = {p \in Of(a) \cap alive : p.kind = KindOrder[kind[a]]}
          BY DEF IamTypeOK, IamShape
        <5>3. Walked(a, x[1])
          BY <3>1, <4>1, <5>1, <5>2 DEF Walked
        <5> QED
          BY <4>1, <5>3 DEF SteadyOfWalkedFound
      <4>2. CASE b # a
        BY <3>1, <4>2 DEF SteadyOfWalkedFound, Walked, IamTypeOK, IamShape
      <4> QED
        BY <4>1, <4>2
    <3> QED
      BY <3>1 DEF SteadyOfWalkedFound
  <2>4. DocumentsFollow'
    BY DEF DocumentsFollow, IamTypeOK, IamShape
  <2>5. OwnPoliciesApart' /\ OwnDocumentsKept'
    BY DEF OwnPoliciesApart, OwnDocumentsKept, Readable, IamTypeOK
  <2> QED
    BY <2>1, <2>2, <2>3, <2>4, <2>5
<1>3. ASSUME NEW p \in Of(a), Visit(a, p) PROVE Types /\ Rest
  <2> USE <1>3 DEF Visit
  <2>0. \A q \in PoliciesOf(p) : <<p, q>> \in attached /\ <<p, q>> \in AttachmentsOf(a) /\ q \in Policies
    BY <1>0, AttachmentParts DEF PoliciesOf, AttachmentsOf, IamTypeOK
  <2>1. Types
    <3>1. /\ iamTodo' \in [Accounts -> SUBSET Principals] /\ \A b \in Accounts : iamTodo'[b] \subseteq Of(b)
      BY DEF IamShape, IamTypeOK
    <3>2. iamPending' \in [Accounts -> SUBSET Policies]
      BY <2>0 DEF IamShape, Uncached
    <3>3. /\ iamFound' \in [Accounts -> SUBSET Attachments]
          /\ \A b \in Accounts : iamFound'[b] \subseteq AttachmentsOf(b)
      BY <2>0 DEF IamShape, IamTypeOK, AttachmentsOf
    <3> QED
      BY <3>1, <3>2, <3>3 DEF IamTypeOK, IamShape
  <2>2. HistoryFollows'
    BY <2>0 DEF HistoryFollows, IamShape
  <2>3. SteadyOfWalkedFound'
    <3>1. ASSUME NEW b \in Accounts, step[b] # "idle", NEW x \in began[b].steady, Walked(b, x[1])'
          PROVE  x \in iamFound'[b]
      <4>1. CASE b = a
        <5>1. x \in attached /\ x = <<x[1], x[2]>> /\ x[2] \in Policies
          BY <4>1, AttachmentParts DEF HistoryFollows, IamTypeOK
        <5>2. CASE x[1] = p
          <6>1. x[2] \in PoliciesOf(p) /\ x = <<p, x[2]>>
            BY <5>1, <5>2 DEF PoliciesOf
          <6> QED
            BY <4>1, <6>1 DEF IamShape
        <5>3. CASE x[1] # p
          <6>1. Walked(a, x[1])
            BY <3>1, <4>1, <5>3 DEF Walked, IamShape
          <6> QED
            BY <3>1, <4>1, <6>1 DEF SteadyOfWalkedFound, IamShape
        <5> QED
          BY <5>2, <5>3
      <4>2. CASE b # a
        BY <3>1, <4>2 DEF SteadyOfWalkedFound, Walked, IamTypeOK, IamShape
      <4> QED
        BY <4>1, <4>2
    <3> QED
      BY <3>1 DEF SteadyOfWalkedFound
  <2>4. DocumentsFollow'
    <3>1. ASSUME NEW x \in iamFound'[a] PROVE documents[a][x[2]] # 0 \/ x[2] \in iamPending'[a]
      <4>1. CASE x \in iamFound[a]
        BY <4>1 DEF DocumentsFollow
      <4>2. CASE x \notin iamFound[a]
        <5>1. PICK q \in PoliciesOf(p) : x = <<p, q>>
          BY <4>2 DEF IamShape
        <5>2. x[2] = q /\ q \in PoliciesOf(p)
          BY <5>1
        <5> QED
          BY <5>2 DEF Uncached, IamShape
      <4> QED
        BY <4>1, <4>2
    <3>2. ASSUME NEW b \in Accounts, b # a
          PROVE  iamFound'[b] = iamFound[b] /\ iamPending'[b] = iamPending[b]
      BY <3>2 DEF IamShape
    <3> QED
      BY <3>1, <3>2 DEF DocumentsFollow
  <2>5. OwnPoliciesApart' /\ OwnDocumentsKept'
    <3>1. ASSUME NEW b \in Accounts, NEW q \in DOMAIN LocalPolicies, q \in iamPending'[b]
          PROVE  LocalPolicies[q] = b
      <4>1. CASE b # a
        BY <3>1, <4>1 DEF OwnPoliciesApart, IamShape
      <4>2. CASE b = a
        <5>1. q \in PoliciesOf(p) /\ <<p, q>> \in Attachments
          BY <2>0, <3>1, <4>2 DEF IamShape, Uncached, AttachmentsOf
        <5>2. LocalPolicies[q] = p.account
          BY <5>1, AttachmentParts
        <5> QED
          BY <1>0, <4>2, <5>2
      <4> QED
        BY <4>1, <4>2
    <3>2. \A b \in Accounts : step[b] = "reconcile" => iamFound'[b] = iamFound[b]
      BY DEF IamShape
    <3> QED
      BY <3>1, <3>2 DEF OwnPoliciesApart, OwnDocumentsKept, Readable
  <2> QED
    BY <2>1, <2>2, <2>3, <2>4, <2>5
<1>4. ASSUME NEW p \in Of(a), StageFails(a, p) PROVE Types /\ Rest
  <2> USE <1>4 DEF StageFails
  <2>1. Types
    BY DEF IamTypeOK, IamShape, Steps
  <2>2. HistoryFollows'
    BY DEF HistoryFollows
  <2>3. SteadyOfWalkedFound'
    BY DEF SteadyOfWalkedFound, Walked, IamTypeOK, IamShape
  <2>4. DocumentsFollow'
    BY DEF DocumentsFollow, IamTypeOK, IamShape
  <2>5. OwnPoliciesApart' /\ OwnDocumentsKept'
    BY DEF OwnPoliciesApart, OwnDocumentsKept, Readable, IamTypeOK
  <2> QED
    BY <2>1, <2>2, <2>3, <2>4, <2>5
<1>5. ASSUME NEW q \in Policies, FetchDocument(a, q) PROVE Types /\ Rest
  <2> USE <1>5 DEF FetchDocument
  <2>0. version[q] \in 1..MaxVersion /\ version[q] \in 0..MaxVersion /\ version[q] # 0
    BY IamParameters DEF IamTypeOK
  <2>00. \A b \in Accounts, r \in Policies :
           documents'[b][r] = IF b = a /\ r = q THEN version[q] ELSE documents[b][r]
    BY DEF IamTypeOK
  <2>1. Types
    <3>1. documents' \in [Accounts -> [Policies -> 0..MaxVersion]]
      BY <2>0 DEF IamTypeOK
    <3>2. iamPending' \in [Accounts -> SUBSET Policies]
      BY DEF IamShape
    <3> QED
      BY <3>1, <3>2 DEF IamTypeOK, IamShape
  <2>2. HistoryFollows'
    BY DEF HistoryFollows
  <2>3. SteadyOfWalkedFound'
    BY DEF SteadyOfWalkedFound, Walked
  <2>4. DocumentsFollow'
    <3>1. \A b \in Accounts : iamPending'[b] = IF b = a THEN iamPending[a] \ {q} ELSE iamPending[b]
      BY DEF IamShape
    <3>2. \A b \in Accounts : \A x \in iamFound[b] : x[2] \in Policies
      BY AttachmentParts DEF IamShape
    <3> QED
      BY <2>0, <2>00, <3>1, <3>2 DEF DocumentsFollow
  <2>5. OwnPoliciesApart' /\ OwnDocumentsKept'
    <3>1. \A b \in Accounts : iamPending'[b] \subseteq iamPending[b]
      BY DEF IamShape
    <3>2. \A r \in DOMAIN LocalPolicies : r \in Policies
      BY DEF Policies
    <3> QED
      BY <2>00, <3>1, <3>2 DEF OwnPoliciesApart, OwnDocumentsKept, Readable
  <2> QED
    BY <2>1, <2>2, <2>3, <2>4, <2>5
<1>6. ASSUME NextKind(a) PROVE Types /\ Rest
  <2> USE <1>6 DEF NextKind
  <2>0. \/ /\ kind[a] < Len(KindOrder) /\ kind' = [kind EXCEPT ![a] = kind[a] + 1]
           /\ step' = [step EXCEPT ![a] = "list"]
        \/ /\ kind[a] = Len(KindOrder) /\ kind' = kind /\ step' = [step EXCEPT ![a] = "local"]
    BY <1>00
  <2>1. Types
    <3>1. step' \in [Accounts -> Steps]
      BY <2>0 DEF IamTypeOK, Steps
    <3>2. kind[a] < Len(KindOrder) => kind[a] + 1 \in 1..Len(KindOrder)
      BY <1>00
    <3>3. kind' \in [Accounts -> 1..Len(KindOrder)]
      BY <2>0, <3>2 DEF IamTypeOK
    <3> QED
      BY <3>1, <3>3 DEF IamTypeOK, IamShape
  <2>2. HistoryFollows'
    BY DEF HistoryFollows
  <2>3. SteadyOfWalkedFound'
    <3>1. ASSUME NEW b \in Accounts, step'[b] # "idle", NEW x \in began[b].steady, Walked(b, x[1])'
          PROVE  x \in iamFound[b]
      <4>1. CASE b = a
        <5>1. x[1] \in Principals
          BY <4>1, AttachmentParts DEF HistoryFollows
        <5>2. PICK i \in 1..Len(KindOrder) : KindOrder[i] = x[1].kind /\ i <= kind[a]
          <6>1. CASE kind' = kind
            <7>1. PICK i \in 1..Len(KindOrder) : KindOrder[i] = x[1].kind
              BY <5>1, IamParameters
            <7>2. kind[a] = Len(KindOrder)
              BY <1>00, <2>0, <6>1 DEF IamTypeOK
            <7> QED
              BY <1>00, <7>1, <7>2
          <6>2. CASE kind' # kind
            <7>1. kind'[a] = kind[a] + 1 /\ step'[a] = "list"
              BY <2>0, <6>2 DEF IamTypeOK
            <7>2. PICK i \in 1..Len(KindOrder) : i < kind[a] + 1 /\ KindOrder[i] = x[1].kind
              BY <3>1, <4>1, <7>1 DEF Walked
            <7> QED
              BY <1>00, <7>2
          <6> QED
            BY <6>1, <6>2
        <5>3. Walked(a, x[1])
          <6>1. CASE i < kind[a]
            BY <5>2, <6>1 DEF Walked
          <6>2. CASE i = kind[a]
            BY <5>2, <6>2 DEF Walked
          <6> QED
            BY <1>00, <5>2, <6>1, <6>2
        <5> QED
          BY <4>1, <5>3 DEF SteadyOfWalkedFound
      <4>2. CASE b # a
        <5>1. step'[b] = step[b] /\ kind'[b] = kind[b]
          BY <2>0, <4>2 DEF IamTypeOK
        <5> QED
          BY <3>1, <5>1 DEF SteadyOfWalkedFound, Walked
      <4> QED
        BY <4>1, <4>2
    <3> QED
      BY <3>1 DEF SteadyOfWalkedFound
  <2>4. DocumentsFollow'
    BY <2>0 DEF DocumentsFollow, IamTypeOK
  <2>5. OwnPoliciesApart' /\ OwnDocumentsKept'
    BY SMTT(30), <2>0 DEF OwnPoliciesApart, OwnDocumentsKept, Readable, IamTypeOK
  <2> QED
    BY <2>1, <2>2, <2>3, <2>4, <2>5
<1>7. ASSUME NEW asked \in SUBSET Policies, NEW next \in {"managed", "write"},
             step[a] \in {"local", "managed"}, step[a] = "local" \/ iamPending[a] = {},
             \A q \in asked \cap DOMAIN LocalPolicies : LocalPolicies[q] = a,
             iamPending' = [iamPending EXCEPT ![a] = Uncached(a, asked)],
             step' = [step EXCEPT ![a] = next],
             UNCHANGED <<kind, iamTodo, iamFound, documents, began, iamRuns, iamVars, policyVars>>
      PROVE  Types /\ Rest
  <2> USE <1>7
  <2>1. Types
    BY DEF IamTypeOK, IamShape, Steps, Uncached
  <2>2. HistoryFollows'
    BY DEF HistoryFollows
  <2>3. SteadyOfWalkedFound'
    BY DEF SteadyOfWalkedFound, Walked, IamTypeOK
  <2>4. DocumentsFollow'
    <3>1. iamPending[a] = {} /\ step'[a] \in {"managed", "write"}
      BY DEF DocumentsFollow, IamTypeOK
    <3> QED
      BY <3>1 DEF DocumentsFollow, IamTypeOK, IamShape
  <2>5. OwnPoliciesApart' /\ OwnDocumentsKept'
    BY DEF OwnPoliciesApart, OwnDocumentsKept, Readable, IamTypeOK, IamShape, Uncached
  <2> QED
    BY <2>1, <2>2, <2>3, <2>4, <2>5
<1>8. ASSUME ListLocal(a) PROVE Types /\ Rest
  <2>1. {q \in DOMAIN LocalPolicies : LocalPolicies[q] = a} \in SUBSET Policies
    BY DEF Policies
  <2> QED
    BY <1>7, <1>8, <2>1 DEF ListLocal
<1>9. ASSUME ListManaged(a) PROVE Types /\ Rest
  <2> DEFINE used == {q \in ManagedPolicies : \E p \in Of(a) : <<p, q>> \in attached}
  <2>1. used \in SUBSET Policies /\ used \cap DOMAIN LocalPolicies = {}
    BY IamParameters DEF Policies
  <2> QED
    BY <1>7, <1>9, <2>1 DEF ListManaged
<1>10. ASSUME Write(a) PROVE Types /\ Rest
  <2> USE <1>10 DEF Write
  <2>0. /\ step[a] = "write" /\ iamPending[a] = {} /\ step'[a] = "reconcile"
        /\ \A b \in Accounts \ {a} : step'[b] = step[b]
        /\ \A x \in iamFound[a] : documents[a][x[2]] # 0 /\ x \in Attachments
    BY DEF IamTypeOK, DocumentsFollow, IamShape
  <2>00. \A q \in Policies : \/ contains'[q] = contains[q]
                             \/ contains'[q] = [by |-> a, version |-> documents[a][q]] /\ documents[a][q] # 0
    OBVIOUS
  <2>000. \A q \in Policies : documents[a][q] # 0 /\ q \in DOMAIN LocalPolicies =>
            contains'[q] = [by |-> a, version |-> documents[a][q]]
    BY DEF HasVertex
  <2>1. Types
    <3>1. contains' \in [Policies -> [by : Accounts \cup {Nobody}, version : 0 .. MaxVersion]]
      BY DEF IamTypeOK
    <3>2. step' \in [Accounts -> Steps] /\ linked' \subseteq Attachments
      BY <2>0 DEF IamTypeOK, Steps
    <3> QED
      BY <3>1, <3>2 DEF IamTypeOK, IamShape
  <2>2. HistoryFollows'
    BY DEF HistoryFollows
  <2>3. SteadyOfWalkedFound'
    BY <2>0 DEF SteadyOfWalkedFound, Walked
  <2>4. DocumentsFollow'
    BY <2>0 DEF DocumentsFollow
  <2>5. \A q \in DOMAIN LocalPolicies : q \in Policies
    BY DEF Policies
  <2>7. \A x \in Attachments : Readable(x) => Readable(x)'
    <3>1. ASSUME NEW x \in Attachments, Readable(x) PROVE Readable(x)'
      <4>1. x[2] \in Policies
        BY AttachmentParts
      <4>2. contains'[x[2]].by \in {contains[x[2]].by, a}
        BY <2>00, <4>1
      <4> QED
        BY <3>1, <4>2, IamParameters DEF Readable
    <3> QED
      BY <3>1
  <2>8. \A x \in iamFound[a] : x[2] \in DOMAIN LocalPolicies => Readable(x)'
    <3>1. ASSUME NEW x \in iamFound[a], x[2] \in DOMAIN LocalPolicies PROVE Readable(x)'
      <4>1. contains'[x[2]] = [by |-> a, version |-> documents[a][x[2]]]
        BY <2>0, <2>000, <2>5, <3>1
      <4>2. contains'[x[2]].by = a
        BY <4>1
      <4> QED
        BY <4>2, IamParameters DEF Readable
    <3> QED
      BY <3>1
  <2>9. OwnPoliciesApart'
    <3>1. \A q \in DOMAIN LocalPolicies : contains'[q].by \in {LocalPolicies[q], Nobody}
      BY <2>00, <2>5 DEF OwnPoliciesApart
    <3>2. \A b \in Accounts : \A x \in iamFound[b] : x \in Attachments
      BY DEF IamShape
    <3> QED
      BY <2>0, <2>7, <2>8, <3>1, <3>2 DEF OwnPoliciesApart
  <2>10. OwnDocumentsKept'
    <3>1. \A x \in linked' : (x \in linked /\ x \in Attachments) \/ x \in iamFound[a]
      BY DEF IamTypeOK
    <3> QED
      BY <2>7, <2>8, <3>1 DEF OwnDocumentsKept
  <2> QED
    BY <2>1, <2>2, <2>3, <2>4, <2>9, <2>10
<1>11. ASSUME ReconcileIam(a) PROVE Types /\ Rest
  <2> USE <1>11 DEF ReconcileIam
  <2>0. /\ step[a] = "reconcile" /\ iamPending[a] = {} /\ step'[a] = "idle"
        /\ \A b \in Accounts \ {a} : step'[b] = step[b]
        /\ \A x \in iamFound[a] : documents[a][x[2]] # 0 /\ x \in Attachments
    BY DEF IamTypeOK, DocumentsFollow, IamShape
  <2>1. Types
    <3>1. [by |-> Nobody, version |-> 0] \in [by : Accounts \cup {Nobody}, version : 0 .. MaxVersion]
      BY IamParameters
    <3>2. contains' \in [Policies -> [by : Accounts \cup {Nobody}, version : 0 .. MaxVersion]]
      BY <3>1 DEF IamTypeOK
    <3>3. step' \in [Accounts -> Steps] /\ linked' \subseteq Attachments /\ complete' \subseteq Accounts
      BY <2>0 DEF IamTypeOK, Steps
    <3> QED
      BY <3>2, <3>3 DEF IamTypeOK, IamShape
  <2>2. HistoryFollows'
    BY DEF HistoryFollows
  <2>3. SteadyOfWalkedFound'
    BY <2>0 DEF SteadyOfWalkedFound, Walked
  <2>4. DocumentsFollow'
    BY <2>0 DEF DocumentsFollow
  <2>5. \A q \in DOMAIN LocalPolicies : q \in Policies
    BY DEF Policies
  <2>6. ASSUME NEW x \in Attachments, x[2] \in DOMAIN LocalPolicies, Readable(x),
               x[1].account # a \/ documents[a][x[2]] # 0
        PROVE  Readable(x)'
    <3>1. x[2] \in Policies /\ LocalPolicies[x[2]] = x[1].account
      BY <2>6, AttachmentParts
    <3>2. contains[x[2]].by = x[1].account
      BY <2>6, <3>1 DEF OwnPoliciesApart, Readable
    <3>3. ~Dropped(a, x[2])
      BY <2>6, <3>2 DEF Dropped
    <3> QED
      BY <2>6, <3>1, <3>3 DEF Readable
  <2>7. OwnPoliciesApart'
    <3>1. \A q \in DOMAIN LocalPolicies : contains'[q].by \in {LocalPolicies[q], Nobody}
      BY <2>5 DEF OwnPoliciesApart
    <3>2. ASSUME NEW b \in Accounts, step'[b] = "reconcile", NEW x \in iamFound[b],
                 x[2] \in DOMAIN LocalPolicies
          PROVE  Readable(x)'
      <4>1. b # a /\ step[b] = "reconcile" /\ Readable(x)
        BY <2>0, <3>2 DEF OwnPoliciesApart
      <4>2. x \in Attachments /\ x[1].account = b
        BY AttachmentParts DEF IamTypeOK
      <4> QED
        BY <2>6, <3>2, <4>1, <4>2
    <3> QED
      BY <3>1, <3>2 DEF OwnPoliciesApart
  <2>8. OwnDocumentsKept'
    <3>1. ASSUME NEW b \in complete', NEW x \in linked', x[1].account = b,
                 x[2] \in DOMAIN LocalPolicies
          PROVE  Readable(x)'
      <4>1. x \in linked /\ x \in Attachments
        BY DEF IamTypeOK
      <4>2. CASE b = a
        <5>1. x \in iamFound[a] /\ Readable(x)
          BY <2>0, <3>1, <4>2 DEF OwnPoliciesApart
        <5> QED
          BY <2>0, <2>6, <3>1, <4>1, <5>1
      <4>3. CASE b # a
        <5>1. Readable(x)
          BY <3>1, <4>1, <4>3 DEF OwnDocumentsKept
        <5> QED
          BY <2>6, <3>1, <4>1, <4>3, <5>1
      <4> QED
        BY <4>2, <4>3
    <3> QED
      BY <3>1 DEF OwnDocumentsKept
  <2> QED
    BY <2>1, <2>2, <2>3, <2>4, <2>7, <2>8
<1>12. Types /\ Rest
  BY <1>1, <1>2, <1>3, <1>4, <1>5, <1>6, <1>8, <1>9, <1>10, <1>11 DEF Walk
<1> QED
  BY <1>12

LEMMA IamInvNext == IamInv /\ [IamNext]_iamCollectionVars => IamInv'
<1> SUFFICES ASSUME IamInv, [IamNext]_iamCollectionVars PROVE IamInv'
  OBVIOUS
<1>1. CASE UNCHANGED iamCollectionVars
  BY <1>1 DEF iamCollectionVars, iamVars, iamWalkVars, policyVars, IamInv, IamTypeOK, IamShape,
     HistoryFollows, SteadyOfWalkedFound, Walked, DocumentsFollow, OwnPoliciesApart,
     OwnDocumentsKept, Readable
<1> QED
  BY <1>1, IamInvIam, IamInvWalk DEF IamNext

(* Attachments get their documents, steady ones are exact after a whole walk, *)
(* and no account drops the documents of another's own policies.              *)
THEOREM PoliciesMirrored == IamSpec => []PoliciesAreMirrored
<1>1. IamSpec => []IamInv
  BY IamInvInit, IamInvNext, PTL DEF IamSpec
<1>2. ASSUME IamInv PROVE PoliciesAreMirrored
  <2>1. AttachmentsHaveDocuments
    BY <1>2 DEF IamInv, DocumentsFollow, AttachmentsHaveDocuments
  <2>2. SteadyAttachmentsExact
    BY <1>2 DEF IamInv, HistoryFollows, SteadyOfWalkedFound, Walked, SteadyAttachmentsExact
  <2> QED
    BY <1>2, <2>1, <2>2 DEF IamInv, PoliciesAreMirrored
<1> QED
  BY <1>1, <1>2, PTL

-----------------------------------------------------------------------------
(* FindingSweep: what a turn has listed, got and written.                    *)
Todos == Seq(Regions) \ {<<>>}
InTurn == {"list", "get", "edges", "reconcile"}
Mine == Scope(Region)

SweepShape ==
  \/ sweep = NoSweep
  \/ sweep \in [stage : {"region", "list", "reconcile"}, todo : Todos]
  \/ sweep \in [stage : {"get"}, todo : Todos, found : SUBSET GuardDutyFindings,
                ids : SUBSET GuardDutyFindings]
  \/ sweep \in [stage : {"edges"}, todo : Todos, found : SUBSET GuardDutyFindings]

(* What stood since the turn began stands now.                              *)
StandsThroughout ==
  sweep.stage \in InTurn =>
    /\ throughout \cap GuardDutyFindings \subseteq unarchived
    /\ throughout \cap Targets \subseteq presentTargets

(* Until the findings are written nothing bears the turn's stamp, and what is *)
(* still to be got or was got has all that stood and nothing archived.       *)
GettingIsExact ==
  /\ sweep.stage \in {"list", "get"} =>
       /\ unarchived \subseteq ever
       /\ \A f \in GuardDutyFindings : stamp[f] < turn
  /\ sweep.stage = "get" =>
       /\ (throughout \cup kept) \cap Mine \subseteq sweep.ids \cup sweep.found
       /\ sweep.ids \cap sweep.found = {} /\ sweep.found \subseteq ever

(* Then those that bear it are in the graph.                                *)
WrittenIsExact ==
  /\ sweep.stage \in {"edges", "reconcile"} =>
       /\ \A f \in (throughout \cup kept) \cap Mine : f \in findingNodes /\ stamp[f] = turn
       /\ \A f \in GuardDutyFindings : stamp[f] = turn => f \in ever
  /\ sweep.stage = "edges" => throughout \cap Mine \subseteq sweep.found /\ sweep.found \subseteq findingNodes
  /\ sweep.stage = "reconcile" =>
       {f \in throughout \cap Mine : TargetOf[f] \in throughout} \subseteq findingEdges

FindingInv ==
  /\ SweepTypeOK /\ OpenFindingsKept /\ SweepShape
  /\ StandsThroughout /\ GettingIsExact /\ WrittenIsExact

LEMMA FindingInvInit == SweepInit => FindingInv
<1> SUFFICES ASSUME SweepInit PROVE FindingInv
  OBVIOUS
<1>1. sweep = NoSweep /\ sweep.stage = "idle"
  BY DEF SweepInit, NoSweep
<1>2. SweepTypeOK
  BY <1>1 DEF SweepInit, SweepTypeOK
<1>3. SweepShape /\ StandsThroughout /\ GettingIsExact /\ WrittenIsExact /\ OpenFindingsKept
  BY <1>1 DEF SweepInit, SweepShape, StandsThroughout, GettingIsExact, WrittenIsExact, InTurn,
              OpenFindingsKept
<1> QED
  BY <1>2, <1>3 DEF FindingInv

(* The sweep in each stage.                                                 *)
LEMMA SweepStages ==
  ASSUME SweepShape
  PROVE  /\ sweep.stage \in {"idle", "region", "list", "get", "edges", "reconcile"}
         /\ sweep.stage # "idle" => sweep.todo \in Todos /\ Region \in Regions
         /\ sweep.stage = "get" =>
              sweep \in [stage : {"get"}, todo : Todos, found : SUBSET GuardDutyFindings,
                         ids : SUBSET GuardDutyFindings]
         /\ sweep.stage = "edges" =>
              sweep \in [stage : {"edges"}, todo : Todos, found : SUBSET GuardDutyFindings]
<1>1. sweep.stage # "idle" => sweep.todo \in Todos
  BY DEF SweepShape, NoSweep
<1>2. sweep.todo \in Todos => Region \in Regions
  BY DEF Todos, Region
<1> QED
  BY <1>1, <1>2 DEF SweepShape, NoSweep

LEMMA RestOfTodos ==
  ASSUME NEW todo \in Todos, Len(todo) # 1
  PROVE  Tail(todo) \in Todos
<1>1. todo \in Seq(Regions) /\ todo # <<>> /\ Len(todo) \in Nat
  BY DEF Todos
<1>2. Len(todo) # 0
  BY <1>1
<1>3. Tail(todo) \in Seq(Regions) /\ Len(Tail(todo)) = Len(todo) - 1
  BY <1>1
<1>4. Len(Tail(todo)) # 0
  BY <1>1, <1>3
<1>5. Len(<<>>) = 0
  OBVIOUS
<1>6. Tail(todo) # <<>>
  BY <1>4, <1>5
<1> QED
  BY <1>3, <1>6 DEF Todos

(* A region is left for the next one, or the sweep is over.                 *)
LEMMA RegionLeft ==
  ASSUME SweepShape, SweepTypeOK, sweep.stage # "idle",
         NEW status \in {"SUCCEEDED", "NO_DETECTOR", "FAILED"}, LeaveRegion(status)
  PROVE  /\ SweepShape' /\ sweep'.stage \in {"idle", "region"}
         /\ results' \in [Regions -> {"none", "SUCCEEDED", "NO_DETECTOR", "FAILED"}]
         /\ results'[Region] = status
<1>1. sweep.todo \in Todos /\ Region \in Regions
  BY SweepStages
<1>2. /\ results' \in [Regions -> {"none", "SUCCEEDED", "NO_DETECTOR", "FAILED"}]
      /\ results'[Region] = status
  BY <1>1 DEF LeaveRegion, SweepTypeOK
<1>3. CASE Len(sweep.todo) = 1
  BY <1>2, <1>3 DEF LeaveRegion, SweepShape, NoSweep
<1>4. CASE Len(sweep.todo) # 1
  <2>3. Tail(sweep.todo) \in Todos
    BY <1>1, <1>4, RestOfTodos
  <2>4. sweep' = [stage |-> "region", todo |-> Tail(sweep.todo)]
    BY <1>4 DEF LeaveRegion
  <2>5. sweep' \in [stage : {"region", "list", "reconcile"}, todo : Todos]
    BY <2>3, <2>4
  <2> QED
    BY <1>2, <2>4, <2>5 DEF SweepShape
<1> QED
  BY <1>3, <1>4

(* Outside a turn only the types and the open findings matter.              *)
LEMMA BetweenTurns ==
  ASSUME SweepTypeOK', OpenFindingsKept', SweepShape', sweep'.stage \in {"idle", "region"}
  PROVE  FindingInv'
BY DEF FindingInv, StandsThroughout, GettingIsExact, WrittenIsExact, InTurn

LEMMA FindingInvNext == FindingInv /\ [SweepNext]_findingSweepVars => FindingInv'
<1> SUFFICES ASSUME FindingInv, [SweepNext]_findingSweepVars PROVE FindingInv'
  OBVIOUS
<1> USE DEF FindingInv
<1>0. \A f \in GuardDutyFindings : TargetOf[f] \in Targets /\ f \notin Targets
  BY SweepParameters DEF Targets
<1> DEFINE Parts == StandsThroughout' /\ GettingIsExact' /\ WrittenIsExact'
<1>1. ASSUME NEW f \in GuardDutyFindings, Raise(f) PROVE FindingInv'
  <2>1. SweepTypeOK' /\ OpenFindingsKept'
    BY <1>1 DEF Raise, SweepTypeOK, OpenFindingsKept, findingVars
  <2>2. SweepShape'
    BY <1>1 DEF Raise, SweepShape, NoSweep
  <2>3. Parts
    BY <1>1 DEF Raise, findingVars, StandsThroughout, GettingIsExact, WrittenIsExact, InTurn,
                Mine, Scope, Region
  <2> QED
    BY <2>1, <2>2, <2>3
<1>2. ASSUME NEW f \in GuardDutyFindings, Archive(f) PROVE FindingInv'
  <2>1. SweepTypeOK' /\ OpenFindingsKept'
    BY <1>2 DEF Archive, SweepTypeOK, OpenFindingsKept, findingVars
  <2>2. SweepShape'
    BY <1>2 DEF Archive, SweepShape, NoSweep
  <2>3. Parts
    BY <1>0, <1>2 DEF Archive, findingVars, StandsThroughout, GettingIsExact, WrittenIsExact,
                InTurn, Mine, Scope, Region
  <2> QED
    BY <2>1, <2>2, <2>3
<1>3. ASSUME NEW r \in Regions, RemoveDetector(r) PROVE FindingInv'
  <2>1. SweepTypeOK' /\ OpenFindingsKept'
    BY <1>3 DEF RemoveDetector, SweepTypeOK, OpenFindingsKept, findingVars
  <2>2. SweepShape'
    BY <1>3 DEF RemoveDetector, SweepShape, NoSweep
  <2>3. Parts
    BY <1>0, <1>3 DEF RemoveDetector, findingVars, StandsThroughout, GettingIsExact,
                WrittenIsExact, InTurn, Mine, Scope, Region
  <2> QED
    BY <2>1, <2>2, <2>3
<1>4. ASSUME NEW x \in Targets, AccountRun(x) PROVE FindingInv'
  <2>1. SweepTypeOK' /\ OpenFindingsKept'
    BY <1>4 DEF AccountRun, SweepTypeOK, OpenFindingsKept
  <2>2. SweepShape'
    BY <1>4 DEF AccountRun, SweepShape, NoSweep
  <2>3. Parts
    BY <1>0, <1>4 DEF AccountRun, StandsThroughout, GettingIsExact, WrittenIsExact, InTurn,
                Mine, Scope, Region
  <2> QED
    BY <2>1, <2>2, <2>3
<1>5. ASSUME StartSweep PROVE FindingInv'
  <2>1. sweep' \in [stage : {"region"}, todo : Todos] /\ sweep'.stage = "region"
    BY <1>5, SweepParameters DEF StartSweep, Todos
  <2>2. SweepTypeOK' /\ OpenFindingsKept'
    BY <1>5, <2>1 DEF StartSweep, SweepTypeOK, OpenFindingsKept, guardDutyVars, findingVars
  <2>3. SweepShape'
    BY <2>1 DEF SweepShape
  <2> QED
    BY <2>1, <2>2, <2>3, BetweenTurns
<1>6. ASSUME EnterRegion PROVE FindingInv'
  <2> USE <1>6 DEF EnterRegion, guardDutyVars, findingVars
  <2>1. /\ turn' = turn + 1 /\ turn \in Nat /\ throughout' = unarchived \cup presentTargets
        /\ ever' = unarchived /\ OpenFindingsKept'
    BY DEF SweepTypeOK, OpenFindingsKept
  <2>2. stamp' = stamp /\ stamp \in [GuardDutyFindings -> 0..turn]
    BY DEF SweepTypeOK
  <2>3. stamp' \in [GuardDutyFindings -> 0..turn'] /\ \A f \in GuardDutyFindings : stamp[f] < turn'
    BY <2>1, <2>2
  <2>4. ASSUME NEW status \in {"NO_DETECTOR", "FAILED"}, LeaveRegion(status) PROVE FindingInv'
    <3>1. /\ SweepShape' /\ sweep'.stage \in {"idle", "region"}
          /\ results' \in [Regions -> {"none", "SUCCEEDED", "NO_DETECTOR", "FAILED"}]
      BY <2>4, RegionLeft
    <3>2. SweepTypeOK'
      BY <2>1, <2>3, <3>1 DEF SweepTypeOK
    <3> QED
      BY <2>1, <3>1, <3>2, BetweenTurns
  <2>5. CASE sweep' = [stage |-> "list", todo |-> sweep.todo] /\ UNCHANGED results
    <3>1. sweep.todo \in Todos /\ sweep'.stage = "list"
      BY <2>5, SweepStages
    <3>2. SweepTypeOK'
      BY <2>1, <2>3, <2>5, <3>1 DEF SweepTypeOK
    <3>3. SweepShape'
      BY <2>5, <3>1 DEF SweepShape
    <3>4. Parts
      BY <1>0, <2>1, <2>2, <2>3, <3>1 DEF StandsThroughout, GettingIsExact, WrittenIsExact, InTurn,
                                   SweepTypeOK
    <3> QED
      BY <2>1, <3>2, <3>3, <3>4
  <2> QED
    BY <2>4, <2>5
<1>7. ASSUME ListFindings PROVE FindingInv'
  <2> USE <1>7 DEF ListFindings, guardDutyVars, findingVars
  <2>1. CASE LeaveRegion("FAILED")
    <3>1. /\ SweepShape' /\ sweep'.stage \in {"idle", "region"}
          /\ results' \in [Regions -> {"none", "SUCCEEDED", "NO_DETECTOR", "FAILED"}]
      BY <2>1, RegionLeft
    <3>2. SweepTypeOK' /\ OpenFindingsKept'
      BY <3>1 DEF SweepTypeOK, OpenFindingsKept
    <3> QED
      BY <3>1, <3>2, BetweenTurns
  <2>2. CASE UNCHANGED results
             /\ sweep' = [stage |-> "get", todo |-> sweep.todo, found |-> {},
                          ids |-> {f \in unarchived : RegionOf[f] = Region}]
    <3>1. sweep.todo \in Todos /\ sweep'.stage = "get" /\ sweep'.todo = sweep.todo /\ sweep'.found = {}
          /\ sweep'.ids = {f \in unarchived : RegionOf[f] = Region}
      BY <2>2, SweepStages
    <3>2. SweepTypeOK' /\ OpenFindingsKept'
      BY <2>2, <3>1 DEF SweepTypeOK, OpenFindingsKept
    <3>3. SweepShape'
      BY <2>2, <3>1 DEF SweepShape, SweepTypeOK
    <3>4. StandsThroughout' /\ WrittenIsExact'
      BY <3>1 DEF StandsThroughout, WrittenIsExact, InTurn
    <3>5. GettingIsExact'
      BY <3>1 DEF GettingIsExact, StandsThroughout, InTurn, SweepTypeOK, Mine, Scope, Region
    <3> QED
      BY <3>2, <3>3, <3>4, <3>5
  <2> QED
    BY <2>1, <2>2
<1>8. ASSUME GetFindings PROVE FindingInv'
  <2> USE <1>8 DEF GetFindings, guardDutyVars, findingVars
  <2>1. CASE LeaveRegion("FAILED") /\ UNCHANGED ever
    <3>1. /\ SweepShape' /\ sweep'.stage \in {"idle", "region"}
          /\ results' \in [Regions -> {"none", "SUCCEEDED", "NO_DETECTOR", "FAILED"}]
      BY <2>1, RegionLeft
    <3>2. SweepTypeOK' /\ OpenFindingsKept'
      BY <3>1 DEF SweepTypeOK, OpenFindingsKept
    <3> QED
      BY <3>1, <3>2, BetweenTurns
  <2>2. ASSUME NEW answered \in SUBSET sweep.ids, UNCHANGED results,
               sweep' = [sweep EXCEPT !.ids = @ \ answered, !.found = @ \cup Unarchived(answered)],
               ever' = ever \ (answered \ unarchived)
        PROVE  FindingInv'
    <3>1. sweep \in [stage : {"get"}, todo : Todos, found : SUBSET GuardDutyFindings,
                     ids : SUBSET GuardDutyFindings]
      BY SweepStages
    <3>2. /\ sweep'.stage = "get" /\ sweep'.todo = sweep.todo
          /\ sweep'.ids = sweep.ids \ answered /\ sweep'.found = sweep.found \cup (answered \cap unarchived)
      BY <2>2, <3>1 DEF Unarchived
    <3>3. SweepTypeOK' /\ OpenFindingsKept'
      BY <2>2, <3>2 DEF SweepTypeOK, OpenFindingsKept
    <3>4. SweepShape'
      BY <2>2, <3>1 DEF SweepShape, Unarchived
    <3>5. StandsThroughout' /\ WrittenIsExact'
      BY <3>2 DEF StandsThroughout, WrittenIsExact, InTurn
    <3>6. GettingIsExact'
      BY <2>2, <3>1, <3>2 DEF GettingIsExact, StandsThroughout, InTurn, SweepTypeOK, Mine, Scope, Region
    <3> QED
      BY <3>3, <3>4, <3>5, <3>6
  <2> QED
    BY <2>1, <2>2
<1>9. ASSUME WriteFindings PROVE FindingInv'
  <2> USE DEF guardDutyVars
  <2>1. sweep \in [stage : {"get"}, todo : Todos, found : SUBSET GuardDutyFindings,
                   ids : SUBSET GuardDutyFindings] /\ sweep.ids = {}
    BY <1>9, SweepStages DEF WriteFindings
  <2>2. PICK taken \in SUBSET sweep.found :
          /\ \/ /\ taken = sweep.found /\ UNCHANGED results
                /\ sweep' = [stage |-> "edges", todo |-> sweep.todo, found |-> sweep.found]
             \/ LeaveRegion("FAILED")
          /\ findingNodes' = findingNodes \cup taken
          /\ stamp' = [f \in GuardDutyFindings |-> IF f \in taken THEN turn ELSE stamp[f]]
          /\ kept' = kept \cup ((taken \ findingNodes) \cap unarchived)
    BY <1>9 DEF WriteFindings
  <2>3. UNCHANGED <<unarchived, detectors, presentTargets, findingEdges, throughout, ever, turn>>
    BY <1>9 DEF WriteFindings
  <2>4. stamp' \in [GuardDutyFindings -> 0..turn'] /\ OpenFindingsKept'
    BY <2>2, <2>3 DEF SweepTypeOK, OpenFindingsKept
  <2>5. CASE LeaveRegion("FAILED")
    <3>1. /\ SweepShape' /\ sweep'.stage \in {"idle", "region"}
          /\ results' \in [Regions -> {"none", "SUCCEEDED", "NO_DETECTOR", "FAILED"}]
      BY <2>1, <2>5, RegionLeft
    <3>2. SweepTypeOK'
      BY <2>2, <2>3, <2>4, <3>1 DEF SweepTypeOK
    <3> QED
      BY <2>4, <3>1, <3>2, BetweenTurns
  <2>6. CASE /\ taken = sweep.found /\ UNCHANGED results
             /\ sweep' = [stage |-> "edges", todo |-> sweep.todo, found |-> sweep.found]
    <3>1. sweep'.stage = "edges" /\ sweep'.todo = sweep.todo /\ sweep'.found = sweep.found
      BY <2>6
    <3>2. SweepTypeOK'
      BY <2>2, <2>3, <2>4, <2>6, <3>1 DEF SweepTypeOK
    <3>3. SweepShape'
      BY <2>1, <2>6 DEF SweepShape
    <3>4. StandsThroughout' /\ GettingIsExact'
      BY <2>1, <2>3, <3>1 DEF StandsThroughout, GettingIsExact, InTurn
    <3>5. WrittenIsExact'
      <4>1. sweep.found \subseteq GuardDutyFindings /\ sweep.found \subseteq ever
            /\ (throughout \cup kept) \cap Mine \subseteq sweep.found
        BY <2>1 DEF GettingIsExact
      <4>2. \A f \in GuardDutyFindings : stamp'[f] = turn <=> f \in sweep.found
        BY <2>1, <2>2, <2>6, <4>1 DEF GettingIsExact, SweepTypeOK
      <4>3. Mine' = Mine /\ Mine \subseteq GuardDutyFindings
        BY <3>1 DEF Mine, Scope, Region
      <4> QED
        BY <2>2, <2>3, <2>6, <3>1, <4>1, <4>2, <4>3 DEF WrittenIsExact
    <3> QED
      BY <2>4, <3>2, <3>3, <3>4, <3>5
  <2> QED
    BY <2>2, <2>5, <2>6
<1>10. ASSUME WriteFindingEdges PROVE FindingInv'
  <2> USE DEF guardDutyVars
  <2>1. sweep \in [stage : {"edges"}, todo : Todos, found : SUBSET GuardDutyFindings]
    BY <1>10, SweepStages DEF WriteFindingEdges
  <2>2. PICK taken \in SUBSET EdgesOf(sweep.found) :
          /\ \/ /\ taken = EdgesOf(sweep.found) /\ UNCHANGED results
                /\ sweep' = [stage |-> "reconcile", todo |-> sweep.todo]
             \/ LeaveRegion("FAILED")
          /\ findingEdges' = findingEdges \cup taken
    BY <1>10 DEF WriteFindingEdges
  <2>3. UNCHANGED <<unarchived, detectors, presentTargets, findingNodes, stamp, throughout, ever,
                    kept, turn>>
    BY <1>10 DEF WriteFindingEdges
  <2>4. /\ OpenFindingsKept' /\ findingEdges' \subseteq findingNodes'
        /\ \A f \in findingEdges' : TargetOf[f] \in presentTargets'
    BY <2>1, <2>2, <2>3 DEF OpenFindingsKept, EdgesOf, SweepTypeOK, WrittenIsExact
  <2>5. CASE LeaveRegion("FAILED")
    <3>1. /\ SweepShape' /\ sweep'.stage \in {"idle", "region"}
          /\ results' \in [Regions -> {"none", "SUCCEEDED", "NO_DETECTOR", "FAILED"}]
      BY <2>1, <2>5, RegionLeft
    <3>2. SweepTypeOK'
      BY <2>3, <2>4, <3>1 DEF SweepTypeOK
    <3> QED
      BY <2>4, <3>1, <3>2, BetweenTurns
  <2>6. CASE /\ taken = EdgesOf(sweep.found) /\ UNCHANGED results
             /\ sweep' = [stage |-> "reconcile", todo |-> sweep.todo]
    <3>1. sweep'.stage = "reconcile" /\ sweep'.todo = sweep.todo
      BY <2>6
    <3>2. SweepTypeOK'
      BY <2>3, <2>4, <2>6, <3>1 DEF SweepTypeOK
    <3>3. SweepShape'
      BY <2>1, <2>6 DEF SweepShape
    <3>4. StandsThroughout' /\ GettingIsExact'
      BY <2>1, <2>3, <3>1 DEF StandsThroughout, GettingIsExact, InTurn
    <3>5. WrittenIsExact'
      <4>1. Mine' = Mine /\ Mine \subseteq GuardDutyFindings
        BY <3>1 DEF Mine, Scope, Region
      <4>2. {f \in throughout \cap Mine : TargetOf[f] \in throughout} \subseteq EdgesOf(sweep.found)
        BY <1>0, <2>1, <4>1 DEF EdgesOf, WrittenIsExact, StandsThroughout, InTurn
      <4> QED
        BY <2>1, <2>2, <2>3, <2>6, <3>1, <4>1, <4>2 DEF WrittenIsExact
    <3> QED
      BY <2>4, <3>2, <3>3, <3>4, <3>5
  <2> QED
    BY <2>2, <2>5, <2>6
<1>11. ASSUME ReconcileRegion PROVE FindingInv'
  <2> USE DEF guardDutyVars
  <2>1. PICK dropped \in SUBSET {f \in Scope(Region) \cap findingNodes : stamp[f] # turn} :
          /\ LeaveRegion("SUCCEEDED") \/ LeaveRegion("FAILED")
          /\ findingNodes' = findingNodes \ dropped /\ findingEdges' = findingEdges \ dropped
    BY <1>11 DEF ReconcileRegion
  <2>2. /\ sweep.stage = "reconcile"
        /\ UNCHANGED <<unarchived, detectors, presentTargets, stamp, throughout, ever, kept, turn>>
    BY <1>11 DEF ReconcileRegion
  <2>3. /\ SweepShape' /\ sweep'.stage \in {"idle", "region"}
        /\ results' \in [Regions -> {"none", "SUCCEEDED", "NO_DETECTOR", "FAILED"}]
    BY <2>1, <2>2, RegionLeft
  <2>4. OpenFindingsKept'
    BY <2>1, <2>2 DEF OpenFindingsKept, WrittenIsExact, Mine
  <2>5. SweepTypeOK'
    BY <2>1, <2>2, <2>3 DEF SweepTypeOK
  <2> QED
    BY <2>3, <2>4, <2>5, BetweenTurns
<1>12. CASE UNCHANGED findingSweepVars
  <2>1. SweepTypeOK' /\ OpenFindingsKept' /\ Parts
    BY <1>12 DEF findingSweepVars, guardDutyVars, findingVars, SweepTypeOK, OpenFindingsKept,
         StandsThroughout, GettingIsExact, WrittenIsExact, InTurn, Mine, Scope, Region
  <2>2. SweepShape'
    BY <1>12 DEF findingSweepVars, SweepShape, NoSweep
  <2> QED
    BY <2>1, <2>2
<1> QED
  BY <1>1, <1>2, <1>3, <1>4, <1>5, <1>6, <1>7, <1>8, <1>9, <1>10, <1>11, <1>12 DEF SweepNext

(* What a region that succeeds leaves in the graph.                         *)
LEMMA SucceededIsMirrored ==
  ASSUME FindingInv, [SweepNext]_findingSweepVars,
         sweep.stage = "reconcile", results'[Region] = "SUCCEEDED", sweep' # sweep
  PROVE  /\ throughout \cap Mine \subseteq findingNodes'
         /\ findingNodes' \cap Mine \subseteq ever
         /\ {f \in throughout \cap Mine : TargetOf[f] \in throughout} \subseteq findingEdges'
<1> USE DEF FindingInv
<1>1. ReconcileRegion
  BY DEF SweepNext, findingSweepVars, Raise, Archive, RemoveDetector, AccountRun, StartSweep,
         EnterRegion, ListFindings, GetFindings, WriteFindings, WriteFindingEdges
<1>2. ~LeaveRegion("FAILED")
  BY RegionLeft
<1> DEFINE dropped == {f \in Mine \cap findingNodes : stamp[f] # turn}
<1>3. findingNodes' = findingNodes \ dropped /\ findingEdges' = findingEdges \ dropped
  BY <1>1, <1>2 DEF ReconcileRegion, Mine
<1>4. Mine \subseteq GuardDutyFindings
  BY DEF Mine, Scope
<1> QED
  BY <1>3, <1>4 DEF WrittenIsExact

(* A finding that stays open keeps its vertex, and a region that succeeded    *)
(* shows what stood throughout its turn and nothing archived when got.        *)
THEOREM FindingsMirrored == SweepSpec => FindingsAreMirrored
<1>1. FindingInv => SweepTypeOK /\ OpenFindingsKept
  BY DEF FindingInv
<1>2. FindingInv /\ [SweepNext]_findingSweepVars =>
        [sweep.stage = "reconcile" /\ results'[Region] = "SUCCEEDED" /\ sweep' # sweep =>
          LET mine == {f \in GuardDutyFindings : RegionOf[f] = Region}
              steady == throughout \cap mine
          IN /\ steady \subseteq findingNodes'
             /\ findingNodes' \cap mine \subseteq ever
             /\ {f \in steady : TargetOf[f] \in throughout} \subseteq findingEdges']_findingSweepVars
  BY SucceededIsMirrored DEF Mine, Scope
<1>3. SweepSpec => []FindingInv
  BY FindingInvInit, FindingInvNext, PTL DEF SweepSpec
<1> QED
  BY <1>1, <1>2, <1>3, PTL DEF SweepSpec, FindingsAreMirrored, RegionMirrored

-----------------------------------------------------------------------------
(* IncrementalBatch: every reception of a message adds up.                   *)
(* How far a batch is, and what it knows by then.                          *)
BatchShape ==
  \/ batch = Polling
  \/ /\ batch \in [stage : {"discover"}, todo : SUBSET Messages, before : SUBSET EventAccounts]
     /\ batch.before \subseteq departed
  \/ /\ batch \in [stage : {"take", "delete"}, todo : SUBSET Messages,
                   before : SUBSET EventAccounts, scope : SUBSET EventAccounts]
     /\ batch.scope \cap batch.before = {}

(* Every reception of a message ended in a failure of its own, broke off    *)
(* before its turn was over, or is the one of the batch in progress.        *)
ReceptionsAddUp ==
  \A e \in Messages :
    /\ e \notin batch.todo => lost[e] <= receives[e]
    /\ e \in batch.todo => lost[e] < receives[e]
    /\ e \in queue \ failed => receives[e] = IF e \in batch.todo THEN lost[e] + 1 ELSE lost[e]

(* What is about to be deleted has been written.                           *)
DeletedAreWritten ==
  batch.stage = "delete" => \A e \in Messages : IsNext(e) => e \in written \cup Uneventful

BatchInv ==
  BatchTypeOK /\ NothingIsLost /\ BatchShape /\ ReceptionsAddUp /\ DeletedAreWritten

LEMMA MessagesAreNumbers == Messages \subseteq Nat
BY BatchParameters DEF Messages

LEMMA BatchInvInit == BatchInit => BatchInv
<1> SUFFICES ASSUME BatchInit PROVE BatchInv
  OBVIOUS
<1>1. BatchTypeOK
  BY BatchParameters DEF BatchInit, BatchTypeOK, Polling
<1>2. NothingIsLost /\ BatchShape /\ DeletedAreWritten
  BY DEF BatchInit, NothingIsLost, BatchShape, DeletedAreWritten, Polling
<1>3. ReceptionsAddUp
  BY DEF BatchInit, ReceptionsAddUp, Polling
<1> QED
  BY <1>1, <1>2, <1>3 DEF BatchInv

(* The rest of a batch when one of its messages is done with.               *)
LEMMA NextMessageRest ==
  ASSUME BatchInv, batch.stage \in {"take", "delete"}, NEW e \in Messages, IsNext(e),
         batch' = IF batch.todo = {e} THEN Polling
                  ELSE [batch EXCEPT !.stage = "take", !.todo = @ \ {e}],
         UNCHANGED departed
  PROVE  /\ batch'.todo = batch.todo \ {e}
         /\ batch'.stage \in {"polling", "take"}
         /\ batch'.todo = {} <=> batch'.stage = "polling"
         /\ BatchShape'
<1>1. batch \in [stage : {"take", "delete"}, todo : SUBSET Messages,
                 before : SUBSET EventAccounts, scope : SUBSET EventAccounts]
      /\ batch.scope \cap batch.before = {}
  BY DEF BatchInv, BatchShape, Polling
<1>2. CASE batch.todo = {e}
  BY <1>2 DEF BatchShape, Polling
<1>3. CASE batch.todo # {e}
  <2>1. batch' = [batch EXCEPT !.stage = "take", !.todo = @ \ {e}]
    BY <1>3
  <2>2. batch'.todo = batch.todo \ {e} /\ batch'.stage = "take"
    BY <1>1, <2>1
  <2>3. batch.todo \ {e} # {}
    BY <1>3 DEF IsNext
  <2>4. BatchShape'
    BY <1>1, <2>1, <2>2 DEF BatchShape
  <2> QED
    BY <2>2, <2>3, <2>4
<1> QED
  BY <1>2, <1>3

LEMMA BatchInvNext == BatchInv /\ [BatchNext]_batchVars => BatchInv'
<1> SUFFICES ASSUME BatchInv, [BatchNext]_batchVars PROVE BatchInv'
  OBVIOUS
<1>0. Messages \subseteq Nat /\ MaxReceives \in Nat
  BY MessagesAreNumbers, BatchParameters
<1> USE <1>0 DEF BatchInv
<1>1. ASSUME NEW a \in EventAccounts, CloseAccount(a) PROVE BatchInv'
  <2>1. BatchTypeOK' /\ NothingIsLost' /\ ReceptionsAddUp' /\ DeletedAreWritten'
    BY <1>1 DEF CloseAccount, BatchTypeOK, NothingIsLost, ReceptionsAddUp, DeletedAreWritten, IsNext
  <2>2. BatchShape'
    BY <1>1 DEF CloseAccount, BatchShape, Polling
  <2> QED
    BY <2>1, <2>2
<1>2. ASSUME ShowAgain PROVE BatchInv'
  <2>1. BatchTypeOK'
    BY <1>2 DEF ShowAgain, BatchTypeOK
  <2>2. NothingIsLost' /\ ReceptionsAddUp' /\ DeletedAreWritten' /\ BatchShape'
    BY <1>2 DEF ShowAgain, NothingIsLost, ReceptionsAddUp, DeletedAreWritten, IsNext,
                BatchShape, Polling
  <2> QED
    BY <2>1, <2>2
<1>3. ASSUME ReceiveBatch PROVE BatchInv'
  <2> DEFINE spent == {e \in queue : receives[e] = MaxReceives}
             received == queue \ spent
  <2>1. /\ dead' = dead \cup spent /\ queue' = received /\ inFlight' = received
        /\ receives' = [e \in Messages |-> IF e \in received THEN receives[e] + 1 ELSE receives[e]]
        /\ UNCHANGED <<departed, written, failed, lost>>
    BY <1>3 DEF ReceiveBatch
  <2>2. batch' = IF received = {} THEN Polling
                 ELSE [stage |-> "discover", todo |-> received, before |-> departed]
    BY <1>3 DEF ReceiveBatch
  <2>3. batch.todo = {} /\ batch'.todo = received
    BY <1>3, <2>2 DEF ReceiveBatch, BatchTypeOK, Polling
  <2>4. batch'.stage \in {"polling", "discover"} /\ (batch'.todo = {} <=> batch'.stage = "polling")
    BY <2>2 DEF Polling
  <2>5. \A e \in received : receives[e] + 1 \in 0..MaxReceives
    <3>1. ASSUME NEW e \in received PROVE receives[e] + 1 \in 0..MaxReceives
      <4>1. receives[e] \in 0..MaxReceives /\ receives[e] # MaxReceives
        BY DEF BatchTypeOK
      <4> QED
        BY <4>1, BatchParameters
    <3> QED
      BY <3>1
  <2>6. BatchTypeOK'
    BY <2>1, <2>3, <2>4, <2>5 DEF BatchTypeOK
  <2>7. NothingIsLost'
    <3>1. \A e \in spent : e \in failed \/ lost[e] = MaxReceives
      BY <2>3 DEF ReceptionsAddUp, BatchTypeOK
    <3> QED
      BY <2>1, <3>1 DEF NothingIsLost, BatchTypeOK
  <2>8. BatchShape'
    <3>1. CASE received = {}
      BY <2>2, <3>1 DEF BatchShape
    <3>2. CASE received # {}
      BY <2>1, <2>2, <3>2 DEF BatchShape, BatchTypeOK
    <3> QED
      BY <3>1, <3>2
  <2>9. ReceptionsAddUp'
    <3>1. ASSUME NEW e \in Messages
          PROVE  /\ e \notin received => lost[e] <= receives'[e]
                 /\ e \in received => lost[e] < receives'[e]
                 /\ e \in received \ failed => receives'[e] = lost[e] + 1
      <4>1. receives[e] \in Nat /\ lost[e] \in Nat /\ lost[e] <= receives[e]
        BY <2>3, BatchParameters DEF ReceptionsAddUp, BatchTypeOK
      <4>2. e \in queue \ failed => receives[e] = lost[e]
        BY <2>3 DEF ReceptionsAddUp
      <4>3. receives'[e] = IF e \in received THEN receives[e] + 1 ELSE receives[e]
        BY <2>1
      <4> QED
        BY <4>1, <4>2, <4>3
    <3> QED
      BY <2>1, <2>3, <3>1 DEF ReceptionsAddUp
  <2>10. DeletedAreWritten'
    BY <2>4 DEF DeletedAreWritten
  <2> QED
    BY <2>6, <2>7, <2>8, <2>9, <2>10
<1>4. ASSUME BreakOff, batch.stage # "polling",
             UNCHANGED <<queue, receives, inFlight, dead, departed, written, failed>>
      PROVE  BatchInv'
  <2>1. /\ batch' = Polling /\ batch'.todo = {} /\ batch'.stage = "polling"
        /\ lost' = [e \in Messages |-> IF e \in batch.todo THEN lost[e] + 1 ELSE lost[e]]
    BY <1>4 DEF BreakOff, Polling
  <2> DEFINE Counted(e) == receives[e] \in 0..MaxReceives /\ lost[e] \in 0..MaxReceives
  <2>0. batch.todo \subseteq Messages /\ \A e \in Messages : Counted(e)
    BY DEF BatchTypeOK
  <2>2. ReceptionsAddUp'
    <3> SUFFICES ASSUME NEW e \in Messages
                 PROVE  /\ lost'[e] <= receives[e]
                        /\ e \in queue \ failed => receives[e] = lost'[e]
      BY <1>4, <2>1 DEF ReceptionsAddUp
    <3> QED
      BY <2>0, <2>1 DEF ReceptionsAddUp
  <2>3. BatchTypeOK'
    <3>1. \A e \in batch.todo : lost[e] + 1 \in 0..MaxReceives
      <4> SUFFICES ASSUME NEW e \in batch.todo PROVE lost[e] + 1 \in 0..MaxReceives
        OBVIOUS
      <4>1. lost[e] < receives[e] /\ Counted(e)
        BY <2>0 DEF ReceptionsAddUp
      <4> QED
        BY <4>1
    <3> QED
      BY <1>4, <2>1, <3>1 DEF BatchTypeOK
  <2>4. NothingIsLost'
    <3>1. \A e \in Messages : lost[e] = MaxReceives => lost'[e] = MaxReceives
      <4>1. \A e \in batch.todo : lost[e] < MaxReceives
        <5> SUFFICES ASSUME NEW e \in batch.todo PROVE lost[e] < MaxReceives
          OBVIOUS
        <5>1. lost[e] < receives[e] /\ Counted(e)
          BY <2>0 DEF ReceptionsAddUp
        <5> QED
          BY <5>1
      <4> QED
        BY <2>1, <4>1 DEF BatchTypeOK
    <3> QED
      BY <1>4, <3>1 DEF NothingIsLost
  <2>5. BatchShape' /\ DeletedAreWritten'
    BY <2>1 DEF BatchShape, DeletedAreWritten
  <2> QED
    BY <2>2, <2>3, <2>4, <2>5
<1>5. ASSUME Discover PROVE BatchInv'
  <2>1. CASE BreakOff
    BY <1>4, <1>5, <2>1 DEF Discover
  <2>2. CASE ~BreakOff
    <3>1. /\ batch' = [stage |-> "take", todo |-> batch.todo, before |-> batch.before,
                       scope |-> EventAccounts \ departed]
          /\ UNCHANGED <<queue, receives, inFlight, dead, departed, written, failed, lost>>
      BY <1>5, <2>2 DEF Discover
    <3>2. batch'.todo = batch.todo /\ batch'.stage = "take" /\ batch.stage = "discover"
      BY <1>5, <3>1 DEF Discover
    <3>3. BatchTypeOK' /\ NothingIsLost' /\ ReceptionsAddUp' /\ DeletedAreWritten'
      BY <3>1, <3>2 DEF BatchTypeOK, NothingIsLost, ReceptionsAddUp, DeletedAreWritten
    <3>4. BatchShape'
      BY <3>1, <3>2 DEF BatchShape, Polling
    <3> QED
      BY <3>3, <3>4
  <2> QED
    BY <2>1, <2>2
<1>6. ASSUME NEW e \in Messages, TakeMessage(e) PROVE BatchInv'
  <2> USE <1>6 DEF TakeMessage
  <2>1. CASE batch' = [batch EXCEPT !.stage = "delete"] /\ UNCHANGED failed
             /\ written' = written \cup ({e} \ Uneventful)
    <3>1. /\ batch \in [stage : {"take", "delete"}, todo : SUBSET Messages,
                        before : SUBSET EventAccounts, scope : SUBSET EventAccounts]
          /\ batch.scope \cap batch.before = {}
      BY DEF BatchShape, Polling
    <3>2. batch'.todo = batch.todo /\ batch'.stage = "delete"
      BY <2>1, <3>1
    <3>3. BatchShape'
      BY <2>1, <3>1 DEF BatchShape
    <3>4. BatchTypeOK' /\ NothingIsLost' /\ ReceptionsAddUp'
      BY <2>1, <3>2 DEF BatchTypeOK, NothingIsLost, ReceptionsAddUp
    <3>5. DeletedAreWritten'
      BY <2>1, <3>2 DEF DeletedAreWritten, IsNext
    <3> QED
      BY <3>3, <3>4, <3>5
  <2>2. CASE failed' = failed \cup {e} /\ NextMessage(e, FALSE)
             /\ written' \in {written, written \cup ({e} \ Uneventful)}
    <3>1. /\ batch'.todo = batch.todo \ {e} /\ batch'.stage \in {"polling", "take"}
          /\ batch'.todo = {} <=> batch'.stage = "polling"
          /\ BatchShape'
      BY <2>2, NextMessageRest DEF NextMessage
    <3>2. BatchTypeOK' /\ NothingIsLost' /\ ReceptionsAddUp' /\ DeletedAreWritten'
      BY <2>2, <3>1 DEF BatchTypeOK, NothingIsLost, ReceptionsAddUp, DeletedAreWritten
    <3> QED
      BY <3>1, <3>2
  <2> QED
    BY <2>1, <2>2
<1>7. ASSUME NEW e \in Messages, DeleteMessage(e) PROVE BatchInv'
  <2>1. /\ batch'.todo = batch.todo \ {e} /\ batch'.stage \in {"polling", "take"}
        /\ batch'.todo = {} <=> batch'.stage = "polling"
        /\ BatchShape'
    BY <1>7, NextMessageRest DEF DeleteMessage, NextMessage
  <2>2. e \in written \cup Uneventful
    BY <1>7 DEF DeleteMessage, DeletedAreWritten
  <2>3. CASE failed' = failed \cup {e} /\ UNCHANGED <<queue, inFlight>>
    BY <1>7, <2>1, <2>3 DEF DeleteMessage, BatchTypeOK, NothingIsLost, ReceptionsAddUp,
                            DeletedAreWritten
  <2>4. CASE UNCHANGED failed /\ queue' = queue \ {e} /\ inFlight' = inFlight \ {e}
    BY <1>7, <2>1, <2>2, <2>4 DEF DeleteMessage, BatchTypeOK, NothingIsLost, ReceptionsAddUp,
                                  DeletedAreWritten
  <2> QED
    BY <1>7, <2>3, <2>4 DEF DeleteMessage
<1>8. CASE UNCHANGED batchVars
  BY <1>8 DEF batchVars, BatchTypeOK, NothingIsLost, BatchShape, ReceptionsAddUp,
              DeletedAreWritten, IsNext, Polling
<1>9. ASSUME Crash PROVE BatchInv'
  BY <1>4, <1>9 DEF Crash
<1> QED
  BY <1>1, <1>2, <1>3, <1>5, <1>6, <1>7, <1>8, <1>9 DEF BatchNext

(* What a batch writes is about an account approved when it began.          *)
LEMMA WritesAreApproved ==
  BatchInv /\ [BatchNext]_batchVars =>
    \A e \in written' \ written : EventTargets[e] \notin batch.before
<1> SUFFICES ASSUME BatchInv, [BatchNext]_batchVars, NEW e \in written' \ written
             PROVE  EventTargets[e] \notin batch.before
  OBVIOUS
<1>1. PICK m \in Messages : TakeMessage(m)
  BY DEF BatchNext, batchVars, CloseAccount, ShowAgain, ReceiveBatch, Discover, Crash, DeleteMessage
<1>2. e = m /\ ApprovedTarget(m)
  BY <1>1 DEF TakeMessage
<1>3. batch.scope \cap batch.before = {}
  BY <1>1 DEF TakeMessage, BatchInv, BatchShape, Polling
<1> QED
  BY <1>2, <1>3 DEF ApprovedTarget

(* Every message is written or fails by itself, and is deleted only then.     *)
THEOREM Handled == BatchSpec => EventsAreHandled
<1>1. BatchInv => BatchTypeOK /\ NothingIsLost
  BY DEF BatchInv
<1>2. BatchInv /\ [BatchNext]_batchVars =>
        [\A e \in written' \ written : EventTargets[e] \notin batch.before]_batchVars
  BY WritesAreApproved
<1>3. BatchSpec => []BatchInv
  BY BatchInvInit, BatchInvNext, PTL DEF BatchSpec
<1> QED
  BY <1>1, <1>2, <1>3, PTL DEF BatchSpec, EventsAreHandled, ClosedAccountsStayOut

-----------------------------------------------------------------------------
(* NetworkCollection: a stage that ran since the last change has written   *)
(* what there is.                                                          *)
NetworkMirrored ==
  /\ "security-groups" \in collected => rules = UNION {RuleVertices(g) : g \in SecurityGroups}
  /\ "network" \in collected =>
       /\ aclEntries = UNION {AclEntryVertices(a) : a \in Acls}
       /\ uses = {<<aclOf[s], s>> : s \in Subnets}

NetworkInv == NetworkTypeOK /\ NetworkMirrored

LEMMA NetworkStarts == NetworkParameters /\ NetworkInit => NetworkInv
BY DEF NetworkParameters, NetworkInit, NetworkInv, NetworkTypeOK, NetworkMirrored, World, Cidrs

(* A change of the account leaves no stage up to date.                     *)
LEMMA ChangeForgets ==
  ASSUME NetworkParameters, NetworkInv, NetworkChanged,
         permitted' \in [SecurityGroups -> [Ranges -> SUBSET Cidrs]],
         entries' \in [Acls -> [Directions -> [RuleNumbers -> Entries \cup {NoEntry}]]],
         aclOf' \in [Subnets -> Acls], DOMAIN logs' = Vpcs,
         balancers' \in [Subnets -> {"none", "internal", "internet-facing"}]
  PROVE  NetworkInv'
BY DEF NetworkParameters, NetworkInv, NetworkTypeOK, NetworkMirrored, NetworkChanged, networkGraph

LEMMA RulesFound ==
  ASSUME NetworkInv, CollectSecurityGroups
  PROVE  NetworkInv'
<1>1. UNCHANGED <<permitted, entries, aclOf, logs, balancers, aclEntries, uses, vpcs, facing,
                  networkChanges>>
  BY DEF CollectSecurityGroups, networkAws
<1>2. rules' = UNION {RuleVertices(g)' : g \in SecurityGroups}
  BY <1>1 DEF CollectSecurityGroups, RuleVertices, IngressRules
<1>3. \A v \in rules' : v.cidr \in World
  BY <1>1, <1>2 DEF RuleVertices
<1>4. NetworkTypeOK'
  BY <1>1, <1>3 DEF NetworkInv, NetworkTypeOK, CollectSecurityGroups
<1>5. \A a \in Acls : AclEntryVertices(a)' = AclEntryVertices(a)
  BY <1>1 DEF AclEntryVertices
<1>6. NetworkMirrored'
  BY <1>1, <1>2, <1>5 DEF NetworkInv, NetworkMirrored, CollectSecurityGroups
<1> QED
  BY <1>4, <1>6 DEF NetworkInv

LEMMA EntriesFound ==
  ASSUME NetworkInv, CollectNetwork
  PROVE  NetworkInv'
<1>1. UNCHANGED <<permitted, entries, aclOf, logs, balancers, rules, groupVertices, facing,
                  networkChanges>>
  BY DEF CollectNetwork, networkAws
<1>2. aclEntries' = UNION {AclEntryVertices(a)' : a \in Acls}
  BY <1>1 DEF CollectNetwork, AclEntryVertices
<1>3. \A v \in aclEntries' : v.number \in RuleNumbers
  BY <1>2 DEF AclEntryVertices
<1>4. NetworkTypeOK'
  BY <1>1, <1>3 DEF NetworkInv, NetworkTypeOK, CollectNetwork
<1>5. \A g \in SecurityGroups : RuleVertices(g)' = RuleVertices(g)
  BY <1>1 DEF RuleVertices, IngressRules
<1>6. NetworkMirrored'
  BY <1>1, <1>2, <1>5 DEF NetworkInv, NetworkMirrored, CollectNetwork
<1> QED
  BY <1>4, <1>6 DEF NetworkInv

LEMMA NetworkStep ==
  ASSUME NetworkParameters, NetworkInv, [NetworkNext]_networkVars
  PROVE  NetworkInv'
<1> USE NetworkParameters
<1>1. CASE EditPermission
  BY <1>1, ChangeForgets DEF EditPermission, NetworkInv, NetworkTypeOK
<1>2. CASE EditEntry
  BY <1>2, ChangeForgets DEF EditEntry, NetworkInv, NetworkTypeOK
<1>3. CASE MoveSubnet
  BY <1>3, ChangeForgets DEF MoveSubnet, NetworkInv, NetworkTypeOK
<1>4. CASE EditLogs
  BY <1>4, ChangeForgets DEF EditLogs, NetworkInv, NetworkTypeOK
<1>5. CASE EditBalancer
  BY <1>5, ChangeForgets DEF EditBalancer, NetworkInv, NetworkTypeOK
<1>6. CASE CollectSecurityGroups
  BY <1>6, RulesFound
<1>7. CASE CollectNetwork
  BY <1>7, EntriesFound
<1>8. CASE /\ UNCHANGED <<networkAws, rules, groupVertices, aclEntries, uses, vpcs, networkChanges>>
           /\ facing' \subseteq Subnets
           /\ collected' \in {collected \cup {"load-balancers"}}
                               \cup {collected \ {s} : s \in {"security-groups", "network", "load-balancers"}}
                               \cup {collected}
  <2>1. UNCHANGED <<permitted, entries, aclOf, logs, balancers>>
    BY <1>8 DEF networkAws
  <2>2. NetworkTypeOK'
    BY <1>8, <2>1 DEF NetworkInv, NetworkTypeOK
  <2>3. /\ \A g \in SecurityGroups : RuleVertices(g)' = RuleVertices(g)
        /\ \A a \in Acls : AclEntryVertices(a)' = AclEntryVertices(a)
    BY <2>1 DEF RuleVertices, IngressRules, AclEntryVertices
  <2>4. NetworkMirrored'
    BY <1>8, <2>1, <2>3 DEF NetworkInv, NetworkMirrored
  <2> QED
    BY <2>2, <2>4 DEF NetworkInv
<1>9. CASE CollectLoadBalancers
  BY <1>9, <1>8 DEF CollectLoadBalancers
<1>10. CASE \E s \in {"security-groups", "network", "load-balancers"} : NetworkStageFails(s)
  BY <1>10, <1>8 DEF NetworkStageFails, networkGraph, NetworkInv, NetworkTypeOK
<1>11. CASE UNCHANGED networkVars
  BY <1>11, <1>8 DEF networkVars, networkAws, NetworkInv, NetworkTypeOK
<1> QED
  BY <1>1, <1>2, <1>3, <1>4, <1>5, <1>6, <1>7, <1>9, <1>10, <1>11 DEF NetworkNext

-----------------------------------------------------------------------------
(* What is flagged is what is open.                                        *)
LEMMA FlaggedIsOpen ==
  ASSUME NetworkParameters, NetworkInv, "security-groups" \in collected,
         NEW g \in SecurityGroups, NEW c \in World
  PROVE  Flagged(g, c) <=> PortZeroOpenTo(g, c) \/ \E p \in ServerPorts : OpenTo(g, c, p)
<1> DEFINE Vertex(h, r, d) == [group |-> h, proto |-> r[1], from |-> r[2], to |-> r[3], cidr |-> d]
<1>1. rules = UNION {RuleVertices(h) : h \in SecurityGroups}
  BY DEF NetworkInv, NetworkMirrored
<1>2. \A v \in rules : \E h \in SecurityGroups, r \in Ranges, d \in World :
          d \in permitted[h][r] /\ v = Vertex(h, r, d)
  BY <1>1 DEF RuleVertices, IngressRules
<1>3. \A r \in Ranges : c \in permitted[g][r] => Vertex(g, r, c) \in rules
  BY <1>1 DEF RuleVertices, IngressRules
<1>4. ASSUME Flagged(g, c)
      PROVE  PortZeroOpenTo(g, c) \/ \E p \in ServerPorts : OpenTo(g, c, p)
  <2>1. PICK v \in rules, p \in ServerPorts :
           v.group = g /\ v.cidr = c /\ v.proto \in {"tcp", "-1"} /\ InRange(v, p)
    BY <1>4 DEF Flagged
  <2>2. PICK r \in Ranges : c \in permitted[g][r] /\ v = Vertex(g, r, c)
    BY <1>2, <2>1
  <2>3. v.proto = r[1] /\ v.from = r[2] /\ v.to = r[3]
    BY <2>2
  <2>4. CASE r[1] = "-1"
    BY <2>2, <2>4 DEF OpenTo
  <2>5. CASE r[1] = "tcp" /\ r[2] = 0 /\ r[3] = 0
    BY <2>2, <2>5 DEF PortZeroOpenTo, NetworkParameters
  <2>6. CASE r[1] = "tcp" /\ r[2] <= p /\ p <= r[3]
    BY <2>2, <2>6 DEF OpenTo
  <2> QED
    BY <2>1, <2>3, <2>4, <2>5, <2>6 DEF InRange
<1>5. ASSUME PortZeroOpenTo(g, c), ServerPorts # {}
      PROVE  Flagged(g, c)
  <2>1. PICK r \in Ranges : r = <<"tcp", 0, 0>> /\ c \in permitted[g][r]
    BY <1>5 DEF PortZeroOpenTo
  <2>2. Vertex(g, r, c) \in rules
    BY <1>3, <2>1
  <2> QED
    BY <1>5, <2>1, <2>2 DEF Flagged, InRange
<1>6. ASSUME NEW p \in ServerPorts, OpenTo(g, c, p)
      PROVE  Flagged(g, c)
  <2>1. PICK r \in Ranges : /\ c \in permitted[g][r]
                            /\ \/ r[1] = "-1" /\ r[2] = 0 /\ r[3] = 0
                               \/ r[1] = "tcp" /\ r[2] <= p /\ p <= r[3]
    BY <1>6 DEF OpenTo, NetworkParameters
  <2>2. Vertex(g, r, c) \in rules
    BY <1>3, <2>1
  <2> QED
    BY <2>1, <2>2 DEF Flagged, InRange
<1> QED
  BY <1>4, <1>5, <1>6 DEF NetworkParameters

LEMMA LeastNumber ==
  ASSUME NEW T, T \subseteq Nat, T # {}
  PROVE  \E x \in T : \A y \in T : x <= y
<1> DEFINE R == {ss \in Nat \X Nat : ss[1] < ss[2]}
<1>1. IsWellFoundedOn(R, Nat)
  BY NatLessThanWellFounded DEF OpToRel
<1> HIDE DEF R
<1>2. PICK x \in T : \A y \in T : ~ (<<y, x>> \in R)
  BY <1>1, WFMin
<1>3. \A y \in T : ~ (y < x)
  BY <1>2 DEF R
<1> QED
  BY <1>3

(* The vertex of an entry fits what the entry fits.                        *)
LEMMA VertexFits ==
  ASSUME NetworkParameters, NEW e \in Entries, NEW cidr, NEW port
  PROVE  /\ e # NoEntry
         /\ Fits(e, cidr, port) <=>
              /\ e.cidr = cidr
              /\ \/ NormalizeAclProtocol(e.proto) = "-1"
                 \/ NormalizeAclProtocol(e.proto) = "tcp" /\ e.from <= port /\ port <= e.to
BY DEF NetworkParameters, Fits, NoEntry, NormalizeAclProtocol

(* The vertices decide as the entries do.                                  *)
LEMMA VerdictsAgree ==
  ASSUME NetworkParameters, NetworkInv, "network" \in collected,
         NEW a \in Acls, NEW d \in Directions, NEW c \in Cidrs, NEW p \in ServerPorts
  PROVE  VerdictOf(a, d, c, p) = AclVerdict(a, d, c, p)
<1> DEFINE e(n) == entries[a][d][n]
           fitting == {n \in RuleNumbers : Fits(e(n), c, p)}
           found == EntriesOf(a, d, c, p)
<1>1. \A n \in RuleNumbers : e(n) \in Entries \cup {NoEntry}
  BY DEF NetworkInv, NetworkTypeOK
<1>2. \A v \in found : /\ v.number \in fitting /\ v.action = e(v.number).action
  <2> SUFFICES ASSUME NEW v \in found
               PROVE  v.number \in fitting /\ v.action = e(v.number).action
    OBVIOUS
  <2>1. /\ v \in aclEntries /\ v.acl = a /\ v.direction = d /\ v.cidr = c
        /\ v.proto = "-1" \/ (v.proto = "tcp" /\ v.from <= p /\ p <= v.to)
    BY DEF EntriesOf
  <2>2. PICK b \in Acls, x \in Directions \X RuleNumbers :
           /\ entries[b][x[1]][x[2]] # NoEntry
           /\ v = [acl |-> b, direction |-> x[1], number |-> x[2],
                   action |-> entries[b][x[1]][x[2]].action,
                   proto |-> NormalizeAclProtocol(entries[b][x[1]][x[2]].proto),
                   from |-> entries[b][x[1]][x[2]].from, to |-> entries[b][x[1]][x[2]].to,
                   cidr |-> entries[b][x[1]][x[2]].cidr]
    BY <2>1 DEF NetworkInv, NetworkMirrored, AclEntryVertices
  <2>3. b = a /\ x[1] = d /\ x[2] \in RuleNumbers /\ v.number = x[2]
    BY <2>1, <2>2
  <2>4. /\ e(v.number) # NoEntry /\ v.action = e(v.number).action
        /\ v.proto = NormalizeAclProtocol(e(v.number).proto)
        /\ v.from = e(v.number).from /\ v.to = e(v.number).to /\ v.cidr = e(v.number).cidr
    BY <2>2, <2>3
  <2>5. e(v.number) \in Entries
    BY <1>1, <2>3, <2>4
  <2> HIDE DEF e
  <2>6. Fits(e(v.number), c, p)
    BY <2>1, <2>4, <2>5, VertexFits
  <2> QED
    BY <2>3, <2>4, <2>6
<1>3. \A n \in fitting : \E v \in found : v.number = n
  <2> SUFFICES ASSUME NEW n \in RuleNumbers, Fits(e(n), c, p)
               PROVE  \E v \in found : v.number = n
    OBVIOUS
  <2>1. e(n) # NoEntry /\ e(n) \in Entries
    BY <1>1 DEF Fits
  <2> DEFINE v == [acl |-> a, direction |-> d, number |-> n, action |-> e(n).action,
                   proto |-> NormalizeAclProtocol(e(n).proto),
                   from |-> e(n).from, to |-> e(n).to, cidr |-> e(n).cidr]
  <2>2. v \in AclEntryVertices(a)
    <3>1. <<d, n>> \in {y \in Directions \X RuleNumbers : entries[a][y[1]][y[2]] # NoEntry}
      BY <2>1
    <3> QED
      BY <3>1 DEF AclEntryVertices
  <2>3. v \in aclEntries
    BY <2>2 DEF NetworkInv, NetworkMirrored
  <2>4. /\ e(n).cidr = c
        /\ \/ NormalizeAclProtocol(e(n).proto) = "-1"
           \/ NormalizeAclProtocol(e(n).proto) = "tcp" /\ e(n).from <= p /\ p <= e(n).to
    <3> HIDE DEF e
    <3> QED
      BY <2>1, VertexFits
  <2> HIDE DEF e
  <2>5. v \in found
    BY <2>3, <2>4 DEF EntriesOf
  <2> QED
    BY <2>5
<1> HIDE DEF e
<1>4. {v.number : v \in found} = fitting
  BY <1>2, <1>3
<1>5. CASE fitting = {}
  <2>1. found = {}
    BY <1>2, <1>5
  <2> QED
    BY <1>5, <2>1 DEF VerdictOf, AclVerdict, e
<1>6. CASE fitting # {}
  <2>1. found # {}
    BY <1>3, <1>6
  <2>2. \E x \in fitting : \A y \in fitting : x <= y
    BY <1>6, LeastNumber DEF NetworkParameters
  <2>3. LowestOf(fitting) \in fitting
    BY <2>2 DEF LowestOf
  <2> DEFINE w == CHOOSE v \in found : v.number = LowestOf(fitting)
  <2>4. w \in found /\ w.number = LowestOf(fitting)
    BY <1>3, <2>3
  <2>5. w.action = e(LowestOf(fitting)).action
    BY <1>2, <2>4
  <2>6. VerdictOf(a, d, c, p) = w.action
    BY <1>4, <2>1 DEF VerdictOf
  <2>7. AclVerdict(a, d, c, p) = e(LowestOf(fitting)).action
    BY <1>6 DEF AclVerdict, e
  <2> QED
    BY <2>5, <2>6, <2>7
<1> QED
  BY <1>5, <1>6

(* NetworkRulesAreExact (NetworkCollection): whatever the account's groups *)
(* and ACLs become, what the vertices of a stage that ran since say of     *)
(* them is what AWS does.                                                  *)
THEOREM NetworkIsReadRight == NetworkSpec => []NetworkRulesAreExact
<1> USE NetworkParameters
<1>1. NetworkInit => NetworkInv
  BY NetworkStarts
<1>2. NetworkInv /\ [NetworkNext]_networkVars => NetworkInv'
  BY NetworkStep
<1>3. NetworkInv => NetworkRulesAreExact
  <2> SUFFICES ASSUME NetworkInv
               PROVE  AdminPortsAreExact /\ AclVerdictsSurvive
    BY DEF NetworkRulesAreExact, NetworkInv
  <2>1. AdminPortsAreExact
    BY FlaggedIsOpen DEF AdminPortsAreExact
  <2>2. "network" \in collected =>
          \A a \in Acls, s \in Subnets : <<a, s>> \in uses <=> aclOf[s] = a
    BY DEF NetworkInv, NetworkMirrored
  <2>3. AclVerdictsSurvive
    BY <2>2, VerdictsAgree DEF AclVerdictsSurvive
  <2> QED
    BY <2>1, <2>3
<1> QED
  BY <1>1, <1>2, <1>3, PTL DEF NetworkSpec
=============================================================================
