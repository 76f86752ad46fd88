------------------------ MODULE ComplianceAssessment -------------------------
(* A compliance assessment of the frameworks (compliance-engine,               *)
(* run-compliance-once), over the tables of FrameworkCatalogue: the Center for *)
(* Internet Security's controls and Khalifa's own are canonical, they are      *)
(* assessed control by control, by an evaluator or from the open issues of the *)
(* rules that measure the control; a requirement of a mapped framework is      *)
(* nothing but the controls it cites, its report is derived from the two.      *)
(* Then the results are reconciled with Security Hub. An evaluator may fail,   *)
(* as may every write of evidence and of a report.                             *)
EXTENDS Integers, FiniteSets, SequencesExt

CONSTANTS
  CisControls, KhalifaControls,  \* in the order they are assessed
  Manual,             \* the controls that are not automated
  Evaluators,         \* the controls that have one (see ComplianceControls)
  RelatedRules,       \* control -> the rules it is measured by without one
  Citations,          \* framework -> requirement -> the controls it cites
  MaxOdd              \* bound on what does not go its plain way

Canonical == <<"CIS_AWS_FOUNDATIONS", "KHALIFA_BASELINE">>
Mapped    == <<"SOC2", "ISO27001", "PCI_DSS", "NIST_800_53">>

\* No control is in both catalogues, and every mapped framework has its citations.
ASSUME ComplianceParameters ==
  /\ CisControls \in Seq(ToSet(CisControls))
  /\ KhalifaControls \in Seq(ToSet(KhalifaControls))
  /\ ToSet(CisControls) \cap ToSet(KhalifaControls) = {}
  /\ DOMAIN Citations = ToSet(Mapped)
  /\ \A f \in DOMAIN Citations : IsFiniteSet(DOMAIN Citations[f])

\* --- The job ----------------------------------------------------------------
VARIABLES frame, position,    \* the framework and the control the job is at
          controlResults,      \* of the framework being assessed
          done,         \* canonical framework -> the results this run has of it
          reports,      \* the table: framework -> its latest report
          failures,     \* what the run will fail with
          openRules,         \* rules with an open issue
          recon, runOutcome,  \* the reconciliation record, and how the run ended
          oddities, lostWrites     \* how much went another way; the kinds of writes lost

runVars == <<runOutcome, oddities, lostWrites>>
assessmentVars == <<frame, position, controlResults, done, reports, failures, openRules,
                    recon, runVars>>

AllFrameworks == Canonical \o Mapped
NoResults == <<>>
PutKey(f, key, value) ==
  [k \in DOMAIN f \cup {key} |-> IF k = key THEN value ELSE f[k]]
ControlStatuses == {"PASS", "FAIL", "MANUAL", "NOT_EVALUATED"}
AllRules == UNION {RelatedRules[c] : c \in DOMAIN RelatedRules}

AssessmentInit ==
  /\ frame = 0 /\ position = 1
  /\ controlResults = NoResults /\ done = NoResults /\ reports = NoResults
  /\ failures = {} /\ openRules = {} /\ recon = "none" /\ runOutcome = "none"
  /\ oddities = 0 /\ lostWrites = {}

\* --- One control ------------------------------------------------------------
ControlsOf(f) == IF f = "CIS_AWS_FOUNDATIONS" THEN CisControls ELSE KhalifaControls
Assessing ==
  frame \in 1 .. Len(Canonical) /\ position <= Len(ControlsOf(AllFrameworks[frame]))
Control == ControlsOf(AllFrameworks[frame])[position]
GoesOddly(b) ==
  IF b THEN oddities < MaxOdd /\ oddities' = oddities + 1 ELSE oddities' = oddities

RecordResult(status) ==
  /\ controlResults' = PutKey(controlResults, Control, status) /\ position' = position + 1
  /\ UNCHANGED <<frame, done, reports, openRules, recon, runOutcome>>

AssessManual ==
  /\ Assessing /\ Control \in Manual
  /\ RecordResult("MANUAL") /\ UNCHANGED <<failures, oddities, lostWrites>>

\* The evaluator's verdict and its evidence are kept.
Evaluate ==
  /\ Assessing /\ Control \in Evaluators \ Manual
  /\ \E s \in {"PASS", "FAIL", "NOT_EVALUATED"} : GoesOddly(s # "PASS") /\ RecordResult(s)
  /\ UNCHANGED <<failures, lostWrites>>

\* The evaluator fails, or the evidence is not taken in five attempts.
EvaluationFails ==
  /\ Assessing /\ Control \in Evaluators \ Manual /\ GoesOddly(TRUE)
  /\ failures' = failures \cup {<<AllFrameworks[frame], Control>>}
  /\ RecordResult("NOT_EVALUATED") /\ UNCHANGED lostWrites

\* evaluateFromRules: FAIL on any open issue of a related rule.
Measured(c) == c \in DOMAIN RelatedRules \ (Evaluators \cup Manual)
FromRules(c) == IF RelatedRules[c] \cap openRules = {} THEN "PASS" ELSE "FAIL"
AssessFromRules ==
  /\ Assessing /\ Measured(Control)
  /\ \/ GoesOddly(FALSE) /\ RecordResult(FromRules(Control))
     \* the issue store cannot be read
     \/ GoesOddly(TRUE) /\ RecordResult("NOT_EVALUATED")
  /\ UNCHANGED <<failures, lostWrites>>

\* Its evidence is saved outside the try: the error leaves the framework.
RuleEvidenceLost ==
  /\ Assessing /\ Measured(Control) /\ GoesOddly(TRUE) /\ lostWrites' = {"evidence"}
  /\ failures' = failures \cup {<<AllFrameworks[frame], "all">>}
  /\ frame' = frame + 1 /\ position' = 1 /\ controlResults' = NoResults
  /\ UNCHANGED <<done, reports, openRules, recon, runOutcome>>

NoEvaluator ==
  /\ Assessing /\ Control \notin Manual \cup Evaluators /\ ~Measured(Control)
  /\ RecordResult("NOT_EVALUATED") /\ UNCHANGED <<failures, oddities, lostWrites>>

\* --- Reports -------------------------------------------------------------------
\* summarizeResults: how many of each status, and the percentage of the automated
\* controls that were evaluated.
CountOf(r, s) == Cardinality({c \in DOMAIN r : r[c] = s})
Summary(r) ==
  LET automated == {c \in DOMAIN r : c \notin Manual}
      evaluated == {c \in automated : r[c] # "NOT_EVALUATED"}
  IN [total |-> Cardinality(DOMAIN r), count |-> [s \in ControlStatuses |-> CountOf(r, s)],
      coverage |-> IF automated = {} THEN 0
                   ELSE (200 * Cardinality(evaluated) + Cardinality(automated))
                          \div (2 * Cardinality(automated))]

SaveCanonical ==
  /\ frame \in 1 .. Len(Canonical) /\ ~Assessing
  /\ \/ /\ reports' = PutKey(reports, AllFrameworks[frame], controlResults)
        /\ done' = PutKey(done, AllFrameworks[frame], controlResults)
        /\ UNCHANGED <<failures, oddities, lostWrites>>
     \/ /\ GoesOddly(TRUE) /\ lostWrites' = {"report"} /\ UNCHANGED <<reports, done>>
        /\ failures' = failures \cup {<<AllFrameworks[frame], "all">>}
  /\ frame' = frame + 1 /\ position' = 1 /\ controlResults' = NoResults
  /\ UNCHANGED <<openRules, recon, runOutcome>>

\* deriveMappedReport: a cited control that this run has no result of counts as
\* not evaluated.
KeptResults(f) == IF f \in DOMAIN done THEN done[f] ELSE NoResults
RunResults ==
  LET cis == KeptResults("CIS_AWS_FOUNDATIONS")
      own == KeptResults("KHALIFA_BASELINE")
  IN [c \in DOMAIN cis \cup DOMAIN own |-> IF c \in DOMAIN cis THEN cis[c] ELSE own[c]]
FoundStatuses(cited) == {RunResults[c] : c \in cited \cap DOMAIN RunResults}
CitedStatuses(cited) ==
  {IF c \in DOMAIN RunResults THEN RunResults[c] ELSE "NOT_EVALUATED" : c \in cited}
AggregateMappedStatus(statuses) ==
  CASE statuses = {} -> "NOT_EVALUATED"
    [] "FAIL" \in statuses -> "FAIL"
    [] statuses = {"PASS"} -> "PASS"
    [] OTHER -> "NOT_EVALUATED"
Derived(f) == [r \in DOMAIN Citations[f] |->
                 AggregateMappedStatus(CitedStatuses(Citations[f][r]))]

SaveMapped ==
  /\ frame \in Len(Canonical) + 1 .. Len(AllFrameworks)
  /\ LET f == AllFrameworks[frame]
     IN reports' = PutKey(reports, f, Derived(f))
  /\ frame' = frame + 1
  /\ UNCHANGED <<position, controlResults, done, failures, openRules, recon, runVars>>

\* Nothing catches it: the run is over, the reconciliation with it.
MappedReportLost ==
  /\ frame \in Len(Canonical) + 1 .. Len(AllFrameworks)
  /\ GoesOddly(TRUE) /\ lostWrites' = {"report"}
  /\ frame' = Len(AllFrameworks) + 2 /\ runOutcome' = "failed"
  /\ UNCHANGED <<position, controlResults, done, reports, failures, openRules, recon>>

\* --- The run --------------------------------------------------------------------
BeginAssessment ==
  /\ frame = 0 /\ frame' = 1
  /\ UNCHANGED <<position, controlResults, done, reports, failures, openRules, recon, runVars>>

ReconcileResults ==
  /\ frame = Len(AllFrameworks) + 1
  /\ recon' = IF "CIS_AWS_FOUNDATIONS" \in DOMAIN done THEN "compared" ELSE "stale"
  /\ runOutcome' = IF failures = {} THEN "succeeded" ELSE "failed"
  /\ frame' = frame + 1
  /\ UNCHANGED <<position, controlResults, done, reports, failures, openRules, oddities,
                 lostWrites>>

\* Rules run, and analysts close issues, while the controls are assessed.
IssueChange(r) ==
  /\ frame <= Len(Canonical) /\ GoesOddly(TRUE)
  /\ openRules' = IF r \in openRules THEN openRules \ {r} ELSE openRules \cup {r}
  /\ UNCHANGED <<frame, position, controlResults, done, reports, failures, recon, runOutcome,
                 lostWrites>>

AssessmentNext ==
  \/ BeginAssessment \/ AssessManual \/ Evaluate \/ EvaluationFails \/ AssessFromRules
  \/ RuleEvidenceLost \/ NoEvaluator \/ SaveCanonical \/ SaveMapped
  \/ MappedReportLost \/ ReconcileResults \/ \E r \in AllRules : IssueChange(r)

AssessmentSpec == AssessmentInit /\ [][AssessmentNext]_assessmentVars

\* --- Properties --------------------------------------------------------------------
AssessmentTypeOK ==
  /\ frame \in 0 .. Len(AllFrameworks) + 2
  /\ runOutcome \in {"none", "succeeded", "failed"}
  /\ \A f \in DOMAIN reports :
       LET summary == Summary(reports[f])
       IN /\ \A c \in DOMAIN reports[f] : reports[f][c] \in ControlStatuses
          /\ summary.total = summary.count["PASS"] + summary.count["FAIL"]
                             + summary.count["MANUAL"] + summary.count["NOT_EVALUATED"]

\* No framework looks better than the evidence behind it: a requirement passes only
\* if this run assessed every control it cites and all of them passed, also when a
\* canonical framework's report is lost; and a cited control that fails fails it
\* (aggregateMappedStatus, "so the framework never looks better than the evidence").
MappedNeverLooksBetter ==
  \A f \in DOMAIN reports \cap DOMAIN Citations : \A r \in DOMAIN Citations[f] :
    LET Of(c, s) == \E g \in DOMAIN done : c \in DOMAIN done[g] /\ done[g][c] = s
    IN /\ reports[f][r] = "PASS" => \A c \in Citations[f][r] : Of(c, "PASS")
       /\ (\E c \in Citations[f][r] : Of(c, "FAIL")) => reports[f][r] = "FAIL"

\* One control's error costs its own result only: unless a write is lost, a run that
\* is over has saved every framework's report, reconciled, and is said to have failed
\* (runAllAssessments, after CIS 3.4 timed out and took the rest along).
ErrorsSpareTheRest ==
  runOutcome # "none" /\ lostWrites = {} =>
    /\ \A f \in 1 .. Len(AllFrameworks) : AllFrameworks[f] \in DOMAIN reports
    /\ recon = "compared"
    /\ runOutcome = "failed" <=> failures # {}

\* A requirement of a mapped framework passes only if this run assessed every
\* control it cites and all passed, also when a canonical report is lost; and a
\* control's error costs its own result only: unless a write is lost, the other
\* reports are saved, the records reconciled, and the run is said to have failed
\* (deriveMappedReport, runAllAssessments).
AssessmentsAreHonest == AssessmentTypeOK /\ MappedNeverLooksBetter /\ ErrorsSpareTheRest
=============================================================================
