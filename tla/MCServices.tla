------------------------------ MODULE MCServices ------------------------------
(* What the scheduled jobs and the services promise, component by component.    *)
(* In a behaviour one component acts, the one `acting` names: the others do not *)
(* move, so the states add up instead of multiplying.                           *)
EXTENDS UsageSweep, DataScan, FlowLogs, ThreatIntel, SecretCounts, IssueListing,
        TrustCenter, ComplianceAssessment, FrameworkCatalogue, TLC

\* One user, analyses over two days, two anomaly queries.
UsageQueries == <<"q1", "q2">>
ASSUME UsageParameters == Parameters

\* Two buckets, one daily scan among events; one daily scan.
ASSUME ScanBounds == Bounds

\* Two interfaces of two instances, batches of one.
TwoAddresses == <<"a1", "a2">>

\* Two lists of at most two lines, some in the other case.
IntelTypes == <<"ip", "cve">>
IntelValues == [ip |-> {"10.0.0.1", "2001:db8::1"}, cve |-> {"cve-1", "CVE-1", "CVE-2"}]
IntelUpper == [x \in IntelValues.ip \cup IntelValues.cve |->
  CASE x = "2001:db8::1" -> "2001:DB8::1" [] x = "cve-1" -> "CVE-1" [] OTHER -> x]
IntelOnThePath == {<<"ip", "2001:db8::1">>, <<"cve", "cve-1">>}

\* Two requests to the cached count of two secrets; two policy rows.
TwoAccounts == <<"a", "b">>
SecretOf == "a" :> "s1" @@ "b" :> "s2"
Statement(i, effect, resource) ==
  [policy |-> "p1", id |-> i, effect |-> effect, conditional |-> FALSE, actions |-> "read",
   resources |-> {resource}, except |-> FALSE]
SecretPolicies == {[principal |-> "u", statement |-> Statement("1", "Allow", "*")],
                   [principal |-> "u", statement |-> Statement("2", "Deny", "arn1")]}
NamedSecrets == "*" :> {"s1", "s2"} @@ "arn1" :> {"s1"} @@ "arn2" :> {"s2"} @@ "arn:s3" :> {}

\* Three issues and one to come, pages of two, reads of one.
ListedLanes == <<"open", "suppressed", "resolved">>
TimesCreated == <<1, 2, 2, 3>>

\* One requirement that two controls of Security Hub implement, over four ticks.
HubCells == {<<"S3.1", "a", "ra">>, <<"S3.8", "a", "rb">>}
HubImplements == "S3.1" :> "2.1.4" @@ "S3.8" :> "2.1.4"
OwnResult(by, verdict, assessed, failing) ==
  [by |-> by, status |-> verdict, assessed |-> assessed, failing |-> failing]
OwnResults == {OwnResult("nothing", "PASS", {}, {}), OwnResult("account", "FAIL", {"a"}, {"a"}),
               OwnResult("account", "PASS", {"a"}, {})}
SocCitations == "CC6.1" :> {"2.1.4", "KH-1"}

VARIABLE acting

(* Two invocations of two rules that open at most one issue.                 *)
VARIABLES rulesRun, ruleResults, runTotals, openSeen, recording, mishaps, openIssues,
          openedIssues, today, trends, credited, lostCounts
Rules == INSTANCE RuleJob WITH
  Invocations <- {"i1", "i2"}, RuleOrder <- <<"ra", "rb">>, MaxIssues <- 1, MaxFaults <- 1,
  LastDay <- 1, run <- rulesRun
rulesVars == <<rulesRun, ruleResults, runTotals, openSeen, recording, mishaps, openIssues,
               openedIssues, today, trends, credited, lostCounts>>

AllInit ==
  /\ acting \in {"rules", "usage", "scan", "compliance", "trust", "flows", "intel",
                "readers", "listing"}
  /\ Rules!Init
  /\ Init
  /\ ScannerInit
  /\ AssessmentInit
  /\ TcInit
  /\ FlowInit
  /\ IntelInit
  /\ CountsInit
  /\ ListInit /\ (acting = "listing" \/ (order = "asc" /\ indexed /\ ToSet(status) = {"open"}))

RulesActs ==
  /\ acting = "rules" /\ Rules!Next
  /\ UNCHANGED <<acting, usageVars, scanVars, assessmentVars, tcAllVars, flowVars,
                  intelVars, countsVars, listVars>>
UsageActs ==
  /\ acting = "usage" /\ Next
  /\ UNCHANGED <<acting, rulesVars, scanVars, assessmentVars, tcAllVars, flowVars,
                  intelVars, countsVars, listVars>>
DspmActs ==
  /\ acting = "scan" /\ ScannerNext
  /\ UNCHANGED <<acting, rulesVars, usageVars, assessmentVars, tcAllVars, flowVars,
                  intelVars, countsVars, listVars>>
ComplianceActs ==
  /\ acting = "compliance" /\ AssessmentNext
  /\ UNCHANGED <<acting, rulesVars, usageVars, scanVars, tcAllVars, flowVars, intelVars,
                  countsVars, listVars>>
TrustActs ==
  /\ acting = "trust" /\ TcNext
  /\ UNCHANGED <<acting, rulesVars, usageVars, scanVars, assessmentVars, flowVars,
                  intelVars, countsVars, listVars>>
FlowActs ==
  /\ acting = "flows" /\ FlowNext
  /\ UNCHANGED <<acting, rulesVars, usageVars, scanVars, assessmentVars, tcAllVars,
                  intelVars, countsVars, listVars>>
IntelActs ==
  /\ acting = "intel" /\ IntelNext
  /\ UNCHANGED <<acting, rulesVars, usageVars, scanVars, assessmentVars, tcAllVars,
                  flowVars, countsVars, listVars>>
ReadersActs ==
  /\ acting = "readers" /\ CountsNext
  /\ UNCHANGED <<acting, rulesVars, usageVars, scanVars, assessmentVars, tcAllVars,
                  flowVars, intelVars, listVars>>
ListActs ==
  /\ acting = "listing" /\ ListNext
  /\ UNCHANGED <<acting, rulesVars, usageVars, scanVars, assessmentVars, tcAllVars,
                  flowVars, intelVars, countsVars>>

AllNext == RulesActs \/ UsageActs \/ DspmActs \/ ComplianceActs \/ TrustActs \/ FlowActs \/
  IntelActs \/ ReadersActs \/ ListActs
allVars == <<acting, rulesVars, usageVars, scanVars, assessmentVars, tcAllVars, flowVars,
          intelVars, countsVars, listVars>>
AllSpec == AllInit /\ [][AllNext]_allVars

\* Every issue a rule opened is in the trends, still carried by a run, or went
\* down with a run that broke off: overlapping runs, midnight and invocations
\* again lose none. And a run that ends on its own has run every rule and
\* recorded every trend, and says so when a rule had errors.
RulesAddUp == acting = "rules" =>
    Rules!TypeOK /\ Rules!OpenedIssuesAddUp /\ Rules!FailedRulesStopNothing
===============================================================================
