---------------------------- MODULE TrustCenter ----------------------------
(***************************************************************************)
(* From Security Hub to the public trust center, in two parts.             *)
(*                                                                         *)
(* The comparison of Khalifa's CIS report with Security Hub, made at the   *)
(* end of every compliance run (risk-engine/src/cis-reconciliation.ts and  *)
(* run-compliance-once.ts).  A run that reads everything saves a record    *)
(* that carries, per requirement, since when Security Hub's status held    *)
(* and since when the two agreed; a run that cannot read saves a STALE     *)
(* record; a run whose save fails leaves no record.  The next run reads    *)
(* only the latest record, so what it carries must not span a hole.        *)
(*                                                                         *)
(* The public page: the API lists what the latest record lets it publish   *)
(* (api-service/src/routes/trust-center.ts), the sync turns the list into  *)
(* the page's configuration and a changelog (scripts/trust-center-sync),   *)
(* the builder and the deployment put it on the site (trust-center/        *)
(* build.ts).  Each step fails closed: the site keeps what it shows.  The  *)
(* sync finds what was last published in its own output directory, or, in  *)
(* a fresh one, on the site.                                               *)
(*                                                                         *)
(* Time advances in ticks of six hours, the longest distance between two   *)
(* records that carries stability.                                         *)
(***************************************************************************)
EXTENDS Integers, FiniteSets, SequencesExt

CONSTANTS
  Requirements,    \* the CIS requirements Security Hub's controls implement
  Cells,           \* triples <<control, account, region>> Security Hub may report on
  Implements,      \* the requirement of each control
  CisResults,      \* what Khalifa's report may say of a requirement
  Allowlist,       \* the requirements that may be published
  MinAgreementDays,
  Day,             \* ticks of a day
  MaxGap,          \* ticks two records may lie apart
  Epoch,           \* no agreement starts before this tick
  MappedCitations, \* mapped requirement -> the controls it cites
  BaselineControls,  \* Khalifa's own controls among them
  MaxAge,          \* ticks after which a record is not published any more
  ChangelogLimit,
  MaxNow, MaxHubChanges, MaxRecFaults   \* bounds of the instance

\* What is published is keyed by framework and requirement.
ASSUME TrustParameters ==
  /\ Requirements \cap DOMAIN MappedCitations = {} /\ Requirements \cap BaselineControls = {}
  /\ IsFiniteSet(Requirements \cup DOMAIN MappedCitations)
  /\ \E v \in CisResults : v.by = "nothing"
  /\ MinAgreementDays \in Nat /\ Day \in Nat \ {0} /\ MaxGap \in Nat /\ Epoch \in Nat
  /\ MaxNow \in Nat /\ MaxAge \in Nat /\ ChangelogLimit \in Nat

VARIABLES
  now,
  hub,       \* Security Hub's findings: a status per cell, "none" without one
  khalifa,   \* what Khalifa's assessment of a requirement says
  recJob,    \* the compliance run: idle, or assessed with its report
  records,   \* the reconciliation records of the reports table, oldest first
  hubChanges, recFaults

hubVars == <<now, hub, khalifa, hubChanges>>
recVars == <<now, hub, khalifa, recJob, records, hubChanges, recFaults>>

NoTime == -1
ShStatuses == {"PASSED", "FAILED", "NO_DATA", "NOT_EVALUATED"}

-----------------------------------------------------------------------------
(* What Security Hub says. *)

Combine(statuses) ==
  CASE "FAILED" \in statuses -> "FAILED"
    [] "FAILED" \notin statuses /\ "NO_DATA" \in statuses -> "NO_DATA"
    [] statuses \cap {"FAILED", "NO_DATA"} = {} /\ "PASSED" \in statuses -> "PASSED"
    [] OTHER -> "NOT_EVALUATED"

Found(findings, r) == {c \in Cells : Implements[c[1]] = r /\ findings[c] # "none"}

ByAccount(findings, r) ==
  [a \in {c[2] : c \in Found(findings, r)} |->
     Combine({findings[c] : c \in {d \in Found(findings, r) : d[2] = a}})]

ByAccountRegion(findings, r) ==
  [k \in {<<c[2], c[3]>> : c \in Found(findings, r)} |->
     Combine({findings[c] : c \in {d \in Found(findings, r) : <<d[2], d[3]>> = k}})]

\* Khalifa's result for a requirement: per account or per account and region
\* where its evidence says which were assessed, for the organisation otherwise.
KhalifaView(result) ==
  [scope |-> IF result.status \notin {"PASS", "FAIL"} THEN "none"
             ELSE IF result.by = "nothing" THEN "aggregate" ELSE result.by,
   results |-> [k \in result.assessed |-> IF k \in result.failing THEN "FAIL" ELSE "PASS"]]

\* A Khalifa FAIL counts where Security Hub evaluated nothing; a PASS does not.
KhalifaFails(view, key) ==
  LET k == IF view.scope = "account" THEN key[1] ELSE key
  IN  k \in DOMAIN view.results /\ view.results[k] = "FAIL"

SecurityHubView(view, findings, r) ==
  LET by == ByAccountRegion(findings, r)
      statuses == {by[k] : k \in DOMAIN by} \ {"NOT_EVALUATED"}
      filled == \E k \in DOMAIN by : by[k] = "NOT_EVALUATED" /\ KhalifaFails(view, k)
      all == statuses \cup (IF filled THEN {"FAILED"} ELSE {})
  IN  [status |-> IF "FAILED" \in all THEN "FAILED"
                  ELSE IF "PASSED" \in all THEN "PASSED" ELSE "null",
       noData |-> "NO_DATA" \in all]

-----------------------------------------------------------------------------
(* Khalifa against Security Hub. *)

Comparable(view, findings, r) ==
  LET by == IF view.scope = "account" THEN ByAccount(findings, r)
                                      ELSE ByAccountRegion(findings, r)
  IN  {<<view.results[k], by[k]>> :
         k \in {x \in DOMAIN view.results \cap DOMAIN by : by[x] \in {"PASSED", "FAILED"}}}

\* An org-wide result is never an agreement: a PASS can only be contradicted.
CompareOne(view, findings, r) ==
  /\ view.scope \in {"account", "account-region"}
  /\ Comparable(view, findings, r) # {}
  /\ Comparable(view, findings, r) \subseteq {<<"PASS", "PASSED">>, <<"FAIL", "FAILED">>}

-----------------------------------------------------------------------------
(* One record. *)

Days(since, at) == IF since = NoTime THEN 0 ELSE (at - since) \div Day

Latest ==
  IF records = <<>> THEN [status |-> "none", at |-> NoTime] ELSE records[Len(records)]

ContinuousAnyAge(previous, at) == previous.status = "OK"

Continuous(previous, at) == previous.status = "OK" /\ at - previous.at <= MaxGap

Later(a, b) == IF a > b THEN a ELSE b

AgreeingSince(before, agrees, at) ==
  IF ~ agrees THEN NoTime
  ELSE IF before = NoTime THEN at
  ELSE Later(before, Epoch)

StableSince(before, view, at) ==
  IF view.status = "null" \/ view.noData THEN NoTime
  ELSE IF before.status = view.status /\ before.stableSince # NoTime
    THEN before.stableSince
    ELSE at

\* What a requirement starts from when the previous record does not count.
FromScratch == [status |-> "absent", stableSince |-> NoTime, agreeingSince |-> NoTime]

Compared(report, findings, before, at, r) ==
  LET view == SecurityHubView(KhalifaView(report[r]), findings, r)
      agrees == CompareOne(KhalifaView(report[r]), findings, r)
      since == StableSince(before, view, at)
  IN  [khalifa |-> report[r].status,
       agreeingSince |-> AgreeingSince(before.agreeingSince, agrees, at),
       status |-> view.status,
       noData |-> view.noData,
       stableSince |-> since,
       publishable |-> /\ r \in Allowlist
                       /\ since # NoTime
                       /\ Days(since, at) >= MinAgreementDays]

ReconcileReports(report, findings, previous, at) ==
  [status |-> "OK", at |-> at,
   by |-> [r \in Requirements |->
             Compared(report, findings,
                      IF Continuous(previous, at) THEN previous.by[r] ELSE FromScratch, at, r)]]

StaleRecord(at) == [status |-> "STALE", at |-> at]

-----------------------------------------------------------------------------
RecInit ==
  /\ now = 0
  /\ hub = [c \in Cells |-> "PASSED"]
  /\ khalifa = [r \in Requirements |-> CHOOSE v \in CisResults : v.by = "nothing"]
  /\ recJob = [stage |-> "idle"]
  /\ records = <<>>
  /\ hubChanges = 0 /\ recFaults = 0

\* A run takes less than a tick.
NextTick ==
  /\ now < MaxNow /\ recJob.stage = "idle"
  /\ now' = now + 1
  /\ UNCHANGED <<hub, khalifa, recJob, records, hubChanges, recFaults>>

\* Security Hub re-evaluates a control, or loses its data.
HubChanges ==
  /\ hubChanges < MaxHubChanges
  /\ \E c \in Cells, s \in ShStatuses \cup {"none"} :
       s # hub[c] /\ hub' = [hub EXCEPT ![c] = s]
  /\ hubChanges' = hubChanges + 1
  /\ UNCHANGED <<now, khalifa, recJob, records, recFaults>>

KhalifaChanges ==
  /\ hubChanges < MaxHubChanges
  /\ \E r \in Requirements, v \in CisResults :
       v # khalifa[r] /\ khalifa' = [khalifa EXCEPT ![r] = v]
  /\ hubChanges' = hubChanges + 1
  /\ UNCHANGED <<now, hub, recJob, records, recFaults>>

\* The assessments of a run: the CIS report, or none when it was not made.
Assess ==
  /\ recJob.stage = "idle"
  /\ Latest.at < now
  /\ \/ recJob' = [stage |-> "assessed", report |-> khalifa] /\ UNCHANGED recFaults
     \/ /\ recFaults < MaxRecFaults /\ recFaults' = recFaults + 1
        /\ recJob' = [stage |-> "unreported"]
  /\ UNCHANGED <<hubVars, records>>

\* The run's record; Unread stands for the findings or the latest record.
RecordOf(unread) ==
  IF recJob.stage = "unreported" \/ unread THEN StaleRecord(now)
  ELSE ReconcileReports(recJob.report, hub, Latest, now)

\* Never throws: what cannot be read becomes a STALE record, and a record that
\* cannot be saved is only logged.
RunReconciliation ==
  /\ recJob.stage \in {"assessed", "unreported"}
  /\ \E unread, unsaved \in BOOLEAN :
       LET failed == (IF unread THEN 1 ELSE 0) + (IF unsaved THEN 1 ELSE 0)
       IN  /\ recFaults + failed <= MaxRecFaults
           /\ recFaults' = recFaults + failed
           /\ records' = IF unsaved THEN records ELSE Append(records, RecordOf(unread))
  /\ recJob' = [stage |-> "idle"]
  /\ UNCHANGED hubVars

\* The run is killed before it reconciles: no record.
Killed ==
  /\ recJob.stage # "idle" /\ recFaults < MaxRecFaults
  /\ recJob' = [stage |-> "idle"]
  /\ recFaults' = recFaults + 1
  /\ UNCHANGED <<hubVars, records>>

RecNext == NextTick \/ HubChanges \/ KhalifaChanges \/ Assess \/ RunReconciliation \/ Killed

RecSpec == RecInit /\ [][RecNext]_recVars

-----------------------------------------------------------------------------
(* Properties. *)

\* The type invariant of the reconciliation.
RecTypeOK ==
  /\ now \in 0..MaxNow
  /\ hub \in [Cells -> ShStatuses \cup {"none"}]
  /\ khalifa \in [Requirements -> CisResults]
  /\ recJob.stage \in {"idle", "assessed", "unreported"}
  /\ \A i \in 1..Len(records) :
       /\ records[i].status \in {"OK", "STALE"}
       /\ i > 1 => records[i - 1].at < records[i].at

\* The records from since to the i-th are OK, hold what is claimed and leave no
\* hole between two runs.
Unbroken(i, since, Holds(_)) ==
  since # NoTime =>
    \A j \in 1..i : records[j].at >= since =>
      /\ records[j].status = "OK" /\ Holds(records[j])
      /\ j < i => records[j + 1].at - records[j].at <= MaxGap

\* A status said to have held since some run was Security Hub's status in every
\* run since, with no data missing, no run STALE and no hole between two of
\* them, although every run looks only at the record before its own; and so for
\* the agreement with Khalifa.
StabilityIsUnbroken ==
  \A i \in 1..Len(records) : records[i].status = "OK" =>
    \A r \in Requirements :
      LET mine == records[i].by[r]
          Same(rec) == rec.by[r].status = mine.status /\ ~ rec.by[r].noData
          Agrees(rec) == rec.by[r].agreeingSince # NoTime
      IN  /\ Unbroken(i, mine.stableSince, Same)
          /\ Unbroken(i, mine.agreeingSince, Agrees)

-----------------------------------------------------------------------------
(* The public page. *)

VARIABLES
  baseline,   \* the latest Khalifa baseline report: a status per control
  files,      \* the sync's posture-state.json, or Nothing
  ready,      \* a synchronised configuration waits to be deployed
  site        \* what the site shows, or Nothing

tcVars == <<baseline, files, ready, site>>
tcAllVars == <<recVars, tcVars>>

Nothing == [at |-> NoTime]

PageAnswer(status) == IF status = "PASS" THEN "implemented" ELSE "partial"

-----------------------------------------------------------------------------
(* The endpoint. *)

\* One result per requirement that the record lets out.
CisPublishable(record) ==
  [r \in {q \in Requirements : /\ record.by[q].publishable
                               /\ record.by[q].khalifa \in {"PASS", "FAIL"}}
     |-> record.by[r].khalifa]

Resolvable(c, cis, statuses) ==
  c \in DOMAIN cis \/ (c \in DOMAIN statuses /\ statuses[c] \in {"PASS", "FAIL"})

ResultOf(c, cis, statuses) == IF c \in DOMAIN cis THEN cis[c] ELSE statuses[c]

\* A mapped requirement is published while every control it cites has a result.
DeriveMapped(cis, statuses) ==
  [m \in {n \in DOMAIN MappedCitations :
           /\ MappedCitations[n] # {}
           /\ \A c \in MappedCitations[n] : Resolvable(c, cis, statuses)} |->
     IF \E c \in MappedCitations[m] : ResultOf(c, cis, statuses) = "FAIL"
     THEN "FAIL" ELSE "PASS"]

PublishableStatus(record) ==
  IF record.status = "none" THEN "MISSING"
  ELSE IF record.status = "OK" /\ now - record.at <= MaxAge THEN "OK"
  ELSE "STALE"

\* An unreadable baseline report leaves the mapped requirements out.
Response(record, unread) ==
  LET cis == CisPublishable(record)
  IN  [requirements |-> cis,
       mapped |-> IF unread THEN <<>> ELSE DeriveMapped(cis, baseline)]

\* currentPosture: what the page answers for each requirement of a response.
Posture(response) ==
  [k \in DOMAIN response.requirements \cup DOMAIN response.mapped |->
     PageAnswer(IF k \in DOMAIN response.requirements
                THEN response.requirements[k] ELSE response.mapped[k])]

-----------------------------------------------------------------------------
(* The sync. *)

\* The keys whose answer differs: published, moved or no longer published.
DiffPosture(before, after) ==
  {k \in DOMAIN before \cup DOMAIN after :
     ~ (k \in DOMAIN before \cap DOMAIN after /\ before[k] = after[k])}

\* The changelog, newest first and cut off; none for a first publication.
NextChangelog(previous, posture) ==
  IF previous = Nothing THEN <<>>
  ELSE LET new == [i \in 1..Cardinality(DiffPosture(previous.posture, posture)) |->
                     [key |-> SetToSeq(DiffPosture(previous.posture, posture))[i],
                      date |-> now]]
           all == new \o previous.changelog
       IN  SubSeq(all, 1, IF Len(all) < ChangelogLimit THEN Len(all) ELSE ChangelogLimit)

\* record is build-meta.json's recordGeneratedAt; from is where the unbroken
\* line of previous states began (not in the file: the properties use it).
NextState(previous, posture, record) ==
  [at |-> now, posture |-> posture, record |-> record.at,
   changelog |-> NextChangelog(previous, posture),
   from |-> IF previous = Nothing THEN now ELSE previous.from]

\* The output directory first, the deployed site second; what cannot be read
\* counts as no previous publication.
LoadPreviousState(local, unread) ==
  IF local # Nothing THEN local ELSE IF unread THEN Nothing ELSE site

TcInit ==
  /\ RecInit
  /\ baseline = [c \in BaselineControls |-> "PASS"]
  /\ files = Nothing /\ ready = FALSE /\ site = Nothing

BaselineChanges ==
  /\ hubChanges < MaxHubChanges /\ hubChanges' = hubChanges + 1
  /\ \E c \in BaselineControls, s \in {"PASS", "FAIL", "NOT_EVALUATED"} :
       baseline[c] # s /\ baseline' = [baseline EXCEPT ![c] = s]
  /\ UNCHANGED <<now, hub, khalifa, recJob, records, recFaults, files, ready, site>>

\* A nightly sync that gets an OK response and writes its files, in the
\* directory of the last one or in a fresh one; anything else changes nothing.
RunSync ==
  /\ files.at < now /\ site.at < now
  /\ PublishableStatus(Latest) = "OK"
  /\ \E kept, unreadReport, unreadState \in BOOLEAN :
       LET failed == (IF unreadReport THEN 1 ELSE 0) + (IF unreadState THEN 1 ELSE 0)
           local == IF kept THEN files ELSE Nothing
           posture == Posture(Response(Latest, unreadReport))
       IN  /\ recFaults + failed <= MaxRecFaults /\ recFaults' = recFaults + failed
           /\ files' = NextState(LoadPreviousState(local, unreadState), posture, Latest)
  /\ ready' = TRUE
  /\ UNCHANGED <<hubVars, recJob, records, baseline, site>>

\* buildSite and the deployment, which runs only after a sync that succeeded.
DeployPage ==
  /\ ready /\ ready' = FALSE
  /\ site' = files
  /\ UNCHANGED <<recVars, baseline, files>>

DeployFails ==
  /\ ready /\ ready' = FALSE
  /\ recFaults < MaxRecFaults /\ recFaults' = recFaults + 1
  /\ UNCHANGED <<hubVars, recJob, records, baseline, files, site>>

TcNext ==
  \/ RecNext /\ UNCHANGED tcVars /\ (ready => now' = now)
  \/ BaselineChanges \/ RunSync \/ DeployPage \/ DeployFails

TcSpec == TcInit /\ [][TcNext]_tcAllVars

-----------------------------------------------------------------------------
(* Properties. *)

\* The type invariant of the pipeline.
TcTypeOK ==
  /\ RecTypeOK
  /\ baseline \in [BaselineControls -> {"PASS", "FAIL", "NOT_EVALUATED"}]
  /\ ready => files # Nothing
  /\ \A s \in {files, site} : s # Nothing =>
       /\ DOMAIN s.posture \subseteq Requirements \cup DOMAIN MappedCitations
       /\ Len(s.changelog) <= ChangelogLimit

\* A CIS requirement is on the page only if Security Hub's status had held for
\* MinAgreementDays in the record the page was made from: in every run of those
\* days, with no run missing, none STALE and no data missing.
PageIsSettled ==
  site # Nothing => \A r \in Requirements \cap DOMAIN site.posture :
    \E i, j \in 1..Len(records) :
      /\ records[i].at = site.record /\ j <= i
      /\ records[i].at - records[j].at >= MinAgreementDays * Day
      /\ \A k \in j..i :
           /\ records[k].status = "OK"
           /\ records[k].by[r].status = records[i].by[r].status /\ ~ records[k].by[r].noData
           /\ k < i => records[k + 1].at - records[k].at <= MaxGap

Shown(s, k) == IF k \in DOMAIN s.posture THEN s.posture[k] ELSE "not published"

\* Every answer that changes on the site is told in its changelog, dated after
\* the site it replaces, through failed deployments, fresh directories and
\* STALE records; unless the line of states was lost in between or more changes
\* than fit the changelog happened.
ChangesAreTold ==
  [][(site # Nothing /\ site' # Nothing /\ site'.from <= site.at
      /\ Len(site'.changelog) < ChangelogLimit) =>
       \A k \in Requirements \cup DOMAIN MappedCitations : Shown(site, k) # Shown(site', k) =>
         \E i \in 1..Len(site'.changelog) :
           site'.changelog[i].key = k /\ site'.changelog[i].date > site.at]_tcAllVars

\* A mapped requirement stands as implemented only next to the CIS requirements
\* it cites, each on the same page and implemented.
MappedStandsOnThePage ==
  site # Nothing => \A m \in DOMAIN MappedCitations \cap DOMAIN site.posture :
    site.posture[m] = "implemented" =>
      \A c \in MappedCitations[m] \cap Requirements :
        c \in DOMAIN site.posture /\ site.posture[c] = "implemented"

\* A status said to have held since some run held in every run since, without a
\* hole; a requirement is on the page only once its status has held for the days
\* it must; a mapped requirement stands as implemented only next to those it
\* cites; and every answer that changes is told in the changelog (runReconciliation,
\* publishableFrom, deriveMappedPublishable, nextState).
PageIsTrue ==
  /\ [](TcTypeOK /\ StabilityIsUnbroken /\ PageIsSettled /\ MappedStandsOnThePage)
  /\ ChangesAreTold

\* What is published is Security Hub's result (cis-reconciliation.ts:19-23 and
\* scripts/trust-center-sync/README.md).  The endpoint publishes Khalifa's.
PublishedIsSecurityHubs ==
  site # Nothing => \A r \in Requirements \cap DOMAIN site.posture :
    \A i \in 1..Len(records) : records[i].at = site.record =>
      (site.posture[r] = "implemented") = (records[i].by[r].status = "PASSED")
=============================================================================
