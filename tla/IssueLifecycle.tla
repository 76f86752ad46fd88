---------------------------- MODULE IssueLifecycle ----------------------------
(***************************************************************************)
(* One risk rule's issues under everyone who writes them: the jobs that    *)
(* run the rule (RiskRuleRunner.runRule, packages/risk-engine/src/         *)
(* runner.ts), of which several may overlap (the CronJob's and a manual    *)
(* retry), and the analysts whose requests suppress and reopen issues      *)
(* (api-service/src/routes/integrations.ts).  A step ends where the code   *)
(* awaits, so every DynamoDB call is one step and other actors act between *)
(* a read and the write decided on it.                                     *)
(*                                                                         *)
(* First come the rows of the SecurityIssues table and the conditional     *)
(* writes of DynamoDBIssueRepository (issue-repository.ts).  Each of those *)
(* operators is a function of the row DynamoDB holds and of the copy the   *)
(* caller read earlier: the repository writes from the copy, under a       *)
(* condition on the row, and the two may differ.                           *)
(*                                                                         *)
(* Data is abstract: a severity is a rank, a resource a member of a set, a *)
(* time an integer.  The path summary, score, metadata and wording that a  *)
(* row also carries are read by nothing modelled here.                     *)
(***************************************************************************)
EXTENDS Naturals, Sequences

CONSTANTS
  Resource,      \* the resources a group of paths may list beyond its identity
  MaxSeverity,   \* severities are the ranks 1..MaxSeverity
  MaxTime,       \* bound of the clock and of suppression expiries
  HistoryLimit,  \* STATUS_HISTORY_LIMIT: how many status changes a row keeps
  Sink,          \* sinks a rule's issues are emitted to ({}: no automatic ticket)
  Run,           \* the risk-rule jobs that may be running at once
  Earlier,       \* the creator of rows that predate the behaviour
  None,          \* an absent row, suppression or observation
  Issue,          \* the issue identities the rule can produce
  Analyst,        \* concurrent requests to the API
  AnalystOp,      \* what the analysts may ask: subset of {"suppress", "reopen"}
  EarlierStatus,  \* the statuses of the rows the table starts with
  RetriedWrites,  \* the SDK may retry a conditional write that was applied
  MaxAborts,      \* bound on failed or killed rule runs
  MaxRequests     \* bound on analyst requests

Severity == 1..MaxSeverity
Time == 0..MaxTime
Status == {"open", "suppressed", "resolved"}
ActiveStatus == {"open", "suppressed"}
Actor == {"system", "analyst"}

(* What one query says of one group of paths: the group's severity and the *)
(* resources it touched.                                                   *)
Observation == [severity : Severity, resources : SUBSET Resource]

(* An analyst's acceptance of an issue: until when, and at which severity. *)
Suppression == [until : Time, severity : Severity]

StatusChange == [from : Status, to : Status, by : Actor]

Row == [status      : Status,
        severity    : Severity,
        resources   : SUBSET Resource,
        suppression : Suppression \cup {None},
        stamped     : BOOLEAN,              \* resolvedAt and resolvedReason set
        history     : Seq(StatusChange),
        refs        : SUBSET Sink,          \* externalRefs, one per system
        creator     : Run \cup {Earlier}]   \* who put the row (its createdAt)

(* The attributes of a row the callers of the status index go on to use.   *)
Entry == [status : Status, history : Seq(StatusChange)]
EntryOf(row) == [status |-> row.status, history |-> row.history]

ASSUME HistoryLimitAssumption == HistoryLimit \in Nat \ {0}
ASSUME SeverityAssumption == MaxSeverity \in Nat \ {0}
ASSUME TimeAssumption == MaxTime \in Nat
ASSUME NoneAssumption ==
  /\ None \notin Row /\ None \notin Entry
  /\ None \notin Observation /\ None \notin Suppression
  /\ None \notin [status : Status, creator : Run \cup {Earlier}]
ASSUME RetriedWritesAssumption == RetriedWrites \in BOOLEAN
ASSUME BudgetAssumption == MaxAborts \in Nat /\ MaxRequests \in Nat
ASSUME IssueAssumption == None \notin Issue
ASSUME EarlierStatusAssumption == EarlierStatus \subseteq Status
ASSUME AnalystOpAssumption == AnalystOp \subseteq {"suppress", "reopen"}

-------------------------------------------------------------------------------
(* Mutant: the cap keeps the oldest changes.                               *)
OldestKept(h) == IF Len(h) > HistoryLimit THEN SubSeq(h, 1, HistoryLimit) ELSE h

(* [...history, entry].slice(-STATUS_HISTORY_LIMIT)                        *)
Newest(h) ==
  IF Len(h) > HistoryLimit THEN SubSeq(h, Len(h) - HistoryLimit + 1, Len(h)) ELSE h

Recorded(copy, to, by) ==
  Newest(Append(copy.history, [from |-> copy.status, to |-> to, by |-> by]))

(* Mutant: the write is not conditional on the status of the copy.         *)
MayTransitionUnpinned(row, copy, allowedFrom) == copy.status \in allowedFrom /\ row # None

(* transition(): refused on the copy's status without a write, and         *)
(* conditional on the row still having the status the copy had.            *)
MayTransition(row, copy, allowedFrom) ==
  /\ copy.status \in allowedFrom
  /\ row # None
  /\ row.status = copy.status

Transition(row, copy, to, by, suppression, stamped) ==
  [row EXCEPT !.status = to,
              !.history = Recorded(copy, to, by),
              !.suppression = suppression,
              !.stamped = stamped]

(* Mutant: a suppression forgets the severity it was accepted at.          *)
SuppressedWithoutSeverity(row, copy, until) ==
  Transition(row, copy, "suppressed", "analyst", [until |-> until], FALSE)

(* Mutant: resolving leaves the suppression record in place.               *)
ResolvedStillSuppressed(row, copy) ==
  Transition(row, copy, "resolved", "system", row.suppression, TRUE)

(* Mutant: a refresh writes resolved rows too.                             *)
MayRefreshResolved(row) == row # None

MaySuppress(row, copy) == MayTransition(row, copy, {"open"})
Suppressed(row, copy, until) ==
  Transition(row, copy, "suppressed", "analyst",
             [until |-> until, severity |-> copy.severity], FALSE)

MayReopen(row, copy) == MayTransition(row, copy, {"suppressed", "resolved"})
Reopened(row, copy, by) == Transition(row, copy, "open", by, None, FALSE)

MayResolve(row, copy) == MayTransition(row, copy, ActiveStatus)
Resolved(row, copy) == Transition(row, copy, "resolved", "system", None, TRUE)

(* createIssue(): only where there is no row.                              *)
MayCreate(row) == row = None
Created(seen, r) ==
  [status |-> "open", severity |-> seen.severity, resources |-> seen.resources,
   suppression |-> None, stamped |-> FALSE, history |-> <<>>, refs |-> {}, creator |-> r]

(* updateIssue(): every refreshed attribute, the external references of    *)
(* the copy included, and never the status.                                *)
MayRefresh(row) == row # None /\ row.status # "resolved"
Refreshed(row, copy, seen) ==
  [row EXCEPT !.severity = seen.severity,
              !.resources = seen.resources,
              !.refs = copy.refs]

(* updateExternalRefs() with the copy's references and the new ones merged *)
WithRefs(row, copy, delivered) == [row EXCEPT !.refs = copy.refs \cup delivered]

(* Rows written before status changes were recorded: no history, and       *)
(* neither a suppression record nor a resolution stamp.                    *)
EarlierRow(status) ==
  [status |-> status, severity |-> 1, resources |-> {}, suppression |-> None,
   stamped |-> FALSE, history |-> <<>>, refs |-> {}, creator |-> Earlier]

-------------------------------------------------------------------------------
(* What a row says of itself, whoever wrote it.                            *)
Chained(h) == \A k \in 1..(Len(h) - 1) : h[k].to = h[k + 1].from

(* The newest recorded change led to the row's status, each one starts     *)
(* where the one before it ended.                                          *)
HistoryExplains(e) ==
  /\ Chained(e.history)
  /\ e.history # <<>> => e.history[Len(e.history)].to = e.status

(* A suppression record stands only on a suppressed row, a resolution      *)
(* stamp only on a resolved one, and a suppression that was recorded in    *)
(* the history has its record.                                             *)
StatusFieldsAgree(row) ==
  /\ row.suppression # None => row.status = "suppressed"
  /\ row.stamped => row.status = "resolved"
  /\ row.history # <<>> =>
       /\ row.status = "suppressed" => row.suppression # None
       /\ row.status = "resolved" => row.stamped

-------------------------------------------------------------------------------
(* The runs and the requests.                                              *)
VARIABLES
  now,       \* the clock
  graph,     \* what the rule's query would return for each issue identity
  table,     \* the SecurityIssues table
  index,     \* its RuleIdIndex, which lags behind
  pc,        \* where each rule run is
  found,     \* the query result a run works from
  todo,      \* the groups a run has still to handle
  active,    \* activeIssueIds
  cur,       \* the issue a run is handling
  copy,      \* the run's copy of that issue
  listed,    \* the active issues a run listed and has still to resolve
  req,       \* the analysts' requests between their read and their write
  aborts,    \* how many rule runs failed so far
  requests   \* how many requests were made so far

tableVars == <<table, index>>
runVars == <<pc, found, todo, active, cur, copy, listed>>
vars == <<now, graph, table, index, pc, found, todo, active, cur, copy, listed,
          req, aborts, requests>>

PC == {"idle", "match", "reopen", "refresh", "endSuppression", "create", "reread",
       "refreshLost", "emit", "resolve"}

Request == [op : {"suppress", "reopen"}, issue : Issue, until : Time, copy : Row]

TypeOK ==
  /\ now \in Time
  /\ graph \in [Issue -> Observation \cup {None}]
  /\ table \in [Issue -> Row \cup {None}]
  /\ index \in [Issue -> Entry \cup {None}]
  /\ pc \in [Run -> PC]
  /\ found \in [Run -> [Issue -> Observation \cup {None}]]
  /\ todo \in [Run -> SUBSET Issue]
  /\ active \in [Run -> SUBSET Issue]
  /\ cur \in [Run -> Issue \cup {None}]
  /\ copy \in [Run -> Row \cup {None}]
  /\ listed \in [Run -> [Issue -> Entry \cup {None}]]
  /\ req \in [Analyst -> Request \cup {None}]
  /\ aborts \in 0..MaxAborts
  /\ requests \in 0..MaxRequests

Nothing == [i \in Issue |-> None]

(* A table may hold rows that predate recorded status changes.             *)
EarlierRows == {EarlierRow(s) : s \in EarlierStatus}
IndexOf(t) == [i \in Issue |-> IF t[i] = None THEN None ELSE EntryOf(t[i])]

Init ==
  /\ now = 0
  /\ graph = Nothing
  /\ table \in [Issue -> EarlierRows \cup {None}]
  /\ index = IndexOf(table)
  /\ pc = [r \in Run |-> "idle"]
  /\ found = [r \in Run |-> Nothing]
  /\ todo = [r \in Run |-> {}]
  /\ active = [r \in Run |-> {}]
  /\ cur = [r \in Run |-> None]
  /\ copy = [r \in Run |-> None]
  /\ listed = [r \in Run |-> Nothing]
  /\ req = [a \in Analyst |-> None]
  /\ aborts = 0
  /\ requests = 0

-------------------------------------------------------------------------------
(* The world outside: time passes, problems appear, change and go, and     *)
(* the index catches up with the table.                                    *)
Tick ==
  /\ now < MaxTime
  /\ now' = now + 1
  /\ UNCHANGED <<graph, table, index, runVars, req, aborts, requests>>

GraphChanges(i) ==
  /\ \E o \in Observation \cup {None} : graph' = [graph EXCEPT ![i] = o]
  /\ UNCHANGED <<now, table, index, runVars, req, aborts, requests>>

IndexCatchesUp(i) ==
  /\ index[i] # IndexOf(table)[i]
  /\ index' = [index EXCEPT ![i] = IndexOf(table)[i]]
  /\ UNCHANGED <<now, graph, table, runVars, req, aborts, requests>>

-------------------------------------------------------------------------------
(* One run of the rule.                                                    *)
At(r, i, label) == pc[r] = label /\ cur[r] = i
Goto(r, label) == pc' = [pc EXCEPT ![r] = label]
Store(i, row) == table' = [table EXCEPT ![i] = row]

Keeps(r) == UNCHANGED <<active, cur, copy>>

(* On to the next group: what the loop body held is gone.                  *)
NextGroup(r) ==
  /\ Goto(r, "match")
  /\ cur' = [cur EXCEPT ![r] = None]
  /\ copy' = [copy EXCEPT ![r] = None]

(* The run is done with issue i, which its query matched.                  *)
Handled(r, i) ==
  /\ NextGroup(r)
  /\ active' = [active EXCEPT ![r] = @ \cup {i}]

(* A retried write whose first attempt was applied fails its own condition *)
(* and is reported as lost.                                                *)
Reports(ok) == IF ok /\ RetriedWrites THEN BOOLEAN ELSE {ok}

(* queryWithRecovery() answered.                                           *)
StartRun(r) ==
  /\ pc[r] = "idle"
  /\ found' = [found EXCEPT ![r] = graph]
  /\ todo' = [todo EXCEPT ![r] = {i \in Issue : graph[i] # None}]
  /\ active' = [active EXCEPT ![r] = {}]
  /\ Goto(r, "match")
  /\ UNCHANGED <<now, graph, tableVars, cur, copy, listed, req, aborts, requests>>

(* getIssueByRuleAndResources(): a consistent read.                        *)
ReadIssue(r, i) ==
  /\ pc[r] = "match"
  /\ i \in todo[r]
  /\ todo' = [todo EXCEPT ![r] = @ \ {i}]
  /\ cur' = [cur EXCEPT ![r] = i]
  /\ copy' = [copy EXCEPT ![r] = table[i]]
  /\ \/ table[i] = None /\ Goto(r, "create")
     \/ table[i] # None /\ table[i].status = "resolved" /\ Goto(r, "reopen")
     \/ table[i] # None /\ table[i].status # "resolved" /\ Goto(r, "refresh")
  /\ UNCHANGED <<now, graph, tableVars, found, active, listed, req, aborts, requests>>

(* A resolved issue matched again.  A run that loses the write goes on to  *)
(* the next group without recording the issue as active.                   *)
Reopen(r, i) ==
  /\ At(r, i, "reopen")
  /\ LET ok == MayReopen(table[i], copy[r]) IN
       /\ IF ok THEN Store(i, Reopened(table[i], copy[r], "system")) ELSE UNCHANGED table
       /\ \E reported \in Reports(ok) :
            IF reported
            THEN /\ Goto(r, "refresh")
                 /\ copy' = [copy EXCEPT ![r].status = "open"]
                 /\ UNCHANGED cur
            ELSE NextGroup(r)
  /\ UNCHANGED <<now, graph, index, found, todo, active, listed,
                 req, aborts, requests>>

(* refreshExistingIssue(): the issue is emitted when the write was applied *)
(* and the copy was not suppressed; the suppression of a suppressed copy   *)
(* is looked at next, except after a lost creation.                        *)
Refresh(r, i) ==
  /\ At(r, i, "refresh") \/ At(r, i, "refreshLost")
  /\ LET ok == MayRefresh(table[i])
         shown == copy[r].status # "suppressed" IN
       /\ IF ok THEN Store(i, Refreshed(table[i], copy[r], found[r][i])) ELSE UNCHANGED table
       /\ \/ ok /\ shown /\ Sink # {} /\ Goto(r, "emit") /\ Keeps(r)
          \/ ~shown /\ pc[r] = "refresh" /\ Goto(r, "endSuppression") /\ Keeps(r)
          \/ /\ ~(ok /\ shown /\ Sink # {})
             /\ shown \/ pc[r] = "refreshLost"
             /\ Handled(r, i)
  /\ UNCHANGED <<now, graph, index, found, todo, listed, req, aborts, requests>>

(* emitToIntegrations(): the sinks that accepted the issue are merged into *)
(* the references of the run's copy; a sink that failed is only logged.    *)
Emit(r, i) ==
  /\ At(r, i, "emit")
  /\ table[i] # None
  /\ \E delivered \in SUBSET Sink :
       IF delivered = {} THEN UNCHANGED table
                         ELSE Store(i, WithRefs(table[i], copy[r], delivered))
  /\ Handled(r, i)
  /\ UNCHANGED <<now, graph, index, found, todo, listed, req, aborts, requests>>

(* Mutants: the severity the issue was accepted at ends its suppression;   *)
(* an expiry does not.                                                     *)
SuppressionDueAtSeverity(c, seen) ==
  \/ ~(seen.resources \subseteq c.resources)
  \/ c.suppression = None
  \/ c.suppression # None /\ c.suppression.until <= now
  \/ c.suppression # None /\ seen.severity >= c.suppression.severity

(* Why a suppression must end, judged on the copy and the run's query.     *)
SuppressionDue(c, seen) ==
  \/ ~(seen.resources \subseteq c.resources)
  \/ c.suppression = None
  \/ c.suppression # None /\ c.suppression.until <= now
  \/ c.suppression # None /\ seen.severity > c.suppression.severity

(* endSuppressionIfDue(): its outcome is not looked at.                    *)
EndSuppression(r, i) ==
  /\ At(r, i, "endSuppression")
  /\ IF SuppressionDue(copy[r], found[r][i]) /\ MayReopen(table[i], copy[r])
     THEN Store(i, Reopened(table[i], copy[r], "system"))
     ELSE UNCHANGED table
  /\ Handled(r, i)
  /\ UNCHANGED <<now, graph, index, found, todo, listed, req, aborts, requests>>

(* createIssue(), conditional on the row's absence.                        *)
Create(r, i) ==
  /\ At(r, i, "create")
  /\ LET ok == MayCreate(table[i])
         row == Created(found[r][i], r) IN
       /\ IF ok THEN Store(i, row) ELSE UNCHANGED table
       /\ \E reported \in Reports(ok) :
            \/ ~reported /\ Goto(r, "reread") /\ Keeps(r)
            \/ reported /\ Sink = {} /\ Handled(r, i)
            \/ /\ reported /\ Sink # {}
               /\ Goto(r, "emit")
               /\ copy' = [copy EXCEPT ![r] = row]
               /\ UNCHANGED <<active, cur>>
  /\ UNCHANGED <<now, graph, index, found, todo, listed, req, aborts, requests>>

(* The creation was lost to someone else's: read their row.                *)
Reread(r, i) ==
  /\ At(r, i, "reread")
  /\ \/ table[i] = None /\ Handled(r, i)
     \/ /\ table[i] # None
        /\ Goto(r, "refreshLost")
        /\ copy' = [copy EXCEPT ![r] = table[i]]
        /\ UNCHANGED <<active, cur>>
  /\ UNCHANGED <<now, graph, tableVars, found, todo, listed, req, aborts, requests>>

(* Mutant: only open issues are listed.                                    *)
ListOpen(r) ==
  /\ pc[r] = "match"
  /\ todo[r] = {}
  /\ listed' = [listed EXCEPT ![r] =
       [i \in Issue |-> IF index[i] # None /\ index[i].status = "open" /\ i \notin active[r]
                        THEN index[i] ELSE None]]
  /\ Goto(r, "resolve")
  /\ UNCHANGED <<now, graph, tableVars, found, todo, active, cur, copy, req, aborts, requests>>

(* getActiveIssuesByRule() reads the index, which may be behind the table. *)
ListActive(r) ==
  /\ pc[r] = "match"
  /\ todo[r] = {}
  /\ listed' = [listed EXCEPT ![r] =
       [i \in Issue |-> IF /\ index[i] # None
                           /\ index[i].status \in ActiveStatus
                           /\ i \notin active[r]
                        THEN index[i] ELSE None]]
  /\ Goto(r, "resolve")
  /\ UNCHANGED <<now, graph, tableVars, found, todo, active, cur, copy, req, aborts, requests>>

Resolve(r, i) ==
  /\ pc[r] = "resolve"
  /\ listed[r][i] # None
  /\ IF MayResolve(table[i], listed[r][i])
     THEN Store(i, Resolved(table[i], listed[r][i]))
     ELSE UNCHANGED table
  /\ listed' = [listed EXCEPT ![r][i] = None]
  /\ UNCHANGED <<now, graph, index, pc, found, todo, active, cur, copy,
                 req, aborts, requests>>

(* The run's memory is gone with it.                                       *)
Forget(r) ==
  /\ Goto(r, "idle")
  /\ found' = [found EXCEPT ![r] = Nothing]
  /\ todo' = [todo EXCEPT ![r] = {}]
  /\ active' = [active EXCEPT ![r] = {}]
  /\ cur' = [cur EXCEPT ![r] = None]
  /\ copy' = [copy EXCEPT ![r] = None]
  /\ listed' = [listed EXCEPT ![r] = Nothing]

Finish(r) ==
  /\ pc[r] = "resolve"
  /\ listed[r] = Nothing
  /\ Forget(r)
  /\ UNCHANGED <<now, graph, tableVars, req, aborts, requests>>

(* A call threw, which ends the rule without its remaining steps, or the   *)
(* job was killed.                                                         *)
Abort(r) ==
  /\ pc[r] # "idle"
  /\ aborts < MaxAborts
  /\ aborts' = aborts + 1
  /\ Forget(r)
  /\ UNCHANGED <<now, graph, tableVars, req, requests>>

RunStep(r) ==
  \/ StartRun(r)
  \/ \E i \in Issue :
       \/ ReadIssue(r, i) \/ Reopen(r, i) \/ Refresh(r, i) \/ Emit(r, i)
       \/ EndSuppression(r, i) \/ Create(r, i) \/ Reread(r, i) \/ Resolve(r, i)
  \/ ListActive(r)
  \/ Finish(r)

-------------------------------------------------------------------------------
(* The analysts' requests: a consistent read, then the conditional write.  *)
Ask(a, op, i, until) ==
  /\ op \in AnalystOp
  /\ req[a] = None
  /\ requests < MaxRequests
  /\ table[i] # None
  /\ requests' = requests + 1
  /\ req' = [req EXCEPT ![a] = [op |-> op, issue |-> i, until |-> until, copy |-> table[i]]]
  /\ UNCHANGED <<now, graph, tableVars, runVars, aborts>>

(* parseExpiry() admits only a later time.                                 *)
AskSuppress(a, i) == \E until \in Time : until > now /\ Ask(a, "suppress", i, until)
AskReopen(a, i) == Ask(a, "reopen", i, 0)

Answered(a) ==
  /\ req' = [req EXCEPT ![a] = None]
  /\ UNCHANGED <<now, graph, index, runVars, aborts, requests>>

Suppress(a, i) ==
  /\ req[a] # None /\ req[a].op = "suppress" /\ req[a].issue = i
  /\ IF MaySuppress(table[i], req[a].copy)
     THEN Store(i, Suppressed(table[i], req[a].copy, req[a].until))
     ELSE UNCHANGED table
  /\ Answered(a)

ReopenByHand(a, i) ==
  /\ req[a] # None /\ req[a].op = "reopen" /\ req[a].issue = i
  /\ IF MayReopen(table[i], req[a].copy)
     THEN Store(i, Reopened(table[i], req[a].copy, "analyst"))
     ELSE UNCHANGED table
  /\ Answered(a)

AnalystStep(a) ==
  \E i \in Issue : AskSuppress(a, i) \/ AskReopen(a, i) \/ Suppress(a, i) \/ ReopenByHand(a, i)

Next ==
  \/ Tick
  \/ \E i \in Issue : GraphChanges(i) \/ IndexCatchesUp(i)
  \/ \E r \in Run : RunStep(r) \/ Abort(r)
  \/ \E a \in Analyst : AnalystStep(a)

Spec == Init /\ [][Next]_vars

(* The job is scheduled again and again and its calls return; the index    *)
(* catches up; a request that was read is answered; time passes.           *)
Fairness ==
  /\ WF_vars(Tick)
  /\ \A i \in Issue : WF_vars(IndexCatchesUp(i))
  /\ \A r \in Run : WF_vars(RunStep(r))
  /\ \A a \in Analyst, i \in Issue : WF_vars(Suppress(a, i) \/ ReopenByHand(a, i))

FairSpec == Spec /\ Fairness

-------------------------------------------------------------------------------
Is(t, i, status) == t[i] # None /\ t[i].status = status

(* The copies a run may still write a status from.                         *)
Deciding(r) ==
  \/ pc[r] \in {"reopen", "endSuppression"}
  \/ pc[r] = "refresh" /\ copy[r].status = "suppressed"

(* Whoever wrote a row last and from however old a copy, the history it    *)
(* keeps still explains its status: the newest change ends in it and every *)
(* change starts where the one before ended (transition(), which stores    *)
(* the history of the copy and pins the status of the copy).  So do the    *)
(* copies in flight: index entries, listed issues, requests and runs.      *)
RowsExplain == \A i \in Issue : table[i] # None => HistoryExplains(table[i])
CopiesExplain ==
  /\ \A i \in Issue : index[i] # None => HistoryExplains(index[i])
  /\ \A r \in Run, i \in Issue : listed[r][i] # None => HistoryExplains(listed[r][i])
  /\ \A a \in Analyst : req[a] # None => HistoryExplains(req[a].copy)
  /\ \A r \in Run : Deciding(r) => HistoryExplains(copy[r])
HistoriesExplainStatus == RowsExplain /\ CopiesExplain

(* A suppression record and a resolution stamp stand exactly on the rows   *)
(* whose recorded changes put them there; no interleaving of runs and      *)
(* analysts leaves one behind on a row of another status.                  *)
RecordsMatchStatus ==
  \A i \in Issue : table[i] # None => StatusFieldsAgree(table[i])

(* A refresh decided before an issue was resolved changes nothing of the   *)
(* resolved issue (the status condition of updateIssue()).                 *)
ResolvedRowsFrozen ==
  [][\A i \in Issue : Is(table, i, "resolved") /\ Is(table', i, "resolved")
       => /\ table'[i].severity = table[i].severity
          /\ table'[i].resources = table[i].resources
          /\ table'[i].history = table[i].history]_table

(* The table implements the lifecycle it promises.                         *)
StatusOf(row) == [status |-> row.status, creator |-> row.creator]
Lifecycle == INSTANCE IssueStatus WITH
  Creator <- Run \cup {Earlier}, Absent <- None,
  issue <- [i \in Issue |-> IF table[i] = None THEN None ELSE StatusOf(table[i])]
LifecycleSpec == Lifecycle!Spec

(* A run resolves an issue as "No longer matched" only if its own query    *)
(* did not match it (runRule(), the loop over getActiveIssuesByRule()).    *)
ResolvedOnlyWhenUnmatched ==
  [][\A r \in Run, i \in Issue :
       /\ listed[r][i] # None /\ listed'[r][i] = None
       /\ ~Is(table, i, "resolved") /\ Is(table', i, "resolved")
       => found[r][i] = None]_vars

(* A run ends a suppression only if that very suppression is due: it has   *)
(* expired, was outgrown by the severity, or the issue gained a resource   *)
(* (endSuppressionIfDue()).                                                *)
SuppressionEndsOnlyWhenDue ==
  [][\A r \in Run, i \in Issue :
       /\ At(r, i, "endSuppression") /\ pc'[r] = "match"
       /\ Is(table, i, "suppressed") /\ Is(table', i, "open")
       => LET s == table[i].suppression IN
          \/ s = None \/ s.until <= now \/ s.severity < found[r][i].severity
          \/ \E x \in found[r][i].resources : x \notin copy[r].resources]_vars

(* A problem that is gone for good does not stay an active issue.          *)
GoneIssuesAreResolved ==
  \A i \in Issue : <>[](graph[i] = None)
    => <>[](table[i] = None \/ table[i].status = "resolved")

(* A problem that stays is an issue, and not a resolved one.               *)
LiveIssuesAreShown ==
  \A i \in Issue : <>[](graph[i] # None)
    => <>[](table[i] # None /\ table[i].status # "resolved")

(* A suppression does not outlive its expiry: the issue is reopened, or    *)
(* resolved, or accepted anew.                                             *)
ExpiredSuppressionEnds ==
  \A i \in Issue :
    (Is(table, i, "suppressed") /\ table[i].suppression # None /\ table[i].suppression.until <= now)
    ~> ~(Is(table, i, "suppressed") /\ table[i].suppression # None
         /\ table[i].suppression.until <= now)

(* When that can be promised: one run of the rule at a time, analysts who  *)
(* reopen nothing, and no write that is applied and reported as lost.      *)
Alone ==
  /\ \A r, s \in Run : r = s
  /\ AnalystOp \subseteq {"suppress"}
  /\ RetriedWrites = FALSE

(* Issues are resolved and suppressions ended only for the reason the row  *)
(* then gives: the problem matched no more, the suppression was due.       *)
EndingsAreJustified == ResolvedOnlyWhenUnmatched /\ SuppressionEndsOnlyWhenDue

(* What is shown follows the problems: those that stay are active issues,  *)
(* those that are gone are resolved, no suppression outlives its expiry.   *)
ProblemsAreMirrored == GoneIssuesAreResolved /\ LiveIssuesAreShown /\ ExpiredSuppressionEnds
===============================================================================
