----------------------------- MODULE UsageSweep ------------------------------
(* The nightly CloudTrail analysis (cloudtrail-analyzer) and the sweep that    *)
(* joins its usage rows with what principals are allowed (least-privilege-     *)
(* sweep, shared/rightsizer). The analysis writes one row per caller that      *)
(* CloudTrail names and the day of its last call, batch by batch, then runs    *)
(* its anomaly queries one by one, writes what each finds, and at the very end *)
(* drops the anomalies this run did not find. The sweep writes a finding per   *)
(* principal: whether its action is removed or kept.                           *)
EXTENDS Integers, Sequences, FiniteSets

CONSTANTS Users, Roles,  \* principals; each is allowed one action that is no mere read
          Queries,       \* the anomaly queries, in order
          Margin,        \* days a used action is safe for (safetyMarginDays)
          Window,        \* days of the log an analysis reads, and a row lives
          Attempts,      \* writes of one batch (MAX_BATCH_WRITE_ATTEMPTS)
          MaxDay, MaxFaults  \* bounds

\* What the proofs ask of the parameters; as deployed the margin is 7 days and a
\* row lives for 90 (least-privilege-sweep/index.ts:32, cloudtrail-analyzer/index.ts:422).
Parameters ==
  /\ Margin \in Nat /\ Window \in Nat /\ Margin <= Window
  /\ Attempts \in Nat \ {0} /\ MaxDay \in Nat /\ MaxFaults \in Nat
  /\ Len(Queries) \in Nat \ {0} /\ Users \cap Roles = {}

VARIABLES day, lastUse, signs,          \* AWS: who called when, what looks odd now
          rows, findings, anomalies,    \* the two tables, and the graph
          job, pending, read, tries, query, fresh,  \* the analysis that runs
          sweeping,                     \* principals the running sweep has ahead
          told, faults                  \* history: last use a whole analysis told

usageVars == <<day, lastUse, signs, rows, findings, anomalies,
               job, pending, read, tries, query, fresh, sweeping, told, faults>>
awsVars == <<day, lastUse, signs>>
analysisVars == <<job, pending, read, tries, query, fresh>>

Principals == Users \cup Roles
Never == -1
Odd == {Queries[i] : i \in 1 .. Len(Queries)}

\* CloudTrail names the session of a role, not the role, as the caller.
Session(p) == <<p, "session">>
Caller(p)  == IF p \in Roles THEN Session(p) ELSE <<p, "itself">>
Callers    == {Caller(p) : p \in Principals}

UsageTypeOK ==
  /\ day \in 0 .. MaxDay /\ faults \in 0 .. MaxFaults
  /\ lastUse \in [Callers -> Never .. MaxDay]
  /\ told \in [Callers -> Never .. MaxDay]
  /\ rows \in [Callers -> [last : Never .. MaxDay, until : Never .. MaxDay + Window]]
  /\ findings \in [Principals -> {"none", "kept", "removed"}]
  /\ signs \subseteq Odd /\ fresh \subseteq Odd /\ anomalies \subseteq Odd
  /\ job \in {"idle", "write", "query", "reconcile"}
  /\ pending \subseteq read /\ read \subseteq Callers \X (0 .. MaxDay)
  /\ tries \in 0 .. Attempts - 1 /\ query \in 1 .. Len(Queries) + 1
  /\ sweeping \subseteq Principals

Init ==
  /\ day = 0 /\ lastUse = [c \in Callers |-> Never] /\ signs = {}
  /\ rows = [c \in Callers |-> [last |-> Never, until |-> Never]]
  /\ findings = [p \in Principals |-> "none"] /\ anomalies = {}
  /\ job = "idle" /\ pending = {} /\ read = {} /\ tries = 0 /\ query = 1 /\ fresh = {}
  /\ sweeping = {} /\ told = [c \in Callers |-> Never] /\ faults = 0

\* --- AWS ------------------------------------------------------------------
\* DynamoDB deletes rows past their time to live.
NewDay ==
  /\ day < MaxDay /\ day' = day + 1
  /\ rows' = [c \in Callers |-> IF rows[c].until < day + 1
                                THEN [last |-> Never, until |-> Never] ELSE rows[c]]
  /\ UNCHANGED <<lastUse, signs, findings, anomalies, analysisVars, sweeping, told, faults>>

Call(c) ==
  /\ lastUse' = [lastUse EXCEPT ![c] = day]
  /\ UNCHANGED <<day, signs, rows, findings, anomalies, analysisVars, sweeping, told, faults>>

Notice(q) ==
  /\ signs' = IF q \in signs THEN signs \ {q} ELSE signs \cup {q}
  /\ UNCHANGED <<day, lastUse, rows, findings, anomalies, analysisVars, sweeping, told, faults>>

\* --- The analysis ----------------------------------------------------------
\* The usage query groups the window's calls by caller.
Used == {<<c, lastUse[c]>> : c \in {d \in Callers : /\ lastUse[d] # Never
                                                    /\ day - lastUse[d] <= Window}}

Analyze ==
  /\ job = "idle" /\ job' = "write"
  /\ pending' = Used /\ read' = Used
  /\ UNCHANGED <<awsVars, rows, findings, anomalies, tries, query, fresh, sweeping, told, faults>>

RunOver == /\ job' = "idle" /\ pending' = {} /\ read' = {} /\ tries' = 0
           /\ query' = 1 /\ fresh' = {}

\* Mutant: rows the table did not take are forgotten.
ForgetLeft(left) == {}

\* Rows the table did not take (UnprocessedItems) are sent again.
SendAgain(left) == left

\* A throttled table takes some rows of a batch; after a few attempts the run ends.
WriteBatch ==
  /\ job = "write"
  /\ \E left \in SUBSET pending :
       /\ left = {} \/ tries > 0 \/ faults < MaxFaults
       /\ faults' = IF left # {} /\ tries = 0 THEN faults + 1 ELSE faults
       /\ rows' = [c \in Callers |->
            IF \E r \in pending \ left : r[1] = c
            THEN [last |-> (CHOOSE r \in pending : r[1] = c)[2], until |-> day + Window]
            ELSE rows[c]]
       /\ \/ /\ SendAgain(left) = {} /\ pending' = {}
             /\ job' = "query" /\ tries' = 0 /\ read' = {}
             /\ told' = [c \in Callers |->
                  IF \E r \in read : r[1] = c
                  THEN (CHOOSE r \in read : r[1] = c)[2] ELSE told[c]]
             /\ UNCHANGED <<query, fresh>>
          \/ /\ SendAgain(left) # {} /\ tries + 1 < Attempts
             /\ pending' = SendAgain(left) /\ tries' = tries + 1
             /\ UNCHANGED <<job, read, query, fresh, told>>
          \/ SendAgain(left) # {} /\ tries + 1 = Attempts /\ RunOver /\ UNCHANGED told
  /\ UNCHANGED <<awsVars, findings, anomalies, sweeping>>

\* One query; what it finds is written at once, stamped with this run.
Detect ==
  /\ job = "query"
  /\ LET q == Queries[query] IN
       /\ fresh' = IF q \in signs THEN fresh \cup {q} ELSE fresh
       /\ anomalies' = IF q \in signs THEN anomalies \cup {q} ELSE anomalies
  /\ query' = query + 1
  /\ job' = IF query = Len(Queries) THEN "reconcile" ELSE "query"
  /\ UNCHANGED <<awsVars, rows, findings, pending, read, tries, sweeping, told, faults>>

\* A query that fails, is cancelled, or is still running after fifty looks ends
\* the run: what it wrote stays, and nothing is reconciled.
AnalysisFails ==
  /\ job \in {"write", "query", "reconcile"} /\ faults < MaxFaults
  /\ faults' = faults + 1 /\ RunOver
  /\ UNCHANGED <<awsVars, rows, findings, anomalies, sweeping, told>>

\* One reconcile for the scope all queries share.
Reconcile ==
  /\ job = "reconcile" /\ RunOver
  /\ anomalies' = anomalies \cap fresh
  /\ UNCHANGED <<awsVars, rows, findings, sweeping, told, faults>>

\* --- The sweep -------------------------------------------------------------
StartSweep ==
  /\ sweeping = {} /\ sweeping' = Principals
  /\ UNCHANGED <<awsVars, rows, findings, anomalies, analysisVars, told, faults>>

Recent(last) == last # Never /\ day - last <= Margin

\* The rows are asked for by the principal's own ARN.
RowOf(p) == IF <<p, "itself">> \in Callers THEN rows[<<p, "itself">>].last ELSE Never

\* Usage that cannot be read leaves the principal's finding as it was.
Skip(p) == findings' = findings

SweepOne ==
  /\ \E p \in sweeping :
       /\ sweeping' = sweeping \ {p}
       /\ \/ /\ findings' = [findings EXCEPT ![p] =
                               IF Recent(RowOf(p)) THEN "kept" ELSE "removed"]
             /\ faults' = faults
          \/ /\ faults < MaxFaults /\ faults' = faults + 1
             /\ Skip(p)
  /\ UNCHANGED <<awsVars, rows, anomalies, analysisVars, told>>

\* The graph or the findings table fails: the rest is not swept.
SweepFails ==
  /\ sweeping # {} /\ sweeping' = {}
  /\ faults < MaxFaults /\ faults' = faults + 1
  /\ UNCHANGED <<awsVars, rows, findings, anomalies, analysisVars, told>>

Next ==
  \/ NewDay
  \/ \E c \in Callers : Call(c)
  \/ \E q \in Odd : Notice(q)
  \/ Analyze \/ WriteBatch \/ Detect \/ AnalysisFails \/ Reconcile
  \/ StartSweep \/ SweepOne \/ SweepFails

Spec == Init /\ [][Next]_usageVars

\* --- Properties ------------------------------------------------------------
\* An action is newly recommended for removal only when the last analysis that
\* wrote all it read knew of no use within the margin.
NoneRemovedInUse(principals) ==
  \A p \in principals :
    (findings'[p] = "removed" /\ findings[p] # "removed") => ~Recent(told[Caller(p)])

\* That holds for users: their own ARN is the caller CloudTrail names (the rows'
\* time to live, the retried batches and the skipped reads all bear on it).
UsersKeepWhatTheyUse == [][NoneRemovedInUse(Users)]_usageVars

\* An anomaly leaves the graph only by a run whose every query came back, and
\* that found no sign of it; one that a run has found survives that run.
AnomaliesOutliveFailures ==
  [][\A q \in anomalies \ anomalies' : query = Len(Queries) + 1 /\ q \notin fresh]_usageVars

\* What the component promises: no use is forgotten that a whole analysis told
\* while it matters, and no anomaly because of a run that broke off.
UsageIsNotForgotten ==
  []UsageTypeOK /\ UsersKeepWhatTheyUse /\ AnomaliesOutliveFailures
=============================================================================
