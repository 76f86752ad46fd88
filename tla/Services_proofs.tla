--------------------------- MODULE Services_proofs ---------------------------
(* Proofs about the scheduled jobs and the shared services, for every value of  *)
(* their constants that their assumptions admit: the CloudTrail analyzer and    *)
(* the least-privilege sweep (UsageSweep), the data scanner (DataScan), the     *)
(* indicator import and its labels (ThreatIntel), a secret's readers and their  *)
(* counts (SecretReaders, SecretCounts), the flow log analyzer with its         *)
(* collector (FlowLogs), the paged list of issues (IssueListing), the           *)
(* reconciliation with Security Hub and the public page made from it            *)
(* (TrustCenter), and the assessment of the compliance frameworks               *)
(* (ComplianceAssessment).                                                      *)
EXTENDS UsageSweep, DataScan, ThreatIntel, SecretCounts, FlowLogs, IssueListing,
        TrustCenter, ComplianceAssessment, FiniteSetTheorems, FunctionTheorems, SequenceTheorems,
        WellFoundedInduction, TLAPS

-----------------------------------------------------------------------------
(* UsageSweep: uses are not forgotten, anomalies outlive failures          *)
(* Uses are known in the order they happen.                                *)
UsesArePast ==
  /\ \A c \in Callers : told[c] <= lastUse[c] /\ lastUse[c] <= day
  /\ \A r \in read : told[r[1]] <= r[2] /\ r[2] <= lastUse[r[1]]
  /\ \A r, s \in read : r[1] = s[1] => r = s

(* The table tells of the use, unless that is longer ago than a row lives. *)
Tells(c, use) ==
  use # Never => \/ day - use > Window
                 \/ rows[c].last >= use /\ rows[c].until >= use + Window

TableTells ==
  /\ \A c \in Callers : Tells(c, told[c])
  /\ \A r \in read \ pending : Tells(r[1], r[2])

QueriesInTurn ==
  /\ job = "query" => query <= Len(Queries)
  /\ job = "reconcile" => query = Len(Queries) + 1
  /\ job \in {"idle", "write"} => query = 1

UsageInv == UsageTypeOK /\ UsesArePast /\ TableTells /\ QueriesInTurn

-----------------------------------------------------------------------------

LEMMA TypedRead ==
  ASSUME Parameters, UsageTypeOK
  PROVE  /\ \A r \in read : r[1] \in Callers /\ r[2] \in 0 .. MaxDay /\ r = <<r[1], r[2]>>
         /\ pending \subseteq read
         /\ \A c \in Callers : /\ rows[c].last \in Never .. MaxDay
                               /\ rows[c].until \in Never .. MaxDay + Window
                               /\ told[c] \in Never .. MaxDay /\ lastUse[c] \in Never .. MaxDay
         /\ day \in 0 .. MaxDay /\ Window \in Nat /\ MaxDay \in Nat
BY DEF UsageTypeOK, Parameters

LEMMA InitInv == Parameters /\ Init => UsageInv
<1> SUFFICES ASSUME Parameters, Init PROVE UsageInv
  OBVIOUS
<1>1. UsageTypeOK
  BY DEF Parameters, Init, UsageTypeOK, Never
<1>2. UsesArePast /\ TableTells /\ QueriesInTurn
  BY DEF Parameters, Init, UsesArePast, TableTells, Tells, QueriesInTurn, Never
<1> QED
  BY <1>1, <1>2 DEF UsageInv

LEMMA RunOverInv ==
  ASSUME Parameters, UsageInv, RunOver, UNCHANGED <<awsVars, rows, told>>
  PROVE  UsesArePast' /\ TableTells' /\ QueriesInTurn'
BY DEF RunOver, awsVars, UsageInv, UsesArePast, TableTells, Tells, QueriesInTurn

LEMMA NewDayInv ==
  ASSUME Parameters, UsageInv, NewDay
  PROVE  UsageInv'
<1>0. /\ day' = day + 1 /\ day < MaxDay
      /\ rows' = [c \in Callers |-> IF rows[c].until < day + 1
                                    THEN [last |-> Never, until |-> Never] ELSE rows[c]]
      /\ UNCHANGED <<lastUse, signs, findings, anomalies, job, pending, read, tries, query,
                     fresh, sweeping, told, faults>>
  BY DEF NewDay, analysisVars
<1>1. UsageTypeOK'
  <2>1. rows' \in [Callers -> [last : Never .. MaxDay, until : Never .. MaxDay + Window]]
    BY <1>0 DEF UsageInv, UsageTypeOK, Parameters, Never
  <2> QED
    BY <1>0, <2>1 DEF UsageInv, UsageTypeOK, Parameters
<1>2. UsesArePast'
  BY <1>0, TypedRead DEF UsageInv, UsesArePast, Never
<1>3. ASSUME NEW c \in Callers, NEW use \in Never .. MaxDay, Tells(c, use)
      PROVE  Tells(c, use)'
  BY <1>0, <1>3, TypedRead DEF UsageInv, Tells, Never
<1>4. TableTells'
  BY <1>0, <1>3, TypedRead DEF UsageInv, TableTells, Never
<1>5. QueriesInTurn'
  BY <1>0 DEF UsageInv, QueriesInTurn
<1> QED
  BY <1>1, <1>2, <1>4, <1>5 DEF UsageInv

LEMMA CallInv ==
  ASSUME Parameters, UsageInv, NEW c \in Callers, Call(c)
  PROVE  UsageInv'
<1>0. /\ lastUse' = [lastUse EXCEPT ![c] = day]
      /\ UNCHANGED <<day, signs, rows, findings, anomalies, job, pending, read, tries, query,
                     fresh, sweeping, told, faults>>
  BY DEF Call, analysisVars
<1>1. UsageTypeOK'
  <2>1. day \in Never .. MaxDay
    BY TypedRead DEF UsageInv, Never
  <2>2. lastUse' \in [Callers -> Never .. MaxDay]
    BY <1>0, <2>1 DEF UsageInv, UsageTypeOK
  <2> QED
    BY <1>0, <2>2 DEF UsageInv, UsageTypeOK
<1>2. UsesArePast'
  <2>1. \A d \in Callers : lastUse[d] <= lastUse'[d] /\ lastUse'[d] <= day
    BY <1>0, TypedRead DEF UsageInv, UsesArePast, UsageTypeOK, Never
  <2>2. \A d \in Callers : lastUse'[d] \in Never .. MaxDay
    BY <1>1 DEF UsageTypeOK
  <2> QED
    BY <1>0, <2>1, <2>2, TypedRead DEF UsageInv, UsesArePast, Never
<1>3. TableTells' /\ QueriesInTurn'
  BY <1>0 DEF UsageInv, TableTells, Tells, QueriesInTurn
<1> QED
  BY <1>1, <1>2, <1>3 DEF UsageInv

LEMMA AnalyzeInv ==
  ASSUME Parameters, UsageInv, Analyze
  PROVE  UsageInv'
<1>0. /\ job = "idle" /\ job' = "write" /\ pending' = Used /\ read' = Used
      /\ UNCHANGED <<day, lastUse, signs, rows, findings, anomalies, tries, query, fresh,
                     sweeping, told, faults>>
  BY DEF Analyze, awsVars
<1>1. \A r \in Used : r[1] \in Callers /\ r[2] = lastUse[r[1]] /\ r[2] # Never /\ r = <<r[1], r[2]>>
  BY DEF Used
<1>2. Used \subseteq Callers \X (0 .. MaxDay)
  <2> SUFFICES ASSUME NEW r \in Used PROVE r \in Callers \X (0 .. MaxDay)
    OBVIOUS
  <2>1. r[1] \in Callers /\ r[2] \in 0 .. MaxDay /\ r = <<r[1], r[2]>>
    BY <1>1, TypedRead DEF UsageInv, Never
  <2> QED
    BY <2>1
<1>3. UsageTypeOK'
  BY <1>0, <1>2 DEF UsageInv, UsageTypeOK
<1>4. UsesArePast'
  BY <1>0, <1>1, TypedRead DEF UsageInv, UsesArePast, Never
<1>5. TableTells' /\ QueriesInTurn'
  BY <1>0 DEF UsageInv, TableTells, Tells, QueriesInTurn
<1> QED
  BY <1>3, <1>4, <1>5 DEF UsageInv
(* A use the table has taken is told by its row; what it left is sent again. *)
LEMMA WriteBatchInv ==
  ASSUME Parameters, UsageInv, WriteBatch
  PROVE  UsageInv'
<1>0. /\ UsageTypeOK /\ UsesArePast /\ TableTells /\ QueriesInTurn
      /\ pending \subseteq read /\ Window \in Nat /\ MaxDay \in Nat /\ day \in 0 .. MaxDay
      /\ \A r \in read : r[1] \in Callers /\ r[2] \in 0 .. MaxDay
  BY TypedRead DEF UsageInv
<1>1. PICK left \in SUBSET pending :
        /\ job = "write" /\ (left = {} \/ tries > 0 \/ faults < MaxFaults)
        /\ faults' = IF left # {} /\ tries = 0 THEN faults + 1 ELSE faults
        /\ rows' = [c \in Callers |->
             IF \E r \in pending \ left : r[1] = c
             THEN [last |-> (CHOOSE r \in pending : r[1] = c)[2], until |-> day + Window]
             ELSE rows[c]]
        /\ \/ /\ left = {} /\ pending' = {}
              /\ job' = "query" /\ tries' = 0 /\ read' = {}
              /\ told' = [c \in Callers |->
                   IF \E r \in read : r[1] = c
                   THEN (CHOOSE r \in read : r[1] = c)[2] ELSE told[c]]
              /\ UNCHANGED <<query, fresh>>
           \/ /\ left # {} /\ tries + 1 < Attempts
              /\ pending' = left /\ tries' = tries + 1
              /\ UNCHANGED <<job, read, query, fresh, told>>
           \/ left # {} /\ tries + 1 = Attempts /\ RunOver /\ UNCHANGED told
        /\ UNCHANGED <<day, lastUse, signs, findings, anomalies, sweeping>>
  BY DEF WriteBatch, SendAgain, awsVars
<1>2. ASSUME NEW r \in pending \ left
      PROVE  rows'[r[1]] = [last |-> r[2], until |-> day + Window]
  <2>1. r \in read /\ r[1] \in Callers
    BY <1>0, TypedRead
  <2>2. \A s \in pending : s[1] = r[1] => s = r
    BY <1>0, <2>1 DEF UsesArePast
  <2>3. (CHOOSE s \in pending : s[1] = r[1]) = r
    BY <2>2
  <2> QED
    BY <1>1, <2>1, <2>3
<1>3. ASSUME NEW c \in Callers, \A r \in pending \ left : r[1] # c
      PROVE  rows'[c] = rows[c]
  BY <1>1, <1>3
<1>4. \A c \in Callers : rows'[c] \in [last : Never .. MaxDay, until : Never .. MaxDay + Window]
  <2> SUFFICES ASSUME NEW c \in Callers
               PROVE  rows'[c] \in [last : Never .. MaxDay, until : Never .. MaxDay + Window]
    OBVIOUS
  <2>1. CASE \E r \in pending \ left : r[1] = c
    <3>1. PICK r \in pending \ left : r[1] = c
      BY <2>1
    <3>2. r[2] \in Never .. MaxDay
      <4>1. r[2] \in 0 .. MaxDay
        BY <1>0, <3>1
      <4> QED
        BY <1>0, <4>1 DEF Never
    <3>3. day + Window \in Never .. MaxDay + Window
      BY <1>0 DEF Never
    <3>4. rows'[c] = [last |-> r[2], until |-> day + Window]
      BY <1>2, <3>1
    <3> QED
      BY <3>2, <3>3, <3>4
  <2>2. CASE \A r \in pending \ left : r[1] # c
    BY <1>0, <1>3, <2>2 DEF UsageTypeOK
  <2> QED
    BY <2>1, <2>2
<1>5. rows' \in [Callers -> [last : Never .. MaxDay, until : Never .. MaxDay + Window]]
  BY <1>1, <1>4
<1>6. \A c \in Callers : Tells(c, told[c])'  \/ told'[c] # told[c]
  <2> SUFFICES ASSUME NEW c \in Callers, told'[c] = told[c]
               PROVE  Tells(c, told[c])'
    OBVIOUS
  <2>0. told'[c] = told[c]
    OBVIOUS
  <2>1. CASE \E r \in pending \ left : r[1] = c
    <3>1. PICK r \in pending \ left : r[1] = c
      BY <2>1
    <3>2. told[c] <= r[2] /\ r[2] \in Nat /\ told[c] \in Never .. MaxDay /\ told[c] <= day
      BY <1>0, <3>1, TypedRead DEF UsesArePast, Never
    <3> QED
      BY <1>0, <1>1, <1>2, <3>1, <3>2 DEF Tells, Never
  <2>2. CASE \A r \in pending \ left : r[1] # c
    <3>1. rows'[c] = rows[c] /\ day' = day
      BY <1>1, <1>3, <2>2
    <3>2. told[c] # Never => \/ day - told[c] > Window
                             \/ rows[c].last >= told[c] /\ rows[c].until >= told[c] + Window
      BY <1>0 DEF TableTells, Tells
    <3>3. told[c] # Never => \/ day' - told[c] > Window
                             \/ rows'[c].last >= told[c] /\ rows'[c].until >= told[c] + Window
      BY <3>1, <3>2
    <3> QED
      BY <2>0, <3>3 DEF Tells
  <2> QED
    BY <2>1, <2>2
<1>7. ASSUME NEW r \in read \ left
      PROVE  r[2] # Never => \/ day - r[2] > Window
                             \/ rows'[r[1]].last >= r[2] /\ rows'[r[1]].until >= r[2] + Window
  <2>1. r[1] \in Callers /\ r[2] \in 0 .. MaxDay /\ r[2] <= day
    BY <1>0, TypedRead DEF UsesArePast, Never
  <2>2. CASE r \in pending
    <3>1. rows'[r[1]] = [last |-> r[2], until |-> day + Window]
      BY <1>2, <2>2
    <3>2. rows'[r[1]].last = r[2] /\ rows'[r[1]].until = day + Window
      BY <3>1
    <3>3. day + Window >= r[2] + Window /\ r[2] >= r[2]
      BY <1>0, <2>1
    <3> QED
      BY <3>2, <3>3
  <2>3. CASE r \notin pending
    <3>1. \A s \in pending \ left : s[1] # r[1]
      BY <1>0, <2>3 DEF UsesArePast
    <3> QED
      BY <1>0, <1>3, <2>1, <2>3, <3>1 DEF TableTells, Tells
  <2> QED
    BY <2>2, <2>3
<1>11. faults' \in 0 .. MaxFaults /\ tries \in 0 .. Attempts - 1 /\ Attempts \in Nat \ {0}
  <2>1. /\ faults \in 0 .. MaxFaults /\ MaxFaults \in Nat
        /\ tries \in 0 .. Attempts - 1 /\ Attempts \in Nat \ {0}
    BY <1>0 DEF UsageTypeOK, Parameters
  <2>2. /\ left # {} => tries > 0 \/ faults < MaxFaults
        /\ faults' = IF left # {} /\ tries = 0 THEN faults + 1 ELSE faults
    BY <1>1
  <2> QED
    BY <2>1, <2>2
<1>8. CASE /\ left = {} /\ pending' = {}
           /\ job' = "query" /\ tries' = 0 /\ read' = {}
           /\ told' = [c \in Callers |->
                IF \E r \in read : r[1] = c
                THEN (CHOOSE r \in read : r[1] = c)[2] ELSE told[c]]
           /\ UNCHANGED <<query, fresh>>
  <2>1. ASSUME NEW c \in Callers, NEW r \in read, r[1] = c
        PROVE  told'[c] = r[2]
    <3>1. (CHOOSE s \in read : s[1] = c) = r
      BY <1>0, <2>1 DEF UsesArePast
    <3> QED
      BY <1>8, <2>1, <3>1
  <2>2. ASSUME NEW c \in Callers
        PROVE  /\ told'[c] \in Never .. MaxDay /\ told'[c] <= lastUse[c]
               /\ Tells(c, told[c])'
    <3>1. CASE \E r \in read : r[1] = c
      <4>1. PICK r \in read : r[1] = c
        BY <3>1
      <4>2. r[2] \in 0 .. MaxDay /\ r[2] <= lastUse[c]
        BY <1>0, <4>1 DEF UsesArePast
      <4>3. r[2] \in Never .. MaxDay
        BY <1>0, <4>2 DEF Never
      <4> QED
        BY SMTT(30), <1>1, <1>7, <1>8, <2>1, <4>1, <4>2, <4>3 DEF Tells
    <3>2. CASE \A r \in read : r[1] # c
      <4>1. told'[c] = told[c]
        BY <1>8, <3>2
      <4> QED
        BY <1>0, <1>6, <4>1, TypedRead DEF UsesArePast
    <3> QED
      BY <3>1, <3>2
  <2>3. UsageTypeOK'
    <3>1. told' \in [Callers -> Never .. MaxDay]
      BY <1>8, <2>2
    <3>2. tries' \in 0 .. Attempts - 1
      BY <1>8 DEF Parameters
    <3> QED
      BY <1>0, <1>1, <1>5, <1>8, <3>1, <3>2 DEF UsageTypeOK
  <2>4. UsesArePast' /\ TableTells'
    BY <1>0, <1>1, <1>8, <2>2 DEF UsesArePast, TableTells
  <2>5. QueriesInTurn'
    BY <1>0, <1>1, <1>8 DEF QueriesInTurn, Parameters
  <2> QED
    BY <2>3, <2>4, <2>5 DEF UsageInv
<1>9. CASE /\ left # {} /\ tries + 1 < Attempts
           /\ pending' = left /\ tries' = tries + 1
           /\ UNCHANGED <<job, read, query, fresh, told>>
  <2>1. UsageTypeOK'
    <3>1. tries' \in 0 .. Attempts - 1
      BY <1>9, <1>11
    <3> QED
      BY <1>0, <1>1, <1>5, <1>9, <1>11, <3>1 DEF UsageTypeOK
  <2>2. UsesArePast' /\ QueriesInTurn'
    BY <1>0, <1>1, <1>9 DEF UsesArePast, QueriesInTurn
  <2>3. TableTells'
    BY <1>0, <1>1, <1>6, <1>7, <1>9 DEF TableTells, Tells
  <2> QED
    BY <2>1, <2>2, <2>3 DEF UsageInv
<1>10. CASE left # {} /\ tries + 1 = Attempts /\ RunOver /\ UNCHANGED told
  <2>1. UsageTypeOK'
    <3>1. tries' \in 0 .. Attempts - 1 /\ query' \in 1 .. Len(Queries) + 1
      BY <1>10 DEF RunOver, Parameters
    <3> QED
      BY <1>0, <1>1, <1>5, <1>10, <1>11, <3>1 DEF UsageTypeOK, RunOver
  <2>2. UsesArePast' /\ QueriesInTurn'
    BY <1>0, <1>1, <1>10 DEF UsesArePast, QueriesInTurn, RunOver
  <2>3. TableTells'
    BY <1>0, <1>1, <1>6, <1>10 DEF TableTells, RunOver
  <2> QED
    BY <2>1, <2>2, <2>3 DEF UsageInv
<1> QED
  BY <1>1, <1>8, <1>9, <1>10

(* The steps of the analysis that write no row.                            *)
LEMMA QueryInv ==
  ASSUME Parameters, UsageInv, Detect \/ AnalysisFails \/ Reconcile
  PROVE  UsageInv'
<1>0. UsageTypeOK /\ UsesArePast /\ TableTells /\ QueriesInTurn /\ Len(Queries) \in Nat \ {0}
  BY DEF UsageInv, Parameters
<1>1. CASE Detect
  <2>1. query \in 1 .. Len(Queries) /\ Queries[query] \in Odd
    BY <1>0, <1>1 DEF Detect, QueriesInTurn, UsageTypeOK, Odd
  <2>2. fresh' \subseteq Odd /\ anomalies' \subseteq Odd
    BY <1>0, <1>1, <2>1 DEF Detect, UsageTypeOK
  <2>3. UsageTypeOK'
    BY <1>0, <1>1, <2>1, <2>2 DEF Detect, UsageTypeOK, awsVars
  <2>4. QueriesInTurn'
    BY <1>1, <2>1 DEF Detect, QueriesInTurn
  <2>5. UsesArePast' /\ TableTells'
    BY <1>0, <1>1 DEF Detect, awsVars, UsesArePast, TableTells, Tells
  <2> QED
    BY <2>3, <2>4, <2>5 DEF UsageInv
<1>2. CASE AnalysisFails \/ Reconcile
  <2>1. /\ RunOver /\ UNCHANGED <<awsVars, rows, findings, sweeping, told>>
        /\ anomalies' \subseteq anomalies /\ faults' \in 0 .. MaxFaults
    BY <1>0, <1>2 DEF AnalysisFails, Reconcile, UsageTypeOK, Parameters
  <2>2. tries' \in 0 .. Attempts - 1 /\ query' \in 1 .. Len(Queries) + 1
    BY <2>1 DEF RunOver, Parameters
  <2>3. UsageTypeOK'
    BY <1>0, <2>1, <2>2 DEF UsageTypeOK, RunOver, awsVars
  <2> QED
    BY <2>1, <2>3, RunOverInv DEF UsageInv
<1> QED
  BY <1>1, <1>2

(* What is noticed, and the sweep, touch neither rows nor the analysis.    *)
LEMMA SweepInv ==
  ASSUME Parameters, UsageInv,
         (\E q \in Odd : Notice(q)) \/ StartSweep \/ SweepOne \/ SweepFails
  PROVE  UsageInv'
<1> DEFINE Untouched ==
      /\ UNCHANGED <<day, lastUse, rows, anomalies, analysisVars, told>>
      /\ signs' \subseteq Odd /\ sweeping' \subseteq Principals /\ faults' \in 0 .. MaxFaults
      /\ findings' \in [Principals -> {"none", "kept", "removed"}]
<1>1. Untouched
  <2>1. ASSUME NEW q \in Odd, Notice(q)
        PROVE  Untouched
    BY <2>1 DEF Notice, UsageInv, UsageTypeOK
  <2>2. CASE StartSweep
    BY <2>2 DEF StartSweep, UsageInv, UsageTypeOK, awsVars
  <2>3. CASE SweepOne
    BY <2>3 DEF SweepOne, Skip, UsageInv, UsageTypeOK, awsVars, Parameters
  <2>4. CASE SweepFails
    BY <2>4 DEF SweepFails, UsageInv, UsageTypeOK, awsVars, Parameters
  <2> QED
    BY <2>1, <2>2, <2>3, <2>4
<1> QED
  BY <1>1 DEF UsageInv, UsageTypeOK, UsesArePast, TableTells, Tells, QueriesInTurn, analysisVars

LEMMA StepInv == Parameters /\ UsageInv /\ [Next]_usageVars => UsageInv'
<1> SUFFICES ASSUME Parameters, UsageInv, [Next]_usageVars PROVE UsageInv'
  OBVIOUS
<1>1. CASE UNCHANGED usageVars
  BY <1>1 DEF usageVars, UsageInv, UsageTypeOK, UsesArePast, TableTells, Tells, QueriesInTurn
<1> QED
  BY <1>1, NewDayInv, CallInv, AnalyzeInv, WriteBatchInv, QueryInv, SweepInv DEF Next

(* What the row of a user tells is no older than what the last whole       *)
(* analysis told, while that is recent.                                    *)
LEMMA RemovedUnused ==
  ASSUME Parameters, UsageInv, [Next]_usageVars
  PROVE  NoneRemovedInUse(Users)
<1> SUFFICES ASSUME NEW p \in Users, findings'[p] = "removed", findings[p] # "removed",
                    Recent(told[Caller(p)])
             PROVE  FALSE
  BY DEF NoneRemovedInUse
<1>1. Caller(p) = <<p, "itself">> /\ Caller(p) \in Callers /\ p \in Principals
  BY DEF Parameters, Caller, Callers, Principals
<1>2. SweepOne
  BY DEF Next, NewDay, Call, Notice, Analyze, WriteBatch, Detect, AnalysisFails, Reconcile,
         StartSweep, SweepFails, usageVars
<1>3. ~Recent(RowOf(p)) /\ RowOf(p) = rows[Caller(p)].last
  BY <1>1, <1>2 DEF SweepOne, Skip, UsageInv, UsageTypeOK, RowOf
<1>4. LET last == rows[Caller(p)].last  known == told[Caller(p)]
      IN  known # Never /\ last >= known /\ day - known <= Margin
  BY <1>1, TypedRead DEF Recent, UsageInv, TableTells, Tells, Parameters, Never
<1> QED
  BY SMTT(30), <1>1, <1>3, <1>4, TypedRead DEF Recent, UsageInv, Parameters, Never

LEMMA DroppedUnfound ==
  ASSUME Parameters, UsageInv, [Next]_usageVars, NEW q \in anomalies \ anomalies'
  PROVE  query = Len(Queries) + 1 /\ q \notin fresh
<1>1. Reconcile
  BY DEF Next, NewDay, Call, Notice, Analyze, WriteBatch, Detect, AnalysisFails,
         StartSweep, SweepOne, SweepFails, usageVars
<1> QED
  BY <1>1 DEF Reconcile, UsageInv, QueriesInTurn

(* What the table and the graph know of uses and anomalies is not forgotten  *)
(* too early: rows expire only when their use is older than the margin, a    *)
(* batch taken in part is sent again before the run counts as told, a        *)
(* reading that fails leaves the finding as it was (cloudtrail-analyzer      *)
(* writeBatchWithRetry and detectAnomalies, least-privilege-sweep handler).  *)
THEOREM NotForgotten == Parameters => (Spec => UsageIsNotForgotten)
<1> SUFFICES ASSUME Parameters PROVE Spec => UsageIsNotForgotten
  OBVIOUS
<1>1. Init => UsageInv
  BY InitInv
<1>2. UsageInv /\ [Next]_usageVars => UsageInv'
  BY StepInv
<1>3. UsageInv /\ [Next]_usageVars => [NoneRemovedInUse(Users)]_usageVars
  BY RemovedUnused
<1>4. UsageInv /\ [Next]_usageVars =>
        [\A q \in anomalies \ anomalies' : query = Len(Queries) + 1 /\ q \notin fresh]_usageVars
  BY DroppedUnfound
<1>5. UsageInv => UsageTypeOK
  BY DEF UsageInv
<1> QED
  BY <1>1, <1>2, <1>3, <1>4, <1>5, PTL
  DEF Spec, UsageIsNotForgotten, UsersKeepWhatTheyUse, AnomaliesOutliveFailures

-----------------------------------------------------------------------------
(* DataScan: only invited buckets are read, failures stay local            *)
(* Who may be read: the tag is remembered, and so is an invitation given.  *)
Invitations ==
  /\ mode = "all" => everAll
  /\ tagged \subseteq everTagged
  /\ \A b \in Buckets : invited[b] = "yes" => b \in everTagged

(* A bucket is judged once: it is ahead, found, failed or without finding. *)
JudgedOnce ==
  /\ at # Nobody => at \in todo
  /\ outcome # "running" => todo = {}
  /\ erred \cap todo = {}
  /\ \A b \in Buckets : found[b] # "none" => b \notin todo /\ b \notin erred

ScanInv == ScanTypeOK /\ Invitations /\ NeverUninvited /\ JudgedOnce

LEMMA ScanInit == Bounds /\ ScannerInit => ScanInv
<1> SUFFICES ASSUME Bounds, ScannerInit PROVE ScanInv
  OBVIOUS
<1>1. ScanTypeOK
  <2>1. batch \in Seq(Buckets)
    BY DEF ScannerInit
  <2>2. /\ found \in [Buckets -> Verdicts] /\ classified \in [Buckets -> Verdicts]
        /\ invited \in [Buckets -> {"unasked", "yes", "no"}]
    BY DEF ScannerInit, Verdicts
  <2>3. \A s \in {covered, tagged, sensitive, todo, both, erred, noticed, everTagged, opened} : s = {}
    BY DEF ScannerInit
  <2>4. changes \in 0 .. MaxChanges /\ scanFaults \in 0 .. MaxScanFaults /\ scans \in 0 .. MaxScans
    BY DEF ScannerInit, Bounds
  <2>5. mode \in Modes /\ outcome \in {"none", "running", "ok", "failed", "refused"}
    BY DEF ScannerInit, Modes
  <2>6. at \in Buckets \cup {Nobody} /\ seenCovered \in BOOLEAN /\ everAll \in BOOLEAN
    BY DEF ScannerInit
  <2> QED
    BY <2>1, <2>2, <2>3, <2>4, <2>5, <2>6 DEF ScanTypeOK
<1> QED
  BY <1>1 DEF ScannerInit, ScanInv, Invitations, NeverUninvited, JudgedOnce

LEMMA DeploymentInv ==
  ASSUME Bounds, ScanInv,
         (\E b \in Buckets : Tag(b) \/ Cover(b) \/ Fill(b)) \/ \E m \in Modes : Deploy(m)
  PROVE  ScanInv'
<1>1. ASSUME NEW b \in Buckets, Tag(b) \/ Cover(b) \/ Fill(b)
      PROVE  ScanInv'
  <2>1. /\ UNCHANGED <<mode, everAll>> /\ UNCHANGED <<dailyVars, eventVars, historyVars, classified, scanFaults>>
        /\ changes' \in 0 .. MaxChanges
        /\ covered' \subseteq Buckets /\ tagged' \subseteq Buckets /\ sensitive' \subseteq Buckets
        /\ everTagged \subseteq everTagged' /\ everTagged' \subseteq Buckets /\ tagged' \subseteq everTagged'
    BY <1>1 DEF Tag, Cover, Fill, Change, Other, Unwatched, ScanInv, ScanTypeOK, Invitations, Bounds
  <2>2. ScanTypeOK'
    BY <2>1 DEF ScanInv, ScanTypeOK, dailyVars, eventVars, historyVars
  <2> QED
    BY <2>1, <2>2 DEF ScanInv, ScanTypeOK, Invitations, NeverUninvited, JudgedOnce, dailyVars, eventVars, historyVars
<1>2. ASSUME NEW m \in Modes, Deploy(m)
      PROVE  ScanInv'
  <2>1. /\ mode' = m /\ everAll' = (everAll \/ m = "all") /\ changes' \in 0 .. MaxChanges
        /\ UNCHANGED <<dailyVars, eventVars, historyVars, classified, scanFaults>>
        /\ UNCHANGED <<covered, tagged, sensitive, everTagged>>
    BY <1>2 DEF Deploy, Change, Unwatched, ScanInv, ScanTypeOK, Bounds
  <2>2. everAll' \in BOOLEAN /\ (everAll => everAll') /\ (mode' = "all" => everAll')
    BY <2>1
  <2>3. ScanTypeOK'
    BY <2>1, <2>2 DEF ScanInv, ScanTypeOK, dailyVars, eventVars, historyVars
  <2> QED
    BY <2>1, <2>2, <2>3 DEF ScanInv, Invitations, NeverUninvited, JudgedOnce, dailyVars, eventVars, historyVars
<1> QED
  BY <1>1, <1>2

(* Only what is invited is sampled.                                        *)
LEMMA SampledIfInvited ==
  ASSUME ScanInv, NEW b \in Buckets,
         NEW answer \in IF mode = "tagged-only" THEN TagAnswers(b) ELSE {"no"},
         Engine(OptedIn(answer)) = "regex", ~everAll
  PROVE  b \in everTagged
<1>1. mode # "all" /\ mode # "off"
  BY DEF ScanInv, Invitations, Engine
<1>2. answer = "yes"
  BY <1>1 DEF Engine, OptedIn
<1> QED
  BY <1>2 DEF TagAnswers, ScanInv, Invitations

LEMMA JudgeInv ==
  ASSUME Bounds, ScanInv, Judge
  PROVE  ScanInv'
<1>0. /\ ScanTypeOK /\ Invitations /\ NeverUninvited /\ JudgedOnce
      /\ at # Nobody /\ at \in Buckets /\ at \in todo /\ at' = Nobody
      /\ UNCHANGED <<bucketVars, seenCovered, scans, outcome, eventVars, classified>>
  BY DEF ScanInv, JudgedOnce, ScanTypeOK, Judge
<1>1. PICK answer \in IF mode = "tagged-only" THEN TagAnswers(at) ELSE {"no"} :
        /\ Blamed(answer)
        /\ \/ answer = "error" /\ BucketFails(at)
           \/ /\ answer # "error"
              /\ found' = [found EXCEPT ![at] = IF at \in sensitive THEN Engine(OptedIn(answer)) ELSE "none"]
              /\ both' = IF seenCovered /\ OptedIn(answer) THEN both \cup {at} ELSE both
              /\ IF Engine(OptedIn(answer)) = "regex" THEN ReadObjects(at) ELSE UNCHANGED historyVars
              /\ todo' = todo \ {at} /\ erred' = erred
  BY DEF Judge
<1>2. scanFaults' \in 0 .. MaxScanFaults
  <2>1. answer \in {"denied", "error"} => scanFaults < MaxScanFaults
    BY <1>1 DEF TagAnswers
  <2> QED
    BY <1>0, <1>1, <2>1 DEF Blamed, ScanTypeOK, Bounds
<1>3. /\ todo' = todo \ {at} /\ both' \subseteq Buckets
      /\ erred' \subseteq erred \cup {at} /\ erred \subseteq erred'
      /\ found' \in [Buckets -> Verdicts] /\ \A b \in Buckets \ {at} : found'[b] = found[b]
      /\ at \in erred' => found'[at] = "none"
      /\ opened' \subseteq Buckets /\ (opened' \subseteq opened \cup {at})
  <2>1. Engine(OptedIn(answer)) \in Verdicts
    BY DEF Engine, Verdicts
  <2>2. found[at] = "none" /\ at \notin erred
    BY <1>0 DEF JudgedOnce
  <2> QED
    BY <1>0, <1>1, <2>1, <2>2 DEF ScanTypeOK, BucketFails, ReadObjects, historyVars, Verdicts
<1>4. ScanTypeOK'
  BY <1>0, <1>2, <1>3 DEF ScanTypeOK, bucketVars, eventVars
<1>5. NeverUninvited'
  <2>1. CASE UNCHANGED opened
    BY <1>0, <2>1 DEF NeverUninvited, bucketVars
  <2>2. CASE Engine(OptedIn(answer)) = "regex" /\ opened' = opened \cup {at}
    BY <1>0, <2>2, SampledIfInvited DEF NeverUninvited, bucketVars, ScanInv
  <2> QED
    BY <1>1, <2>1, <2>2 DEF BucketFails, ReadObjects, historyVars
<1>6. Invitations'
  BY <1>0 DEF Invitations, bucketVars, eventVars
<1>7. JudgedOnce'
  BY <1>0, <1>3 DEF JudgedOnce
<1> QED
  BY <1>4, <1>5, <1>6, <1>7 DEF ScanInv

LEMMA DailyInv ==
  ASSUME Bounds, ScanInv, BeginScan \/ (\E b \in Buckets : LookAt(b)) \/ ListingFails \/ EndScan
  PROVE  ScanInv'
<1>0. ScanTypeOK /\ Invitations /\ NeverUninvited /\ JudgedOnce
  BY DEF ScanInv
<1>1. UNCHANGED <<bucketVars, eventVars, opened>>
  BY DEF BeginScan, LookAt, ListingFails, EndScan, BucketFails, historyVars
<1>2. Invitations' /\ NeverUninvited'
  BY <1>0, <1>1 DEF Invitations, NeverUninvited, bucketVars, eventVars
<1>3. CASE BeginScan
  <2>1. ScanTypeOK'
    <3>1. found' \in [Buckets -> Verdicts]
      BY <1>3 DEF BeginScan, Verdicts
    <3>2. scans' \in 0 .. MaxScans
      BY <1>0, <1>3 DEF BeginScan, ScanTypeOK, Bounds
    <3> QED
      BY <1>0, <1>1, <1>3, <3>1, <3>2 DEF BeginScan, ScanTypeOK, bucketVars, eventVars
  <2>2. JudgedOnce'
    BY <1>0, <1>3 DEF BeginScan, JudgedOnce
  <2> QED
    BY <1>2, <2>1, <2>2 DEF ScanInv
<1>4. ASSUME NEW b \in Buckets, LookAt(b)
      PROVE  ScanInv'
  <2>1. ScanTypeOK'
    <3>1. scanFaults' \in 0 .. MaxScanFaults
      BY <1>0, <1>4 DEF LookAt, ScanTypeOK, Bounds
    <3>2. seenCovered' \in BOOLEAN
      <4>1. seenCovered' = (b \in covered) \/ seenCovered' = FALSE
        BY <1>4 DEF LookAt
      <4>2. (b \in covered) \in BOOLEAN
        OBVIOUS
      <4> QED
        BY <4>1, <4>2, Zenon
    <3> QED
      <4>1. at' \in Buckets /\ UNCHANGED <<todo, both, erred, found, scans, outcome, classified>>
        BY <1>4 DEF LookAt
      <4> QED
        BY <1>0, <1>1, <3>1, <3>2, <4>1 DEF ScanTypeOK, bucketVars, eventVars
  <2>2. JudgedOnce'
    BY <1>0, <1>4 DEF LookAt, JudgedOnce
  <2> QED
    BY <1>2, <2>1, <2>2 DEF ScanInv
<1>5. CASE ListingFails
  <2>1. at \in todo /\ at \in Buckets /\ at' = Nobody /\ erred' = erred \cup {at} /\ todo' = todo \ {at}
        /\ UNCHANGED <<both, found, outcome, seenCovered, scans, classified>> /\ scanFaults' \in 0 .. MaxScanFaults
    BY <1>0, <1>5 DEF ListingFails, BucketFails, JudgedOnce, ScanTypeOK, Bounds
  <2>2. ScanTypeOK'
    BY <1>0, <1>1, <2>1 DEF ScanTypeOK, bucketVars, eventVars
  <2>3. JudgedOnce'
    BY <1>0, <2>1 DEF JudgedOnce
  <2> QED
    BY <1>2, <2>2, <2>3 DEF ScanInv
<1>6. CASE EndScan
  <2>1. classified' \in [Buckets -> Verdicts] /\ scanFaults' \in 0 .. MaxScanFaults
        /\ outcome' \in {"ok", "failed", "refused"} /\ todo = {} /\ at = Nobody
    BY <1>0, <1>6 DEF EndScan, ScanTypeOK, Persisted, Bounds
  <2>2. UNCHANGED <<todo, at, seenCovered, both, erred, found, scans>>
    BY <1>6 DEF EndScan
  <2>3. ScanTypeOK'
    BY <1>0, <1>1, <2>1, <2>2 DEF ScanTypeOK, bucketVars, eventVars
  <2>4. JudgedOnce'
    BY <1>0, <2>1, <2>2 DEF JudgedOnce
  <2> QED
    BY <1>2, <2>3, <2>4 DEF ScanInv
<1> QED
  BY <1>3, <1>4, <1>5, <1>6

LEMMA EventsInv ==
  ASSUME Bounds, ScanInv, Deliver \/ Event \/ EventFails
  PROVE  ScanInv'
<1>0. ScanTypeOK /\ Invitations /\ NeverUninvited /\ JudgedOnce
  BY DEF ScanInv
<1>1. UNCHANGED <<bucketVars, dailyVars>>
  BY DEF Deliver, Event, EventFails
<1>2. JudgedOnce'
  BY <1>0, <1>1 DEF JudgedOnce, dailyVars
<1>3. CASE Deliver
  <2>1. /\ batch' \in Seq(Buckets) /\ invited' = [b \in Buckets |-> "unasked"] /\ noticed' = {}
        /\ UNCHANGED <<classified, opened, scanFaults>>
    <3>1. PICK a, b \in Buckets : batch' \in {<<a>>, <<a, b>>}
      BY <1>3 DEF Deliver
    <3>2. <<a>> \in Seq(Buckets) /\ <<a, b>> \in Seq(Buckets)
      OBVIOUS
    <3> QED
      BY <1>3, <3>1, <3>2 DEF Deliver, historyVars
  <2>2. ScanTypeOK'
    BY <1>0, <1>1, <2>1 DEF ScanTypeOK, bucketVars, dailyVars
  <2> QED
    BY <1>0, <1>1, <1>2, <2>1, <2>2 DEF ScanInv, Invitations, NeverUninvited, bucketVars
<1>4. CASE EventFails
  <2>1. /\ batch' \in Seq(Buckets) /\ scanFaults' \in 0 .. MaxScanFaults
        /\ UNCHANGED <<invited, noticed, classified, opened>>
    BY <1>0, <1>4 DEF EventFails, historyVars, ScanTypeOK, Bounds
  <2>2. ScanTypeOK'
    BY <1>0, <1>1, <2>1 DEF ScanTypeOK, bucketVars, dailyVars
  <2> QED
    BY <1>0, <1>1, <1>2, <2>1, <2>2 DEF ScanInv, Invitations, NeverUninvited, bucketVars
<1>5. CASE Event
  <2> DEFINE b == Head(batch)
  <2>1. batch # <<>> /\ b \in Buckets /\ batch' \in Seq(Buckets)
    BY <1>0, <1>5 DEF Event, ScanTypeOK
  <2>2. PICK answer \in IF invited[b] = "unasked" THEN TagAnswers(b) \ {"error"} ELSE {invited[b]} :
          /\ Blamed(answer)
          /\ invited' = [invited EXCEPT ![b] = IF OptedIn(answer) THEN "yes" ELSE "no"]
          /\ IF invited'[b] = "yes"
             THEN ReadObjects(b) /\ noticed' = noticed \cup ({b} \cap sensitive)
             ELSE UNCHANGED <<historyVars, noticed>>
    BY <1>5 DEF Event
  <2>3. scanFaults' \in 0 .. MaxScanFaults
    <3>1. answer \in {"denied", "error"} => scanFaults < MaxScanFaults
      <4>1. CASE invited[b] = "unasked"
        BY <2>2, <4>1 DEF TagAnswers
      <4>2. CASE invited[b] # "unasked"
        BY <1>0, <2>1, <2>2, <4>2 DEF ScanTypeOK
      <4> QED
        BY <4>1, <4>2
    <3> QED
      BY <1>0, <2>2, <3>1 DEF Blamed, ScanTypeOK, Bounds
  <2>4. invited'[b] = "yes" => b \in everTagged
    <3>1. invited'[b] = "yes" => answer = "yes"
      BY <1>0, <2>1, <2>2 DEF OptedIn, ScanTypeOK
    <3> QED
      BY <1>0, <2>1, <2>2, <3>1 DEF TagAnswers, Invitations
  <2>5. /\ invited' \in [Buckets -> {"unasked", "yes", "no"}]
        /\ \A c \in Buckets \ {b} : invited'[c] = invited[c]
    BY <1>0, <2>1, <2>2 DEF ScanTypeOK
  <2>6. /\ noticed' \subseteq Buckets /\ opened' \subseteq Buckets
        /\ opened' = opened \/ (opened' = opened \cup {b} /\ invited'[b] = "yes")
    <3>1. noticed \subseteq Buckets /\ opened \subseteq Buckets
      BY <1>0 DEF ScanTypeOK
    <3>2. CASE invited'[b] = "yes"
      BY <2>1, <2>2, <3>1, <3>2 DEF ReadObjects
    <3>3. CASE invited'[b] # "yes"
      <4>1. UNCHANGED <<historyVars, noticed>>
        BY <2>2, <3>3
      <4> QED
        BY <3>1, <4>1 DEF historyVars
    <3> QED
      BY <3>2, <3>3
  <2>7. classified' \in [Buckets -> Verdicts]
    BY <1>0, <1>5 DEF Event, ScanTypeOK, Verdicts
  <2>8. ScanTypeOK'
    BY <1>0, <1>1, <2>1, <2>3, <2>5, <2>6, <2>7 DEF ScanTypeOK, bucketVars, dailyVars
  <2>9. Invitations'
    BY <1>0, <1>1, <2>4, <2>5 DEF Invitations, bucketVars
  <2>10. NeverUninvited'
    BY <1>0, <1>1, <2>4, <2>6 DEF NeverUninvited, bucketVars
  <2> QED
    BY <1>2, <2>8, <2>9, <2>10 DEF ScanInv
<1> QED
  BY <1>3, <1>4, <1>5

LEMMA ScanStep == Bounds /\ ScanInv /\ [ScannerNext]_scanVars => ScanInv'
<1> SUFFICES ASSUME Bounds, ScanInv, [ScannerNext]_scanVars PROVE ScanInv'
  OBVIOUS
<1>1. CASE UNCHANGED scanVars
  BY <1>1 DEF scanVars, ScanInv, ScanTypeOK, Invitations, NeverUninvited, JudgedOnce
<1> QED
  BY <1>1, DeploymentInv, JudgeInv, DailyInv, EventsInv DEF ScannerNext

LEMMA EndedWhole ==
  ASSUME Bounds, ScanInv, [ScannerNext]_scanVars,
         outcome = "running", outcome' \in {"ok", "failed"}, scanFaults' = scanFaults
  PROVE  /\ \A b \in Buckets : found[b] # "none" => classified'[b] = found[b]
         /\ outcome' = "ok" => erred = {}
         /\ \A b \in erred : classified'[b] = classified[b]
<1>1. EndScan
  BY DEF ScannerNext, Tag, Cover, Fill, LookAt, Deploy, BeginScan, Judge, ListingFails, Deliver, Event,
         EventFails, Unwatched, dailyVars, scanVars
<1>2. /\ classified' = [b \in Buckets |-> IF found[b] # "none" THEN found[b] ELSE classified[b]]
      /\ outcome' = IF erred = {} THEN "ok" ELSE "failed"
  BY <1>1 DEF EndScan, Persisted, ScanInv, ScanTypeOK, Bounds
<1> QED
  BY <1>2 DEF ScanInv, ScanTypeOK, JudgedOnce

(* While only tagged buckets are to be sampled, no object of a bucket that *)
(* never carried the tag is read, by the daily scan or by an event; and a  *)
(* scan writes what it found in the buckets that did not fail (dspm-       *)
(* scanner).                                                               *)
THEOREM Invited == Bounds => (ScannerSpec => ScansAreInvited)
<1> SUFFICES ASSUME Bounds PROVE ScannerSpec => ScansAreInvited
  OBVIOUS
<1> DEFINE Spared ==
      (outcome = "running" /\ outcome' \in {"ok", "failed"} /\ scanFaults' = scanFaults) =>
       /\ \A b \in Buckets : found[b] # "none" => classified'[b] = found[b]
       /\ outcome' = "ok" => erred = {}
       /\ \A b \in erred : classified'[b] = classified[b]
<1>1. ScanInv /\ [ScannerNext]_scanVars => [Spared]_scanVars
  BY EndedWhole
<1>2. ScanInv => ScanTypeOK /\ NeverUninvited
  BY DEF ScanInv
<1> QED
  BY <1>1, <1>2, ScanInit, ScanStep, PTL DEF ScannerSpec, ScansAreInvited, FailuresSpareTheRest

-----------------------------------------------------------------------------
(* ThreatIntel: labels are current, imported indicators found              *)
(* A row is what the last import of its indicator left: it was imported,    *)
(* and it expires as long after as an indicator lives.                      *)
RowsFollowImports ==
  \A k \in DOMAIN indicators : imported[k] > 0 /\ indicators[k] = imported[k] + IndicatorTtl

LabelsWereImported == labels \subseteq IndicatorKeys

IntelInv ==
  IntelTypeOK /\ RowsFollowImports /\ ImportedStayFound /\ LabelsWereImported /\ LabelsAreCurrent

LEMMA IntelNumbers ==
  /\ IndicatorTtl \in Nat /\ IndicatorLag \in Nat /\ MaxLines \in Nat
  /\ MaxIntelDay \in Nat \ {0} /\ MaxListEdits \in Nat /\ MaxIntelFaults \in Nat
  BY IntelParameters

LEMMA TypesInOrder == TypeOrder \in Seq(IndicatorTypes)
  BY IntelParameters

(* What the stages of an import say of its fields.                          *)
LEMMA ImportFields ==
  ASSUME NEW i \in ImportStates
  PROVE  /\ i.stage \in {"idle", "list", "put", "done", "failed"}
         /\ i.stage \in {"list", "put"} => i.day \in 1 .. MaxIntelDay /\ i.todo \in Seq(IndicatorTypes)
         /\ i.stage = "put" =>
              /\ i.keys \in SUBSET IndicatorKeys
              /\ i \in [stage : {"put", "failed"}, day : 1 .. MaxIntelDay,
                        todo : Seq(IndicatorTypes), keys : SUBSET IndicatorKeys]
         /\ i.stage = "list" =>
              i \in [stage : {"list", "failed"}, day : 1 .. MaxIntelDay, todo : Seq(IndicatorTypes)]
<1>1. CASE i = NoImport
  BY <1>1 DEF NoImport
<1>2. CASE i \in [stage : {"list", "failed"}, day : 1 .. MaxIntelDay, todo : Seq(IndicatorTypes)]
  BY <1>2
<1>3. CASE i \in [stage : {"put", "failed"}, day : 1 .. MaxIntelDay, todo : Seq(IndicatorTypes),
                  keys : SUBSET IndicatorKeys]
  BY <1>3
<1>4. CASE i \in [stage : {"done"}, day : 1 .. MaxIntelDay]
  BY <1>4
<1> QED
  BY <1>1, <1>2, <1>3, <1>4 DEF ImportStates

(* Failing, or putting a chunk, changes one field of what an import carries. *)
LEMMA FailingList ==
  ASSUME NEW D, NEW T, NEW i \in [stage : {"list", "failed"}, day : D, todo : T]
  PROVE  /\ [i EXCEPT !.stage = "failed"] \in [stage : {"list", "failed"}, day : D, todo : T]
         /\ [i EXCEPT !.stage = "failed"].stage = "failed"
  OBVIOUS

LEMMA FailingPut ==
  ASSUME NEW D, NEW T, NEW K, NEW i \in [stage : {"put", "failed"}, day : D, todo : T, keys : K]
  PROVE  /\ [i EXCEPT !.stage = "failed"] \in [stage : {"put", "failed"}, day : D, todo : T, keys : K]
         /\ [i EXCEPT !.stage = "failed"].stage = "failed"
  OBVIOUS

LEMMA PuttingChunk ==
  ASSUME NEW D, NEW T, NEW K, NEW i \in [stage : {"put", "failed"}, day : D, todo : T, keys : K],
         NEW left \in K
  PROVE  /\ [i EXCEPT !.keys = left] \in [stage : {"put", "failed"}, day : D, todo : T, keys : K]
         /\ [i EXCEPT !.keys = left].stage = i.stage
         /\ [i EXCEPT !.keys = left].keys = left
  OBVIOUS

(* An import that fails keeps what it carries.                              *)
LEMMA FailedImport ==
  ASSUME IntelTypeOK, import.stage \in {"list", "put"}, ImportFails
  PROVE  import' \in ImportStates /\ import'.stage = "failed" /\ intelFaults' \in 0 .. MaxIntelFaults
<1>1. import' = [import EXCEPT !.stage = "failed"]
  BY DEF ImportFails
<1>0. intelFaults' \in 0 .. MaxIntelFaults
  BY IntelNumbers DEF ImportFails, IntelFault, IntelTypeOK
<1>2. CASE import.stage = "list"
  <2>1. import \in [stage : {"list", "failed"}, day : 1 .. MaxIntelDay, todo : Seq(IndicatorTypes)]
    BY <1>2, ImportFields DEF IntelTypeOK
  <2>2. /\ import' \in [stage : {"list", "failed"}, day : 1 .. MaxIntelDay,
                        todo : Seq(IndicatorTypes)]
        /\ import'.stage = "failed"
    BY <1>1, <2>1, FailingList
  <2> QED
    BY <1>0, <2>2 DEF ImportStates
<1>3. CASE import.stage = "put"
  <2>1. import \in [stage : {"put", "failed"}, day : 1 .. MaxIntelDay,
                    todo : Seq(IndicatorTypes), keys : SUBSET IndicatorKeys]
    BY <1>3, ImportFields DEF IntelTypeOK
  <2>2. /\ import' \in [stage : {"put", "failed"}, day : 1 .. MaxIntelDay,
                        todo : Seq(IndicatorTypes), keys : SUBSET IndicatorKeys]
        /\ import'.stage = "failed"
    BY <1>1, <2>1, FailingPut
  <2> QED
    BY <1>0, <2>2 DEF ImportStates
<1> QED
  BY <1>2, <1>3

LEMMA IntelStart == IntelInit => IntelInv
<1> SUFFICES ASSUME IntelInit PROVE IntelInv
  OBVIOUS
<1>1. IntelTypeOK
  BY IntelNumbers DEF IntelInit, IntelTypeOK, ImportStates, NoImport
<1> QED
  BY <1>1 DEF IntelInit, IntelInv, RowsFollowImports, ImportedStayFound, LabelsWereImported,
              LabelsAreCurrent

(* What a file's lines say are keys of its type, at most MaxLines of them.  *)
LEMMA ParsedKeys ==
  ASSUME NEW t \in IndicatorTypes, NEW keys \in ParseIndicatorList(t), lists[t] \subseteq ListValues[t]
  PROVE  keys \subseteq IndicatorKeys /\ IsFiniteSet(keys) /\ Cardinality(keys) <= MaxLines
<1> DEFINE all == {<<t, Upper[v]>> : v \in lists[t]}
           key == [v \in lists[t] |-> <<t, Upper[v]>>]
<1>1. IsFiniteSet(lists[t])
  BY FS_Subset, IntelParameters
<1>2. key \in Surjection(lists[t], all)
  BY DEF Surjection
<1>3. IsFiniteSet(all)
  BY <1>1, <1>2, FS_Surjection
<1>4. Cardinality(all) \in Nat
  BY <1>3, FS_CardinalityType
<1>5. keys \subseteq all /\ Cardinality(keys) = IF Cardinality(all) > MaxLines THEN MaxLines ELSE Cardinality(all)
  BY DEF ParseIndicatorList
<1>6. IsFiniteSet(keys)
  BY <1>3, <1>5, FS_Subset
<1>7. Cardinality(keys) <= MaxLines
  BY <1>4, <1>5, IntelNumbers
<1>8. all \subseteq IndicatorKeys
  BY DEF IndicatorKeys
<1> QED
  BY <1>5, <1>6, <1>7, <1>8

(* There are finitely many indicators to import.                            *)
LEMMA KeysAreFinite == IsFiniteSet(IndicatorKeys)
<1> DEFINE typeAt == [n \in 1 .. Len(TypeOrder) |-> TypeOrder[n]]
           keysOf(t) == {<<t, Upper[v]>> : v \in ListValues[t]}
           allKeys == {keysOf(t) : t \in IndicatorTypes}
           keysAt == [t \in IndicatorTypes |-> keysOf(t)]
<1>1. Len(TypeOrder) \in Nat /\ IndicatorTypes = {TypeOrder[n] : n \in 1 .. Len(TypeOrder)}
  BY TypesInOrder DEF IndicatorTypes, ToSet
<1>2. IsFiniteSet(1 .. Len(TypeOrder))
  BY <1>1, FS_Interval
<1>3. typeAt \in Surjection(1 .. Len(TypeOrder), IndicatorTypes)
  BY <1>1 DEF Surjection
<1>4. IsFiniteSet(IndicatorTypes)
  BY <1>2, <1>3, FS_Surjection
<1>5. keysAt \in Surjection(IndicatorTypes, allKeys)
  BY DEF Surjection
<1>6. IsFiniteSet(allKeys)
  BY <1>4, <1>5, FS_Surjection
<1>7. ASSUME NEW t \in IndicatorTypes PROVE IsFiniteSet(keysOf(t))
  <2> DEFINE key == [v \in ListValues[t] |-> <<t, Upper[v]>>]
  <2>1. key \in Surjection(ListValues[t], keysOf(t))
    BY DEF Surjection
  <2> QED
    BY <2>1, FS_Surjection, IntelParameters
<1>8. \A K \in allKeys : IsFiniteSet(K)
  BY <1>7
<1> QED
  BY <1>6, <1>8, FS_UNION DEF IndicatorKeys

(* Putting some keys: their rows expire as long from today as they live.    *)
LEMMA PutKeeps ==
  ASSUME IntelInv, NEW keys \in SUBSET IndicatorKeys, PutIndicators(keys),
         UNCHANGED <<intelDay, labels, refreshed>>
  PROVE  /\ imported' \in [IndicatorKeys -> 0 .. intelDay]
         /\ DOMAIN indicators' \subseteq IndicatorKeys
         /\ \A k \in DOMAIN indicators' : indicators'[k] + IndicatorLag >= intelDay
         /\ RowsFollowImports' /\ ImportedStayFound' /\ LabelsWereImported' /\ LabelsAreCurrent'
<1>1. /\ intelDay \in Nat \ {0} /\ refreshed \in 0 .. intelDay
      /\ imported \in [IndicatorKeys -> 0 .. intelDay] /\ DOMAIN indicators \subseteq IndicatorKeys
      /\ \A k \in DOMAIN indicators : indicators[k] + IndicatorLag >= intelDay
  BY DEF IntelInv, IntelTypeOK
<1>2. imported' = [k \in IndicatorKeys |-> IF k \in keys THEN intelDay ELSE imported[k]]
  BY DEF PutIndicators
<1>3. indicators' = [k \in DOMAIN indicators \cup keys |->
                       IF k \in keys THEN intelDay + IndicatorTtl ELSE indicators[k]]
  BY DEF PutIndicators
<1>4. imported' \in [IndicatorKeys -> 0 .. intelDay]
  BY <1>1, <1>2
<1>5. DOMAIN indicators' = DOMAIN indicators \cup keys
  BY <1>3
<1>6. \A k \in keys : indicators'[k] = intelDay + IndicatorTtl /\ imported'[k] = intelDay
  BY <1>2, <1>3
<1>7. \A k \in DOMAIN indicators \ keys : indicators'[k] = indicators[k] /\ imported'[k] = imported[k]
  BY <1>1, <1>2, <1>3
<1>8. \A k \in DOMAIN indicators' : indicators'[k] + IndicatorLag >= intelDay
  BY <1>1, <1>5, <1>6, <1>7, IntelNumbers
<1>9. RowsFollowImports'
  BY <1>1, <1>5, <1>6, <1>7 DEF RowsFollowImports, IntelInv
<1>10. ImportedStayFound'
  <2> SUFFICES ASSUME NEW k \in IndicatorKeys, imported'[k] > 0,
                      imported'[k] + IndicatorTtl >= intelDay
               PROVE  k \in DOMAIN indicators'
    BY DEF ImportedStayFound
  <2>1. CASE k \in keys
    BY <1>5, <2>1
  <2>2. CASE k \notin keys
    BY <1>2, <1>5, <2>2 DEF ImportedStayFound, IntelInv
  <2> QED
    BY <2>1, <2>2
<1>11. LabelsWereImported'
  BY DEF LabelsWereImported, IntelInv
<1>12. LabelsAreCurrent'
  <2> SUFFICES ASSUME NEW k \in labels
               PROVE  imported'[k] > 0 /\ imported'[k] + IndicatorTtl + IndicatorLag >= refreshed
    BY DEF LabelsAreCurrent
  <2>1. k \in IndicatorKeys
    BY DEF LabelsWereImported, IntelInv
  <2>2. imported[k] \in 0 .. intelDay /\ imported'[k] = IF k \in keys THEN intelDay ELSE imported[k]
    BY <1>1, <1>2, <2>1
  <2>3. imported[k] > 0 /\ imported[k] + IndicatorTtl + IndicatorLag >= refreshed
    BY DEF LabelsAreCurrent, IntelInv
  <2> QED
    BY <1>1, <2>2, <2>3, IntelNumbers
<1> QED
  BY <1>4, <1>1, <1>5, <1>8, <1>9, <1>10, <1>11, <1>12

LEMMA IntelStep == IntelInv /\ [IntelNext]_intelVars => IntelInv'
<1> SUFFICES ASSUME IntelInv, [IntelNext]_intelVars PROVE IntelInv'
  OBVIOUS
<1>0. IntelTypeOK /\ RowsFollowImports /\ ImportedStayFound /\ LabelsWereImported /\ LabelsAreCurrent
  BY DEF IntelInv
<1>1. CASE EditList
  <2>1. \A t \in IndicatorTypes : lists'[t] \subseteq ListValues[t]
    BY <1>0, <1>1 DEF EditList, IntelTypeOK
  <2>2. IntelTypeOK'
    BY <1>0, <1>1, <2>1, IntelNumbers DEF EditList, IntelTypeOK, PathIndicators
  <2> QED
    BY <1>0, <1>1, <2>2
    DEF EditList, IntelInv, RowsFollowImports, ImportedStayFound, LabelsWereImported, LabelsAreCurrent
<1>2. CASE NextIntelDay
  <2>1. PICK gone \in SUBSET Lapsed(intelDay + 1) :
          /\ {k \in DOMAIN indicators : indicators[k] + IndicatorLag < intelDay + 1} \subseteq gone
          /\ indicators' = [k \in DOMAIN indicators \ gone |-> indicators[k]]
    BY <1>2 DEF NextIntelDay
  <2>2. DOMAIN indicators' = DOMAIN indicators \ gone
        /\ \A k \in DOMAIN indicators' : indicators'[k] = indicators[k]
    BY <2>1
  <2>3. /\ intelDay \in 1 .. MaxIntelDay /\ intelDay < MaxIntelDay /\ intelDay' = intelDay + 1
        /\ refreshed \in 0 .. intelDay /\ imported \in [IndicatorKeys -> 0 .. intelDay]
        /\ DOMAIN indicators \subseteq IndicatorKeys
        /\ UNCHANGED <<lists, import, labels, refreshed, imported, listEdits, intelFaults>>
    BY <1>0, <1>2 DEF NextIntelDay, IntelTypeOK
  <2>4. \A k \in DOMAIN indicators : indicators[k] = imported[k] + IndicatorTtl /\ indicators[k] \in Nat
    BY <1>0, <2>3, IntelNumbers DEF RowsFollowImports
  <2>5. \A k \in DOMAIN indicators' : indicators'[k] + IndicatorLag >= intelDay + 1
    BY <2>1, <2>2, <2>3, <2>4, IntelNumbers
  <2>6. /\ intelDay' \in 1 .. MaxIntelDay /\ refreshed' \in 0 .. intelDay'
        /\ imported' \in [IndicatorKeys -> 0 .. intelDay']
    BY <2>3, IntelNumbers
  <2>7. IntelTypeOK'
    BY <1>0, <2>2, <2>3, <2>5, <2>6 DEF IntelTypeOK, PathIndicators
  <2>8. ImportedStayFound'
    <3> SUFFICES ASSUME NEW k \in IndicatorKeys, imported[k] > 0,
                        imported[k] + IndicatorTtl >= intelDay + 1
                 PROVE  k \in DOMAIN indicators'
      BY <2>3 DEF ImportedStayFound
    <3>1. k \in DOMAIN indicators
      BY <1>0, <2>3, IntelNumbers DEF ImportedStayFound
    <3>2. k \notin Lapsed(intelDay + 1)
      BY <2>3, <2>4, <3>1 DEF Lapsed
    <3> QED
      BY <2>1, <2>2, <3>1, <3>2
  <2>9. RowsFollowImports'
    BY <1>0, <2>2, <2>3 DEF RowsFollowImports
  <2> QED
    BY <1>0, <2>3, <2>7, <2>8, <2>9 DEF IntelInv, LabelsWereImported, LabelsAreCurrent
<1>3. CASE StartImport
  <2>1. import' \in ImportStates /\ import'.stage = "list"
    BY <1>0, <1>3, TypesInOrder DEF StartImport, ImportStates, IntelTypeOK
  <2>2. IntelTypeOK'
    BY <1>0, <1>3, <2>1 DEF StartImport, IntelTypeOK, PathIndicators
  <2> QED
    BY <1>0, <1>3, <2>2
    DEF StartImport, IntelInv, RowsFollowImports, ImportedStayFound, LabelsWereImported, LabelsAreCurrent
<1>4. CASE ReadList
  <2>1. UNCHANGED <<intelDay, lists, indicators, labels, refreshed, imported, listEdits>>
    BY <1>4 DEF ReadList
  <2>2. /\ import' \in ImportStates /\ intelFaults' \in 0 .. MaxIntelFaults
        /\ import'.stage = "put" => Cardinality(import'.keys) <= MaxLines
    <3>1. CASE ImportFails
      <4>1. import.stage \in {"list", "put"}
        BY <1>4 DEF ReadList
      <4> QED
        BY <1>0, <3>1, <4>1, FailedImport
    <3>2. ASSUME NEW keys \in ParseIndicatorList(Head(import.todo)), IntelWorks,
                 import' = [stage |-> "put", day |-> import.day, todo |-> Tail(import.todo),
                            keys |-> keys]
          PROVE  /\ import' \in ImportStates /\ intelFaults' \in 0 .. MaxIntelFaults
                 /\ import'.stage = "put" => Cardinality(import'.keys) <= MaxLines
      <4>1. import.day \in 1 .. MaxIntelDay /\ import.todo \in Seq(IndicatorTypes) /\ import.todo # << >>
        BY <1>0, <1>4, ImportFields DEF ReadList, IntelTypeOK
      <4>2. Head(import.todo) \in IndicatorTypes /\ Tail(import.todo) \in Seq(IndicatorTypes)
        BY <4>1
      <4>3. keys \subseteq IndicatorKeys /\ Cardinality(keys) <= MaxLines
        BY <1>0, <3>2, <4>2, ParsedKeys DEF IntelTypeOK
      <4>4. import' \in [stage : {"put", "failed"}, day : 1 .. MaxIntelDay,
                         todo : Seq(IndicatorTypes), keys : SUBSET IndicatorKeys]
        BY <3>2, <4>1, <4>2, <4>3
      <4> QED
        BY <1>0, <3>2, <4>3, <4>4 DEF ImportStates, IntelWorks, IntelTypeOK
    <3> QED
      BY <1>4, <3>1, <3>2 DEF ReadList
  <2>3. IntelTypeOK'
    BY <1>0, <2>1, <2>2 DEF IntelTypeOK, PathIndicators
  <2> QED
    BY <1>0, <2>1, <2>3
    DEF IntelInv, RowsFollowImports, ImportedStayFound, LabelsWereImported, LabelsAreCurrent
<1>5. CASE PutChunk
  <2>1. PICK chunk \in SUBSET import.keys :
          \/ IntelWorks /\ PutIndicators(chunk) /\ import' = [import EXCEPT !.keys = @ \ chunk]
          \/ ImportFails /\ \E taken \in SUBSET chunk : taken # chunk /\ PutIndicators(taken)
    BY <1>5 DEF PutChunk
  <2>2. /\ import \in [stage : {"put", "failed"}, day : 1 .. MaxIntelDay,
                        todo : Seq(IndicatorTypes), keys : SUBSET IndicatorKeys]
        /\ import.stage = "put" /\ Cardinality(import.keys) <= MaxLines
        /\ UNCHANGED <<intelDay, lists, labels, refreshed, listEdits>>
    BY <1>0, <1>5, ImportFields DEF PutChunk, IntelTypeOK
  <2>3. PICK keys \in SUBSET IndicatorKeys : PutIndicators(keys)
    BY <2>1, <2>2
  <2>4. /\ imported' \in [IndicatorKeys -> 0 .. intelDay]
        /\ DOMAIN indicators' \subseteq IndicatorKeys
        /\ \A k \in DOMAIN indicators' : indicators'[k] + IndicatorLag >= intelDay
        /\ RowsFollowImports' /\ ImportedStayFound' /\ LabelsWereImported' /\ LabelsAreCurrent'
    BY <2>2, <2>3, PutKeeps
  <2>5. /\ import' \in ImportStates /\ intelFaults' \in 0 .. MaxIntelFaults
        /\ import'.stage = "put" => Cardinality(import'.keys) <= MaxLines
    <3>1. CASE ImportFails
      BY <1>0, <2>2, <3>1, FailedImport
    <3>2. CASE IntelWorks /\ import' = [import EXCEPT !.keys = @ \ chunk]
      <4>1. import' = [import EXCEPT !.keys = import.keys \ chunk]
        BY <2>2, <3>2
      <4>2. /\ import' \in [stage : {"put", "failed"}, day : 1 .. MaxIntelDay,
                             todo : Seq(IndicatorTypes), keys : SUBSET IndicatorKeys]
            /\ import'.keys = import.keys \ chunk
        BY <2>2, <4>1, PuttingChunk
      <4>3. Cardinality(import.keys \ chunk) <= MaxLines
        <5>1. IsFiniteSet(import.keys)
          BY <2>2, KeysAreFinite, FS_Subset
        <5>2. IsFiniteSet(import.keys \ chunk) /\ Cardinality(import.keys \ chunk) <= Cardinality(import.keys)
          BY <5>1, FS_Subset
        <5>3. Cardinality(import.keys) \in Nat /\ Cardinality(import.keys \ chunk) \in Nat
          BY <5>1, <5>2, FS_CardinalityType
        <5> QED
          BY <2>2, <5>2, <5>3, IntelNumbers
      <4> QED
        BY <1>0, <3>2, <4>2, <4>3 DEF ImportStates, IntelWorks, IntelTypeOK
    <3> QED
      BY <2>1, <3>1, <3>2
  <2>6. IntelTypeOK'
    BY <1>0, <2>2, <2>4, <2>5 DEF IntelTypeOK, PathIndicators
  <2> QED
    BY <2>4, <2>6 DEF IntelInv
<1>6. CASE NextList
  <2>1. import' \in ImportStates /\ import'.stage \in {"list", "done"}
    <3>1. import.day \in 1 .. MaxIntelDay /\ import.todo \in Seq(IndicatorTypes)
      BY <1>0, <1>6, ImportFields DEF NextList, IntelTypeOK
    <3> QED
      BY <1>6, <3>1 DEF NextList, ImportStates
  <2>2. IntelTypeOK'
    BY <1>0, <1>6, <2>1 DEF NextList, IntelTypeOK, PathIndicators
  <2> QED
    BY <1>0, <1>6, <2>2
    DEF NextList, IntelInv, RowsFollowImports, ImportedStayFound, LabelsWereImported, LabelsAreCurrent
<1>7. CASE RefreshIssue
  <2>1. UNCHANGED <<intelDay, lists, indicators, import, imported, listEdits>> /\ refreshed' = intelDay
    BY <1>7 DEF RefreshIssue
  <2>2. labels' \subseteq PathIndicators \cap DOMAIN indicators /\ intelFaults' \in 0 .. MaxIntelFaults
    BY <1>0, <1>7, IntelNumbers
    DEF RefreshIssue, MetadataWithLabels, FindIndicators, IntelWorks, IntelFault, IntelTypeOK
  <2>3. IntelTypeOK'
    BY <1>0, <2>1, <2>2, IntelNumbers DEF IntelTypeOK, PathIndicators
  <2>4. LabelsAreCurrent'
    <3> SUFFICES ASSUME NEW k \in labels'
                 PROVE  imported[k] > 0 /\ imported[k] + IndicatorTtl + IndicatorLag >= intelDay
      BY <2>1 DEF LabelsAreCurrent
    <3>1. k \in DOMAIN indicators /\ indicators[k] + IndicatorLag >= intelDay
      BY <1>0, <2>2 DEF IntelTypeOK
    <3> QED
      BY <1>0, <3>1 DEF RowsFollowImports
  <2> QED
    BY <1>0, <2>1, <2>2, <2>3, <2>4
    DEF IntelInv, RowsFollowImports, ImportedStayFound, LabelsWereImported, IntelTypeOK
<1>8. CASE UNCHANGED intelVars
  BY <1>0, <1>8
  DEF intelVars, IntelInv, IntelTypeOK, PathIndicators, RowsFollowImports, ImportedStayFound,
      LabelsWereImported, LabelsAreCurrent
<1> QED
  BY <1>1, <1>2, <1>3, <1>4, <1>5, <1>6, <1>7, <1>8 DEF IntelNext

(* A refresh that looks up all indicators finds those whose rows live, and   *)
(* no other step looks like one.                                            *)
LEMMA RefreshLabels ==
  ASSUME IntelInv, [IntelNext]_intelVars, ~UNCHANGED intelVars, Refreshes,
         NEW c \in OnThePath, c[1] \in {"cve", "epss"}, Vouched(c)
  PROVE  Labelled(c)'
<1>0. IntelTypeOK /\ ImportedStayFound
  BY DEF IntelInv
<1>1. /\ intelDay' = intelDay /\ indicators' = indicators /\ import' = import
      /\ imported' = imported /\ listEdits' = listEdits /\ intelFaults' = intelFaults
  BY DEF Refreshes
<1>2. ~EditList /\ ~NextIntelDay
  BY <1>0, <1>1, IntelNumbers DEF EditList, NextIntelDay, IntelTypeOK
<1>3. ~StartImport /\ ~NextList
  BY <1>1 DEF StartImport, NextList
<1>4. ~ReadList
  BY <1>0, <1>1, IntelNumbers DEF ReadList, ImportFails, IntelFault, IntelTypeOK
<1>5. ~PutChunk
  <2> SUFFICES ASSUME PutChunk PROVE FALSE
    OBVIOUS
  <2>1. PICK chunk \in SUBSET import.keys :
          /\ chunk # {}
          /\ import' = [import EXCEPT !.keys = @ \ chunk] \/ ImportFails
    BY DEF PutChunk
  <2>2. ~ImportFails
    BY <1>0, <1>1, IntelNumbers DEF ImportFails, IntelFault, IntelTypeOK
  <2>3. import \in [stage : {"put", "failed"}, day : 1 .. MaxIntelDay,
                    todo : Seq(IndicatorTypes), keys : SUBSET IndicatorKeys]
    BY <1>0, ImportFields DEF PutChunk, IntelTypeOK
  <2>4. import' = [import EXCEPT !.keys = import.keys \ chunk]
    BY <2>1, <2>2, <2>3
  <2>5. import'.keys = import.keys \ chunk
    BY <2>3, <2>4, PuttingChunk
  <2> QED
    BY <1>1, <2>1, <2>5
<1>6. RefreshIssue
  BY <1>2, <1>3, <1>4, <1>5 DEF IntelNext
<1>7. labels' = FindIndicators(PathIndicators)
  BY <1>0, <1>1, <1>6, IntelNumbers DEF RefreshIssue, IntelFault, IntelTypeOK, MetadataWithLabels
<1>8. <<c[1], Upper[c[2]]>> \in DOMAIN indicators
  BY <1>0 DEF Vouched, ImportedStayFound
<1>9. <<c[1], Upper[c[2]]>> \in PathIndicators
  BY DEF PathIndicators
<1> QED
  BY <1>7, <1>8, <1>9 DEF Labelled, FindIndicators

(* A label is one the lists vouched for not longer ago than an indicator    *)
(* lives, what a completed import read is found, and a listed CVE of the    *)
(* path labels the issue at every refresh that can look it up.              *)
THEOREM Labelling == IntelSpec => ThreatsAreLabelled
<1>1. IntelInit => IntelInv
  BY IntelStart
<1>2. IntelInv /\ [IntelNext]_intelVars => IntelInv'
  BY IntelStep
<1>3. IntelInv => IntelTypeOK /\ LabelsAreCurrent /\ ImportedStayFound
  BY DEF IntelInv
<1>4. IntelInv /\ [IntelNext]_intelVars
        => [Refreshes => \A c \in OnThePath :
              c[1] \in {"cve", "epss"} /\ Vouched(c) => Labelled(c)']_intelVars
  BY RefreshLabels
<1> QED
  BY <1>1, <1>2, <1>3, <1>4, PTL DEF IntelSpec, ThreatsAreLabelled, ListedCvesLabel

-----------------------------------------------------------------------------
(* SecretCounts: answers are fresh and whole                               *)
(* A read that has come back, and a request under way or answered.          *)
Reads == [stage : {"loaded"}, at : 1 .. MaxClock, rows : SUBSET PolicyRows,
          truncated : BOOLEAN, when : 1 .. MaxClock]
Entries == {NoRead} \cup [stage : {"loading"}, at : 1 .. MaxClock] \cup Reads
CountsOfReads == {Counted(a, result) : a \in Accounts, result \in Reads}
Asked == [stage : {"open", "answered"}, now : 1 .. MaxClock, todo : Seq(Accounts),
          waiting : SUBSET Accounts, unavailable : Nat, counts : Seq(CountsOfReads)]

(* The cache: what it says a read was started at lies in the past, and a    *)
(* read is over before the cache forgets it.                                *)
CacheInTime ==
  /\ cache \in [Accounts -> Entries]
  /\ \A a \in Accounts :
       /\ cache[a].stage # "none" => cache[a].at <= clock
       /\ cache[a].stage = "loaded" => cache[a].at <= cache[a].when
       /\ cache[a].stage = "loading" => clock < cache[a].at + CacheFor

(* Every account of a request is ahead, waited for, counted or unavailable. *)
Balanced(r) ==
  /\ IsInjective(r.todo) /\ r.waiting \cap ToSet(r.todo) = {}
  /\ IsFiniteSet(r.waiting) /\ Cardinality(r.waiting) <= Concurrency
  /\ Len(r.counts) + r.unavailable + Cardinality(r.waiting) + Len(r.todo) = Len(AccountOrder)
  /\ r.stage = "answered" => r.waiting = {} /\ r.todo = << >>

Fresh(r) == \A n \in DOMAIN r.counts : r.now < r.counts[n][4] + CacheFor

RequestsAreSound ==
  /\ DOMAIN request = Requests
  /\ \A q \in Requests : request[q].stage # "none" =>
       request[q] \in Asked /\ request[q].now <= clock /\ Balanced(request[q]) /\ Fresh(request[q])

LoadingIsAwaited == \A a \in Accounts : cache[a].stage = "loading" => Waiting(a) # {}

CountsInv ==
  /\ ReadersTypeOK /\ clock \in 1 .. MaxClock
  /\ policyEdits \in 0 .. MaxPolicyEdits /\ failedReads \in 0 .. MaxFailedReads
  /\ CacheInTime /\ RequestsAreSound /\ LoadingIsAwaited /\ WaitersAreServed

LEMMA CountsNumbers ==
  /\ Concurrency \in Nat /\ Budget \in Nat /\ CacheFor \in Nat /\ Budget < CacheFor
  /\ MaxPolicyEdits \in Nat /\ MaxFailedReads \in Nat /\ MaxClock \in Nat \ {0}
  BY CountsParameters

LEMMA AccountsInOrder == AccountOrder \in Seq(Accounts) /\ IsInjective(AccountOrder)
  BY CountsParameters

LEMMA CountsInvSuffices == CountsInv => CountsAreAnswered
<1> SUFFICES ASSUME CountsInv PROVE CountsAreAnswered
  OBVIOUS
<1>1. ASSUME NEW q \in Requests, request[q].stage # "none"
      PROVE  /\ request[q] \in Asked /\ Balanced(request[q]) /\ Fresh(request[q])
             /\ Len(request[q].counts) \in Nat /\ Len(request[q].todo) \in Nat
             /\ Cardinality(request[q].waiting) \in Nat /\ request[q].unavailable \in Nat
  <2>1. request[q] \in Asked /\ Balanced(request[q]) /\ Fresh(request[q])
    BY <1>1 DEF CountsInv, RequestsAreSound
  <2>2. request[q].counts \in Seq(CountsOfReads) /\ request[q].todo \in Seq(Accounts)
        /\ request[q].unavailable \in Nat
    BY <2>1 DEF Asked
  <2>3. Cardinality(request[q].waiting) \in Nat
    BY <2>1, FS_CardinalityType DEF Balanced
  <2> QED
    BY <2>1, <2>2, <2>3
<1>2. ASSUME NEW q \in Requests, request[q].stage # "none"
      PROVE  /\ Cardinality(request[q].waiting) <= Concurrency
             /\ request[q].unavailable <= Len(AccountOrder)
  BY <1>1, <1>2, AccountsInOrder DEF Balanced
<1>3. \A a \in Accounts : cache[a].stage \in {"none", "loading", "loaded"}
  BY DEF CountsInv, CacheInTime, Entries, Reads, NoRead
<1>4. CountsTypeOK
  BY <1>2, <1>3 DEF CountsTypeOK, CountsInv, LoadingIsAwaited
<1>5. AnswersAreFresh
  BY <1>1 DEF AnswersAreFresh, Fresh
<1>6. AnswersAreWhole
  <2> SUFFICES ASSUME NEW q \in Requests, request[q].stage = "answered"
               PROVE  Len(request[q].counts) + request[q].unavailable = Len(AccountOrder)
    BY DEF AnswersAreWhole
  <2>1. request[q].waiting = {} /\ request[q].todo = << >>
    BY <1>1 DEF Balanced
  <2>2. Cardinality({}) = 0 /\ Len(<< >>) = 0
    BY FS_EmptySet
  <2>3. Len(request[q].counts) + request[q].unavailable + Cardinality(request[q].waiting)
          + Len(request[q].todo) = Len(AccountOrder)
    BY <1>1 DEF Balanced
  <2>4. Len(request[q].counts) \in Nat /\ request[q].unavailable \in Nat
    BY <1>1
  <2> QED
    BY <2>1, <2>2, <2>3, <2>4
<1> QED
  BY <1>4, <1>5, <1>6 DEF CountsAreAnswered, CountsInv

LEMMA CountsStart == CountsInit => CountsInv
<1> SUFFICES ASSUME CountsInit PROVE CountsInv
  OBVIOUS
<1>1. CacheInTime
  BY DEF CountsInit, CacheInTime, Entries, NoRead
<1>2. RequestsAreSound
  BY DEF CountsInit, RequestsAreSound, NotAsked
<1>3. LoadingIsAwaited /\ WaitersAreServed
  BY DEF CountsInit, LoadingIsAwaited, WaitersAreServed, NoRead, NotAsked
<1> QED
  BY <1>1, <1>2, <1>3, CountsNumbers DEF CountsInit, CountsInv, ReadersTypeOK

(* Of a request under way one account less is ahead.                        *)
LEMMA OneLessAhead ==
  ASSUME NEW s \in Seq(Accounts), IsInjective(s), s # << >>
  PROVE  /\ Head(s) \in Accounts /\ Head(s) \in ToSet(s) /\ Head(s) \notin ToSet(Tail(s))
         /\ ToSet(Tail(s)) \subseteq ToSet(s) /\ Tail(s) \in Seq(Accounts) /\ IsInjective(Tail(s))
         /\ Len(Tail(s)) = Len(s) - 1 /\ Len(s) \in Nat
<1>1. /\ Head(s) = s[1] /\ 1 \in DOMAIN s /\ DOMAIN s = 1 .. Len(s) /\ Len(s) \in Nat \ {0}
      /\ Tail(s) \in Seq(Accounts) /\ Len(Tail(s)) = Len(s) - 1
      /\ DOMAIN Tail(s) = 1 .. Len(s) - 1
      /\ \A n \in 1 .. Len(s) - 1 : Tail(s)[n] = s[n + 1] /\ n + 1 \in DOMAIN s
  OBVIOUS
<1>2. \A m, n \in DOMAIN s : s[m] = s[n] => m = n
  BY DEF IsInjective
<1>3. IsInjective(Tail(s))
  BY <1>1, <1>2 DEF IsInjective
<1>4. Head(s) \notin ToSet(Tail(s))
  BY <1>1, <1>2 DEF ToSet
<1>5. ToSet(Tail(s)) \subseteq ToSet(s)
  BY <1>1 DEF ToSet
<1>6. Head(s) \in ToSet(s) /\ Head(s) \in Accounts
  BY <1>1 DEF ToSet
<1> QED
  BY <1>1, <1>3, <1>4, <1>5, <1>6

(* What a request that is under way becomes, step by step, stays sound.     *)
Sound(r) == r \in Asked /\ Balanced(r) /\ Fresh(r)

LEMMA AskedFields ==
  ASSUME NEW r, Sound(r)
  PROVE  /\ r.stage \in {"open", "answered"} /\ r.now \in 1 .. MaxClock /\ r.todo \in Seq(Accounts)
         /\ r.waiting \in SUBSET Accounts /\ r.unavailable \in Nat /\ r.counts \in Seq(CountsOfReads)
         /\ Len(r.counts) \in Nat /\ Len(r.todo) \in Nat /\ Cardinality(r.waiting) \in Nat
         /\ IsFiniteSet(r.waiting)
  BY FS_CardinalityType DEF Sound, Asked, Balanced

LEMMA CountingMore ==
  ASSUME NEW r, Sound(r), NEW a \in Accounts, NEW result \in Reads, r.now < result.when + CacheFor
  PROVE  /\ Append(r.counts, Counted(a, result)) \in Seq(CountsOfReads)
         /\ Len(Append(r.counts, Counted(a, result))) = Len(r.counts) + 1
         /\ \A n \in DOMAIN Append(r.counts, Counted(a, result)) :
              r.now < Append(r.counts, Counted(a, result))[n][4] + CacheFor
<1>1. r.counts \in Seq(CountsOfReads) /\ Counted(a, result) \in CountsOfReads
  BY AskedFields DEF CountsOfReads
<1>2. Counted(a, result)[4] = result.when
  BY DEF Counted
<1>3. /\ Append(r.counts, Counted(a, result)) \in Seq(CountsOfReads)
      /\ Len(Append(r.counts, Counted(a, result))) = Len(r.counts) + 1
      /\ DOMAIN Append(r.counts, Counted(a, result)) = 1 .. Len(r.counts) + 1
      /\ \A n \in 1 .. Len(r.counts) + 1 :
           Append(r.counts, Counted(a, result))[n] =
             IF n = Len(r.counts) + 1 THEN Counted(a, result) ELSE r.counts[n]
  BY <1>1
<1>4. \A n \in 1 .. Len(r.counts) : r.now < r.counts[n][4] + CacheFor
  BY <1>1 DEF Sound, Fresh
<1>5. Len(r.counts) \in Nat
  BY <1>1
<1> QED
  BY <1>2, <1>3, <1>4, <1>5

(* What leaves the sum of a request unchanged leaves it balanced.           *)
AllTold(r) == Len(r.counts) + r.unavailable + Cardinality(r.waiting) + Len(r.todo)

LEMMA SumKept ==
  ASSUME NEW r, Balanced(r), NEW t, t.stage = "open", AllTold(t) = AllTold(r),
         IsInjective(t.todo), t.waiting \cap ToSet(t.todo) = {},
         IsFiniteSet(t.waiting), Cardinality(t.waiting) <= Concurrency
  PROVE  Balanced(t)
  BY DEF Balanced, AllTold

LEMMA SumsAdd ==
  ASSUME NEW r, Sound(r), NEW t, NEW c \in Nat, NEW u \in Nat, NEW w \in Int, NEW l \in Nat,
         Len(t.counts) = Len(r.counts) + c, t.unavailable = r.unavailable + u,
         Cardinality(t.waiting) = Cardinality(r.waiting) + w, Len(t.todo) = Len(r.todo) - l,
         c + u + w = l
  PROVE  AllTold(t) = AllTold(r)
<1>1. /\ Len(r.counts) \in Nat /\ r.unavailable \in Nat /\ Cardinality(r.waiting) \in Nat
      /\ Len(r.todo) \in Nat
  BY AskedFields
<1>2. PICK counted \in Nat, missing \in Nat, waiting \in Nat, ahead \in Nat :
        /\ counted = Len(r.counts) /\ missing = r.unavailable
        /\ waiting = Cardinality(r.waiting) /\ ahead = Len(r.todo)
  BY <1>1
<1>3. /\ Len(t.counts) = counted + c /\ t.unavailable = missing + u
      /\ Cardinality(t.waiting) = waiting + w /\ Len(t.todo) = ahead - l
  BY <1>2
<1>4. (counted + c) + (missing + u) + (waiting + w) + (ahead - l) = counted + missing + waiting + ahead
  OBVIOUS
<1> QED
  BY <1>2, <1>3, <1>4 DEF AllTold

(* The account a worker waits for is counted, or it fails.                  *)
LEMMA WaitEnds ==
  ASSUME NEW r, Sound(r), r.stage = "open", NEW a \in r.waiting
  PROVE  /\ IsFiniteSet(r.waiting \ {a}) /\ Cardinality(r.waiting \ {a}) = Cardinality(r.waiting) - 1
         /\ Cardinality(r.waiting \ {a}) \in Nat
  BY AskedFields, FS_RemoveElement, FS_CardinalityType

LEMMA CountedSound ==
  ASSUME NEW r, Sound(r), r.stage = "open", NEW a \in r.waiting,
         NEW result \in Reads, r.now < result.when + CacheFor
  PROVE  Sound([r EXCEPT !.waiting = @ \ {a}, !.counts = Append(@, Counted(a, result))])
<1> DEFINE t == [r EXCEPT !.waiting = r.waiting \ {a}, !.counts = Append(r.counts, Counted(a, result))]
<1>0. /\ Balanced(r) /\ r.now \in 1 .. MaxClock /\ r.todo \in Seq(Accounts) /\ r.waiting \in SUBSET Accounts
      /\ r.unavailable \in Nat /\ r.counts \in Seq(CountsOfReads) /\ Len(r.counts) \in Nat
      /\ Len(r.todo) \in Nat /\ Cardinality(r.waiting) \in Nat /\ Cardinality(r.waiting) <= Concurrency
      /\ IsFiniteSet(r.waiting) /\ IsInjective(r.todo) /\ r.waiting \cap ToSet(r.todo) = {}
  BY AskedFields DEF Sound, Balanced
<1>1. a \in Accounts
  BY AskedFields
<1>2. /\ t.stage = "open" /\ t.now = r.now /\ t.todo = r.todo /\ t.unavailable = r.unavailable
      /\ t.waiting = r.waiting \ {a} /\ t.counts = Append(r.counts, Counted(a, result))
  BY DEF Sound, Asked
<1>3. t \in Asked
  BY <1>1, AskedFields, CountingMore DEF Sound, Asked
<1>6. t = [r EXCEPT !.waiting = @ \ {a}, !.counts = Append(@, Counted(a, result))]
  BY DEF Sound, Asked
<1> HIDE DEF t
<1>4. Fresh(t)
  BY <1>1, <1>2, CountingMore DEF Fresh
<1>5. Balanced(t)
  <2>1. /\ Len(t.counts) = Len(r.counts) + 1 /\ IsFiniteSet(t.waiting)
        /\ Cardinality(t.waiting) = Cardinality(r.waiting) - 1
    <3>1. Len(Append(r.counts, Counted(a, result))) = Len(r.counts) + 1
      BY <1>1, CountingMore
    <3>2. /\ IsFiniteSet(r.waiting \ {a})
          /\ Cardinality(r.waiting \ {a}) = Cardinality(r.waiting) - 1
      BY WaitEnds
    <3> QED
      BY <1>2, <3>1, <3>2, Zenon
  <2>2. AllTold(t) = AllTold(r)
    <3>1. /\ Len(t.counts) = Len(r.counts) + 1 /\ t.unavailable = r.unavailable + 0
          /\ Cardinality(t.waiting) = Cardinality(r.waiting) + (-1) /\ Len(t.todo) = Len(r.todo) - 0
      BY <1>0, <1>2, <2>1
    <3>2. 0 \in Nat /\ 1 \in Nat /\ (-1) \in Int /\ 1 + 0 + (-1) = 0
      OBVIOUS
    <3> QED
      BY <3>1, <3>2, SumsAdd, Zenon
  <2>3. Cardinality(t.waiting) <= Concurrency
    BY <1>0, <1>2, <2>1, CountsNumbers
  <2> QED
    BY <1>0, <1>2, <2>1, <2>2, <2>3, SumKept
<1> QED
  BY <1>3, <1>4, <1>5, <1>6 DEF Sound

LEMMA FailedSound ==
  ASSUME NEW r, Sound(r), r.stage = "open", NEW a \in r.waiting
  PROVE  Sound([r EXCEPT !.waiting = @ \ {a}, !.unavailable = @ + 1])
<1> DEFINE t == [r EXCEPT !.waiting = r.waiting \ {a}, !.unavailable = r.unavailable + 1]
<1>0. /\ Balanced(r) /\ r.now \in 1 .. MaxClock /\ r.todo \in Seq(Accounts) /\ r.waiting \in SUBSET Accounts
      /\ r.unavailable \in Nat /\ r.counts \in Seq(CountsOfReads) /\ Len(r.counts) \in Nat
      /\ Len(r.todo) \in Nat /\ Cardinality(r.waiting) \in Nat /\ Cardinality(r.waiting) <= Concurrency
      /\ IsFiniteSet(r.waiting) /\ IsInjective(r.todo) /\ r.waiting \cap ToSet(r.todo) = {}
  BY AskedFields DEF Sound, Balanced
<1>2. /\ t.stage = "open" /\ t.now = r.now /\ t.todo = r.todo /\ t.unavailable = r.unavailable + 1
      /\ t.waiting = r.waiting \ {a} /\ t.counts = r.counts
  BY DEF Sound, Asked
<1>3. t \in Asked
  <2>1. r.unavailable + 1 \in Nat /\ r.waiting \ {a} \in SUBSET Accounts
    BY <1>0
  <2> QED
    BY <2>1 DEF Sound, Asked
<1>6. t = [r EXCEPT !.waiting = @ \ {a}, !.unavailable = @ + 1]
  BY DEF Sound, Asked
<1> HIDE DEF t
<1>4. Fresh(t)
  BY <1>2 DEF Sound, Fresh
<1>5. Balanced(t)
  <2>1. IsFiniteSet(t.waiting) /\ Cardinality(t.waiting) = Cardinality(r.waiting) - 1
    BY <1>2, WaitEnds
  <2>2. AllTold(t) = AllTold(r)
    <3>1. /\ Len(t.counts) = Len(r.counts) + 0 /\ t.unavailable = r.unavailable + 1
          /\ Cardinality(t.waiting) = Cardinality(r.waiting) + (-1) /\ Len(t.todo) = Len(r.todo) - 0
      BY <1>0, <1>2, <2>1
    <3>2. 0 \in Nat /\ 1 \in Nat /\ (-1) \in Int /\ 0 + 1 + (-1) = 0
      OBVIOUS
    <3> QED
      BY <3>1, <3>2, SumsAdd, Zenon
  <2>3. Cardinality(t.waiting) <= Concurrency
    BY <1>0, <1>2, <2>1, CountsNumbers
  <2> QED
    BY <1>0, <1>2, <2>1, <2>2, <2>3, SumKept
<1> QED
  BY <1>3, <1>4, <1>5, <1>6 DEF Sound

(* A worker takes the next account: counted at once, or waited for.         *)
LEMMA TakenSound ==
  ASSUME NEW r, Sound(r), r.stage = "open", r.todo # << >>,
         NEW result \in Reads, r.now < result.when + CacheFor
  PROVE  Sound([r EXCEPT !.todo = Tail(r.todo), !.counts = Append(r.counts, Counted(Head(r.todo), result))])
<1> DEFINE a == Head(r.todo)
           t == [r EXCEPT !.todo = Tail(r.todo), !.counts = Append(r.counts, Counted(a, result))]
<1>0. /\ Balanced(r) /\ r.now \in 1 .. MaxClock /\ r.todo \in Seq(Accounts) /\ r.waiting \in SUBSET Accounts
      /\ r.unavailable \in Nat /\ r.counts \in Seq(CountsOfReads) /\ Len(r.counts) \in Nat
      /\ Len(r.todo) \in Nat /\ Cardinality(r.waiting) \in Nat /\ Cardinality(r.waiting) <= Concurrency
      /\ IsFiniteSet(r.waiting) /\ IsInjective(r.todo) /\ r.waiting \cap ToSet(r.todo) = {}
  BY AskedFields DEF Sound, Balanced
<1>1. /\ a \in Accounts /\ Tail(r.todo) \in Seq(Accounts) /\ IsInjective(Tail(r.todo))
      /\ ToSet(Tail(r.todo)) \subseteq ToSet(r.todo) /\ Len(Tail(r.todo)) = Len(r.todo) - 1
  BY AskedFields, OneLessAhead DEF Sound, Balanced
<1>2. /\ t.stage = "open" /\ t.now = r.now /\ t.todo = Tail(r.todo) /\ t.unavailable = r.unavailable
      /\ t.waiting = r.waiting /\ t.counts = Append(r.counts, Counted(a, result))
  BY DEF Sound, Asked
<1>3. t \in Asked
  BY <1>1, AskedFields, CountingMore DEF Sound, Asked
<1> HIDE DEF t
<1>4. Fresh(t)
  BY <1>1, <1>2, CountingMore DEF Fresh
<1>5. Len(t.counts) = Len(r.counts) + 1
  BY <1>1, <1>2, CountingMore
<1>6. Balanced(t)
  <2>1. AllTold(t) = AllTold(r)
    <3>1. /\ Len(t.counts) = Len(r.counts) + 1 /\ t.unavailable = r.unavailable + 0
          /\ Cardinality(t.waiting) = Cardinality(r.waiting) + 0 /\ Len(t.todo) = Len(r.todo) - 1
      BY <1>0, <1>1, <1>2, <1>5
    <3>2. 0 \in Nat /\ 1 \in Nat /\ 0 \in Int /\ 1 + 0 + 0 = 1
      OBVIOUS
    <3> QED
      BY <3>1, <3>2, SumsAdd, Zenon
  <2> QED
    BY <1>0, <1>1, <1>2, <2>1, SumKept
<1> QED
  BY <1>3, <1>4, <1>6 DEF Sound, t

LEMMA WaitingSound ==
  ASSUME NEW r, Sound(r), r.stage = "open", r.todo # << >>, Cardinality(r.waiting) < Concurrency
  PROVE  Sound([r EXCEPT !.todo = Tail(r.todo), !.waiting = r.waiting \cup {Head(r.todo)}])
<1> DEFINE a == Head(r.todo)
           t == [r EXCEPT !.todo = Tail(r.todo), !.waiting = r.waiting \cup {a}]
<1>0. /\ Balanced(r) /\ r.now \in 1 .. MaxClock /\ r.todo \in Seq(Accounts) /\ r.waiting \in SUBSET Accounts
      /\ r.unavailable \in Nat /\ r.counts \in Seq(CountsOfReads) /\ Len(r.counts) \in Nat
      /\ Len(r.todo) \in Nat /\ Cardinality(r.waiting) \in Nat /\ Cardinality(r.waiting) <= Concurrency
      /\ IsFiniteSet(r.waiting) /\ IsInjective(r.todo) /\ r.waiting \cap ToSet(r.todo) = {}
  BY AskedFields DEF Sound, Balanced
<1>1. /\ a \in Accounts /\ Tail(r.todo) \in Seq(Accounts) /\ IsInjective(Tail(r.todo))
      /\ a \in ToSet(r.todo) /\ a \notin ToSet(Tail(r.todo))
      /\ ToSet(Tail(r.todo)) \subseteq ToSet(r.todo) /\ Len(Tail(r.todo)) = Len(r.todo) - 1
  BY AskedFields, OneLessAhead DEF Sound, Balanced
<1>2. /\ t.stage = "open" /\ t.now = r.now /\ t.todo = Tail(r.todo) /\ t.unavailable = r.unavailable
      /\ t.waiting = r.waiting \cup {a} /\ t.counts = r.counts
  BY DEF Sound, Asked
<1>3. t \in Asked
  BY <1>1, AskedFields DEF Sound, Asked
<1> HIDE DEF t
<1>4. Fresh(t)
  BY <1>2 DEF Sound, Fresh
<1>5. a \notin r.waiting
  BY <1>1 DEF Sound, Balanced
<1>6. IsFiniteSet(t.waiting) /\ Cardinality(t.waiting) = Cardinality(r.waiting) + 1
  BY <1>0, <1>2, <1>5, FS_AddElement
<1>7. t.waiting \cap ToSet(t.todo) = {}
  BY <1>1, <1>2 DEF Sound, Balanced
<1>8. Balanced(t)
  <2>1. AllTold(t) = AllTold(r)
    <3>1. /\ Len(t.counts) = Len(r.counts) + 0 /\ t.unavailable = r.unavailable + 0
          /\ Cardinality(t.waiting) = Cardinality(r.waiting) + 1 /\ Len(t.todo) = Len(r.todo) - 1
      BY <1>0, <1>1, <1>2, <1>6
    <3>2. 0 \in Nat /\ 1 \in Nat /\ 1 \in Int /\ 0 + 0 + 1 = 1
      OBVIOUS
    <3> QED
      BY <3>1, <3>2, SumsAdd, Zenon
  <2>3. Cardinality(t.waiting) <= Concurrency
    BY <1>0, <1>1, <1>2, <1>6, CountsNumbers
  <2> QED
    BY <1>0, <1>1, <1>2, <1>6, <1>7, <2>1, <2>3, SumKept
<1> QED
  BY <1>3, <1>4, <1>8 DEF Sound, t

LEMMA GivenUpSound ==
  ASSUME NEW r, Sound(r), r.stage = "open"
  PROVE  Sound([r EXCEPT !.unavailable = r.unavailable + Len(r.todo), !.todo = << >>])
<1> DEFINE t == [r EXCEPT !.unavailable = r.unavailable + Len(r.todo), !.todo = << >>]
<1>0. /\ Balanced(r) /\ r.now \in 1 .. MaxClock /\ r.todo \in Seq(Accounts) /\ r.waiting \in SUBSET Accounts
      /\ r.unavailable \in Nat /\ r.counts \in Seq(CountsOfReads) /\ Len(r.counts) \in Nat
      /\ Len(r.todo) \in Nat /\ Cardinality(r.waiting) \in Nat /\ Cardinality(r.waiting) <= Concurrency
      /\ IsFiniteSet(r.waiting) /\ IsInjective(r.todo) /\ r.waiting \cap ToSet(r.todo) = {}
  BY AskedFields DEF Sound, Balanced
<1>2. /\ t.stage = "open" /\ t.now = r.now /\ t.todo = << >>
      /\ t.unavailable = r.unavailable + Len(r.todo) /\ t.waiting = r.waiting /\ t.counts = r.counts
  BY DEF Sound, Asked
<1>3. t \in Asked
  <2>1. r.unavailable + Len(r.todo) \in Nat /\ << >> \in Seq(Accounts)
    BY <1>0
  <2> QED
    BY <2>1 DEF Sound, Asked
<1> HIDE DEF t
<1>4. Fresh(t)
  BY <1>2 DEF Sound, Fresh
<1>5. IsInjective(<< >>) /\ ToSet(<< >>) = {} /\ Len(<< >>) = 0
  BY DEF IsInjective, ToSet
<1>6. Balanced(t)
  <2>1. AllTold(t) = AllTold(r)
    <3>1. PICK ahead \in Nat : ahead = Len(r.todo)
      BY <1>0
    <3>2. /\ Len(t.counts) = Len(r.counts) + 0 /\ t.unavailable = r.unavailable + ahead
          /\ Cardinality(t.waiting) = Cardinality(r.waiting) + 0 /\ Len(t.todo) = Len(r.todo) - ahead
      BY <1>0, <1>2, <1>5, <3>1
    <3>3. 0 \in Nat /\ 0 \in Int /\ 0 + ahead + 0 = ahead
      OBVIOUS
    <3> QED
      BY <3>1, <3>2, <3>3, SumsAdd, Zenon
  <2> QED
    BY <1>0, <1>2, <1>5, <2>1, SumKept
<1> QED
  BY <1>3, <1>4, <1>6 DEF Sound, t

LEMMA AnsweredSound ==
  ASSUME NEW r, Sound(r), r.todo = << >>, r.waiting = {}
  PROVE  Sound([r EXCEPT !.stage = "answered"])
<1> DEFINE t == [r EXCEPT !.stage = "answered"]
<1>2. /\ t.stage = "answered" /\ t.now = r.now /\ t.todo = r.todo
      /\ t.unavailable = r.unavailable /\ t.waiting = r.waiting /\ t.counts = r.counts
  BY DEF Sound, Asked
<1>3. t \in Asked
  BY AskedFields DEF Sound, Asked
<1> QED
  BY <1>2, <1>3 DEF Sound, Fresh, Balanced

LEMMA AskSound ==
  ASSUME clock \in 1 .. MaxClock
  PROVE  Sound([stage |-> "open", now |-> clock, todo |-> AccountOrder, waiting |-> {},
                unavailable |-> 0, counts |-> << >>])
<1>1. Cardinality({}) = 0 /\ IsFiniteSet({}) /\ Len(<< >>) = 0 /\ Len(AccountOrder) \in Nat
  BY FS_EmptySet, AccountsInOrder
<1> QED
  BY <1>1, AccountsInOrder, CountsNumbers DEF Sound, Asked, Balanced, Fresh

LEMMA RequestFacts ==
  ASSUME CountsInv, NEW q \in Requests, request[q].stage # "none"
  PROVE  Sound(request[q]) /\ request[q].now \in 1 .. clock /\ request[q].stage \in {"open", "answered"}
<1>1. Sound(request[q]) /\ request[q].now <= clock
  BY DEF CountsInv, RequestsAreSound, Sound
<1> QED
  BY <1>1, AskedFields DEF CountsInv

LEMMA CacheFacts ==
  ASSUME CountsInv, NEW a \in Accounts
  PROVE  /\ cache[a] \in Entries /\ cache[a].stage \in {"none", "loading", "loaded"}
         /\ cache[a].stage = "loading" =>
              cache[a].at \in 1 .. MaxClock /\ cache[a].at <= clock /\ clock < cache[a].at + CacheFor
         /\ cache[a].stage = "loaded" =>
              /\ cache[a] \in Reads /\ cache[a].at \in 1 .. MaxClock /\ cache[a].when \in 1 .. MaxClock
              /\ cache[a].at <= cache[a].when
<1>1. /\ cache[a] \in Entries
      /\ cache[a].stage # "none" => cache[a].at <= clock
      /\ cache[a].stage = "loaded" => cache[a].at <= cache[a].when
      /\ cache[a].stage = "loading" => clock < cache[a].at + CacheFor
  BY DEF CountsInv, CacheInTime
<1>2. CASE cache[a] = NoRead
  BY <1>1, <1>2 DEF NoRead
<1>3. CASE cache[a] \in [stage : {"loading"}, at : 1 .. MaxClock]
  BY <1>1, <1>3
<1>4. CASE cache[a] \in Reads
  <2>1. cache[a].stage = "loaded" /\ cache[a].at \in 1 .. MaxClock /\ cache[a].when \in 1 .. MaxClock
    BY <1>4 DEF Reads
  <2> QED
    BY <1>1, <1>4, <2>1
<1> QED
  BY <1>1, <1>2, <1>3, <1>4 DEF Entries

(* A request that shares a read is still asking for it: what loads is a hit. *)
LEMMA LoadingIsHit ==
  ASSUME CountsInv, NEW q \in Requests, request[q].stage # "none", NEW a \in Accounts,
         cache[a].stage = "loading"
  PROVE  Hit(a, request[q].now)
<1>1. request[q].now \in 1 .. clock /\ clock \in 1 .. MaxClock
  BY RequestFacts DEF CountsInv
<1>2. cache[a].at \in 1 .. MaxClock /\ clock < cache[a].at + CacheFor
  BY CacheFacts
<1> QED
  BY <1>1, <1>2, CountsNumbers DEF Hit

LEMMA TickKeeps == CountsInv /\ Tick => CountsInv'
<1> SUFFICES ASSUME CountsInv, Tick PROVE CountsInv'
  OBVIOUS
<1>1. /\ clock \in 1 .. MaxClock /\ clock < MaxClock /\ clock' = clock + 1
      /\ UNCHANGED <<policyRows, cache, request, policyEdits, failedReads>>
      /\ \A a \in Accounts : cache[a].stage = "loading" => clock + 1 < cache[a].at + CacheFor
  BY DEF Tick, CountsInv
<1>2. clock' \in 1 .. MaxClock
  BY <1>1, CountsNumbers
<1>3. ASSUME NEW a \in Accounts, cache[a].stage # "none" PROVE cache[a].at <= clock + 1
  <2>1. cache[a].at \in 1 .. MaxClock /\ cache[a].at <= clock
    BY <1>3, CacheFacts DEF CountsInv, CacheInTime
  <2> QED
    BY <1>1, <2>1
<1>4. CacheInTime'
  BY <1>1, <1>3 DEF CountsInv, CacheInTime
<1>5. ASSUME NEW q \in Requests, request[q].stage # "none" PROVE request[q].now <= clock + 1
  BY <1>1, <1>5, RequestFacts
<1>6. RequestsAreSound'
  BY <1>1, <1>5 DEF CountsInv, RequestsAreSound
<1> QED
  BY <1>1, <1>2, <1>4, <1>6
  DEF CountsInv, ReadersTypeOK, LoadingIsAwaited, WaitersAreServed, Waiting

LEMMA AskKeeps == ASSUME CountsInv, NEW q \in Requests, Ask(q) PROVE CountsInv'
<1>1. /\ request[q].stage = "none"
      /\ request' = [request EXCEPT ![q] = [stage |-> "open", now |-> clock, todo |-> AccountOrder,
                                            waiting |-> {}, unavailable |-> 0, counts |-> << >>]]
      /\ UNCHANGED <<policyRows, cache, clock, policyEdits, failedReads>>
  BY DEF Ask
<1>2. clock \in 1 .. MaxClock /\ DOMAIN request = Requests
  BY DEF CountsInv, RequestsAreSound
<1>3. Sound(request'[q]) /\ request'[q].now = clock /\ request'[q].waiting = {}
  BY <1>1, <1>2, AskSound
<1>4. \A p \in Requests \ {q} : request'[p] = request[p]
  BY <1>1, <1>2
<1>5. RequestsAreSound'
  <2>1. DOMAIN request' = Requests
    BY <1>1, <1>2
  <2>2. ASSUME NEW p \in Requests, request'[p].stage # "none"
        PROVE  Sound(request'[p]) /\ request'[p].now <= clock
    <3>1. CASE p = q
      BY <1>2, <1>3, <3>1
    <3>2. CASE p # q
      BY <1>4, <2>2, <3>2 DEF CountsInv, RequestsAreSound, Sound
    <3> QED
      BY <3>1, <3>2
  <2> QED
    BY <1>1, <2>1, <2>2 DEF RequestsAreSound, Sound
<1>6. ASSUME NEW a \in Accounts PROVE Waiting(a) \subseteq Waiting(a)'
  BY <1>1, <1>4 DEF Waiting
<1>7. LoadingIsAwaited'
  BY <1>1, <1>6 DEF CountsInv, LoadingIsAwaited
<1>8. WaitersAreServed'
  BY <1>1, <1>3, <1>4 DEF CountsInv, WaitersAreServed
<1> QED
  BY <1>1, <1>5, <1>7, <1>8 DEF CountsInv, ReadersTypeOK, CacheInTime

(* A worker of q moves: the others' requests stay, and nobody who waits for  *)
(* a read loses it.                                                         *)
LEMMA OneRequestMoves ==
  ASSUME CountsInv, NEW q \in Requests, request[q].stage # "none", NEW r,
         Sound(r), r.now = request[q].now, request' = [request EXCEPT ![q] = r],
         UNCHANGED <<policyRows, clock, policyEdits, failedReads>>
  PROVE  /\ RequestsAreSound' /\ request'[q] = r
         /\ \A p \in Requests \ {q} : request'[p] = request[p]
<1>1. DOMAIN request = Requests
  BY DEF CountsInv, RequestsAreSound
<1>2. request'[q] = r /\ DOMAIN request' = Requests /\ \A p \in Requests \ {q} : request'[p] = request[p]
  BY <1>1
<1>3. ASSUME NEW p \in Requests, request'[p].stage # "none"
      PROVE  Sound(request'[p]) /\ request'[p].now <= clock
  <2>1. CASE p = q
    BY <1>2, <2>1, RequestFacts DEF CountsInv
  <2>2. CASE p # q
    BY <1>2, <1>3, <2>2 DEF CountsInv, RequestsAreSound, Sound
  <2> QED
    BY <2>1, <2>2
<1> QED
  BY <1>2, <1>3 DEF RequestsAreSound, Sound

LEMMA AnswerKeeps == ASSUME CountsInv, NEW q \in Requests, Answer(q) PROVE CountsInv'
<1> DEFINE r == [request[q] EXCEPT !.stage = "answered"]
<1>1. /\ request[q].stage = "open" /\ request[q].todo = << >> /\ request[q].waiting = {}
      /\ request' = [request EXCEPT ![q].stage = "answered"]
      /\ UNCHANGED <<policyRows, cache, clock, policyEdits, failedReads>>
  BY DEF Answer
<1>2. Sound(r)
  BY <1>1, RequestFacts, AnsweredSound
<1>3. r.now = request[q].now /\ r.stage = "answered"
  BY <1>1, RequestFacts DEF Sound, Asked
<1>4. request' = [request EXCEPT ![q] = r]
  BY <1>1
<1> HIDE DEF r
<1>5. /\ RequestsAreSound' /\ request'[q] = r
      /\ \A p \in Requests \ {q} : request'[p] = request[p]
  BY <1>1, <1>2, <1>3, <1>4, OneRequestMoves
<1>6. ASSUME NEW a \in Accounts PROVE Waiting(a) \subseteq Waiting(a)'
  BY <1>1, <1>5 DEF Waiting
<1>7. LoadingIsAwaited'
  BY <1>1, <1>6 DEF CountsInv, LoadingIsAwaited
<1>8. WaitersAreServed'
  BY <1>1, <1>3, <1>5 DEF CountsInv, WaitersAreServed
<1> QED
  BY <1>1, <1>5, <1>7, <1>8 DEF CountsInv, ReadersTypeOK, CacheInTime

LEMMA TakeAccountKeeps == ASSUME CountsInv, NEW q \in Requests, TakeAccount(q) PROVE CountsInv'
<1>1. /\ request[q].stage = "open" /\ request[q].todo # << >>
      /\ Cardinality(request[q].waiting) < Concurrency
      /\ UNCHANGED <<policyRows, clock, policyEdits, failedReads>>
  BY DEF TakeAccount
<1>2. /\ Sound(request[q]) /\ request[q].now \in 1 .. clock /\ clock \in 1 .. MaxClock
      /\ DOMAIN request = Requests
  BY <1>1, RequestFacts DEF CountsInv, RequestsAreSound
<1>3. PICK a \in Accounts : a = Head(request[q].todo)
  <2>1. Head(request[q].todo) \in Accounts
    BY <1>1, <1>2, AskedFields, OneLessAhead DEF Sound, Balanced
  <2> QED
    BY <2>1
<1>4. CASE OverBudget(q)
  <2> DEFINE r == [request[q] EXCEPT !.unavailable = request[q].unavailable + Len(request[q].todo),
                                     !.todo = << >>]
  <2>1. request' = [request EXCEPT ![q] = r] /\ cache' = cache
    BY <1>2, <1>4 DEF TakeAccount, GiveUp, Sound, Asked
  <2>2. Sound(r)
    BY <1>1, <1>2, GivenUpSound
  <2>3. r.now = request[q].now /\ r.stage = "open" /\ r.waiting = request[q].waiting
    BY <1>1, <1>2 DEF Sound, Asked
  <2> HIDE DEF r
  <2>4. /\ RequestsAreSound' /\ request'[q] = r
        /\ \A p \in Requests \ {q} : request'[p] = request[p]
    BY <1>1, <2>1, <2>2, <2>3, OneRequestMoves
  <2>5. \A b \in Accounts : Waiting(b)' = Waiting(b)
    BY <1>1, <2>3, <2>4 DEF Waiting
  <2>6. LoadingIsAwaited' /\ WaitersAreServed'
    BY <1>1, <2>1, <2>3, <2>4, <2>5 DEF CountsInv, LoadingIsAwaited, WaitersAreServed
  <2> QED
    BY <1>1, <2>1, <2>4, <2>6 DEF CountsInv, ReadersTypeOK, CacheInTime
<1>5. CASE ~OverBudget(q) /\ Hit(a, request[q].now) /\ cache[a].stage = "loaded"
  <2> DEFINE r == [request[q] EXCEPT !.todo = Tail(request[q].todo),
                                     !.counts = Append(request[q].counts, Counted(a, cache[a]))]
  <2>1. request' = [request EXCEPT ![q] = r] /\ cache' = cache
    BY <1>2, <1>3, <1>5 DEF TakeAccount, Sound, Asked
  <2>2. /\ cache[a] \in Reads /\ cache[a].at \in 1 .. MaxClock /\ cache[a].when \in 1 .. MaxClock
        /\ cache[a].at <= cache[a].when
    BY <1>3, <1>5, CacheFacts
  <2>3. request[q].now < cache[a].when + CacheFor
    BY <1>2, <1>5, <2>2, CountsNumbers DEF Hit
  <2>4. Sound(r)
    BY <1>1, <1>2, <1>3, <2>2, <2>3, TakenSound
  <2>5. r.now = request[q].now /\ r.stage = "open" /\ r.waiting = request[q].waiting
    BY <1>1, <1>2 DEF Sound, Asked
  <2> HIDE DEF r
  <2>6. /\ RequestsAreSound' /\ request'[q] = r
        /\ \A p \in Requests \ {q} : request'[p] = request[p]
    BY <1>1, <2>1, <2>4, <2>5, OneRequestMoves
  <2>7. \A b \in Accounts : Waiting(b)' = Waiting(b)
    BY <1>1, <2>5, <2>6 DEF Waiting
  <2>8. LoadingIsAwaited' /\ WaitersAreServed'
    BY <1>1, <2>1, <2>5, <2>6, <2>7 DEF CountsInv, LoadingIsAwaited, WaitersAreServed
  <2> QED
    BY <1>1, <2>1, <2>6, <2>8 DEF CountsInv, ReadersTypeOK, CacheInTime
<1>6. CASE ~OverBudget(q) /\ ~(Hit(a, request[q].now) /\ cache[a].stage = "loaded")
  <2> DEFINE r == [request[q] EXCEPT !.todo = Tail(request[q].todo),
                                     !.waiting = request[q].waiting \cup {a}]
  <2>1. /\ request' = [request EXCEPT ![q] = r]
        /\ cache' = IF Hit(a, request[q].now) THEN cache
                    ELSE [cache EXCEPT ![a] = [stage |-> "loading", at |-> request[q].now]]
    BY <1>2, <1>3, <1>6 DEF TakeAccount, Sound, Asked
  <2>2. Sound(r)
    BY <1>1, <1>2, <1>3, WaitingSound
  <2>3. r.now = request[q].now /\ r.stage = "open" /\ r.waiting = request[q].waiting \cup {a}
    BY <1>1, <1>2 DEF Sound, Asked
  <2> HIDE DEF r
  <2>4. /\ RequestsAreSound' /\ request'[q] = r
        /\ \A p \in Requests \ {q} : request'[p] = request[p]
    BY <1>1, <2>1, <2>2, <2>3, OneRequestMoves
  <2>5. \A b \in Accounts : Waiting(b) \subseteq Waiting(b)'
    <3> SUFFICES ASSUME NEW b \in Accounts, NEW p \in Waiting(b) PROVE p \in Waiting(b)'
      OBVIOUS
    <3>1. p \in Requests /\ request[p].stage = "open" /\ b \in request[p].waiting
      BY DEF Waiting
    <3>2. request'[p].stage = "open" /\ b \in request'[p].waiting
      <4>1. CASE p = q
        BY <2>3, <2>4, <3>1, <4>1
      <4>2. CASE p # q
        BY <2>4, <3>1, <4>2
      <4> QED
        BY <4>1, <4>2
    <3> QED
      BY <3>1, <3>2 DEF Waiting
  <2>11. q \in Waiting(a)'
    <3>1. request'[q].stage = "open" /\ a \in request'[q].waiting
      BY <2>3, <2>4
    <3> QED
      BY <3>1 DEF Waiting
  <2>6. clock < request[q].now + CacheFor
    BY <1>2, <1>6, CountsNumbers DEF OverBudget
  <2>7. cache'[a].stage = "loading" /\ cache' \in [Accounts -> Entries] /\ CacheInTime'
    <3>1. cache \in [Accounts -> Entries]
      BY DEF CountsInv, CacheInTime
    <3>2. CASE Hit(a, request[q].now)
      BY <1>1, <1>3, <1>6, <2>1, <3>1, <3>2, CacheFacts DEF Hit, CountsInv, CacheInTime
    <3>3. CASE ~Hit(a, request[q].now)
      <4>1. cache' = [cache EXCEPT ![a] = [stage |-> "loading", at |-> request[q].now]]
        BY <2>1, <3>3
      <4>2. [stage |-> "loading", at |-> request[q].now] \in Entries
        BY <1>2, CountsNumbers DEF Entries
      <4>3. /\ cache'[a].stage = "loading" /\ cache'[a].at = request[q].now
            /\ \A b \in Accounts \ {a} : cache'[b] = cache[b]
        BY <1>3, <3>1, <4>1
      <4>4. cache' \in [Accounts -> Entries]
        BY <1>3, <3>1, <4>1, <4>2
      <4>5. ASSUME NEW b \in Accounts
            PROVE  /\ cache'[b].stage # "none" => cache'[b].at <= clock
                   /\ cache'[b].stage = "loaded" => cache'[b].at <= cache'[b].when
                   /\ cache'[b].stage = "loading" => clock < cache'[b].at + CacheFor
        <5>1. CASE b = a
          BY <1>2, <2>6, <4>3, <5>1
        <5>2. CASE b # a
          BY <4>3, <5>2 DEF CountsInv, CacheInTime
        <5> QED
          BY <5>1, <5>2
      <4> QED
        BY <1>1, <4>3, <4>4, <4>5 DEF CacheInTime
    <3> QED
      BY <3>2, <3>3
  <2>8. \A b \in Accounts \ {a} : cache'[b] = cache[b]
    BY <1>3, <2>1 DEF CountsInv, CacheInTime
  <2>9. LoadingIsAwaited'
    <3> SUFFICES ASSUME NEW b \in Accounts, cache'[b].stage = "loading" PROVE Waiting(b)' # {}
      BY DEF LoadingIsAwaited
    <3>1. CASE b = a
      BY <2>11, <3>1
    <3>2. CASE b # a
      <4>1. Waiting(b) # {}
        BY <2>8, <3>2 DEF CountsInv, LoadingIsAwaited
      <4> QED
        BY <2>5, <4>1
    <3> QED
      BY <3>1, <3>2
  <2>10. WaitersAreServed'
    <3> SUFFICES ASSUME NEW p \in Requests, request'[p].stage = "open", NEW b \in request'[p].waiting
                 PROVE  cache'[b].stage = "loading"
      BY DEF WaitersAreServed
    <3>1. CASE b = a
      BY <2>7, <3>1
    <3>2. CASE b # a
      <4>1. request[p].stage = "open" /\ b \in request[p].waiting
        BY <1>1, <2>3, <2>4, <3>2
      <4>2. b \in Accounts
        BY <4>1, RequestFacts, AskedFields
      <4> QED
        BY <2>8, <3>2, <4>1, <4>2 DEF CountsInv, WaitersAreServed
    <3> QED
      BY <3>1, <3>2
  <2> QED
    BY <1>1, <2>4, <2>7, <2>9, <2>10 DEF CountsInv, ReadersTypeOK
<1> QED
  BY <1>3, <1>4, <1>5, <1>6
LEMMA ChangePoliciesKeeps ==
  ASSUME CountsInv, NEW a \in Accounts, NEW r \in PolicyRows, ChangePolicies(a, r)
  PROVE  CountsInv'
<1>1. /\ policyEdits < MaxPolicyEdits /\ policyEdits' = policyEdits + 1 /\ EditPolicy(a, r)
      /\ UNCHANGED <<cache, request, clock, failedReads>>
  BY DEF ChangePolicies
<1>2. policyEdits' \in 0 .. MaxPolicyEdits
  BY <1>1, CountsNumbers DEF CountsInv
<1>3. ReadersTypeOK'
  BY <1>1 DEF CountsInv, ReadersTypeOK, EditPolicy
<1> QED
  BY <1>1, <1>2, <1>3
  DEF CountsInv, CacheInTime, RequestsAreSound, LoadingIsAwaited, WaitersAreServed, Waiting

(* A read that settles is gone from whoever waited for it, and only from    *)
(* them; what they make of it is sound.                                     *)
LEMMA ReadSettles ==
  ASSUME CountsInv, NEW a \in Accounts, DOMAIN request' = Requests,
         \A q \in Waiting(a) : /\ Sound(request'[q]) /\ request'[q].stage = "open"
                               /\ request'[q].now = request[q].now
                               /\ request'[q].waiting = request[q].waiting \ {a},
         \A q \in Requests \ Waiting(a) : request'[q] = request[q],
         cache' \in [Accounts -> Entries], cache'[a].stage # "loading",
         \A b \in Accounts \ {a} : cache'[b] = cache[b],
         UNCHANGED <<policyRows, clock, policyEdits>>
  PROVE  RequestsAreSound' /\ LoadingIsAwaited' /\ WaitersAreServed'
<1>2. ASSUME NEW q \in Waiting(a)
      PROVE  /\ q \in Requests /\ request[q].stage = "open" /\ request'[q].stage = "open"
             /\ Sound(request'[q]) /\ request'[q].now = request[q].now
             /\ request'[q].waiting = request[q].waiting \ {a}
  BY <1>2 DEF Waiting
<1>3. ASSUME NEW q \in Requests, q \notin Waiting(a) PROVE request'[q] = request[q]
  BY <1>3
<1>4. ASSUME NEW q \in Requests, request'[q].stage # "none"
      PROVE  /\ Sound(request'[q]) /\ request'[q].now <= clock'
             /\ a \notin request'[q].waiting \/ request'[q].stage # "open"
             /\ request'[q].waiting \subseteq request[q].waiting
             /\ request'[q].stage = request[q].stage
  <2>1. CASE q \in Waiting(a)
    <3>1. request[q].now <= clock
      BY <1>2, <2>1 DEF CountsInv, RequestsAreSound
    <3> QED
      BY <1>2, <2>1, <3>1
  <2>2. CASE q \notin Waiting(a)
    <3>1. request'[q] = request[q]
      BY <1>3, <2>2
    <3>2. Sound(request[q]) /\ request[q].now <= clock
      BY <1>4, <3>1 DEF CountsInv, RequestsAreSound, Sound
    <3>3. a \notin request[q].waiting \/ request[q].stage # "open"
      BY <2>2 DEF Waiting
    <3> QED
      BY <3>1, <3>2, <3>3
  <2> QED
    BY <2>1, <2>2
<1>5. RequestsAreSound'
  BY <1>4 DEF RequestsAreSound, Sound
<1>6. LoadingIsAwaited'
  <2> SUFFICES ASSUME NEW b \in Accounts, cache'[b].stage = "loading" PROVE Waiting(b)' # {}
    BY DEF LoadingIsAwaited
  <2>1. b # a /\ cache[b].stage = "loading"
    OBVIOUS
  <2>2. PICK q \in Requests : request[q].stage = "open" /\ b \in request[q].waiting
    BY <2>1 DEF CountsInv, LoadingIsAwaited, Waiting
  <2>3. request'[q].stage = "open" /\ b \in request'[q].waiting
    <3>1. CASE q \in Waiting(a)
      BY <1>2, <2>1, <2>2, <3>1
    <3>2. CASE q \notin Waiting(a)
      BY <1>3, <2>2, <3>2
    <3> QED
      BY <3>1, <3>2
  <2> QED
    BY <2>3 DEF Waiting
<1>7. WaitersAreServed'
  <2> SUFFICES ASSUME NEW q \in Requests, request'[q].stage = "open", NEW b \in request'[q].waiting
               PROVE  cache'[b].stage = "loading"
    BY DEF WaitersAreServed
  <2>1. b # a /\ request[q].stage = "open" /\ b \in request[q].waiting
    BY <1>4
  <2>2. b \in Accounts
    BY <2>1, RequestFacts, AskedFields
  <2> QED
    BY <2>1, <2>2 DEF CountsInv, WaitersAreServed
<1> QED
  BY <1>5, <1>6, <1>7

LEMMA LoadedKeeps == ASSUME CountsInv, NEW a \in Accounts, Loaded(a) PROVE CountsInv'
<1>1. PICK got \in SUBSET policyRows[a] :
        LET result == [stage |-> "loaded", at |-> cache[a].at, rows |-> got,
                     truncated |-> got # policyRows[a], when |-> clock]
        IN  /\ cache' = [cache EXCEPT ![a] = result]
            /\ request' = [q \in Requests |->
                 IF q \in Waiting(a)
                 THEN [request[q] EXCEPT !.waiting = @ \ {a},
                                         !.counts = Append(@, Counted(a, result))]
                 ELSE request[q]]
  BY DEF Loaded
<1> DEFINE result == [stage |-> "loaded", at |-> cache[a].at, rows |-> got,
                    truncated |-> got # policyRows[a], when |-> clock]
           Became(q) == [request[q] EXCEPT !.waiting = @ \ {a},
                                           !.counts = Append(@, Counted(a, result))]
<1>2. /\ cache' = [cache EXCEPT ![a] = result]
      /\ request' = [q \in Requests |-> IF q \in Waiting(a) THEN Became(q) ELSE request[q]]
  BY <1>1
<1>3. cache[a].stage = "loading" /\ UNCHANGED <<policyRows, clock, policyEdits, failedReads>>
  BY DEF Loaded
<1>4. /\ cache[a].at \in 1 .. MaxClock /\ cache[a].at <= clock /\ clock \in 1 .. MaxClock
      /\ cache \in [Accounts -> Entries] /\ got \in SUBSET PolicyRows
  BY <1>3, CacheFacts DEF CountsInv, CacheInTime, ReadersTypeOK
<1>5. /\ result \in Reads /\ result.stage = "loaded" /\ result.at = cache[a].at /\ result.when = clock
  BY <1>4 DEF Reads
<1> HIDE DEF result
<1>6. ASSUME NEW q \in Waiting(a)
      PROVE  /\ Sound(Became(q)) /\ Became(q).stage = "open" /\ Became(q).now = request[q].now
             /\ Became(q).waiting = request[q].waiting \ {a}
  <2>1. q \in Requests /\ request[q].stage = "open" /\ a \in request[q].waiting
    BY DEF Waiting
  <2>2. Sound(request[q]) /\ request[q].now \in 1 .. clock
    BY <2>1, RequestFacts
  <2>3. request[q].now < result.when + CacheFor
    BY <1>4, <1>5, <2>2, CountsNumbers
  <2>4. Sound(Became(q))
    BY <1>5, <2>1, <2>2, <2>3, CountedSound
  <2>5. /\ Became(q).stage = "open" /\ Became(q).now = request[q].now
        /\ Became(q).waiting = request[q].waiting \ {a}
    BY <2>1, <2>2 DEF Sound, Asked
  <2> QED
    BY <2>4, <2>5
<1> HIDE DEF Became
<1>7. /\ cache' \in [Accounts -> Entries] /\ cache'[a] = result
      /\ \A b \in Accounts \ {a} : cache'[b] = cache[b]
  BY <1>2, <1>4, <1>5 DEF Entries
<1>8. RequestsAreSound' /\ LoadingIsAwaited' /\ WaitersAreServed'
  <2>1. DOMAIN request' = Requests /\ \A q \in Requests \ Waiting(a) : request'[q] = request[q]
    BY <1>2
  <2>2. ASSUME NEW q \in Waiting(a)
        PROVE  /\ Sound(request'[q]) /\ request'[q].stage = "open" /\ request'[q].now = request[q].now
               /\ request'[q].waiting = request[q].waiting \ {a}
    <3>1. request'[q] = Became(q)
      BY <1>2 DEF Waiting
    <3> QED
      BY <1>6, <3>1
  <2> QED
    BY <1>3, <1>5, <1>7, <2>1, <2>2, ReadSettles
<1>9. CacheInTime'
  <2> SUFFICES ASSUME NEW b \in Accounts
               PROVE  /\ cache'[b].stage # "none" => cache'[b].at <= clock
                      /\ cache'[b].stage = "loaded" => cache'[b].at <= cache'[b].when
                      /\ cache'[b].stage = "loading" => clock < cache'[b].at + CacheFor
    BY <1>3, <1>7 DEF CacheInTime
  <2>1. CASE b = a
    BY <1>4, <1>5, <1>7, <2>1
  <2>2. CASE b # a
    BY <1>7, <2>2 DEF CountsInv, CacheInTime
  <2> QED
    BY <2>1, <2>2
<1> QED
  BY <1>3, <1>8, <1>9 DEF CountsInv, ReadersTypeOK

LEMMA LoadFailsKeeps == ASSUME CountsInv, NEW a \in Accounts, LoadFails(a) PROVE CountsInv'
<1> DEFINE Became(q) == [request[q] EXCEPT !.waiting = @ \ {a}, !.unavailable = @ + 1]
<1>1. /\ failedReads < MaxFailedReads /\ failedReads' = failedReads + 1
      /\ cache' = [cache EXCEPT ![a] = NoRead]
      /\ request' = [q \in Requests |-> IF q \in Waiting(a) THEN Became(q) ELSE request[q]]
      /\ UNCHANGED <<policyRows, clock, policyEdits>>
  BY DEF LoadFails
<1>2. ASSUME NEW q \in Waiting(a)
      PROVE  /\ Sound(Became(q)) /\ Became(q).stage = "open" /\ Became(q).now = request[q].now
             /\ Became(q).waiting = request[q].waiting \ {a}
  <2>1. q \in Requests /\ request[q].stage = "open" /\ a \in request[q].waiting
    BY DEF Waiting
  <2>2. Sound(request[q])
    BY <2>1, RequestFacts
  <2>3. Sound(Became(q))
    BY <2>1, <2>2, FailedSound
  <2>4. /\ Became(q).stage = "open" /\ Became(q).now = request[q].now
        /\ Became(q).waiting = request[q].waiting \ {a}
    BY <2>1, <2>2 DEF Sound, Asked
  <2> QED
    BY <2>3, <2>4
<1> HIDE DEF Became
<1>3. cache \in [Accounts -> Entries]
  BY DEF CountsInv, CacheInTime
<1>4. /\ cache' \in [Accounts -> Entries] /\ cache'[a] = NoRead /\ NoRead.stage = "none"
      /\ \A b \in Accounts \ {a} : cache'[b] = cache[b]
  BY <1>1, <1>3 DEF Entries, NoRead
<1>5. RequestsAreSound' /\ LoadingIsAwaited' /\ WaitersAreServed'
  <2>1. DOMAIN request' = Requests /\ \A q \in Requests \ Waiting(a) : request'[q] = request[q]
    BY <1>1
  <2>2. ASSUME NEW q \in Waiting(a)
        PROVE  /\ Sound(request'[q]) /\ request'[q].stage = "open" /\ request'[q].now = request[q].now
               /\ request'[q].waiting = request[q].waiting \ {a}
    <3>1. request'[q] = Became(q)
      BY <1>1 DEF Waiting
    <3> QED
      BY <1>2, <3>1
  <2> QED
    BY <1>1, <1>4, <2>1, <2>2, ReadSettles
<1>6. CacheInTime'
  <2> SUFFICES ASSUME NEW b \in Accounts
               PROVE  /\ cache'[b].stage # "none" => cache'[b].at <= clock
                      /\ cache'[b].stage = "loaded" => cache'[b].at <= cache'[b].when
                      /\ cache'[b].stage = "loading" => clock < cache'[b].at + CacheFor
    BY <1>1, <1>4 DEF CacheInTime
  <2>1. CASE b = a
    BY <1>4, <2>1
  <2>2. CASE b # a
    BY <1>4, <2>2 DEF CountsInv, CacheInTime
  <2> QED
    BY <2>1, <2>2
<1>7. failedReads' \in 0 .. MaxFailedReads
  BY <1>1, CountsNumbers DEF CountsInv
<1> QED
  BY <1>1, <1>5, <1>6, <1>7 DEF CountsInv, ReadersTypeOK

LEMMA CountsStep == CountsInv /\ [CountsNext]_countsVars => CountsInv'
<1> SUFFICES ASSUME CountsInv, [CountsNext]_countsVars PROVE CountsInv'
  OBVIOUS
<1>1. CASE \E a \in Accounts, r \in PolicyRows : ChangePolicies(a, r)
  BY <1>1, ChangePoliciesKeeps
<1>2. CASE Tick
  BY <1>2, TickKeeps
<1>3. CASE \E q \in Requests : Ask(q) \/ TakeAccount(q) \/ Answer(q)
  BY <1>3, AskKeeps, TakeAccountKeeps, AnswerKeeps
<1>4. CASE \E a \in Accounts : Loaded(a) \/ LoadFails(a)
  BY <1>4, LoadedKeeps, LoadFailsKeeps
<1>5. CASE UNCHANGED countsVars
  BY <1>5
  DEF countsVars, CountsInv, ReadersTypeOK, CacheInTime, RequestsAreSound, LoadingIsAwaited,
      WaitersAreServed, Waiting
<1> QED
  BY <1>1, <1>2, <1>3, <1>4, <1>5 DEF CountsNext

(* Whatever the policies do and whichever reads fail while requests share   *)
(* them, an answer counts every account or says that it could not, from     *)
(* reads no older than the cache lives, and nobody waits for a read that    *)
(* nobody runs (secret-reader-counts.ts).                                   *)
THEOREM Answering == CountsSpec => []CountsAreAnswered
<1>1. CountsInit => CountsInv
  BY CountsStart
<1>2. CountsInv /\ [CountsNext]_countsVars => CountsInv'
  BY CountsStep
<1>3. CountsInv => CountsAreAnswered
  BY CountsInvSuffices
<1> QED
  BY <1>1, <1>2, <1>3, PTL DEF CountsSpec

-----------------------------------------------------------------------------
(* FlowLogs: complete runs cover, citations are earned                     *)
(* A run under way is of today.                                             *)
RunsAreOfToday ==
  /\ flowRun.stage # "idle" => flowRun.day \in 1 .. flowDay
  /\ flowRun.stage \in {"traffic", "endpoints", "writing"} => flowRun.day = flowDay

(* What a run is about to write was received in the window that ends today, *)
(* and what a row says in the window that ended the day it was written.     *)
EvidenceIsRecent ==
  flowRun.stage = "writing" =>
    \A n \in DOMAIN flowRun.endpoints :
      /\ Cardinality(flowRun.endpoints[n]) <= PerInterface
      /\ \A a \in flowRun.endpoints[n] : Flowed(n, a)

RowsAreEvidence ==
  \A n \in DOMAIN observations : \A a \in observations[n].endpoints :
    flows[n][a] > 0 /\ flows[n][a] + FlowWindow >= observations[n].day

(* Every interface a run found has its row of today or is still to be       *)
(* written, unless the run was cut at the limit.                            *)
Written(n) == n \in DOMAIN observations /\ observations[n].day = flowDay

RunsCoverSoFar ==
  /\ flowRun.stage = "endpoints" /\ ~flowRun.truncated => flowRun.asked \subseteq ToSet(flowRun.seen)
  /\ flowRun.stage = "writing" /\ ~flowRun.truncated =>
       \A n \in flowRun.asked : n \in ToSet(flowRun.seen) \/ Written(n)

FlowInv ==
  FlowTypeOK /\ RunsAreOfToday /\ EvidenceIsRecent /\ RowsAreEvidence /\ RunsCoverSoFar
  /\ CompleteRunsCover

LEMMA FlowNumbers ==
  /\ FlowWindow \in Nat /\ ObservationTtl \in Nat /\ ObservationLag \in Nat
  /\ MaxObservations \in Nat /\ PerInterface \in Nat /\ PerInstance \in Nat
  /\ MaxFlowFaults \in Nat /\ MaxFlows \in Nat
  /\ BatchSize \in Nat \ {0} /\ FlowAttempts \in Nat \ {0} /\ MaxFlowDay \in Nat \ {0}
<1>1. \A c \in {FlowWindow, ObservationTtl, ObservationLag, MaxObservations, PerInterface,
                PerInstance, MaxFlowFaults, MaxFlows} : c \in Nat
  BY FlowParameters
<1>2. \A c \in {BatchSize, FlowAttempts, MaxFlowDay} : c \in Nat \ {0}
  BY FlowParameters
<1> QED
  BY <1>1, <1>2

LEMMA AddressesInOrder ==
  /\ Addresses \in Seq(Senders) /\ Len(Addresses) \in Nat /\ DOMAIN Addresses = 1 .. Len(Addresses)
  /\ \A p \in DOMAIN Addresses : Addresses[p] \in Senders
<1>1. Addresses \in Seq(Senders)
  BY FlowParameters
<1> QED
  BY <1>1

-----------------------------------------------------------------------------
(* The helpers: the first of a sequence, the rest of it, the leading few.   *)

LEMMA FirstOf ==
  ASSUME NEW S, NEW s \in Seq(S), NEW k \in Nat
  PROVE  /\ First(s, k) \in Seq(S) /\ ToSet(First(s, k)) \subseteq ToSet(s)
         /\ Len(s) <= k => First(s, k) = s
         /\ \A n \in 1 .. Len(s) : n <= k => s[n] \in ToSet(First(s, k))
<1>1. PICK m \in 0 .. Len(s) :
        /\ m = IF k > Len(s) THEN Len(s) ELSE k
        /\ Len(s) <= k => m = Len(s)
        /\ m <= k /\ \A n \in 1 .. Len(s) : n <= k => n <= m
  OBVIOUS
<1>2. First(s, k) = SubSeq(s, 1, m)
  BY <1>1 DEF First
<1>3. Len(s) \in Nat /\ DOMAIN s = 1 .. Len(s) /\ s \in [1 .. Len(s) -> S]
  OBVIOUS
<1>4. /\ SubSeq(s, 1, m) \in Seq(S) /\ Len(SubSeq(s, 1, m)) = m
      /\ DOMAIN SubSeq(s, 1, m) = 1 .. m
      /\ \A n \in 1 .. m : SubSeq(s, 1, m)[n] = s[n]
  BY <1>3
<1>5. ToSet(SubSeq(s, 1, m)) \subseteq ToSet(s)
  BY <1>3, <1>4 DEF ToSet
<1>6. ASSUME NEW n \in 1 .. Len(s), n <= k PROVE s[n] \in ToSet(SubSeq(s, 1, m))
  <2>1. n \in 1 .. m
    BY <1>1, <1>6
  <2>2. SubSeq(s, 1, m)[n] = s[n] /\ n \in DOMAIN SubSeq(s, 1, m)
    BY <1>4, <2>1
  <2> QED
    BY <2>2, Zenon DEF ToSet
<1>7. ASSUME Len(s) <= k PROVE SubSeq(s, 1, m) = s
  BY <1>1, <1>4, <1>7
<1> QED
  BY <1>2, <1>4, <1>5, <1>6, <1>7

LEMMA RestOf ==
  ASSUME NEW S, NEW s \in Seq(S), NEW k \in Nat
  PROVE  /\ SubSeq(s, k + 1, Len(s)) \in Seq(S)
         /\ \A x \in ToSet(s) : x \in ToSet(First(s, k)) \/ x \in ToSet(SubSeq(s, k + 1, Len(s)))
<1>1. Len(s) \in Nat /\ DOMAIN s = 1 .. Len(s) /\ \A n \in 1 .. Len(s) : s[n] \in S
  OBVIOUS
<1> DEFINE rest == SubSeq(s, k + 1, Len(s))
<1>2. CASE k < Len(s)
  <2>1. /\ rest \in Seq(S) /\ DOMAIN rest = 1 .. (Len(s) - k)
        /\ \A n \in 1 .. (Len(s) - k) : rest[n] = s[n + k]
    BY <1>1, <1>2
  <2>2. ASSUME NEW x \in ToSet(s) PROVE x \in ToSet(First(s, k)) \/ x \in ToSet(rest)
    <3>1. PICK n \in 1 .. Len(s) : x = s[n]
      BY <1>1 DEF ToSet
    <3>2. CASE n <= k
      BY <3>1, <3>2, FirstOf
    <3>3. CASE n > k
      <4>1. n - k \in 1 .. (Len(s) - k) /\ (n - k) + k = n
        BY <1>1, <3>1, <3>3
      <4>2. rest[n - k] = s[n]
        BY <2>1, <4>1
      <4> QED
        BY <2>1, <3>1, <4>1, <4>2 DEF ToSet
    <3> QED
      BY <1>1, <3>1, <3>2, <3>3
  <2> QED
    BY <2>1, <2>2
<1>3. CASE k >= Len(s)
  <2>1. rest \in Seq(S)
    BY <1>1, <1>3
  <2>2. First(s, k) = s
    BY <1>1, <1>3, FirstOf
  <2> QED
    BY <2>1, <2>2
<1> QED
  BY <1>1, <1>2, <1>3

(* A set put in any order is a sequence of all of it.                       *)
LEMMA InAnyOrder ==
  ASSUME NEW S, IsFiniteSet(S), NEW s \in SetToSeqs(S)
  PROVE  s \in Seq(S) /\ ToSet(s) = S
<1> DEFINE n == Cardinality(S)
<1>1. n \in Nat
  BY FS_CardinalityType
<1>2. s \in [1 .. n -> S] /\ \A i, j \in 1 .. n : i # j => s[i] # s[j]
  BY DEF SetToSeqs
<1>3. s \in Seq(S)
  BY <1>1, <1>2
<1>4. IsFiniteSet(1 .. n) /\ Cardinality(1 .. n) = n
  <2>1. Cardinality(1 .. n) = IF 1 > n THEN 0 ELSE n - 1 + 1
    BY <1>1, FS_Interval
  <2> QED
    BY <1>1, <2>1, FS_Interval
<1>5. s \in Injection(1 .. n, S)
  BY <1>2 DEF Injection, IsInjective
<1>6. s \in Surjection(1 .. n, S)
  BY <1>4, <1>5, FS_Injection
<1>7. ToSet(s) = S
  BY <1>2, <1>6 DEF ToSet, Surjection
<1> QED
  BY <1>3, <1>7

(* Of the addresses at some positions at most k lead.                       *)
LEMMA LeadingFew ==
  ASSUME NEW P \in SUBSET DOMAIN Addresses, NEW k \in Nat
  PROVE  /\ Leading(P, k) \subseteq {Addresses[p] : p \in P} /\ Leading(P, k) \subseteq Senders
         /\ Cardinality(Leading(P, k)) <= k
<1> DEFINE Before(q) == {o \in P : o < q}
           Q == {q \in P : Cardinality(Before(q)) < k}
           rank == [q \in Q |-> Cardinality(Before(q))]
           Leaders == {Addresses[p] : p \in Q}
           name == [p \in Q |-> Addresses[p]]
<1>1. Leading(P, k) = Leaders
  BY DEF Leading
<1>2. /\ Leaders \subseteq {Addresses[p] : p \in P} /\ Leaders \subseteq Senders
  BY AddressesInOrder
<1>3. IsFiniteSet(P) /\ P \subseteq Nat
  <2>1. IsFiniteSet(1 .. Len(Addresses))
    BY AddressesInOrder, FS_Interval
  <2> QED
    BY <2>1, AddressesInOrder, FS_Subset
<1>4. ASSUME NEW q \in P PROVE IsFiniteSet(Before(q)) /\ Cardinality(Before(q)) \in Nat
  <2>1. IsFiniteSet(Before(q))
    BY <1>3, FS_Subset
  <2> QED
    BY <2>1, FS_CardinalityType
<1>5. ASSUME NEW q \in P, NEW r \in P, q < r PROVE Cardinality(Before(q)) < Cardinality(Before(r))
  <2>1. Before(q) \in SUBSET Before(r) /\ q \in Before(r) /\ q \notin Before(q)
    BY <1>3, <1>5
  <2>2. Cardinality(Before(q)) <= Cardinality(Before(r)) /\ Cardinality(Before(q)) # Cardinality(Before(r))
    BY <1>4, <2>1, FS_Subset
  <2> QED
    BY <1>4, <2>2
<1>6. rank \in Injection(Q, 0 .. (k - 1))
  <2>1. \A q \in Q : q \in P /\ Cardinality(Before(q)) \in Nat /\ Cardinality(Before(q)) < k
    BY <1>4
  <2>2. rank \in [Q -> 0 .. (k - 1)]
    BY <2>1
  <2>3. ASSUME NEW q \in Q, NEW r \in Q, rank[q] = rank[r] PROVE q = r
    <3>1. q \in Nat /\ r \in Nat /\ Cardinality(Before(q)) = Cardinality(Before(r))
          /\ Cardinality(Before(q)) \in Nat
      BY <1>3, <2>1, <2>3
    <3>2. ~(q < r) /\ ~(r < q)
      BY <1>5, <2>1, <3>1
    <3> QED
      BY <3>1, <3>2
  <2> QED
    BY <2>2, <2>3 DEF Injection, IsInjective
<1>7. IsFiniteSet(0 .. (k - 1)) /\ Cardinality(0 .. (k - 1)) = k
  <2>1. Cardinality(0 .. (k - 1)) = IF 0 > k - 1 THEN 0 ELSE (k - 1) - 0 + 1
    BY FS_Interval
  <2> QED
    BY <2>1, FS_Interval
<1>8. IsFiniteSet(Q) /\ Cardinality(Q) <= k
  BY <1>6, <1>7, FS_Injection
<1>9. name \in Surjection(Q, Leaders)
  BY DEF Surjection
<1>10. IsFiniteSet(Leaders) /\ Cardinality(Leaders) <= Cardinality(Q)
  BY <1>8, <1>9, FS_Surjection
<1>11. Cardinality(Q) \in Nat /\ Cardinality(Leaders) \in Nat
  BY <1>8, <1>10, FS_CardinalityType
<1> QED
  <2>1. PICK few \in Nat, fewer \in Nat : few = Cardinality(Q) /\ fewer = Cardinality(Leaders)
    BY <1>11
  <2>2. few <= k /\ fewer <= few
    BY <1>8, <1>10, <2>1
  <2>3. fewer <= k
    BY <2>2
  <2> QED
    BY <1>1, <1>2, <2>1, <2>3, Zenon
-----------------------------------------------------------------------------
(* What a run carries in each of its stages.                                *)
Endpoints == UNION {[ns -> SUBSET Senders] : ns \in SUBSET Interfaces}
Traffic == [stage : {"traffic", "failed"}, day : 1..MaxFlowDay]
Sending == [stage : {"endpoints"}, day : 1..MaxFlowDay, truncated : BOOLEAN,
            asked : SUBSET Interfaces, seen : Seq(Interfaces)]
Rows == [stage : {"writing", "failed"}, day : 1..MaxFlowDay, truncated : BOOLEAN,
         asked : SUBSET Interfaces, seen : Seq(Interfaces), endpoints : Endpoints,
         attempt : 1..FlowAttempts]
Ended == [stage : {"done"}, day : 1..MaxFlowDay, truncated : BOOLEAN, asked : SUBSET Interfaces]

LEMMA AnalysisStages == AnalysisStates = {NoAnalysis} \cup Traffic \cup Sending \cup Rows \cup Ended
  BY DEF AnalysisStates, Endpoints, Traffic, Sending, Rows, Ended

LEMMA RunFields ==
  ASSUME FlowInv
  PROVE  /\ flowRun.stage \in {"idle", "traffic", "endpoints", "writing", "done", "failed"}
         /\ flowRun.stage = "idle" => flowRun = NoAnalysis
         /\ flowRun.stage = "traffic" => flowRun \in Traffic
         /\ flowRun.stage = "endpoints" => flowRun \in Sending
         /\ flowRun.stage = "writing" => flowRun \in Rows
         /\ flowRun.stage = "done" => flowRun \in Ended
<1>1. flowRun \in {NoAnalysis} \cup Traffic \cup Sending \cup Rows \cup Ended
  BY AnalysisStages DEF FlowInv, FlowTypeOK
<1>2. CASE flowRun = NoAnalysis
  BY <1>2 DEF NoAnalysis
<1>3. CASE flowRun \in Traffic
  BY <1>3 DEF Traffic
<1>4. CASE flowRun \in Sending
  BY <1>4 DEF Sending
<1>5. CASE flowRun \in Rows
  BY <1>5 DEF Rows
<1>6. CASE flowRun \in Ended
  BY <1>6 DEF Ended
<1> QED
  BY <1>1, <1>2, <1>3, <1>4, <1>5, <1>6

LEMMA RowFacts ==
  ASSUME FlowInv, NEW n \in DOMAIN observations
  PROVE  /\ n \in Interfaces
         /\ observations[n] \in [day : 1..flowDay, expires : Nat, endpoints : SUBSET Senders]
         /\ observations[n].day \in 1..flowDay /\ observations[n].expires \in Nat
         /\ observations[n].endpoints \in SUBSET Senders
         /\ Cardinality(observations[n].endpoints) <= PerInterface
         /\ observations[n].expires = observations[n].day + ObservationTtl
         /\ observations[n].expires + ObservationLag >= flowDay
<1>1. observations[n] \in [day : 1..flowDay, expires : Nat, endpoints : SUBSET Senders]
  BY DEF FlowInv, FlowTypeOK
<1>2. /\ observations[n].day \in 1..flowDay /\ observations[n].expires \in Nat
      /\ observations[n].endpoints \in SUBSET Senders
  BY <1>1
<1> QED
  BY <1>1, <1>2 DEF FlowInv, FlowTypeOK

LEMMA FlowStart == FlowInit => FlowInv
<1> SUFFICES ASSUME FlowInit PROVE FlowInv
  OBVIOUS
<1>1. flowRun.stage = "idle" /\ DOMAIN observations = {}
  BY DEF FlowInit, NoAnalysis
<1>2. attached \in [Interfaces -> Instances]
  <2>1. (CHOOSE i \in Instances : TRUE) \in Instances
    BY FlowParameters
  <2> QED
    BY <2>1 DEF FlowInit
<1>3. flowRun \in AnalysisStates
  BY DEF FlowInit, AnalysisStates
<1>4. flows \in [Interfaces -> [Senders -> 0..flowDay]]
  BY DEF FlowInit
<1>5. flowDay \in 1..MaxFlowDay /\ flowFaults \in 0..MaxFlowFaults /\ flowed \in 0..MaxFlows
  BY FlowNumbers DEF FlowInit
<1>6. /\ vertices \in [Instances -> [observed : BOOLEAN, endpoints : SUBSET Senders]]
      /\ \A i \in Instances : vertices[i].endpoints = {}
  BY DEF FlowInit
<1>7. FlowTypeOK
  BY <1>1, <1>2, <1>3, <1>4, <1>5, <1>6 DEF FlowInit, FlowTypeOK
<1> QED
  BY <1>1, <1>7
  DEF FlowInv, RunsAreOfToday, EvidenceIsRecent, RowsAreEvidence, RunsCoverSoFar, CompleteRunsCover

(* Traffic that arrives, today, only makes what was received more recent.   *)
LEMMA AcceptTrafficKeeps == FlowInv /\ AcceptTraffic => FlowInv'
<1> SUFFICES ASSUME FlowInv, AcceptTraffic PROVE FlowInv'
  OBVIOUS
<1>1. /\ flowed < MaxFlows /\ flowed' = flowed + 1
      /\ UNCHANGED <<flowDay, attached, flowRun, observations, described, vertices, flowFaults>>
  BY DEF AcceptTraffic
<1>2. PICK n \in Interfaces, a \in Senders : flows' = [flows EXCEPT ![n][a] = flowDay]
  BY DEF AcceptTraffic
<1>3. flows \in [Interfaces -> [Senders -> 0..flowDay]] /\ flowDay \in 1..MaxFlowDay /\ flowed \in 0..MaxFlows
  BY DEF FlowInv, FlowTypeOK
<1>4. flows' \in [Interfaces -> [Senders -> 0..flowDay]]
  BY <1>2, <1>3
<1>5. ASSUME NEW m \in Interfaces, NEW b \in Senders
      PROVE  flows[m][b] \in Nat /\ flows'[m][b] \in Nat /\ flows[m][b] <= flows'[m][b]
  BY <1>2, <1>3
<1>6. flowed' \in 0..MaxFlows
  BY <1>1, <1>3, FlowNumbers
<1>7. FlowTypeOK'
  BY <1>1, <1>4, <1>6 DEF FlowInv, FlowTypeOK
<1>8. RowsAreEvidence'
  <2> SUFFICES ASSUME NEW m \in DOMAIN observations, NEW b \in observations[m].endpoints
               PROVE  flows'[m][b] > 0 /\ flows'[m][b] + FlowWindow >= observations[m].day
    BY <1>1 DEF RowsAreEvidence
  <2>1. m \in Interfaces /\ b \in Senders /\ observations[m].day \in 1..flowDay
    BY RowFacts
  <2>2. flows[m][b] > 0 /\ flows[m][b] + FlowWindow >= observations[m].day
    BY DEF FlowInv, RowsAreEvidence
  <2> QED
    BY <1>5, <2>1, <2>2, FlowNumbers
<1>9. EvidenceIsRecent'
  <2> SUFFICES ASSUME flowRun.stage = "writing", NEW m \in DOMAIN flowRun.endpoints,
                      NEW b \in flowRun.endpoints[m]
               PROVE  flows'[m][b] > 0 /\ flows'[m][b] + FlowWindow >= flowDay
    BY <1>1 DEF FlowInv, EvidenceIsRecent, Flowed
  <2>1. m \in Interfaces /\ b \in Senders
    <3>1. flowRun.endpoints \in Endpoints
      BY RunFields DEF Rows
    <3> QED
      BY <3>1 DEF Endpoints
  <2>2. flows[m][b] > 0 /\ flows[m][b] + FlowWindow >= flowDay
    BY DEF FlowInv, EvidenceIsRecent, Flowed
  <2> QED
    BY <1>3, <1>5, <2>1, <2>2, FlowNumbers
<1> QED
  BY <1>1, <1>7, <1>8, <1>9
  DEF FlowInv, RunsAreOfToday, RunsCoverSoFar, CompleteRunsCover, Written

LEMMA MoveInterfaceKeeps == FlowInv /\ MoveInterface => FlowInv'
<1> SUFFICES ASSUME FlowInv, MoveInterface PROVE FlowInv'
  OBVIOUS
<1>1. /\ flowFaults < MaxFlowFaults /\ flowFaults' = flowFaults + 1
      /\ UNCHANGED <<flowDay, flows, flowed, flowRun, observations, described, vertices>>
      /\ attached' \in [Interfaces -> Instances]
  BY DEF MoveInterface, FlowInv, FlowTypeOK
<1>2. flowFaults' \in 0..MaxFlowFaults
  BY <1>1, FlowNumbers DEF FlowInv, FlowTypeOK
<1>3. FlowTypeOK'
  BY <1>1, <1>2 DEF FlowInv, FlowTypeOK
<1> QED
  BY <1>1, <1>3
  DEF FlowInv, RunsAreOfToday, EvidenceIsRecent, RowsAreEvidence, RunsCoverSoFar, CompleteRunsCover,
      Written, Flowed

(* A day goes by: rows are deleted when they are due, at the latest.        *)
LEMMA NextFlowDayKeeps == FlowInv /\ NextFlowDay => FlowInv'
<1> SUFFICES ASSUME FlowInv, NextFlowDay PROVE FlowInv'
  OBVIOUS
<1>1. /\ flowDay < MaxFlowDay /\ flowRun.stage \in {"idle", "done", "failed"} /\ flowDay' = flowDay + 1
      /\ UNCHANGED <<flows, flowed, attached, flowRun, described, vertices, flowFaults>>
  BY DEF NextFlowDay
<1>2. PICK gone \in SUBSET Expired(flowDay + 1) :
        /\ LongExpired(flowDay + 1) \subseteq gone
        /\ observations' = [n \in DOMAIN observations \ gone |-> observations[n]]
  BY DEF NextFlowDay
<1>3. flowDay \in 1..MaxFlowDay /\ flows \in [Interfaces -> [Senders -> 0..flowDay]]
  BY DEF FlowInv, FlowTypeOK
<1>4. flowDay' \in 1..MaxFlowDay /\ 1..flowDay \subseteq 1..flowDay' /\ 0..flowDay \subseteq 0..flowDay'
  BY <1>1, <1>3, FlowNumbers
<1>5. flows' \in [Interfaces -> [Senders -> 0..flowDay']]
  BY <1>1, <1>3, <1>4
<1>6. ASSUME NEW n \in DOMAIN observations'
      PROVE  /\ n \in DOMAIN observations /\ n \in Interfaces /\ observations'[n] = observations[n]
             /\ observations'[n] \in [day : 1..flowDay', expires : Nat, endpoints : SUBSET Senders]
             /\ Cardinality(observations'[n].endpoints) <= PerInterface
             /\ observations'[n].expires = observations'[n].day + ObservationTtl
             /\ observations'[n].expires + ObservationLag >= flowDay'
  <2>1. n \in DOMAIN observations /\ n \notin gone /\ observations'[n] = observations[n]
    BY <1>2, <1>6
  <2>2. n \notin LongExpired(flowDay + 1)
    BY <1>2, <2>1
  <2>3. ~(observations[n].expires + ObservationLag < flowDay + 1)
    BY <2>1, <2>2 DEF LongExpired
  <2>4. observations[n].expires + ObservationLag >= flowDay + 1
    BY <1>3, <2>1, <2>3, RowFacts, FlowNumbers
  <2>5. observations[n] \in [day : 1..flowDay', expires : Nat, endpoints : SUBSET Senders]
    BY <1>4, <2>1, RowFacts
  <2> QED
    BY <1>1, <2>1, <2>4, <2>5, RowFacts
<1>7. FlowTypeOK'
  <2>1. DOMAIN observations' \subseteq Interfaces
    BY <1>6
  <2> QED
    BY <1>1, <1>4, <1>5, <1>6, <2>1 DEF FlowInv, FlowTypeOK
<1>8. RunsAreOfToday'
  BY <1>1, <1>4 DEF FlowInv, RunsAreOfToday
<1>9. RowsAreEvidence'
  BY <1>1, <1>6 DEF FlowInv, RowsAreEvidence
<1>10. CompleteRunsCover'
  <2>1. flowRun.stage = "done" => flowRun.day \in 1 .. flowDay
    BY DEF FlowInv, RunsAreOfToday
  <2>2. flowRun.stage = "done" => flowRun.day # flowDay'
    BY <1>1, <1>3, <2>1
  <2> QED
    BY <1>1, <2>2 DEF CompleteRunsCover
<1> QED
  BY <1>1, <1>7, <1>8, <1>9, <1>10 DEF FlowInv, EvidenceIsRecent, RunsCoverSoFar

(* A step of a run that leaves the table alone.                             *)
LEMMA FaultsAreCounted ==
  ASSUME FlowInv, FlowFault \/ FlowWorks
  PROVE  flowFaults' \in 0..MaxFlowFaults
  BY FlowNumbers DEF FlowInv, FlowTypeOK, FlowFault, FlowWorks

LEMMA OneRunMoves ==
  ASSUME FlowInv, flowRun' \in {NoAnalysis} \cup Traffic \cup Sending \cup Rows \cup Ended,
         flowFaults' \in 0..MaxFlowFaults,
         UNCHANGED <<flowDay, flows, flowed, attached, observations, described, vertices>>,
         RunsAreOfToday', EvidenceIsRecent', RunsCoverSoFar', CompleteRunsCover'
  PROVE  FlowInv'
<1>1. FlowTypeOK'
  BY AnalysisStages DEF FlowInv, FlowTypeOK, AnalysisStates
<1>2. RowsAreEvidence'
  BY DEF FlowInv, RowsAreEvidence
<1> QED
  BY <1>1, <1>2 DEF FlowInv

LEMMA FailedRun ==
  ASSUME FlowInv, flowRun'.stage = "failed", flowRun'.day = flowRun.day, flowRun.stage # "idle",
         UNCHANGED flowDay
  PROVE  RunsAreOfToday' /\ EvidenceIsRecent' /\ RunsCoverSoFar' /\ CompleteRunsCover'
  BY DEF FlowInv, RunsAreOfToday, EvidenceIsRecent, RunsCoverSoFar, CompleteRunsCover

LEMMA StartAnalysisKeeps == FlowInv /\ StartAnalysis => FlowInv'
<1> SUFFICES ASSUME FlowInv, StartAnalysis PROVE FlowInv'
  OBVIOUS
<1>1. /\ flowRun' = [stage |-> "traffic", day |-> flowDay]
      /\ UNCHANGED <<flowDay, flows, flowed, attached, observations, described, vertices, flowFaults>>
  BY DEF StartAnalysis
<1>2. flowDay \in 1..MaxFlowDay /\ flowFaults \in 0..MaxFlowFaults
  BY DEF FlowInv, FlowTypeOK
<1>3. flowRun' \in Traffic /\ flowRun'.stage = "traffic" /\ flowRun'.day = flowDay
  BY <1>1, <1>2 DEF Traffic
<1>4. RunsAreOfToday' /\ EvidenceIsRecent' /\ RunsCoverSoFar' /\ CompleteRunsCover'
  BY <1>1, <1>2, <1>3 DEF RunsAreOfToday, EvidenceIsRecent, RunsCoverSoFar, CompleteRunsCover
<1> QED
  BY <1>1, <1>2, <1>3, <1>4, OneRunMoves

LEMMA QueryTrafficKeeps == FlowInv /\ QueryTraffic => FlowInv'
<1> SUFFICES ASSUME FlowInv, QueryTraffic PROVE FlowInv'
  OBVIOUS
<1>1. /\ flowRun.stage = "traffic"
      /\ UNCHANGED <<flowDay, flows, flowed, attached, observations, described, vertices>>
  BY DEF QueryTraffic
<1>2. flowRun \in Traffic /\ flowRun.day = flowDay /\ flowDay \in 1..MaxFlowDay
  BY <1>1, RunFields DEF FlowInv, RunsAreOfToday, FlowTypeOK
<1>4. CASE /\ FlowFault /\ flowRun' = [flowRun EXCEPT !.stage = "failed"]
  <2>1. flowRun' \in Traffic /\ flowRun'.stage = "failed" /\ flowRun'.day = flowRun.day
    BY <1>2, <1>4 DEF Traffic
  <2>2. flowFaults' \in 0..MaxFlowFaults
    BY <1>4, FaultsAreCounted
  <2>3. RunsAreOfToday' /\ EvidenceIsRecent' /\ RunsCoverSoFar' /\ CompleteRunsCover'
    BY <1>1, <2>1, FailedRun
  <2> QED
    BY <1>1, <2>1, <2>2, <2>3, OneRunMoves
<1>5. CASE /\ FlowWorks
           /\ LET active == {n \in Interfaces : \E a \in Senders : Flowed(n, a)}
              IN \E turns \in SetToSeqs(active) :
                    flowRun' = [stage |-> "endpoints", day |-> flowDay,
                                truncated |-> Len(turns) > MaxObservations,
                                asked |-> active, seen |-> First(turns, MaxObservations)]
  <2> DEFINE active == {n \in Interfaces : \E a \in Senders : Flowed(n, a)}
  <2>1. PICK turns \in SetToSeqs(active) :
          flowRun' = [stage |-> "endpoints", day |-> flowDay,
                      truncated |-> Len(turns) > MaxObservations,
                      asked |-> active, seen |-> First(turns, MaxObservations)]
    BY <1>5
  <2>2. active \in SUBSET Interfaces
    OBVIOUS
  <2> HIDE DEF active
  <2>3. IsFiniteSet(active)
    BY <2>2, FS_Subset, FlowParameters
  <2>4. turns \in Seq(active) /\ ToSet(turns) = active
    BY <2>3, InAnyOrder
  <2>5. turns \in Seq(Interfaces) /\ Len(turns) \in Nat
    BY <2>2, <2>4
  <2>6. /\ First(turns, MaxObservations) \in Seq(Interfaces)
        /\ Len(turns) <= MaxObservations => First(turns, MaxObservations) = turns
    BY <2>5, FirstOf, FlowNumbers
  <2>7. /\ flowRun'.stage = "endpoints" /\ flowRun'.day = flowDay /\ flowRun'.asked = active
        /\ flowRun'.truncated = (Len(turns) > MaxObservations)
        /\ flowRun'.seen = First(turns, MaxObservations)
    BY <2>1
  <2>8. flowRun' \in Sending
    <3>1. (Len(turns) > MaxObservations) \in BOOLEAN
      OBVIOUS
    <3> QED
      BY <1>2, <2>1, <2>2, <2>6, <3>1 DEF Sending
  <2>9. ~flowRun'.truncated => flowRun'.asked \subseteq ToSet(flowRun'.seen)
    <3>1. ASSUME ~(Len(turns) > MaxObservations) PROVE Len(turns) <= MaxObservations
      BY <2>5, <3>1, FlowNumbers
    <3> QED
      BY <2>4, <2>6, <2>7, <3>1
  <2>10. RunsAreOfToday' /\ EvidenceIsRecent' /\ RunsCoverSoFar' /\ CompleteRunsCover'
    BY <1>1, <1>2, <2>7, <2>9 DEF RunsAreOfToday, EvidenceIsRecent, RunsCoverSoFar, CompleteRunsCover
  <2> QED
    BY <1>1, <1>5, <2>8, <2>10, FaultsAreCounted, OneRunMoves
<1> QED
  BY <1>4, <1>5 DEF QueryTraffic, QueryFails, RowIsMalformed

(* The biggest senders were received in the window; at most so many.        *)
LEMMA TopSendersFlowed ==
  ASSUME NEW n
  PROVE  /\ TopSenders(n) \in SUBSET Senders /\ Cardinality(TopSenders(n)) <= PerInterface
         /\ \A a \in TopSenders(n) : Flowed(n, a)
<1> DEFINE P == {p \in DOMAIN Addresses : Flowed(n, Addresses[p])}
<1>1. TopSenders(n) = Leading(P, PerInterface) /\ P \in SUBSET DOMAIN Addresses
  BY DEF TopSenders
<1>2. \A p \in P : Flowed(n, Addresses[p])
  OBVIOUS
<1> HIDE DEF P
<1>3. /\ Leading(P, PerInterface) \subseteq {Addresses[p] : p \in P}
      /\ Leading(P, PerInterface) \subseteq Senders /\ Cardinality(Leading(P, PerInterface)) <= PerInterface
  BY <1>1, LeadingFew, FlowNumbers
<1> QED
  BY <1>1, <1>2, <1>3

LEMMA QueryEndpointsKeeps == FlowInv /\ QueryEndpoints => FlowInv'
<1> SUFFICES ASSUME FlowInv, QueryEndpoints PROVE FlowInv'
  OBVIOUS
<1>1. /\ flowRun.stage = "endpoints"
      /\ UNCHANGED <<flowDay, flows, flowed, attached, observations, described, vertices>>
  BY DEF QueryEndpoints
<1>2. /\ flowRun \in Sending /\ flowRun.day = flowDay /\ flowDay \in 1..MaxFlowDay
      /\ ~flowRun.truncated => flowRun.asked \subseteq ToSet(flowRun.seen)
  BY <1>1, RunFields DEF FlowInv, RunsAreOfToday, RunsCoverSoFar, FlowTypeOK
<1>3. PICK got : /\ Writing(got) /\ (FlowFault \/ FlowWorks)
                   /\ \/ got = [n \in {} |-> {}]
                      \/ got = [n \in {m \in Interfaces : TopSenders(m) # {}} |-> TopSenders(n)]
  BY DEF QueryEndpoints, QueryFails, RowIsMalformed
<1>4. /\ got \in Endpoints
      /\ \A n \in DOMAIN got : /\ Cardinality(got[n]) <= PerInterface
                               /\ \A a \in got[n] : Flowed(n, a)
  <2>1. CASE got = [n \in {} |-> {}]
    BY <2>1 DEF Endpoints
  <2>2. CASE got = [n \in {m \in Interfaces : TopSenders(m) # {}} |-> TopSenders(n)]
    <3> DEFINE ns == {m \in Interfaces : TopSenders(m) # {}}
    <3>1. ns \in SUBSET Interfaces /\ got = [n \in ns |-> TopSenders(n)]
      BY <2>2
    <3> HIDE DEF ns
    <3>2. got \in [ns -> SUBSET Senders]
      BY <3>1, TopSendersFlowed
    <3>3. got \in Endpoints
      BY <3>1, <3>2 DEF Endpoints
    <3> QED
      BY <3>1, <3>3, TopSendersFlowed
  <2> QED
    BY <1>3, <2>1, <2>2
<1>5. /\ flowRun'.stage = "writing" /\ flowRun'.day = flowRun.day /\ flowRun'.endpoints = got
      /\ flowRun'.truncated = flowRun.truncated /\ flowRun'.asked = flowRun.asked
      /\ flowRun'.seen = flowRun.seen
  BY <1>3 DEF Writing
<1>6. flowRun' \in Rows
  <2>1. 1 \in 1..FlowAttempts
    BY FlowNumbers
  <2>2. /\ flowRun.day \in 1..MaxFlowDay /\ flowRun.truncated \in BOOLEAN
        /\ flowRun.asked \in SUBSET Interfaces /\ flowRun.seen \in Seq(Interfaces)
    BY <1>2 DEF Sending
  <2> QED
    BY <1>3, <1>4, <2>1, <2>2 DEF Writing, Rows
<1>7. EvidenceIsRecent'
  BY <1>1, <1>4, <1>5 DEF EvidenceIsRecent, Flowed
<1>8. RunsAreOfToday' /\ RunsCoverSoFar' /\ CompleteRunsCover'
  BY <1>1, <1>2, <1>5 DEF RunsAreOfToday, RunsCoverSoFar, CompleteRunsCover
<1> QED
  BY <1>1, <1>3, <1>6, <1>7, <1>8, FaultsAreCounted, OneRunMoves

(* Rows that are put are of today, of what the run found to have flowed.    *)
LEMMA ItemFacts ==
  ASSUME FlowInv, flowRun.stage = "writing", NEW n \in Interfaces
  PROVE  /\ ItemOf(n) \in [day : 1..flowDay, expires : Nat, endpoints : SUBSET Senders]
         /\ ItemOf(n).day = flowDay /\ ItemOf(n).expires = flowDay + ObservationTtl
         /\ Cardinality(ItemOf(n).endpoints) <= PerInterface
         /\ \A a \in ItemOf(n).endpoints : Flowed(n, a)
<1>1. flowDay \in 1..MaxFlowDay /\ flowDay \in 1..flowDay /\ flowDay + ObservationTtl \in Nat
  BY FlowNumbers DEF FlowInv, FlowTypeOK
<1>2. flowRun.endpoints \in Endpoints
  BY RunFields DEF Rows
<1>3. /\ EndpointsOf(n) \in SUBSET Senders /\ Cardinality(EndpointsOf(n)) <= PerInterface
      /\ \A a \in EndpointsOf(n) : Flowed(n, a)
  <2>1. CASE n \in DOMAIN flowRun.endpoints
    <3>1. EndpointsOf(n) = flowRun.endpoints[n]
      BY <2>1 DEF EndpointsOf
    <3>2. flowRun.endpoints[n] \in SUBSET Senders
      BY <1>2, <2>1 DEF Endpoints
    <3> QED
      BY <2>1, <3>1, <3>2 DEF FlowInv, EvidenceIsRecent
  <2>2. CASE n \notin DOMAIN flowRun.endpoints
    <3>1. EndpointsOf(n) = {} /\ Cardinality({}) = 0
      BY <2>2, FS_EmptySet DEF EndpointsOf
    <3> QED
      BY <3>1, FlowNumbers
  <2> QED
    BY <2>1, <2>2
<1> QED
  BY <1>1, <1>3 DEF ItemOf

LEMMA PuttingRows ==
  ASSUME FlowInv, flowRun.stage = "writing", NEW ns \in SUBSET Interfaces, PutObservations(ns),
         UNCHANGED <<flowDay, flows>>
  PROVE  /\ DOMAIN observations' \subseteq Interfaces
         /\ \A n \in DOMAIN observations' :
              /\ observations'[n] \in [day : 1..flowDay, expires : Nat, endpoints : SUBSET Senders]
              /\ Cardinality(observations'[n].endpoints) <= PerInterface
              /\ observations'[n].expires = observations'[n].day + ObservationTtl
              /\ observations'[n].expires + ObservationLag >= flowDay
         /\ RowsAreEvidence'
         /\ \A n \in ns : Written(n)'
         /\ \A n \in Interfaces : Written(n) => Written(n)'
<1>1. /\ DOMAIN observations' = DOMAIN observations \cup ns
      /\ \A n \in ns : observations'[n] = ItemOf(n)
      /\ \A n \in DOMAIN observations \ ns : observations'[n] = observations[n]
  BY DEF PutObservations
<1>2. flowDay \in 1..MaxFlowDay
  BY DEF FlowInv, FlowTypeOK
<1>3. DOMAIN observations' \subseteq Interfaces
  BY <1>1, RowFacts
<1>4. ASSUME NEW n \in DOMAIN observations'
      PROVE  /\ observations'[n] \in [day : 1..flowDay, expires : Nat, endpoints : SUBSET Senders]
             /\ Cardinality(observations'[n].endpoints) <= PerInterface
             /\ observations'[n].expires = observations'[n].day + ObservationTtl
             /\ observations'[n].expires + ObservationLag >= flowDay
             /\ \A a \in observations'[n].endpoints :
                  flows[n][a] > 0 /\ flows[n][a] + FlowWindow >= observations'[n].day
  <2>1. CASE n \in ns
    <3>1. n \in Interfaces /\ observations'[n] = ItemOf(n)
      BY <1>1, <2>1
    <3>2. flowDay + ObservationTtl + ObservationLag >= flowDay
      BY <1>2, FlowNumbers
    <3>3. /\ observations'[n] \in [day : 1..flowDay, expires : Nat, endpoints : SUBSET Senders]
          /\ observations'[n].day = flowDay /\ observations'[n].expires = flowDay + ObservationTtl
          /\ Cardinality(observations'[n].endpoints) <= PerInterface
          /\ \A a \in observations'[n].endpoints : Flowed(n, a)
      BY <3>1, ItemFacts
    <3> QED
      BY <3>2, <3>3 DEF Flowed
  <2>2. CASE n \notin ns
    <3>1. n \in DOMAIN observations /\ observations'[n] = observations[n]
      BY <1>1, <2>2
    <3>2. \A a \in observations[n].endpoints :
            flows[n][a] > 0 /\ flows[n][a] + FlowWindow >= observations[n].day
      BY <3>1 DEF FlowInv, RowsAreEvidence
    <3> QED
      BY <3>1, <3>2, RowFacts
  <2> QED
    BY <2>1, <2>2
<1>5. RowsAreEvidence'
  BY <1>4 DEF RowsAreEvidence
<1>6. ASSUME NEW n \in ns PROVE Written(n)'
  BY <1>1, ItemFacts DEF Written
<1>7. ASSUME NEW n \in Interfaces, Written(n) PROVE Written(n)'
  <2>1. CASE n \in ns
    BY <1>6, <2>1
  <2>2. CASE n \notin ns
    BY <1>1, <1>7, <2>2 DEF Written
  <2> QED
    BY <2>1, <2>2
<1> QED
  BY <1>3, <1>4, <1>5, <1>6, <1>7

(* Trying again, or giving up, changes one field of what a run carries.     *)
LEMMA SameRowsAgain ==
  ASSUME NEW r \in Rows, NEW n \in 1..FlowAttempts, NEW w, w = [r EXCEPT !.attempt = n]
  PROVE  /\ w \in Rows /\ w.stage = r.stage /\ w.day = r.day /\ w.endpoints = r.endpoints
         /\ w.truncated = r.truncated /\ w.asked = r.asked /\ w.seen = r.seen
  BY DEF Rows

LEMMA NoMoreRows ==
  ASSUME NEW r \in Rows, NEW w, w = [r EXCEPT !.stage = "failed"]
  PROVE  /\ w \in Rows /\ w.stage = "failed" /\ w.day = r.day /\ w.endpoints = r.endpoints
         /\ w.truncated = r.truncated /\ w.asked = r.asked /\ w.seen = r.seen
  BY DEF Rows

LEMMA WriteObservationsKeeps == FlowInv /\ WriteObservations => FlowInv'
<1> SUFFICES ASSUME FlowInv, WriteObservations PROVE FlowInv'
  OBVIOUS
<1>1. /\ flowRun.stage = "writing" /\ flowRun.seen # << >>
      /\ UNCHANGED <<flowDay, flows, flowed, attached, described, vertices>>
  BY DEF WriteObservations
<1>2. /\ flowRun \in Rows /\ flowRun.day = flowDay /\ flowDay \in 1..MaxFlowDay
      /\ flowRun.seen \in Seq(Interfaces) /\ flowRun.asked \in SUBSET Interfaces
      /\ flowRun.attempt \in 1..FlowAttempts
      /\ ~flowRun.truncated => \A n \in flowRun.asked : n \in ToSet(flowRun.seen) \/ Written(n)
  BY <1>1, RunFields DEF FlowInv, RunsAreOfToday, RunsCoverSoFar, FlowTypeOK, Rows
<1>3. FlowBatch \in SUBSET Interfaces
  <2>1. First(flowRun.seen, BatchSize) \in Seq(Interfaces)
    BY <1>2, FirstOf, FlowNumbers
  <2> QED
    BY <2>1 DEF FlowBatch, ToSet
<1>4. PICK ns \in SUBSET FlowBatch :
        /\ PutObservations(ns) /\ (FlowFault \/ FlowWorks)
        /\ (ns = FlowBatch /\ flowRun' = NextBatch) \/ TryAgain
  BY DEF WriteObservations
<1> DEFINE rest == SubSeq(flowRun.seen, BatchSize + 1, Len(flowRun.seen))
<1>5. /\ rest \in Seq(Interfaces)
      /\ \A n \in ToSet(flowRun.seen) : n \in FlowBatch \/ n \in ToSet(rest)
  BY <1>2, RestOf, FlowNumbers DEF FlowBatch
<1>6. NextBatch = [flowRun EXCEPT !.seen = rest, !.attempt = 1]
  BY DEF NextBatch
<1> HIDE DEF rest
<1>7. /\ flowRun' \in Rows /\ flowRun'.stage \in {"writing", "failed"} /\ flowRun'.day = flowDay
      /\ flowRun'.endpoints = flowRun.endpoints /\ flowRun'.truncated = flowRun.truncated
      /\ flowRun'.asked = flowRun.asked
      /\ flowRun'.seen = flowRun.seen \/ (ns = FlowBatch /\ flowRun'.seen = rest)
  <2>1. CASE ns = FlowBatch /\ flowRun' = NextBatch
    <3>1. 1 \in 1..FlowAttempts
      BY FlowNumbers
    <3>2. /\ flowRun' \in Rows /\ flowRun'.stage = flowRun.stage /\ flowRun'.day = flowRun.day
          /\ flowRun'.endpoints = flowRun.endpoints /\ flowRun'.truncated = flowRun.truncated
          /\ flowRun'.asked = flowRun.asked /\ flowRun'.seen = rest
      <4>1. flowRun \in Rows /\ rest \in Seq(Interfaces)
        BY <1>2, <1>5
      <4>2. flowRun' = [flowRun EXCEPT !.seen = rest, !.attempt = 1]
        BY <1>6, <2>1
      <4> QED
        BY <3>1, <4>1, <4>2 DEF Rows
    <3> QED
      BY <1>1, <1>2, <2>1, <3>2
  <2>2. CASE flowRun' = [flowRun EXCEPT !.stage = "failed"]
    <3>1. /\ flowRun' \in Rows /\ flowRun'.stage = "failed" /\ flowRun'.day = flowRun.day
          /\ flowRun'.endpoints = flowRun.endpoints /\ flowRun'.truncated = flowRun.truncated
          /\ flowRun'.asked = flowRun.asked /\ flowRun'.seen = flowRun.seen
      <4>1. flowRun \in Rows
        BY <1>2
      <4> QED
        BY <2>2, <4>1, NoMoreRows
    <3> QED
      BY <1>2, <3>1
  <2>3. CASE /\ ~(flowRun.attempt >= FlowAttempts)
             /\ flowRun' = [flowRun EXCEPT !.attempt = flowRun.attempt + 1]
    <3>1. flowRun.attempt + 1 \in 1..FlowAttempts
      <4>1. flowRun.attempt \in 1..FlowAttempts /\ ~(flowRun.attempt >= FlowAttempts)
        BY <1>2, <2>3
      <4> QED
        BY <4>1, FlowNumbers
    <3>2. /\ flowRun' \in Rows /\ flowRun'.stage = flowRun.stage /\ flowRun'.day = flowRun.day
          /\ flowRun'.endpoints = flowRun.endpoints /\ flowRun'.truncated = flowRun.truncated
          /\ flowRun'.asked = flowRun.asked /\ flowRun'.seen = flowRun.seen
      <4>1. flowRun \in Rows
        BY <1>2
      <4> QED
        BY <2>3, <3>1, <4>1, SameRowsAgain
    <3> QED
      BY <1>1, <1>2, <3>2
  <2> QED
    BY <1>4, <2>1, <2>2, <2>3 DEF TryAgain
<1>8. /\ DOMAIN observations' \subseteq Interfaces
      /\ \A n \in DOMAIN observations' :
           /\ observations'[n] \in [day : 1..flowDay, expires : Nat, endpoints : SUBSET Senders]
           /\ Cardinality(observations'[n].endpoints) <= PerInterface
           /\ observations'[n].expires = observations'[n].day + ObservationTtl
           /\ observations'[n].expires + ObservationLag >= flowDay
      /\ RowsAreEvidence'
      /\ \A n \in ns : Written(n)'
      /\ \A n \in Interfaces : Written(n) => Written(n)'
  <2>1. ns \in SUBSET Interfaces
    BY <1>3
  <2> QED
    BY <1>1, <1>4, <2>1, PuttingRows
<1>9. FlowTypeOK'
  <2>1. flowRun' \in AnalysisStates
    BY <1>7, AnalysisStages
  <2>2. flowFaults' \in 0..MaxFlowFaults
    BY <1>4, FaultsAreCounted
  <2> QED
    BY <1>1, <1>8, <2>1, <2>2 DEF FlowInv, FlowTypeOK
<1>10. RunsAreOfToday'
  BY <1>1, <1>2, <1>7 DEF RunsAreOfToday
<1>11. EvidenceIsRecent'
  BY <1>1, <1>7 DEF FlowInv, EvidenceIsRecent, Flowed
<1>12. RunsCoverSoFar'
  <2> SUFFICES ASSUME ~flowRun.truncated, NEW n \in flowRun.asked
               PROVE  n \in ToSet(flowRun'.seen) \/ Written(n)'
    BY <1>7 DEF RunsCoverSoFar
  <2>1. n \in Interfaces /\ (n \in ToSet(flowRun.seen) \/ Written(n))
    BY <1>2
  <2> QED
    BY <1>5, <1>7, <1>8, <2>1
<1>13. CompleteRunsCover'
  BY <1>7 DEF CompleteRunsCover
<1> QED
  BY <1>8, <1>9, <1>10, <1>11, <1>12, <1>13 DEF FlowInv

LEMMA FinishAnalysisKeeps == FlowInv /\ FinishAnalysis => FlowInv'
<1> SUFFICES ASSUME FlowInv, FinishAnalysis PROVE FlowInv'
  OBVIOUS
<1>1. /\ flowRun.stage = "writing" /\ flowRun.seen = << >>
      /\ flowRun' = [stage |-> "done", day |-> flowRun.day, truncated |-> flowRun.truncated,
                     asked |-> flowRun.asked]
      /\ UNCHANGED <<flowDay, flows, flowed, attached, observations, described, vertices, flowFaults>>
  BY DEF FinishAnalysis
<1>2. /\ flowRun \in Rows /\ flowRun.day = flowDay /\ flowDay \in 1..MaxFlowDay
      /\ ~flowRun.truncated => \A n \in flowRun.asked : n \in ToSet(flowRun.seen) \/ Written(n)
      /\ flowFaults \in 0..MaxFlowFaults
  BY <1>1, RunFields DEF FlowInv, RunsAreOfToday, RunsCoverSoFar, FlowTypeOK
<1>3. flowRun' \in Ended
  <2>1. flowRun.truncated \in BOOLEAN /\ flowRun.asked \in SUBSET Interfaces
    BY <1>2 DEF Rows
  <2> QED
    BY <1>1, <1>2, <2>1 DEF Ended
<1>4. /\ flowRun'.stage = "done" /\ flowRun'.day = flowDay /\ flowRun'.truncated = flowRun.truncated
      /\ flowRun'.asked = flowRun.asked
  BY <1>1, <1>2
<1>5. ToSet(flowRun.seen) = {}
  BY <1>1 DEF ToSet
<1>6. CompleteRunsCover'
  BY <1>1, <1>2, <1>4, <1>5 DEF CompleteRunsCover, Written
<1>7. RunsAreOfToday' /\ EvidenceIsRecent' /\ RunsCoverSoFar'
  BY <1>1, <1>2, <1>4 DEF RunsAreOfToday, EvidenceIsRecent, RunsCoverSoFar
<1> QED
  BY <1>1, <1>2, <1>3, <1>6, <1>7, OneRunMoves

LEMMA DescribeInstancesKeeps == FlowInv /\ DescribeInstances => FlowInv'
<1> SUFFICES ASSUME FlowInv, DescribeInstances PROVE FlowInv'
  OBVIOUS
<1>1. /\ described' = [i \in Instances |-> {n \in Interfaces : attached[n] = i}]
      /\ UNCHANGED <<flowDay, flows, flowed, attached, flowRun, observations, vertices, flowFaults>>
  BY DEF DescribeInstances
<1>2. described' \in [Instances -> SUBSET Interfaces]
  BY <1>1
<1>3. FlowTypeOK'
  BY <1>1, <1>2 DEF FlowInv, FlowTypeOK
<1> QED
  BY <1>1, <1>3
  DEF FlowInv, RunsAreOfToday, EvidenceIsRecent, RowsAreEvidence, RunsCoverSoFar, CompleteRunsCover,
      Written, Flowed

(* What an instance is found to have received stands in the rows of the     *)
(* interfaces it was described with.                                        *)
LEMMA ObservationFacts ==
  ASSUME NEW i, NEW got
  PROVE  /\ InstanceObservation(i, got).endpoints \in SUBSET Senders
         /\ InstanceObservation(i, got).observed \in BOOLEAN
         /\ InstanceObservation(i, got).endpoints # {} => InstanceObservation(i, got).observed
         /\ \A a \in InstanceObservation(i, got).endpoints :
              \E n \in described[i] \cap got : a \in observations[n].endpoints
<1> DEFINE mine == described[i] \cap got
           cited == UNION {observations[n].endpoints : n \in mine}
           P == {p \in DOMAIN Addresses : Addresses[p] \in cited}
           o == InstanceObservation(i, got)
<1>1. o.observed = (mine # {}) /\ o.endpoints = Leading(P, PerInstance)
  BY DEF InstanceObservation
<1>2. P \in SUBSET DOMAIN Addresses /\ \A p \in P : Addresses[p] \in cited
  OBVIOUS
<1>3. \A a \in cited : \E n \in mine : a \in observations[n].endpoints
  OBVIOUS
<1> HIDE DEF P, cited, mine, o
<1>4. /\ Leading(P, PerInstance) \subseteq {Addresses[p] : p \in P}
      /\ Leading(P, PerInstance) \subseteq Senders
  BY <1>2, LeadingFew, FlowNumbers
<1>5. \A a \in o.endpoints : \E n \in mine : a \in observations[n].endpoints
  BY <1>1, <1>2, <1>3, <1>4
<1>6. o.endpoints # {} => o.observed
  BY <1>1, <1>5
<1> QED
  BY <1>1, <1>4, <1>5, <1>6 DEF o, mine

LEMMA NotedFacts ==
  ASSUME FlowInv, NEW i \in Instances, NEW got
  PROVE  /\ Noted(i, got) \in [observed : BOOLEAN, endpoints : SUBSET Senders]
         /\ Noted(i, got).endpoints # {} => Noted(i, got).observed
         /\ vertices[i].observed => Noted(i, got).observed
         /\ \/ Noted(i, got).endpoints = vertices[i].endpoints
            \/ \A a \in Noted(i, got).endpoints :
                 \E n \in described[i] \cap got : a \in observations[n].endpoints
<1> DEFINE o == InstanceObservation(i, got)
<1>1. Noted(i, got) = [observed |-> vertices[i].observed \/ o.observed,
                         endpoints |-> IF o.endpoints # {} THEN o.endpoints ELSE vertices[i].endpoints]
  BY DEF Noted
<1>2. /\ o.endpoints \in SUBSET Senders /\ o.observed \in BOOLEAN
      /\ o.endpoints # {} => o.observed
      /\ \A a \in o.endpoints : \E n \in described[i] \cap got : a \in observations[n].endpoints
  BY ObservationFacts
<1>3. /\ vertices[i] \in [observed : BOOLEAN, endpoints : SUBSET Senders]
      /\ vertices[i].endpoints # {} => vertices[i].observed
  BY DEF FlowInv, FlowTypeOK
<1>4. vertices[i].observed \in BOOLEAN /\ vertices[i].endpoints \in SUBSET Senders
  BY <1>3
<1> HIDE DEF o
<1>5. /\ Noted(i, got).observed = (vertices[i].observed \/ o.observed)
      /\ Noted(i, got).endpoints = IF o.endpoints # {} THEN o.endpoints ELSE vertices[i].endpoints
  BY <1>1
<1>6. Noted(i, got) \in [observed : BOOLEAN, endpoints : SUBSET Senders]
  <2>1. (vertices[i].observed \/ o.observed) \in BOOLEAN
    OBVIOUS
  <2>2. (IF o.endpoints # {} THEN o.endpoints ELSE vertices[i].endpoints) \in SUBSET Senders
    BY <1>2, <1>4
  <2> QED
    BY <1>1, <2>1, <2>2
<1> QED
  BY <1>2, <1>3, <1>5, <1>6

LEMMA LoadObservationsNotes ==
  ASSUME FlowInv, LoadObservations
  PROVE  \E got \in SUBSET DOMAIN observations :
           vertices' = [i \in Instances |-> Noted(i, got)]
  BY DEF LoadObservations

LEMMA LoadObservationsKeeps == FlowInv /\ LoadObservations => FlowInv'
<1> SUFFICES ASSUME FlowInv, LoadObservations PROVE FlowInv'
  OBVIOUS
<1>1. /\ described' = Undescribed /\ (FlowFault \/ FlowWorks)
      /\ UNCHANGED <<flowDay, flows, flowed, attached, flowRun, observations>>
  BY DEF LoadObservations
<1>2. PICK got \in SUBSET DOMAIN observations : vertices' = [i \in Instances |-> Noted(i, got)]
  BY LoadObservationsNotes
<1>3. /\ vertices' \in [Instances -> [observed : BOOLEAN, endpoints : SUBSET Senders]]
      /\ \A i \in Instances : vertices'[i].endpoints # {} => vertices'[i].observed
  BY <1>2, NotedFacts
<1>4. flowFaults' \in 0..MaxFlowFaults
  BY <1>1, FaultsAreCounted
<1>5. FlowTypeOK'
  BY <1>1, <1>3, <1>4 DEF FlowInv, FlowTypeOK
<1> QED
  BY <1>1, <1>5
  DEF FlowInv, RunsAreOfToday, EvidenceIsRecent, RowsAreEvidence, RunsCoverSoFar, CompleteRunsCover,
      Written, Flowed

LEMMA FlowStep == FlowInv /\ [FlowNext]_flowVars => FlowInv'
<1> SUFFICES ASSUME FlowInv, [FlowNext]_flowVars PROVE FlowInv'
  OBVIOUS
<1>1. CASE AcceptTraffic \/ MoveInterface \/ NextFlowDay
  BY <1>1, AcceptTrafficKeeps, MoveInterfaceKeeps, NextFlowDayKeeps
<1>2. CASE StartAnalysis \/ QueryTraffic \/ QueryEndpoints \/ WriteObservations \/ FinishAnalysis
  BY <1>2, StartAnalysisKeeps, QueryTrafficKeeps, QueryEndpointsKeeps, WriteObservationsKeeps,
     FinishAnalysisKeeps
<1>3. CASE DescribeInstances \/ LoadObservations
  BY <1>3, DescribeInstancesKeeps, LoadObservationsKeeps
<1>4. CASE UNCHANGED flowVars
  BY <1>4
  DEF flowVars, FlowInv, FlowTypeOK, RunsAreOfToday, EvidenceIsRecent, RowsAreEvidence,
      RunsCoverSoFar, CompleteRunsCover, Written, Flowed
<1> QED
  BY <1>1, <1>2, <1>3, <1>4 DEF FlowNext

-----------------------------------------------------------------------------
(* A path gains a citation only as the collector reads the rows.            *)

LEMMA CitationsComeWithRows ==
  ASSUME [FlowNext]_flowVars, ~LoadObservations, NEW i, NEW j
  PROVE  NewlyCited(i, j) = {}
<1>1. UNCHANGED vertices
  BY DEF FlowNext, flowVars, AcceptTraffic, MoveInterface, NextFlowDay, StartAnalysis, QueryTraffic,
         QueryEndpoints, WriteObservations, FinishAnalysis, DescribeInstances
<1>2. ObservedTrafficFromPath(<<i, j>>)' = ObservedTrafficFromPath(<<i, j>>)
  BY <1>1 DEF ObservedTrafficFromPath
<1> QED
  BY <1>2 DEF NewlyCited

(* A path of one hop cites that hop, when it arrives where traffic was seen. *)
Cites(v, path) ==
  {[hop |-> k, endpoints |-> v[path[k]].endpoints] : k \in {m \in 2..Len(path) : v[path[m]].observed}}

LEMMA OneHop ==
  ASSUME NEW v, NEW i, NEW j
  PROVE  Cites(v, <<i, j>>) =
           IF v[j].observed THEN {[hop |-> 2, endpoints |-> v[j].endpoints]} ELSE {}
<1>1. 2 .. Len(<<i, j>>) = {2} /\ <<i, j>>[2] = j
  OBVIOUS
<1>2. {m \in 2 .. Len(<<i, j>>) : v[<<i, j>>[m]].observed} = IF v[j].observed THEN {2} ELSE {}
  BY <1>1
<1>3. CASE v[j].observed
  BY <1>1, <1>2, <1>3 DEF Cites
<1>4. CASE ~v[j].observed
  BY <1>1, <1>2, <1>4 DEF Cites
<1> QED
  BY <1>3, <1>4

LEMMA CitesOfVertices ==
  ASSUME NEW path
  PROVE  /\ ObservedTrafficFromPath(path) = Cites(vertices, path)
         /\ ObservedTrafficFromPath(path)' = Cites(vertices', path)
  BY DEF ObservedTrafficFromPath, Cites

LEMMA RowsAreEarned ==
  ASSUME FlowInv, NEW n \in DOMAIN observations, NEW a \in observations[n].endpoints
  PROVE  flows[n][a] > 0 /\ flows[n][a] + FlowWindow + ObservationTtl + ObservationLag >= flowDay
<1>1. /\ n \in Interfaces /\ a \in Senders /\ observations[n].day \in 1..flowDay
      /\ observations[n].expires = observations[n].day + ObservationTtl
      /\ observations[n].expires + ObservationLag >= flowDay
  BY RowFacts
<1>2. flows[n][a] \in Nat /\ flowDay \in Nat
  BY <1>1 DEF FlowInv, FlowTypeOK
<1>3. flows[n][a] > 0 /\ flows[n][a] + FlowWindow >= observations[n].day
  BY DEF FlowInv, RowsAreEvidence
<1>4. PICK received \in Nat, written \in Nat, expires \in Nat :
        received = flows[n][a] /\ written = observations[n].day /\ expires = observations[n].expires
  BY <1>1, <1>2, RowFacts
<1> QED
  BY <1>1, <1>2, <1>3, <1>4, FlowNumbers

LEMMA CitationStep ==
  ASSUME FlowInv, [FlowNext]_flowVars, NEW i \in Instances, NEW j \in Instances,
         NEW c \in NewlyCited(i, j), NEW a \in c.endpoints
  PROVE  Earned(a, described[<<i, j>>[c.hop]])
<1>1. LoadObservations
  BY CitationsComeWithRows
<1>2. PICK got \in SUBSET DOMAIN observations : vertices' = [k \in Instances |-> Noted(k, got)]
  BY <1>1, LoadObservationsNotes
<1>3. vertices'[j] = Noted(j, got)
  BY <1>2
<1>4. /\ c \in IF vertices'[j].observed THEN {[hop |-> 2, endpoints |-> vertices'[j].endpoints]} ELSE {}
      /\ c \notin IF vertices[j].observed THEN {[hop |-> 2, endpoints |-> vertices[j].endpoints]} ELSE {}
  <2>1. c \in Cites(vertices', <<i, j>>) /\ c \notin Cites(vertices, <<i, j>>)
    BY CitesOfVertices DEF NewlyCited
  <2>2. Cites(vertices, <<i, j>>) =
          IF vertices[j].observed THEN {[hop |-> 2, endpoints |-> vertices[j].endpoints]} ELSE {}
    BY OneHop
  <2>3. Cites(vertices', <<i, j>>) =
          IF vertices'[j].observed THEN {[hop |-> 2, endpoints |-> vertices'[j].endpoints]} ELSE {}
    BY OneHop
  <2> QED
    BY <2>1, <2>2, <2>3
<1>5. c = [hop |-> 2, endpoints |-> vertices'[j].endpoints]
  BY <1>4
<1>6. c.hop = 2 /\ c.endpoints = vertices'[j].endpoints /\ <<i, j>>[c.hop] = j
  BY <1>5
<1>7. vertices'[j].endpoints # vertices[j].endpoints
  <2> SUFFICES ASSUME vertices'[j].endpoints = vertices[j].endpoints PROVE FALSE
    OBVIOUS
  <2>1. ~vertices[j].observed
    BY <1>4, <1>5
  <2>2. vertices[j].endpoints = {}
    BY <2>1 DEF FlowInv, FlowTypeOK
  <2> QED
    BY <1>6, <2>2
<1>8. PICK n \in described[j] \cap got : a \in observations[n].endpoints
  BY <1>3, <1>6, <1>7, NotedFacts
<1>9. flows[n][a] > 0 /\ flows[n][a] + FlowWindow + ObservationTtl + ObservationLag >= flowDay
  BY <1>2, <1>8, RowsAreEarned
<1> QED
  BY <1>6, <1>8, <1>9 DEF Earned

(* However the batches of a run are taken and whichever of its queries      *)
(* fails, a run that ends well leaves a row of its day for every interface  *)
(* it found, unless it says that it was cut; and what an attack path newly  *)
(* cites arrived on an interface seen on the instance of that hop, within   *)
(* the window and the row's life (flow log analyzer, collector).            *)
THEOREM Observing == FlowSpec => TrafficIsObserved
<1>1. FlowInit => FlowInv
  BY FlowStart
<1>2. FlowInv /\ [FlowNext]_flowVars => FlowInv'
  BY FlowStep
<1>3. FlowInv => FlowTypeOK /\ CompleteRunsCover
  BY DEF FlowInv
<1>4. FlowInv /\ [FlowNext]_flowVars =>
        [\A i, j \in Instances : \A c \in NewlyCited(i, j) : \A a \in c.endpoints :
           Earned(a, described[<<i, j>>[c.hop]])]_flowVars
  BY CitationStep
<1> QED
  BY <1>1, <1>2, <1>3, <1>4, PTL DEF FlowSpec, TrafficIsObserved, CitationsAreEarned

-----------------------------------------------------------------------------
(* IssueListing: how far each lane has come, and what it has given.        *)
Orders == {"asc", "desc"}

LEMMA LeastNatural ==
  ASSUME NEW T, T \subseteq Nat, T # {}
  PROVE  \E x \in T : \A y \in T : x <= y
<1> DEFINE R == {ss \in Nat \X Nat : ss[1] < ss[2]}
<1>1. IsWellFoundedOn(R, Nat)
  BY NatLessThanWellFounded DEF OpToRel
<1> HIDE DEF R
<1>2. PICK x \in T : \A y \in T : ~ (<<y, x>> \in R)
  BY <1>1, WFMin
<1>3. \A y \in T : ~ (y < x)
  BY <1>2 DEF R
<1> QED
  BY <1>3

(* What is in order is all there and strictly in order.                    *)
LEMMA InOrderFacts ==
  ASSUME order \in Orders, NEW S, IsFiniteSet(S), S \subseteq Nat
  PROVE  /\ InOrder(S) \in Seq(S) /\ Len(InOrder(S)) = Cardinality(S)
         /\ \A i \in S : \E n \in DOMAIN InOrder(S) : InOrder(S)[n] = i
         /\ \A m, n \in DOMAIN InOrder(S) : m < n => Precedes(InOrder(S)[m], InOrder(S)[n])
<1> DEFINE N == Cardinality(S)
           Ahead(i) == {j \in S : Precedes(j, i)}
           rank == [i \in S |-> Cardinality(Ahead(i)) + 1]
<1>0. \A i, j : j \in Ahead(i) <=> j \in S /\ Precedes(j, i)
  OBVIOUS
<1> HIDE DEF Ahead
<1>1. N \in Nat
  BY FS_CardinalityType
<1>2. ASSUME NEW i \in S PROVE IsFiniteSet(Ahead(i)) /\ Cardinality(Ahead(i)) \in 0..N-1
  <2>1. Ahead(i) \in SUBSET S /\ i \notin Ahead(i)
    BY <1>0 DEF Precedes, Orders
  <2>2. /\ IsFiniteSet(Ahead(i)) /\ Cardinality(Ahead(i)) <= Cardinality(S)
        /\ Cardinality(S) = Cardinality(Ahead(i)) => S = Ahead(i)
    BY <2>1, FS_Subset
  <2>3. S # Ahead(i)
    BY <2>1
  <2>4. Cardinality(Ahead(i)) \in Nat
    BY <2>2, FS_CardinalityType
  <2> QED
    BY <1>1, <2>2, <2>3, <2>4
<1>3. ASSUME NEW i \in S, NEW k \in S, Precedes(i, k) PROVE rank[i] < rank[k]
  <2>1. Ahead(i) \in SUBSET Ahead(k) /\ i \in Ahead(k) /\ i \notin Ahead(i)
    <3>1. \A j \in S : Precedes(j, i) => Precedes(j, k)
      BY <1>3 DEF Precedes, Orders
    <3>2. ~Precedes(i, i)
      BY DEF Precedes, Orders
    <3> QED
      BY <1>0, <1>3, <3>1, <3>2
  <2>2. Cardinality(Ahead(i)) <= Cardinality(Ahead(k)) /\ Cardinality(Ahead(i)) # Cardinality(Ahead(k))
    BY <1>2, <2>1, FS_Subset
  <2> QED
    BY <1>2, <2>2
<1>4. \A i, k \in S : i = k \/ Precedes(i, k) \/ Precedes(k, i)
  BY DEF Precedes, Orders
<1>5. rank \in [S -> 1..N]
  BY <1>1, <1>2
<1>6. \A i \in S : rank[i] \in Nat
  BY <1>5
<1>7. \A i, k \in S : rank[i] = rank[k] => i = k
  BY <1>3, <1>4, <1>6
<1>8. rank \in Injection(S, 1..N)
  BY <1>5, <1>7, Zenon DEF Injection, IsInjective
<1>9. IsFiniteSet(1..N) /\ Cardinality(1..N) = N
  BY <1>1, FS_Interval
<1>10. rank \in Surjection(S, 1..N)
  BY <1>8, <1>9, FS_Injection
<1>11. \A n \in 1..N : \E i \in S : rank[i] = n
  BY <1>10 DEF Surjection
<1>12. InOrder(S) = [n \in 1..N |-> CHOOSE i \in S : Cardinality(Ahead(i)) = n - 1]
  BY DEF InOrder, Ahead
<1>13. ASSUME NEW n \in 1..N
       PROVE  InOrder(S)[n] \in S /\ rank[InOrder(S)[n]] = n
  <2>1. PICK i \in S : Cardinality(Ahead(i)) = n - 1
    <3>1. PICK i \in S : rank[i] = n
      BY <1>11
    <3> QED
      BY <1>2, <3>1
  <2>2. InOrder(S)[n] \in S /\ Cardinality(Ahead(InOrder(S)[n])) = n - 1
    BY <1>12, <2>1
  <2> QED
    BY <2>2
<1>14. InOrder(S) \in Seq(S) /\ Len(InOrder(S)) = N /\ DOMAIN InOrder(S) = 1..N
  <2>1. InOrder(S) \in [1..N -> S]
    BY <1>12, <1>13
  <2> QED
    BY <1>1, <2>1
<1>15. ASSUME NEW i \in S PROVE \E n \in DOMAIN InOrder(S) : InOrder(S)[n] = i
  <2>1. rank[i] \in 1..N
    BY <1>5
  <2>2. InOrder(S)[rank[i]] \in S /\ rank[InOrder(S)[rank[i]]] = rank[i]
    BY <1>13, <2>1
  <2> QED
    BY <1>7, <1>14, <2>1, <2>2
<1>16. ASSUME NEW m \in 1..N, NEW n \in 1..N, m < n
       PROVE  Precedes(InOrder(S)[m], InOrder(S)[n])
  <2>1. /\ InOrder(S)[m] \in S /\ rank[InOrder(S)[m]] = m
        /\ InOrder(S)[n] \in S /\ rank[InOrder(S)[n]] = n
    BY <1>13
  <2>2. InOrder(S)[n] # InOrder(S)[m]
    BY <1>16, <2>1
  <2>3. ASSUME Precedes(InOrder(S)[n], InOrder(S)[m]) PROVE FALSE
    <3>1. rank[InOrder(S)[n]] < rank[InOrder(S)[m]]
      BY <1>3, <2>1, <2>3
    <3> QED
      BY <1>16, <2>1, <3>1
  <2> QED
    BY <1>4, <2>1, <2>2, <2>3
<1> QED
  BY <1>14, <1>15, <1>16

(* The first lane of those that are there is one of them.                  *)
LEMMA FirstLaneIsIn ==
  ASSUME NEW S, S \subseteq Lanes, S # {}
  PROVE  FirstLane(S) \in S
<1> DEFINE I == {n \in 1..Len(LaneOrder) : LaneOrder[n] \in S}
<1>1. DOMAIN LaneOrder = 1..Len(LaneOrder) /\ Len(LaneOrder) \in Nat
  BY ListParameters
<1>2. I \subseteq Nat /\ I # {}
  BY <1>1 DEF Lanes, ToSet
<1>3. Min(I) \in I
  <2>1. \E x \in I : \A y \in I : x <= y
    BY <1>2, LeastNatural
  <2> QED
    BY <2>1 DEF Min
<1>4. FirstLane(S) = LaneOrder[Min(I)]
  BY <1>2 DEF FirstLane, SelectInSeq
<1> QED
  BY <1>3, <1>4

(* The issues the client has or is about to be given.                      *)
SoFar == IF page.stage = "reading" THEN listed \o page.items ELSE listed
Told(i) == \E n \in DOMAIN SoFar : SoFar[n] = i

Places == 0..Len(Created)
LaneStates == [start : Places, next : Places, last : Places, buffer : Seq(Stored),
               exhausted : BOOLEAN]
Unfinished == {l \in Lanes : cursor[l] # Done}

ListShape ==
  /\ ListTypeOK /\ order \in Orders
  /\ page.stage = "reading" =>
       page \in [stage : {"reading"}, items : Seq(Stored), reads : 0..MaxReads,
                 lanes : [Unfinished -> LaneStates]]

(* Where a lane stands: what its token passed, what its reads reached.     *)
Passed(c, i) == c = Done \/ (c # None /\ ~Precedes(c, i))
Reached(lane, i) == lane.exhausted \/ (lane.next # None /\ ~Precedes(lane.next, i))
InBuffer(lane, i) == \E n \in DOMAIN lane.buffer : lane.buffer[n] = i

LaneIsInOrder(l, lane) ==
  /\ lane.start = cursor[l]
  /\ \A m, n \in DOMAIN lane.buffer : m < n => Precedes(lane.buffer[m], lane.buffer[n])
  /\ \A b \in Stored : InBuffer(lane, b) =>
       /\ b \in Matching /\ (b \in settled => status[b] = l)
       /\ lane.last # None => Precedes(lane.last, b)
       /\ lane.start # None => Precedes(lane.start, b)
       /\ Reached(lane, b)
  /\ lane.last # None =>
       Reached(lane, lane.last) /\ (lane.start # None => Precedes(lane.start, lane.last))
  /\ lane.start # None => Reached(lane, lane.start)

(* A settled issue was told if and only if its lane has come past it; what  *)
(* its lane has read and not told waits in the buffer.                     *)
LaneTells(l, lane) ==
  \A i \in settled \cap Matching : status[i] = l =>
    /\ Told(i) <=> Passed(lane.start, i) \/ (lane.last # None /\ ~Precedes(lane.last, i))
    /\ InBuffer(lane, i) <=> Reached(lane, i) /\ ~Told(i)

LanesTell ==
  page.stage = "reading" =>
    /\ \A l \in Unfinished : LaneIsInOrder(l, page.lanes[l]) /\ LaneTells(l, page.lanes[l])
    /\ \A i \in settled \cap Matching : status[i] \in Lanes \ Unfinished => Told(i)

CursorsTell ==
  /\ page.stage # "reading" =>
       \A i \in settled \cap Matching :
         status[i] \in Lanes => (Told(i) <=> Passed(cursor[status[i]], i))
  /\ page.stage = "end" => \A l \in Lanes : cursor[l] = Done

(* What was told matches, once and in order, and whatever settled issue is  *)
(* still to be told comes no earlier.                                      *)
ToldMatch ==
  \A n \in DOMAIN SoFar :
    SoFar[n] \in Matching /\ (SoFar[n] \in settled => status[SoFar[n]] \in Lanes)
ToldOnce ==
  \A m, n \in DOMAIN SoFar : SoFar[m] = SoFar[n] /\ SoFar[m] \in settled => m = n
ToldInOrder ==
  \A m, n \in DOMAIN SoFar :
    m < n /\ SoFar[m] \in settled /\ SoFar[n] \in settled
      => ~Earlier(Created[SoFar[n]], Created[SoFar[m]])
RestComesLater ==
  \A n \in DOMAIN SoFar : \A i \in settled \cap Matching :
    SoFar[n] \in settled /\ status[i] \in Lanes /\ ~Told(i)
      => ~Earlier(Created[i], Created[SoFar[n]])
ToldWell == ToldMatch /\ ToldOnce /\ ToldInOrder /\ RestComesLater

ListInv == ListShape /\ LanesTell /\ CursorsTell /\ ToldWell

LEMMA StoredPlaces ==
  ASSUME ListTypeOK
  PROVE  /\ Stored = 1..Len(status) /\ Stored \subseteq 1..Len(Created) /\ Len(status) \in Nat
         /\ Issue = 1..Len(Created) /\ Len(Created) \in Nat /\ settled \subseteq Stored
         /\ Stored \subseteq Nat /\ IsFiniteSet(Stored) /\ Cardinality(Stored) = Len(status)
<1>1. Len(Created) \in Nat /\ DOMAIN Created = 1..Len(Created)
  BY ListParameters
<1>2. Len(status) \in Nat /\ DOMAIN status = 1..Len(status) /\ Len(status) <= Len(Created)
  BY DEF ListTypeOK
<1>3. IsFiniteSet(1..Len(status)) /\ Cardinality(1..Len(status)) = Len(status)
  <2> DEFINE n == Len(status)
  <2>1. n \in Int /\ 1 \in Int /\ n >= 0
    BY <1>2
  <2> HIDE DEF n
  <2>2. IsFiniteSet(1..n) /\ Cardinality(1..n) = IF 1 > n THEN 0 ELSE n - 1 + 1
    BY <2>1, FS_Interval
  <2>3. IsFiniteSet(1..n) /\ Cardinality(1..n) = n
    BY <2>1, <2>2
  <2> QED
    BY <2>3 DEF n
<1> QED
  BY <1>1, <1>2, <1>3 DEF Stored, Issue, ListTypeOK

LEMMA SoFarIsStored == ListShape => SoFar \in Seq(Stored)
<1> SUFFICES ASSUME ListShape PROVE SoFar \in Seq(Stored)
  OBVIOUS
<1>1. listed \in Seq(Stored)
  BY DEF ListShape, ListTypeOK
<1>2. page.stage = "reading" => page.items \in Seq(Stored)
  BY DEF ListShape
<1> QED
  BY <1>1, <1>2 DEF SoFar

(* The three properties are parts of the invariant.                        *)
LEMMA ListInvSuffices == ListInv => SettledIssuesListed
<1> SUFFICES ASSUME ListInv PROVE SettledListedOnce /\ SettledInOrder
  BY DEF ListInv, ListShape, SettledIssuesListed
<1> USE DEF ListInv
<1>1. SoFar \in Seq(Stored) /\ listed \in Seq(Stored)
  BY SoFarIsStored DEF ListShape, ListTypeOK
<1>2. \A n \in DOMAIN listed : n \in DOMAIN SoFar /\ SoFar[n] = listed[n] /\ n \in Nat
  <2>1. CASE page.stage = "reading"
    <3>1. page.items \in Seq(Stored) /\ SoFar = listed \o page.items
      BY <2>1 DEF ListShape, SoFar
    <3> QED
      BY <1>1, <3>1
  <2>2. CASE page.stage # "reading"
    BY <1>1, <2>2 DEF SoFar
  <2> QED
    BY <2>1, <2>2
<1>3. SettledInOrder
  BY <1>2 DEF SettledInOrder, ToldWell, ToldInOrder
<1>4. ASSUME NEW i \in settled \cap Matching PROVE Cardinality(Given(i)) <= 1
  <2>1. \A m, n \in Given(i) : m = n
    BY <1>2, <1>4 DEF Given, ToldWell, ToldOnce
  <2>2. CASE Given(i) = {}
    BY <2>2, FS_EmptySet
  <2>3. CASE Given(i) # {}
    <3>1. PICK n \in Given(i) : Given(i) = {n}
      BY <2>1, <2>3
    <3>2. Cardinality({n}) = 1
      BY FS_Singleton
    <3> QED
      BY <3>1, <3>2
  <2> QED
    BY <2>2, <2>3
<1>5. ASSUME NEW i \in settled \cap Matching, page.stage = "end", status[i] \in Lanes
      PROVE  Given(i) # {}
  <2>1. Told(i) /\ SoFar = listed
    BY <1>5 DEF CursorsTell, Passed, SoFar
  <2> QED
    BY <2>1 DEF Told, Given
<1> QED
  BY <1>3, <1>4, <1>5 DEF SettledListedOnce

LEMMA ListStart == ListInit => ListInv
<1> SUFFICES ASSUME ListInit PROVE ListInv
  OBVIOUS
<1> USE DEF ListInit
<1>1. page.stage = "start" /\ SoFar = << >> /\ listed = << >>
  BY DEF NoPage, SoFar
<1>2. Existing \in Nat /\ Existing <= Len(Created) /\ Len(Created) \in Nat /\ MaxMoves \in Nat
  BY ListParameters
<1>3. status \in Seq(Statuses) /\ Len(status) = Existing /\ DOMAIN status = 1..Existing
  BY <1>2
<1>4. cursor \in [Lanes -> 0..Done]
  BY <1>2 DEF None, Done
<1>5. ListTypeOK
  BY <1>1, <1>2, <1>3, <1>4 DEF ListTypeOK, Stored
<1>6. ListShape
  BY <1>1, <1>5 DEF ListShape, Orders
<1>7. LanesTell /\ ToldWell
  BY <1>1 DEF LanesTell, ToldWell, ToldMatch, ToldOnce, ToldInOrder, RestComesLater
<1>8. CursorsTell
  <2>1. None # Done
    BY <1>2 DEF None, Done
  <2>2. \A l \in Lanes : cursor[l] = None
    OBVIOUS
  <2> QED
    BY <1>1, <2>1, <2>2 DEF CursorsTell, Told, Passed
<1> QED
  BY <1>6, <1>7, <1>8 DEF ListInv

(* The others: a settled issue is where it was.                            *)
LEMMA OthersKeep ==
  ASSUME ListInv, UNCHANGED <<order, page, cursor, listed>>,
         settled' \subseteq settled, Stored \subseteq Stored', ListTypeOK',
         \A i \in settled' : status'[i] = status[i]
  PROVE  ListInv'
<1> USE DEF ListInv
<1>1. SoFar' = SoFar /\ \A i : Told(i)' <=> Told(i)
  BY DEF SoFar, Told
<1>2. ListShape'
  <2>1. CASE page.stage = "reading"
    <3>1. /\ page.items \in Seq(Stored) /\ page.reads \in 0..MaxReads
          /\ page.lanes \in [Unfinished -> LaneStates]
          /\ page = [stage |-> "reading", items |-> page.items, reads |-> page.reads,
                     lanes |-> page.lanes]
      BY <2>1 DEF ListShape
    <3>2. Seq(Stored) \subseteq Seq(Stored')
      OBVIOUS
    <3>3. LaneStates \subseteq LaneStates' /\ Unfinished' = Unfinished
      BY <3>2 DEF LaneStates, Unfinished
    <3>4. page.items \in Seq(Stored') /\ page.lanes \in [Unfinished -> LaneStates']
      BY <3>1, <3>2, <3>3
    <3> HIDE DEF ListInv
    <3>5. page \in [stage : {"reading"}, items : Seq(Stored'), reads : 0..MaxReads,
                    lanes : [Unfinished -> LaneStates']]
      BY <3>1, <3>4
    <3> QED
      BY <3>3, <3>5 DEF ListShape, ListInv
  <2>2. CASE page.stage # "reading"
    BY <2>2 DEF ListShape
  <2> QED
    BY <2>1, <2>2
<1>3. LanesTell'
  <2> SUFFICES ASSUME page.stage = "reading"
               PROVE  LanesTell'
    BY DEF LanesTell
  <2>1. Unfinished' = Unfinished
    BY DEF Unfinished
  <2>2. ASSUME NEW l \in Unfinished
        PROVE  LaneIsInOrder(l, page.lanes[l])' /\ LaneTells(l, page.lanes[l])'
    <3> DEFINE lane == page.lanes[l]
    <3>1. LaneIsInOrder(l, lane) /\ LaneTells(l, lane) /\ lane.buffer \in Seq(Stored)
      BY DEF LanesTell, ListShape, LaneStates
    <3>2. \A b : InBuffer(lane, b) => b \in Stored
      BY <3>1 DEF InBuffer
    <3> HIDE DEF lane
    <3>3. LaneIsInOrder(l, lane)'
      BY <3>1, <3>2 DEF LaneIsInOrder, InBuffer, Reached, Precedes, lane
    <3>4. LaneTells(l, lane)'
      BY <1>1, <3>1 DEF LaneTells, InBuffer, Reached, Passed, Precedes, lane
    <3> QED
      BY <3>3, <3>4 DEF lane
  <2>3. \A i \in settled' \cap Matching : status'[i] \in Lanes \ Unfinished => Told(i)'
    BY <1>1 DEF LanesTell
  <2> QED
    BY <2>1, <2>2, <2>3 DEF LanesTell
<1>4. CursorsTell'
  BY <1>1 DEF CursorsTell, Passed, Precedes
<1>5. ToldWell'
  BY <1>1 DEF ToldWell, ToldMatch, ToldOnce, ToldInOrder, RestComesLater, Earlier
<1> QED
  BY <1>2, <1>3, <1>4, <1>5

LEMMA MoveKeeps == ASSUME ListInv, NEW i \in Stored, NEW to \in Statuses, Move(i, to) PROVE ListInv'
<1> USE DEF Move
<1>0. ListTypeOK
  BY DEF ListInv, ListShape
<1>1. status' \in Seq(Statuses) /\ Len(status') = Len(status) /\ DOMAIN status' = DOMAIN status
  BY <1>0 DEF ListTypeOK, Stored
<1>2. Stored' = Stored /\ settled' \subseteq settled /\ i \notin settled'
  BY <1>1 DEF Stored
<1>3. moves' \in 0..MaxMoves
  BY <1>0, ListParameters DEF ListTypeOK
<1>4. ListTypeOK'
  BY <1>0, <1>1, <1>2, <1>3 DEF ListTypeOK
<1>5. \A j \in settled' : status'[j] = status[j]
  BY <1>0, <1>2, StoredPlaces DEF Stored
<1> QED
  BY <1>2, <1>4, <1>5, OthersKeep

LEMMA OpenKeeps == ListInv /\ Open => ListInv'
<1> SUFFICES ASSUME ListInv, Open PROVE ListInv'
  OBVIOUS
<1> USE DEF Open
<1>0. ListTypeOK
  BY DEF ListInv, ListShape
<1>1. /\ status' \in Seq(Statuses) /\ Len(status') = Len(status) + 1
      /\ DOMAIN status' = 1..Len(status) + 1 /\ \A j \in 1..Len(status) : status'[j] = status[j]
      /\ Len(status) \in Nat
  BY <1>0 DEF ListTypeOK, Statuses
<1>2. Len(status') <= Len(Created)
  BY <1>0, <1>1, StoredPlaces
<1>3. Stored \subseteq Stored'
  BY <1>0, <1>1, StoredPlaces DEF Stored
<1>4. ListTypeOK'
  <2>1. listed' \in Seq(Stored')
    BY <1>0, <1>3 DEF ListTypeOK
  <2>2. settled' \subseteq Stored'
    BY <1>0, <1>3 DEF ListTypeOK
  <2> QED
    BY <1>0, <1>1, <1>2, <2>1, <2>2 DEF ListTypeOK
<1>5. \A j \in settled' : status'[j] = status[j]
  BY <1>0, <1>1, StoredPlaces
<1> QED
  BY <1>3, <1>4, <1>5, OthersKeep

LEMMA BuildIndexKeeps == ListInv /\ BuildIndex => ListInv'
<1> SUFFICES ASSUME ListInv, BuildIndex PROVE ListInv'
  OBVIOUS
<1>1. ListTypeOK'
  BY DEF ListInv, ListShape, ListTypeOK, BuildIndex, Stored
<1> QED
  BY <1>1, OthersKeep DEF BuildIndex, Stored

(* A page that has read nothing told nothing.                              *)
LEMMA NoPageKeeps ==
  ASSUME ListInv, page.stage # "reading", UNCHANGED <<order, status, cursor, listed, settled>>,
         ListTypeOK', page'.stage \in {"fallback", "refused"}
  PROVE  ListInv'
<1> USE DEF ListInv
<1>1. SoFar' = SoFar /\ (\A i : Told(i)' <=> Told(i)) /\ page'.stage \notin {"reading", "end"}
  BY DEF SoFar, Told
<1>2. ListShape' /\ LanesTell'
  BY <1>1 DEF ListShape, LanesTell
<1>3. CursorsTell'
  BY <1>1 DEF CursorsTell, Passed, Precedes
<1>4. ToldWell'
  BY <1>1 DEF ToldWell, ToldMatch, ToldOnce, ToldInOrder, RestComesLater, Earlier
<1> QED
  BY <1>2, <1>3, <1>4

LEMMA FallBackKeeps == ListInv /\ (FallBack \/ DecodeCreatedToken) => ListInv'
<1> SUFFICES ASSUME ListInv, FallBack \/ DecodeCreatedToken PROVE ListInv'
  OBVIOUS
<1>1. /\ page.stage # "reading" /\ page'.stage \in {"fallback", "refused"}
      /\ UNCHANGED <<order, status, indexed, cursor, listed, settled, moves>>
  BY DEF FallBack, DecodeCreatedToken, NoPage
<1>2. ListTypeOK'
  BY <1>1 DEF ListInv, ListShape, ListTypeOK, Stored
<1> QED
  BY <1>1, <1>2, NoPageKeeps

LEMMA StartPageKeeps == ListInv /\ StartPage => ListInv'
<1> SUFFICES ASSUME ListInv, StartPage PROVE ListInv'
  OBVIOUS
<1> DEFINE Opened(c) == [start |-> c, next |-> c, last |-> None, buffer |-> << >>,
                         exhausted |-> FALSE]
<1>1. /\ page.stage # "reading" /\ UNCHANGED <<order, status, indexed, cursor, listed, settled, moves>>
      /\ page' = [stage |-> "reading", items |-> << >>, reads |-> 0,
                  lanes |-> [l \in Unfinished |-> Opened(cursor[l])]]
  BY DEF StartPage, Unfinished
<1>2. /\ page'.stage = "reading" /\ page'.items = << >> /\ page'.reads = 0
      /\ page'.lanes = [l \in Unfinished |-> Opened(cursor[l])]
  BY <1>1
<1>3. Unfinished' = Unfinished /\ Stored' = Stored /\ LaneStates' = LaneStates
  BY <1>1 DEF Unfinished, Stored, LaneStates
<1>4. ListTypeOK /\ listed \in Seq(Stored) /\ SoFar = listed /\ Len(Created) \in Nat
  BY <1>1, StoredPlaces DEF ListInv, ListShape, ListTypeOK, SoFar
<1>5. SoFar' = SoFar /\ \A i : Told(i)' <=> Told(i)
  <2>1. SoFar' = SoFar
    BY <1>1, <1>2, <1>4 DEF SoFar
  <2> QED
    BY <2>1 DEF Told
<1>6. \A l \in Unfinished : cursor[l] \in Places /\ cursor[l] # Done
  BY <1>4 DEF ListTypeOK, Unfinished, Places, Done
<1>7. \A l \in Unfinished : Opened(cursor[l]) \in LaneStates
  BY <1>4, <1>6 DEF LaneStates, Places, None
<1>8. ListTypeOK'
  <2>1. /\ status' \in Seq(Statuses) /\ Len(status') <= Len(Created)
        /\ indexed' \in BOOLEAN /\ moves' \in 0..MaxMoves /\ settled' \subseteq Stored'
        /\ cursor' \in [Lanes -> 0..Done] /\ listed' \in Seq(Stored')
    BY <1>1, <1>3, <1>4 DEF ListTypeOK
  <2>2. Len(page'.items) <= Limit /\ page'.reads <= MaxReads
    BY <1>2, ListParameters
  <2>3. \A l \in DOMAIN page'.lanes : page'.lanes[l].start # Done
    BY <1>2, <1>6
  <2> QED
    BY <1>2, <2>1, <2>2, <2>3 DEF ListTypeOK
<1>9. ListShape'
  <2>1. page'.items \in Seq(Stored) /\ page'.reads \in 0..MaxReads
        /\ page'.lanes \in [Unfinished -> LaneStates]
    BY <1>2, <1>7, ListParameters
  <2>2. page' \in [stage : {"reading"}, items : Seq(Stored), reads : 0..MaxReads,
                   lanes : [Unfinished -> LaneStates]]
    BY <1>1, <1>2, <2>1
  <2> QED
    BY <1>1, <1>3, <1>8, <2>2 DEF ListInv, ListShape
<1>10. LanesTell'
  <2>1. ASSUME NEW l \in Unfinished
        PROVE  LaneIsInOrder(l, page.lanes[l])' /\ LaneTells(l, page.lanes[l])'
    <3>0. PICK lane : lane = page'.lanes[l]
      OBVIOUS
    <3>1. /\ lane.start = cursor[l] /\ lane.next = cursor[l] /\ lane.last = None
          /\ lane.buffer = << >> /\ lane.exhausted = FALSE /\ cursor[l] \in Nat /\ cursor[l] # Done
      BY <3>0, <1>2, <1>6, <1>4 DEF Places
    <3>2. \A i : ~InBuffer(lane, i)
      BY <3>1 DEF InBuffer
    <3>3. ~Precedes(cursor[l], cursor[l])'
      BY <1>1, <3>1 DEF Precedes
    <3>4. LaneIsInOrder(l, lane)'
      BY <1>1, <3>1, <3>2, <3>3 DEF LaneIsInOrder, Reached
    <3>5. LaneTells(l, lane)'
      <4>1. \A i \in settled \cap Matching : status[i] = l => (Told(i) <=> Passed(cursor[l], i))
        BY <1>1 DEF ListInv, CursorsTell, Unfinished
      <4> QED
        BY <1>1, <1>5, <3>1, <3>2, <4>1 DEF LaneTells, Reached, Passed, Precedes
    <3> QED
      BY <3>0, <3>4, <3>5
  <2>2. \A i \in settled \cap Matching : status[i] \in Lanes \ Unfinished => Told(i)
    BY <1>1 DEF ListInv, CursorsTell, Unfinished, Passed
  <2> QED
    BY <1>1, <1>3, <1>5, <2>1, <2>2 DEF LanesTell
<1>11. CursorsTell'
  BY <1>2 DEF CursorsTell
<1>12. ToldWell'
  BY <1>1, <1>5 DEF ListInv, ToldWell, ToldMatch, ToldOnce, ToldInOrder, RestComesLater, Earlier
<1> QED
  BY <1>9, <1>10, <1>11, <1>12 DEF ListInv

(* One read of a lane: what comes next in it, up to the last issue read.   *)
LEMMA OneRead ==
  ASSUME ListShape, NEW l, NEW next \in Places
  PROVE  LET S == {i \in After(next) : status[i] = l}
             rest == InOrder(S)
             piece == SubSeq(rest, 1, IF Len(rest) < ReadSize THEN Len(rest) ELSE ReadSize)
         IN /\ S \subseteq Stored /\ piece \in Seq(S) /\ Len(piece) <= ReadSize /\ ToSet(piece) \subseteq S
            /\ Len(piece) < ReadSize => ToSet(piece) = S
            /\ ~(Len(piece) < ReadSize) =>
                 /\ Last(piece) \in S
                 /\ \A i \in S : i \in ToSet(piece) <=> ~Precedes(Last(piece), i)
<1> DEFINE S == {i \in After(next) : status[i] = l}
           rest == InOrder(S)
           many == IF Len(rest) < ReadSize THEN Len(rest) ELSE ReadSize
           piece == SubSeq(rest, 1, many)
<1>1. S \subseteq Stored /\ S \subseteq Nat /\ IsFiniteSet(S)
  <2>1. S \subseteq Stored
    BY DEF After
  <2>2. Stored \subseteq Nat /\ IsFiniteSet(Stored)
    BY StoredPlaces DEF ListShape
  <2> QED
    BY <2>1, <2>2, FS_Subset
<1> HIDE DEF S
<1>2. /\ rest \in Seq(S) /\ (\A i \in S : \E n \in DOMAIN rest : rest[n] = i)
      /\ \A m, n \in DOMAIN rest : m < n => Precedes(rest[m], rest[n])
  BY <1>1, InOrderFacts DEF ListShape
<1>3. ReadSize \in Nat \ {0}
  BY ListParameters
<1> HIDE DEF rest
<1>4. /\ Len(rest) \in Nat /\ DOMAIN rest = 1..Len(rest) /\ many \in 0..Len(rest) /\ many <= ReadSize
      /\ \A n \in DOMAIN rest : rest[n] \in S
  BY <1>2, <1>3
<1>5. /\ piece \in Seq(S) /\ Len(piece) = many /\ DOMAIN piece = 1..many
      /\ \A n \in 1..many : piece[n] = rest[n]
  BY <1>2, <1>4
<1> HIDE DEF many, piece
<1>6. ToSet(piece) = {rest[n] : n \in 1..many} /\ ToSet(piece) \subseteq S
  BY <1>4, <1>5 DEF ToSet
<1>7. ASSUME Len(piece) < ReadSize PROVE ToSet(piece) = S
  <2>0. many < ReadSize /\ ReadSize \in Nat /\ Len(rest) \in Nat
    BY <1>5, <1>7, <1>3, <1>4
  <2>1. many = Len(rest)
    BY <2>0 DEF many
  <2> QED
    BY <1>2, <1>4, <1>6, <2>1
<1>8. ASSUME ~(Len(piece) < ReadSize)
      PROVE  Last(piece) \in S /\ \A i \in S : i \in ToSet(piece) <=> ~Precedes(Last(piece), i)
  <2>00. ~(many < ReadSize) /\ ReadSize \in Nat \ {0} /\ Len(rest) \in Nat
    BY <1>5, <1>8, <1>3, <1>4
  <2>01. many = ReadSize
    BY <2>00 DEF many
  <2>1. many = ReadSize /\ many \in DOMAIN rest /\ many \in Nat
    BY <1>4, <2>00, <2>01
  <2>0. many \in 1..many
    BY <1>3, <2>1
  <2>2. Last(piece) = rest[many] /\ rest[many] \in S
    <3>1. Last(piece) = piece[many]
      BY <1>5 DEF Last
    <3> QED
      BY <1>4, <1>5, <2>0, <2>1, <3>1
  <2>9. \A j \in S : j \in Nat
    BY <1>1
  <2>3. ASSUME NEW i \in S PROVE i \in ToSet(piece) <=> ~Precedes(rest[many], i)
    <3>1. PICK n \in DOMAIN rest : rest[n] = i
      BY <1>2
    <3>2. n \in Nat /\ rest[many] \in Nat /\ i \in Nat
      BY <1>4, <2>2, <2>9, <3>1
    <3>3. CASE n <= many
      <4>1. i \in ToSet(piece)
        BY <1>4, <1>6, <3>1, <3>2, <3>3
      <4>2. n = many \/ Precedes(i, rest[many])
        <5>1. n # many => Precedes(rest[n], rest[many])
          BY <1>2, <2>1, <3>1, <3>2, <3>3
        <5> QED
          BY <3>1, <5>1
      <4>3. ~Precedes(rest[many], i)
        BY <3>1, <3>2, <4>2 DEF Precedes
      <4> QED
        BY <4>1, <4>3
    <3>4. CASE many < n
      <4>1. Precedes(rest[many], i)
        BY <1>2, <2>1, <3>1, <3>4
      <4>2. ASSUME i \in ToSet(piece) PROVE FALSE
        <5>1. PICK m \in 1..many : rest[m] = i
          BY <1>6, <4>2
        <5>2. Precedes(rest[m], rest[n])
          BY <1>2, <1>4, <3>2, <3>4, <5>1
        <5> QED
          BY <3>1, <3>2, <5>1, <5>2 DEF Precedes
      <4> QED
        BY <4>1, <4>2
    <3> QED
      BY <3>2, <2>1, <3>3, <3>4
  <2> QED
    BY <2>2, <2>3
<1>9. Len(piece) <= ReadSize
  BY <1>4, <1>5
<1>10. piece = SubSeq(rest, 1, IF Len(rest) < ReadSize THEN Len(rest) ELSE ReadSize)
  BY DEF piece, many
<1> QED
  BY <1>1, <1>5, <1>6, <1>7, <1>8, <1>9, <1>10 DEF S, rest

(* A step of one lane leaves the others as they are.                       *)
LEMMA OneLaneMoves ==
  ASSUME ListInv, page.stage = "reading", page'.stage = "reading",
         UNCHANGED <<order, status, cursor, settled>>,
         NEW l \in Unfinished, NEW lane, page'.lanes[l] = lane,
         \A k \in Unfinished \ {l} : page'.lanes[k] = page.lanes[k],
         \A i \in settled \cap Matching : status[i] # l => (Told(i)' <=> Told(i)),
         LaneIsInOrder(l, lane), LaneTells(l, lane)'
  PROVE  LanesTell'
<1>1. Unfinished' = Unfinished /\ Stored' = Stored
  BY DEF Unfinished, Stored
<1>2. LaneIsInOrder(l, lane)'
  BY <1>1 DEF LaneIsInOrder, Reached, Precedes
<1>3. ASSUME NEW k \in Unfinished, k # l
      PROVE  LaneIsInOrder(k, page.lanes[k])' /\ LaneTells(k, page.lanes[k])'
  <2>1. PICK other : other = page.lanes[k]
    OBVIOUS
  <2>2. page'.lanes[k] = other
    BY <1>3, <2>1
  <2>3. LaneIsInOrder(k, other) /\ LaneTells(k, other)
    BY <2>1 DEF ListInv, LanesTell
  <2>4. LaneIsInOrder(k, other)'
    BY <1>1, <2>3 DEF LaneIsInOrder, Reached, Precedes
  <2>5. LaneTells(k, other)'
    BY <1>3, <2>3 DEF LaneTells, Reached, Passed, Precedes
  <2> QED
    BY <2>2, <2>4, <2>5
<1>4. \A i \in settled \cap Matching : status[i] \in Lanes \ Unfinished => Told(i)'
  BY DEF ListInv, LanesTell
<1> QED
  BY <1>1, <1>2, <1>3, <1>4 DEF LanesTell

(* The page while it is read.                                              *)
LEMMA PageFacts ==
  ASSUME ListInv, page.stage = "reading"
  PROVE  /\ page.items \in Seq(Stored) /\ page.reads \in 0..MaxReads
         /\ page.lanes \in [Unfinished -> LaneStates]
         /\ page = [stage |-> "reading", items |-> page.items, reads |-> page.reads,
                    lanes |-> page.lanes]
         /\ listed \in Seq(Stored) /\ SoFar = listed \o page.items /\ SoFar \in Seq(Stored)
         /\ EmptyLanes \subseteq Unfinished /\ Ready \subseteq Unfinished
         /\ Unfinished \subseteq Lanes /\ Len(page.items) <= Limit
         /\ \A l \in Unfinished : LaneIsInOrder(l, page.lanes[l]) /\ LaneTells(l, page.lanes[l])
<1>1. /\ page.items \in Seq(Stored) /\ page.reads \in 0..MaxReads
      /\ page.lanes \in [Unfinished -> LaneStates]
      /\ page = [stage |-> "reading", items |-> page.items, reads |-> page.reads,
                 lanes |-> page.lanes]
  BY DEF ListInv, ListShape
<1>2. listed \in Seq(Stored) /\ Len(page.items) <= Limit
  BY DEF ListInv, ListShape, ListTypeOK
<1>3. SoFar = listed \o page.items /\ SoFar \in Seq(Stored)
  BY <1>1, <1>2 DEF SoFar
<1> QED
  BY <1>1, <1>2, <1>3 DEF EmptyLanes, Ready, Unfinished, ListInv, LanesTell

LEMMA ReadingShape ==
  ASSUME ListInv, page.stage = "reading", UNCHANGED <<order, status, indexed, cursor, listed, settled, moves>>,
         NEW items \in Seq(Stored), NEW reads \in 0..MaxReads, NEW l \in Unfinished,
         NEW lane \in LaneStates, lane.start = page.lanes[l].start, Len(items) <= Limit,
         page' = [stage |-> "reading", items |-> items, reads |-> reads,
                  lanes |-> [page.lanes EXCEPT ![l] = lane]]
  PROVE  /\ ListShape' /\ page'.stage = "reading" /\ page'.lanes[l] = lane
         /\ \A k \in Unfinished \ {l} : page'.lanes[k] = page.lanes[k]
<1>1. Unfinished' = Unfinished /\ Stored' = Stored /\ LaneStates' = LaneStates
  BY DEF Unfinished, Stored, LaneStates
<1>2. page.lanes \in [Unfinished -> LaneStates] /\ ListTypeOK
  BY PageFacts DEF ListInv, ListShape
<1>3. /\ page'.stage = "reading" /\ page'.items = items /\ page'.reads = reads
      /\ page'.lanes = [page.lanes EXCEPT ![l] = lane]
  OBVIOUS
<1>4. /\ page'.lanes \in [Unfinished -> LaneStates] /\ page'.lanes[l] = lane
      /\ \A k \in Unfinished \ {l} : page'.lanes[k] = page.lanes[k]
  BY <1>2, <1>3
<1>5. page' \in [stage : {"reading"}, items : Seq(Stored), reads : 0..MaxReads,
                 lanes : [Unfinished -> LaneStates]]
  BY <1>3, <1>4
<1>6. ListTypeOK'
  <2>1. /\ status' \in Seq(Statuses) /\ Len(status') <= Len(Created)
        /\ indexed' \in BOOLEAN /\ moves' \in 0..MaxMoves /\ settled' \subseteq Stored'
        /\ cursor' \in [Lanes -> 0..Done] /\ listed' \in Seq(Stored')
    BY <1>1, <1>2 DEF ListTypeOK
  <2>2. Len(page'.items) <= Limit /\ page'.reads <= MaxReads
    BY <1>3, ListParameters
  <2>3. \A k \in DOMAIN page'.lanes : page'.lanes[k].start # Done
    BY <1>2, <1>4 DEF ListTypeOK
  <2> QED
    BY <1>3, <2>1, <2>2, <2>3 DEF ListTypeOK
<1> QED
  BY <1>1, <1>3, <1>4, <1>5, <1>6 DEF ListInv, ListShape

(* What a lane has told it has reached.                                    *)
LEMMA ToldIsReached ==
  ASSUME ListShape, NEW l, NEW lane \in LaneStates, lane.start # Done,
         LaneIsInOrder(l, lane), LaneTells(l, lane),
         NEW i \in settled \cap Matching, status[i] = l, Told(i)
  PROVE  Reached(lane, i)
<1>1. /\ lane.start \in Nat /\ lane.last \in Nat /\ lane.next \in Nat /\ i \in Nat
      /\ lane.exhausted \in BOOLEAN
  <2>1. i \in Nat /\ Len(Created) \in Nat
    BY StoredPlaces DEF ListShape
  <2> QED
    BY <2>1 DEF LaneStates, Places
<1>2. \/ lane.start # None /\ ~Precedes(lane.start, i)
      \/ lane.last # None /\ ~Precedes(lane.last, i)
  BY DEF LaneTells, Passed
<1>3. \/ lane.start # None /\ ~Precedes(lane.start, i) /\ Reached(lane, lane.start)
      \/ lane.last # None /\ ~Precedes(lane.last, i) /\ Reached(lane, lane.last)
  BY <1>2 DEF LaneIsInOrder
<1>4. ASSUME NEW p \in Nat, ~Precedes(p, i), Reached(lane, p) PROVE Reached(lane, i)
  BY <1>1, <1>4 DEF Reached, Precedes, ListShape, Orders
<1> QED
  BY <1>1, <1>3, <1>4

LEMMA ReadLaneKeeps == ListInv /\ ReadLane => ListInv'
<1> SUFFICES ASSUME ListInv, ReadLane PROVE ListInv'
  OBVIOUS
<1>0. page.stage = "reading" /\ UNCHANGED <<order, status, indexed, cursor, listed, settled, moves>>
  BY DEF ReadLane
<1>00. ListShape /\ ListTypeOK /\ order \in Orders /\ \A i \in settled : i \in Stored
  BY DEF ListInv, ListShape, ListTypeOK
<1>1. PICK l : l = FirstLane(EmptyLanes)
  OBVIOUS
<1>2. l \in EmptyLanes /\ l \in Unfinished
  BY <1>0, <1>1, PageFacts, FirstLaneIsIn DEF ReadLane
<1>3. PICK old : old = page.lanes[l]
  OBVIOUS
<1>4. /\ old \in LaneStates /\ old.buffer = << >> /\ old.exhausted = FALSE
      /\ LaneIsInOrder(l, old) /\ LaneTells(l, old)
  BY <1>0, <1>2, <1>3, PageFacts DEF EmptyLanes, Empty, LaneStates
<1> DEFINE S == {i \in After(old.next) : status[i] = l}
           rest == InOrder(S)
           piece == SubSeq(rest, 1, IF Len(rest) < ReadSize THEN Len(rest) ELSE ReadSize)
           B == InOrder(ToSet(piece) \cap Matching)
           lane == [old EXCEPT !.buffer = B,
                               !.next = IF Len(piece) < ReadSize THEN None ELSE Last(piece),
                               !.exhausted = Len(piece) < ReadSize]
<1>5. page' = [stage |-> "reading", items |-> page.items, reads |-> page.reads + 1,
               lanes |-> [page.lanes EXCEPT ![l] = lane]]
  <2>1. page' = [page EXCEPT !.reads = @ + 1, !.lanes[l] = lane]
    BY <1>1, <1>3 DEF ReadLane
  <2> HIDE DEF S, rest, piece, B, lane
  <2>2. PICK v, x, r, L : v = lane /\ x = page.items /\ r = page.reads /\ L = page.lanes
    OBVIOUS
  <2>3. page = [stage |-> "reading", items |-> x, reads |-> r, lanes |-> L]
    BY <1>0, <2>2, PageFacts
  <2>4. page' = [page EXCEPT !.reads = @ + 1, !.lanes[l] = v]
    BY <2>1, <2>2
  <2>5. page' = [stage |-> "reading", items |-> x, reads |-> r + 1, lanes |-> [L EXCEPT ![l] = v]]
    BY <2>3, <2>4
  <2> QED
    BY <2>2, <2>5
<1>6. /\ S \subseteq Stored /\ piece \in Seq(S) /\ Len(piece) <= ReadSize /\ ToSet(piece) \subseteq S
      /\ Len(piece) < ReadSize => ToSet(piece) = S
      /\ ~(Len(piece) < ReadSize) =>
           /\ Last(piece) \in S
           /\ \A i \in S : i \in ToSet(piece) <=> ~Precedes(Last(piece), i)
  <2>1. old.next \in Places
    BY <1>4 DEF LaneStates
  <2> QED
    BY <1>00, <2>1, OneRead, Zenon
<1>7. \A i : i \in S <=> i \in After(old.next) /\ status[i] = l
  OBVIOUS
<1> HIDE DEF S, rest, piece
<1>8. /\ B \in Seq(ToSet(piece) \cap Matching)
      /\ \A i \in ToSet(piece) \cap Matching : \E n \in DOMAIN B : B[n] = i
      /\ \A m, n \in DOMAIN B : m < n => Precedes(B[m], B[n])
  <2>1. Stored \subseteq Nat /\ IsFiniteSet(Stored) /\ ToSet(piece) \cap Matching \in SUBSET Stored
    BY <1>00, <1>6, StoredPlaces
  <2>2. IsFiniteSet(ToSet(piece) \cap Matching)
    BY <2>1, FS_Subset
  <2> QED
    BY <1>00, <2>1, <2>2, InOrderFacts
<1> HIDE DEF B
<1>9. \A i : (\E n \in DOMAIN B : B[n] = i) <=> i \in ToSet(piece) /\ i \in Matching
  BY <1>8
<1>10. B \in Seq(Stored)
  <2>1. ToSet(piece) \cap Matching \subseteq Stored
    BY <1>6
  <2> QED
    BY <1>8, <2>1
<1>11. lane \in LaneStates
  <2>1. ~(Len(piece) < ReadSize) => Last(piece) \in Places
    BY <1>00, <1>6, StoredPlaces DEF Places
  <2>2. None \in Places /\ (Len(piece) < ReadSize) \in BOOLEAN
    BY <1>00, StoredPlaces DEF None, Places
  <2> QED
    BY <1>4, <1>10, <2>1, <2>2 DEF LaneStates
<1>12. page.reads + 1 \in 0..MaxReads
  BY <1>0, PageFacts, ListParameters DEF ReadLane
<1>13. PICK later : later = lane
  OBVIOUS
<1>14. /\ later.start = old.start /\ later.last = old.last /\ later.buffer = B
       /\ later.exhausted <=> Len(piece) < ReadSize
       /\ later.next = IF Len(piece) < ReadSize THEN None ELSE Last(piece)
  BY <1>4, <1>13 DEF LaneStates
<1>15. /\ ListShape' /\ page'.stage = "reading" /\ page'.lanes[l] = later /\ page'.items = page.items
       /\ \A k \in Unfinished \ {l} : page'.lanes[k] = page.lanes[k]
  <2>1. page.items \in Seq(Stored) /\ Len(page.items) <= Limit
    BY <1>0, PageFacts
  <2>2. later \in LaneStates /\ page' = [stage |-> "reading", items |-> page.items, reads |-> page.reads + 1,
               lanes |-> [page.lanes EXCEPT ![l] = later]]
    BY <1>5, <1>11, <1>13
  <2> QED
    BY <1>0, <1>2, <1>3, <1>12, <1>14, <2>1, <2>2, ReadingShape
<1>16. SoFar' = SoFar /\ \A i : Told(i)' <=> Told(i)
  <2>1. SoFar' = SoFar
    BY <1>0, <1>15 DEF SoFar
  <2> QED
    BY <2>1 DEF Told
<1> HIDE DEF lane
<1>17. /\ \A i \in Nat : Reached(later, i) <=> later.exhausted \/ ~Precedes(later.next, i)
       /\ \A i \in Nat : Reached(old, i) <=> old.next # None /\ ~Precedes(old.next, i)
       /\ later.exhausted \in BOOLEAN
  <2>1. ~(Len(piece) < ReadSize) => Last(piece) # None
    BY <1>00, <1>6, StoredPlaces DEF None
  <2>2. later.exhausted \in BOOLEAN
    BY <1>11, <1>13 DEF LaneStates
  <2>3. ~later.exhausted => later.next # None
    BY <1>14, <2>1
  <2> QED
    BY <1>4, <2>2, <2>3 DEF Reached
<1>18. /\ old.next \in Nat /\ old.start \in Nat /\ old.last \in Nat /\ S \subseteq Nat
       /\ ~later.exhausted => later.next \in S
       /\ old.start # Done
  <2>1. Len(Created) \in Nat /\ Stored \subseteq Nat
    BY <1>00, StoredPlaces
  <2>2. old.start # Done
    BY <1>0, <1>00, <1>2, <1>3, PageFacts DEF ListTypeOK
  <2> QED
    BY <1>4, <1>6, <1>14, <2>1, <2>2 DEF LaneStates, Places
<1>19. \A i \in S : i \in Stored /\ status[i] = l /\ (old.next = None \/ Precedes(old.next, i))
  BY <1>7 DEF After
<1>20. ASSUME NEW p \in Nat, Reached(old, p)
       PROVE  Reached(later, p) /\ \A b \in S : Precedes(p, b)
  <2>1. old.next # None /\ ~Precedes(old.next, p)
    BY <1>17, <1>20
  <2>2. \A b \in S : Precedes(old.next, b) /\ b \in Nat
    BY <1>18, <1>19, <2>1
  <2>3. \A b \in S : Precedes(p, b) /\ ~Precedes(b, p)
    BY <1>00, <1>18, <2>1, <2>2 DEF Precedes, Orders
  <2> QED
    BY <1>17, <1>18, <2>3
<1>21. \A b : InBuffer(later, b) <=> b \in ToSet(piece) /\ b \in Matching
  BY <1>9, <1>14 DEF InBuffer
<1>22. \A b \in S : b \in ToSet(piece) <=> Reached(later, b)
  BY <1>6, <1>14, <1>17, <1>18
<1>23. LaneIsInOrder(l, later)
  <2>1. later.start = cursor[l]
    BY <1>4, <1>14 DEF LaneIsInOrder
  <2>2. \A m, n \in DOMAIN later.buffer : m < n => Precedes(later.buffer[m], later.buffer[n])
    BY <1>8, <1>14
  <2>3. ASSUME NEW b \in Stored, InBuffer(later, b)
        PROVE  /\ b \in Matching /\ status[b] = l /\ Reached(later, b)
               /\ later.last # None => Precedes(later.last, b)
               /\ later.start # None => Precedes(later.start, b)
    <3>1. b \in S /\ b \in Matching /\ status[b] = l /\ Reached(later, b)
      BY <1>6, <1>19, <1>21, <1>22, <2>3
    <3>2. later.last # None => Precedes(later.last, b)
      BY <1>4, <1>14, <1>18, <1>20, <3>1 DEF LaneIsInOrder
    <3>3. later.start # None => Precedes(later.start, b)
      BY <1>4, <1>14, <1>18, <1>20, <3>1 DEF LaneIsInOrder
    <3> QED
      BY <3>1, <3>2, <3>3
  <2>4. later.last # None =>
          Reached(later, later.last) /\ (later.start # None => Precedes(later.start, later.last))
    BY <1>4, <1>14, <1>18, <1>20 DEF LaneIsInOrder
  <2>5. later.start # None => Reached(later, later.start)
    BY <1>4, <1>14, <1>18, <1>20 DEF LaneIsInOrder
  <2> QED
    BY <2>1, <2>2, <2>3, <2>4, <2>5 DEF LaneIsInOrder
<1>24. LaneTells(l, later)'
  <2> SUFFICES ASSUME NEW i \in settled \cap Matching, status[i] = l
               PROVE  /\ Told(i) <=> Passed(later.start, i) \/ (later.last # None /\ ~Precedes(later.last, i))
                      /\ InBuffer(later, i) <=> Reached(later, i) /\ ~Told(i)
    BY <1>0, <1>16 DEF LaneTells, Passed, Precedes, InBuffer, Reached
  <2>1. Told(i) <=> Passed(later.start, i) \/ (later.last # None /\ ~Precedes(later.last, i))
    BY <1>4, <1>14 DEF LaneTells
  <2>2. ~InBuffer(old, i)
    BY <1>4 DEF InBuffer
  <2>3. i \in Stored /\ i \in Nat
    BY <1>00, StoredPlaces
  <2>4. Told(i) <=> Reached(old, i)
    BY <1>00, <1>4, <1>18, <2>2, ToldIsReached DEF LaneTells
  <2>5. i \in S <=> ~Reached(old, i)
    BY <1>7, <1>17, <2>3 DEF After
  <2>6. Told(i) => Reached(old, i)
    BY <2>4
  <2> QED
    BY <1>6, <1>21, <1>22, <2>1, <2>4, <2>5
<1>25. LanesTell'
  BY <1>0, <1>2, <1>15, <1>16, <1>23, <1>24, OneLaneMoves
<1>26. CursorsTell'
  BY <1>15 DEF CursorsTell
<1>27. ToldWell'
  BY <1>0, <1>16 DEF ListInv, ToldWell, ToldMatch, ToldOnce, ToldInOrder, RestComesLater, Earlier
<1> QED
  BY <1>15, <1>25, <1>26, <1>27 DEF ListInv

(* Once every lane has a head or is exhausted, one of the heads is best.   *)
LEMMA BestIsReady ==
  ASSUME ListInv, page.stage = "reading", Ready # {}
  PROVE  /\ Best \in Ready /\ \A k \in Ready : ~Earlier(Head1(k), Head1(Best))
         /\ \A k \in Ready : Head1(k) \in Nat
<1> DEFINE head(l) == Head(page.lanes[l].buffer)
           place(l) == IF order = "asc" THEN head(l) ELSE Len(Created) - head(l)
           T == {place(l) : l \in Ready}
<1>1. order \in Orders /\ ListTypeOK /\ Ready \subseteq Lanes
  BY PageFacts DEF ListInv, ListShape
<1>2. \A l \in Ready : head(l) \in Stored
  <2> SUFFICES ASSUME NEW l \in Ready PROVE head(l) \in Stored
    OBVIOUS
  <2>1. page.lanes[l] \in LaneStates /\ page.lanes[l].buffer # << >>
    BY PageFacts DEF Ready
  <2>2. page.lanes[l].buffer \in Seq(Stored)
    BY <2>1 DEF LaneStates
  <2> QED
    BY <2>1, <2>2
<1>3. /\ \A l \in Ready : head(l) \in 1..Len(Created) /\ Len(Created) \in Nat
      /\ Created \in Seq(Nat) /\ \A i, j \in 1..Len(Created) : i < j => Created[i] <= Created[j]
  BY <1>1, <1>2, StoredPlaces, ListParameters
<1>4. \A l \in Ready : Head1(l) = Created[head(l)] /\ Head1(l) \in Nat
  BY <1>3 DEF Head1
<1> HIDE DEF head
<1>5. T \subseteq Nat /\ T # {}
  BY <1>3
<1>6. PICK l \in Ready : \A k \in Ready : place(l) <= place(k)
  <2> HIDE DEF place
  <2>1. PICK x \in T : \A y \in T : x <= y
    BY <1>5, LeastNatural
  <2> QED
    BY <2>1
<1>7. ASSUME NEW k \in Ready PROVE ~Earlier(Head1(k), Head1(l))
  <2>1. /\ head(l) \in 1..Len(Created) /\ head(k) \in 1..Len(Created) /\ Len(Created) \in Nat
        /\ place(l) <= place(k)
    BY <1>3, <1>6
  <2>2. IF order = "asc" THEN head(l) <= head(k) ELSE head(k) <= head(l)
    BY <2>1
  <2>3. IF order = "asc" THEN Created[head(l)] <= Created[head(k)]
                         ELSE Created[head(k)] <= Created[head(l)]
    BY <1>3, <2>1, <2>2
  <2> QED
    BY <1>4, <2>3 DEF Earlier
<1> DEFINE good == {a \in Ready : \A k \in Ready : ~Earlier(Head1(k), Head1(a))}
<1>8. good # {} /\ good \subseteq Lanes
  BY <1>1, <1>6, <1>7
<1>9. Best \in good
  BY <1>8, FirstLaneIsIn DEF Best
<1> QED
  BY <1>4, <1>9

(* Of two issues the later in the order is not created earlier.            *)
LEMMA LaterIsNotEarlier ==
  ASSUME order \in Orders, ListTypeOK, NEW i \in Stored, NEW j \in Stored, i = j \/ Precedes(i, j)
  PROVE  ~Earlier(Created[j], Created[i]) /\ Created[i] \in Nat
<1>1. i \in 1..Len(Created) /\ j \in 1..Len(Created)
  BY StoredPlaces
<1>2. Created[i] \in Nat /\ Created[j] \in Nat /\ (i < j => Created[i] <= Created[j])
      /\ (j < i => Created[j] <= Created[i])
  BY <1>1, ListParameters
<1> QED
  BY <1>2 DEF Earlier, Precedes, Orders

(* The head of a buffer comes before the rest of it.                       *)
LEMMA HeadIsFirst ==
  ASSUME NEW lane \in LaneStates, lane.buffer # << >>,
         \A m, n \in DOMAIN lane.buffer : m < n => Precedes(lane.buffer[m], lane.buffer[n])
  PROVE  /\ Head(lane.buffer) \in Stored /\ InBuffer(lane, Head(lane.buffer))
         /\ \A b : InBuffer(lane, b) =>
              b \in Stored /\ (b = Head(lane.buffer) \/ Precedes(Head(lane.buffer), b))
         /\ Tail(lane.buffer) \in Seq(Stored)
         /\ \A n \in DOMAIN Tail(lane.buffer) :
              n + 1 \in DOMAIN lane.buffer /\ n \in Nat /\ Tail(lane.buffer)[n] = lane.buffer[n + 1]
         /\ \A n \in DOMAIN lane.buffer :
              n = 1 \/ (n - 1 \in DOMAIN Tail(lane.buffer) /\ Tail(lane.buffer)[n - 1] = lane.buffer[n])
<1> DEFINE b == lane.buffer
<1>1. b \in Seq(Stored) /\ b # << >>
  BY DEF LaneStates
<1>2. \A m, n \in DOMAIN b : m < n => Precedes(b[m], b[n])
  OBVIOUS
<1>3. InBuffer(lane, Head(b)) <=> \E n \in DOMAIN b : b[n] = Head(b)
  BY DEF InBuffer
<1>4. \A c : InBuffer(lane, c) <=> \E n \in DOMAIN b : b[n] = c
  BY DEF InBuffer
<1> HIDE DEF b
<1>5. /\ Head(b) = b[1] /\ 1 \in DOMAIN b /\ DOMAIN b = 1..Len(b) /\ Len(b) \in Nat
      /\ Tail(b) \in Seq(Stored) /\ DOMAIN Tail(b) = 1..(Len(b) - 1)
      /\ (\A n \in 1..(Len(b) - 1) : Tail(b)[n] = b[n + 1]) /\ \A n \in DOMAIN b : b[n] \in Stored
  BY <1>1
<1>6. \A n \in DOMAIN b : n = 1 \/ 1 < n
  BY <1>5
<1>7. \A c : InBuffer(lane, c) => c \in Stored /\ (c = Head(b) \/ Precedes(Head(b), c))
  BY <1>2, <1>4, <1>5, <1>6
<1>8. \A n \in DOMAIN Tail(b) : n + 1 \in DOMAIN b /\ n \in Nat /\ Tail(b)[n] = b[n + 1]
  BY <1>5
<1>9. \A n \in DOMAIN b : n = 1 \/ (n - 1 \in DOMAIN Tail(b) /\ Tail(b)[n - 1] = b[n])
  BY <1>5
<1> QED
  BY <1>3, <1>5, <1>7, <1>8, <1>9 DEF b

LEMMA AppendedLast ==
  ASSUME NEW S, NEW s \in Seq(S), NEW t \in Seq(S), NEW h \in S
  PROVE  s \o Append(t, h) = Append(s \o t, h)
<1>1. <<h>> \in Seq(S) /\ s \o t \in Seq(S)
  OBVIOUS
<1>2. Append(t, h) = t \o <<h>> /\ Append(s \o t, h) = (s \o t) \o <<h>>
  BY <1>1, AppendIsConcat
<1>3. (s \o t) \o <<h>> = s \o (t \o <<h>>)
  BY <1>1, ConcatAssociative
<1> QED
  BY <1>2, <1>3

LEMMA TakeHeadKeeps == ListInv /\ TakeHead => ListInv'
<1> SUFFICES ASSUME ListInv, TakeHead PROVE ListInv'
  OBVIOUS
<1>0. /\ page.stage = "reading" /\ EmptyLanes = {} /\ Ready # {}
      /\ UNCHANGED <<order, status, indexed, cursor, listed, settled, moves>>
  BY DEF TakeHead
<1>00. /\ ListShape /\ ListTypeOK /\ order \in Orders /\ (\A i \in settled : i \in Stored)
       /\ Stored \subseteq Nat
  BY StoredPlaces DEF ListInv, ListShape, ListTypeOK
<1>1. PICK l : l = Best
  OBVIOUS
<1>2. l \in Ready /\ l \in Unfinished /\ l \in Lanes
  BY <1>0, <1>1, PageFacts, BestIsReady
<1>3. PICK old : old = page.lanes[l]
  OBVIOUS
<1>4. /\ old \in LaneStates /\ old.buffer # << >>
      /\ LaneIsInOrder(l, old) /\ LaneTells(l, old)
  BY <1>0, <1>2, <1>3, PageFacts DEF Ready
<1>5. PICK h : h = Head(old.buffer)
  OBVIOUS
<1>6. /\ h \in Stored /\ InBuffer(old, h) /\ Tail(old.buffer) \in Seq(Stored)
      /\ \A b : InBuffer(old, b) => b \in Stored /\ (b = h \/ Precedes(h, b))
      /\ \A n \in DOMAIN Tail(old.buffer) :
           n + 1 \in DOMAIN old.buffer /\ n \in Nat /\ Tail(old.buffer)[n] = old.buffer[n + 1]
      /\ \A n \in DOMAIN old.buffer :
           n = 1 \/ (n - 1 \in DOMAIN Tail(old.buffer) /\ Tail(old.buffer)[n - 1] = old.buffer[n])
      /\ old.buffer[1] = h /\ 1 \in DOMAIN old.buffer
  <2>1. \A m, n \in DOMAIN old.buffer : m < n => Precedes(old.buffer[m], old.buffer[n])
    BY <1>4 DEF LaneIsInOrder
  <2>2. old.buffer[1] = h /\ 1 \in DOMAIN old.buffer
    BY <1>4, <1>5 DEF LaneStates
  <2> QED
    BY <1>4, <1>5, <2>1, <2>2, HeadIsFirst
<1> DEFINE lane == [old EXCEPT !.buffer = Tail(@), !.last = h]
<1>7. PICK later : later = lane
  OBVIOUS
<1>8. /\ later \in LaneStates /\ later.start = old.start /\ later.next = old.next
      /\ later.exhausted = old.exhausted /\ later.buffer = Tail(old.buffer) /\ later.last = h
      /\ h # None /\ h \in Nat
  <2>1. h \in Places /\ h # None /\ h \in Nat
    BY <1>00, <1>6, StoredPlaces DEF Places, None
  <2> QED
    BY <1>4, <1>6, <1>7, <2>1 DEF LaneStates
<1>9. page' = [stage |-> "reading", items |-> Append(page.items, h), reads |-> page.reads,
               lanes |-> [page.lanes EXCEPT ![l] = later]]
  <2>1. page' = [page EXCEPT !.items = Append(@, h), !.lanes[l] = lane]
    BY <1>1, <1>3, <1>5 DEF TakeHead
  <2> HIDE DEF lane
  <2>2. PICK x, r, L : x = page.items /\ r = page.reads /\ L = page.lanes
    OBVIOUS
  <2>3. page = [stage |-> "reading", items |-> x, reads |-> r, lanes |-> L]
    BY <1>0, <2>2, PageFacts
  <2>4. page' = [page EXCEPT !.items = Append(@, h), !.lanes[l] = later]
    BY <1>7, <2>1
  <2>5. page' = [stage |-> "reading", items |-> Append(x, h), reads |-> r,
                 lanes |-> [L EXCEPT ![l] = later]]
    BY <2>3, <2>4
  <2> QED
    BY <2>2, <2>5
<1>10. page.items \in Seq(Stored) /\ listed \in Seq(Stored) /\ SoFar = listed \o page.items
       /\ Len(page.items) <= Limit /\ Len(page.items) # Limit /\ page.reads \in 0..MaxReads
       /\ SoFar \in Seq(Stored)
  BY <1>0, PageFacts DEF TakeHead, Full
<1>11. /\ ListShape' /\ page'.stage = "reading" /\ page'.lanes[l] = later
       /\ page'.items = Append(page.items, h)
       /\ \A k \in Unfinished \ {l} : page'.lanes[k] = page.lanes[k]
  <2>1. Append(page.items, h) \in Seq(Stored) /\ Len(Append(page.items, h)) <= Limit
    BY <1>6, <1>10, ListParameters
  <2>2. PICK items : items = Append(page.items, h)
    OBVIOUS
  <2>3. /\ items \in Seq(Stored) /\ Len(items) <= Limit /\ later.start = page.lanes[l].start
        /\ page' = [stage |-> "reading", items |-> items, reads |-> page.reads,
                    lanes |-> [page.lanes EXCEPT ![l] = later]]
    BY <1>3, <1>8, <1>9, <2>1, <2>2
  <2>4. page'.items = items
    BY <2>3
  <2>5. /\ later \in LaneStates /\ page.reads \in 0..MaxReads /\ l \in Unfinished
        /\ page.stage = "reading"
        /\ UNCHANGED <<order, status, indexed, cursor, listed, settled, moves>>
    BY <1>0, <1>2, <1>8, <1>10
  <2>6. /\ ListShape' /\ page'.stage = "reading" /\ page'.lanes[l] = later
        /\ \A k \in Unfinished \ {l} : page'.lanes[k] = page.lanes[k]
    BY <2>3, <2>5, ReadingShape
  <2> QED
    BY <2>2, <2>4, <2>6
<1>12. SoFar' = Append(SoFar, h)
  <2>1. SoFar' = listed \o Append(page.items, h)
    BY <1>0, <1>11 DEF SoFar
  <2>2. listed \o Append(page.items, h) = Append(listed \o page.items, h)
    <3>1. PICK A, s, t : A = Stored /\ s = listed /\ t = page.items
      OBVIOUS
    <3>2. s \in Seq(A) /\ t \in Seq(A) /\ h \in A
      BY <1>6, <1>10, <3>1
    <3>3. s \o Append(t, h) = Append(s \o t, h)
      BY <3>2, AppendedLast
    <3> QED
      BY <3>1, <3>3, Zenon
  <2> QED
    BY <1>10, <2>1, <2>2, Zenon
<1>13. /\ Len(SoFar) \in Nat /\ DOMAIN SoFar = 1..Len(SoFar)
       /\ DOMAIN SoFar' = 1..Len(SoFar) + 1 /\ SoFar'[Len(SoFar) + 1] = h
       /\ \A n \in DOMAIN SoFar : SoFar'[n] = SoFar[n] /\ SoFar[n] \in Stored
  BY <1>6, <1>10, <1>12
<1>14. \A i : Told(i)' <=> Told(i) \/ i = h
  <2>1. \A n : n \in DOMAIN SoFar' <=> n \in DOMAIN SoFar \/ n = Len(SoFar) + 1
    BY <1>13
  <2> QED
    BY <1>13, <2>1 DEF Told
<1>15. /\ h \in Matching /\ (h \in settled => status[h] = l)
       /\ old.last # None => Precedes(old.last, h)
       /\ old.start # None => Precedes(old.start, h)
       /\ Reached(old, h)
  BY <1>4, <1>6 DEF LaneIsInOrder
<1>16. \A b : InBuffer(old, b) <=> InBuffer(later, b) \/ b = h
  <2>1. \A b : InBuffer(later, b) => InBuffer(old, b)
    BY <1>6, <1>8 DEF InBuffer
  <2>2. ASSUME NEW b, InBuffer(old, b), b # h PROVE InBuffer(later, b)
    <3>1. PICK n \in DOMAIN old.buffer : old.buffer[n] = b
      BY <2>2 DEF InBuffer
    <3>2. n - 1 \in DOMAIN Tail(old.buffer) /\ Tail(old.buffer)[n - 1] = b
      BY <1>6, <2>2, <3>1
    <3> QED
      BY <1>8, <3>2 DEF InBuffer
  <2> QED
    BY <1>6, <2>1, <2>2
<1>17. \A b : InBuffer(later, b) => b \in Stored /\ Precedes(h, b) /\ b # h
  <2> SUFFICES ASSUME NEW b, InBuffer(later, b) PROVE b \in Stored /\ Precedes(h, b) /\ b # h
    OBVIOUS
  <2>1. PICK n \in DOMAIN later.buffer : later.buffer[n] = b
    BY DEF InBuffer
  <2>2. n + 1 \in DOMAIN old.buffer /\ n \in Nat /\ old.buffer[n + 1] = b /\ n # 0
    BY <1>6, <1>8, <2>1
  <2>3. Precedes(h, b)
    BY <1>4, <1>6, <2>2 DEF LaneIsInOrder
  <2>4. b \in Stored
    BY <1>6, <1>16
  <2> QED
    BY <1>00, <1>8, <2>3, <2>4 DEF Precedes
<1>18. LaneIsInOrder(l, later)
  <2>1. later.start = cursor[l]
    BY <1>4, <1>8 DEF LaneIsInOrder
  <2>2. ASSUME NEW m \in DOMAIN later.buffer, NEW n \in DOMAIN later.buffer, m < n
        PROVE  Precedes(later.buffer[m], later.buffer[n])
    <3>1. /\ m + 1 \in DOMAIN old.buffer /\ m \in Nat /\ later.buffer[m] = old.buffer[m + 1]
          /\ n + 1 \in DOMAIN old.buffer /\ n \in Nat /\ later.buffer[n] = old.buffer[n + 1]
      BY <1>6, <1>8
    <3> QED
      BY <1>4, <2>2, <3>1 DEF LaneIsInOrder
  <2>3. ASSUME NEW b \in Stored, InBuffer(later, b)
        PROVE  /\ b \in Matching /\ (b \in settled => status[b] = l)
               /\ Precedes(later.last, b) /\ (later.start # None => Precedes(later.start, b)) /\ Reached(later, b)
    <3>1. InBuffer(old, b)
      BY <1>16, <2>3
    <3>2. /\ b \in Matching /\ (b \in settled => status[b] = l)
          /\ (old.start # None => Precedes(old.start, b)) /\ Reached(old, b)
      BY <1>4, <3>1 DEF LaneIsInOrder
    <3> QED
      BY <1>8, <1>17, <2>3, <3>2 DEF Reached
  <2>4. Reached(later, later.last) /\ (later.start # None => Precedes(later.start, later.last))
    BY <1>8, <1>15 DEF Reached
  <2>5. later.start # None => Reached(later, later.start)
    BY <1>4, <1>8 DEF LaneIsInOrder, Reached
  <2> QED
    BY <2>1, <2>2, <2>3, <2>4, <2>5 DEF LaneIsInOrder
<1>19. h \in settled => ~Told(h) /\ status[h] = l
  BY <1>4, <1>6, <1>15 DEF LaneTells
<1>20. old.start \in Nat /\ old.last \in Nat /\ old.next \in Nat /\ old.exhausted \in BOOLEAN
       /\ old.start # Done
  <2>1. old.start # Done
    BY <1>0, <1>00, <1>2, <1>3, PageFacts DEF ListTypeOK
  <2> QED
    BY <1>00, <1>4, <2>1, StoredPlaces DEF LaneStates, Places
<1>21. LaneTells(l, later)'
  <2> SUFFICES ASSUME NEW i \in settled \cap Matching, status[i] = l
               PROVE  /\ Told(i) \/ i = h <=>
                           Passed(later.start, i) \/ (later.last # None /\ ~Precedes(later.last, i))
                      /\ InBuffer(later, i) <=> Reached(later, i) /\ ~(Told(i) \/ i = h)
    BY <1>0, <1>14 DEF LaneTells, Passed, Precedes, InBuffer, Reached
  <2>0. i \in Nat
    BY <1>00
  <2>1. Told(i) <=> Passed(old.start, i) \/ (old.last # None /\ ~Precedes(old.last, i))
    BY <1>4 DEF LaneTells
  <2>2. InBuffer(old, i) <=> Reached(old, i) /\ ~Told(i)
    BY <1>4 DEF LaneTells
  <2>3. Reached(later, i) <=> Reached(old, i)
    BY <1>8 DEF Reached
  <2>4. InBuffer(later, i) <=> Reached(later, i) /\ ~(Told(i) \/ i = h)
    BY <1>16, <1>17, <2>2, <2>3
  <2>5. old.last # None /\ ~Precedes(old.last, i) => ~Precedes(h, i)
    BY <1>00, <1>8, <1>15, <1>20, <2>0 DEF Precedes, Orders
  <2>6. ~Precedes(h, h)
    BY <1>8 DEF Precedes
  <2>7. ASSUME ~Precedes(h, i), i # h PROVE Told(i)
    <3>1. Reached(old, i)
      BY <1>00, <1>8, <1>15, <1>20, <2>0, <2>7 DEF Reached, Precedes, Orders
    <3>2. ~InBuffer(old, i)
      BY <1>6, <2>7
    <3> QED
      BY <2>2, <3>1, <3>2
  <2> QED
    BY <1>8, <2>1, <2>4, <2>5, <2>6, <2>7
<1>22. LanesTell'
  <2>1. \A i \in settled \cap Matching : status[i] # l => (Told(i)' <=> Told(i))
    BY <1>14, <1>19
  <2> QED
    BY <1>0, <1>2, <1>11, <1>18, <1>21, <2>1, OneLaneMoves
<1>23. CursorsTell'
  BY <1>11 DEF CursorsTell
<1>24. ASSUME NEW i \in settled \cap Matching, status[i] \in Lanes, ~Told(i)
       PROVE  ~Earlier(Created[i], Created[h])
  <2>1. PICK k : k = status[i]
    OBVIOUS
  <2>2. k \in Unfinished
    BY <1>0, <1>24, <2>1 DEF ListInv, LanesTell
  <2>3. PICK other : other = page.lanes[k]
    OBVIOUS
  <2>4. /\ other \in LaneStates /\ LaneIsInOrder(k, other) /\ LaneTells(k, other)
        /\ other.buffer # << >> \/ other.exhausted
    BY <1>0, <2>2, <2>3, PageFacts DEF EmptyLanes, Empty
  <2>5. InBuffer(other, i) <=> Reached(other, i)
    BY <1>24, <2>1, <2>4 DEF LaneTells
  <2>6. other.exhausted => InBuffer(other, i)
    BY <2>5 DEF Reached
  <2>7. other.buffer # << >> /\ k \in Ready
    <3>1. other.buffer # << >>
      BY <2>4, <2>6 DEF InBuffer
    <3> QED
      BY <1>0, <2>2, <2>3, <3>1, PageFacts DEF Ready
  <2>8. PICK g : g = Head(other.buffer)
    OBVIOUS
  <2>9. /\ g \in Stored /\ InBuffer(other, g)
        /\ \A b : InBuffer(other, b) => b \in Stored /\ (b = g \/ Precedes(g, b))
    <3>1. \A m, n \in DOMAIN other.buffer : m < n => Precedes(other.buffer[m], other.buffer[n])
      BY <2>4 DEF LaneIsInOrder
    <3> QED
      BY <2>4, <2>7, <2>8, <3>1, HeadIsFirst
  <2>10. i = g \/ Precedes(g, i)
    <3>1. CASE InBuffer(other, i)
      BY <2>9, <3>1
    <3>2. CASE ~InBuffer(other, i)
      <4>1. ~Reached(other, i) /\ Reached(other, g)
        BY <2>4, <2>5, <2>9, <3>2 DEF LaneIsInOrder
      <4>2. other.next \in Nat /\ other.exhausted \in BOOLEAN
        BY <1>00, <2>4, StoredPlaces DEF LaneStates, Places
      <4>3. i \in Nat /\ g \in Nat
        BY <1>00, <2>9
      <4> QED
        BY <1>00, <4>1, <4>2, <4>3 DEF Reached, Precedes, Orders
    <3> QED
      BY <3>1, <3>2
  <2>11. ~Earlier(Created[i], Created[g]) /\ Created[g] \in Nat /\ Created[i] \in Nat
    BY <1>00, <2>9, <2>10, LaterIsNotEarlier
  <2>12. ~Earlier(Created[g], Created[h]) /\ Created[h] \in Nat
    <3>1. Head1(k) = Created[g] /\ Head1(l) = Created[h]
      BY <1>3, <1>5, <2>3, <2>8 DEF Head1
    <3> QED
      BY <1>0, <1>1, <1>2, <2>7, <3>1, BestIsReady
  <2> QED
    BY <2>11, <2>12 DEF Earlier
<1>25. ToldWell'
  <2> DEFINE N == Len(SoFar)
  <2>0. /\ N \in Nat /\ \A n \in DOMAIN SoFar' : n \in DOMAIN SoFar \/ n = N + 1
        /\ \A n \in DOMAIN SoFar : n \in Nat /\ n <= N
    BY <1>13
  <2>1. ToldMatch'
    BY <1>0, <1>2, <1>13, <1>15, <2>0 DEF ListInv, ToldWell, ToldMatch
  <2>2. \A n \in DOMAIN SoFar : h \in settled => SoFar[n] # h
    BY <1>19 DEF Told
  <2>3. ToldOnce'
    <3> SUFFICES ASSUME NEW m \in DOMAIN SoFar', NEW n \in DOMAIN SoFar',
                        SoFar'[m] = SoFar'[n], SoFar'[m] \in settled
                 PROVE  m = n
      BY <1>0 DEF ToldOnce
    <3> QED
      BY <1>13, <2>0, <2>2 DEF ListInv, ToldWell, ToldOnce
  <2>4. ToldInOrder'
    <3> SUFFICES ASSUME NEW m \in DOMAIN SoFar', NEW n \in DOMAIN SoFar', m < n,
                        SoFar'[m] \in settled, SoFar'[n] \in settled
                 PROVE  ~Earlier(Created[SoFar'[n]], Created[SoFar'[m]])
      BY <1>0 DEF ToldInOrder, Earlier
    <3>1. m \in DOMAIN SoFar /\ SoFar'[m] = SoFar[m]
      BY <1>13, <2>0
    <3>2. CASE n \in DOMAIN SoFar
      BY <1>13, <3>1, <3>2 DEF ListInv, ToldWell, ToldInOrder
    <3>3. CASE n = N + 1
      <4>1. SoFar'[n] = h /\ h \in settled \cap Matching /\ ~Told(h) /\ status[h] \in Lanes
        BY <1>2, <1>13, <1>15, <1>19, <3>3
      <4> QED
        BY <3>1, <4>1 DEF ListInv, ToldWell, RestComesLater
    <3> QED
      BY <2>0, <3>2, <3>3
  <2>5. RestComesLater'
    <3> SUFFICES ASSUME NEW n \in DOMAIN SoFar', NEW i \in settled \cap Matching,
                        SoFar'[n] \in settled, status[i] \in Lanes, ~Told(i)
                 PROVE  ~Earlier(Created[i], Created[SoFar'[n]])
      BY <1>0, <1>14 DEF RestComesLater, Earlier
    <3>1. CASE n \in DOMAIN SoFar
      BY <1>13, <3>1 DEF ListInv, ToldWell, RestComesLater
    <3>2. CASE n = N + 1
      BY <1>13, <1>24, <3>2
    <3> QED
      BY <2>0, <3>1, <3>2
  <2> QED
    BY <2>1, <2>3, <2>4, <2>5 DEF ToldWell
<1> QED
  BY <1>11, <1>22, <1>23, <1>25 DEF ListInv

(* Where a lane resumes is just past what it told.                         *)
LEMMA ResumeFacts ==
  ASSUME ListInv, page.stage = "reading", NEW l \in Unfinished
  PROVE  /\ Resume(page.lanes[l]) \in 0..Done
         /\ \A i \in settled \cap Matching :
              status[i] = l => (Told(i) <=> Passed(Resume(page.lanes[l]), i))
<1>1. PICK lane : lane = page.lanes[l]
  OBVIOUS
<1>2. /\ lane \in LaneStates /\ LaneIsInOrder(l, lane) /\ LaneTells(l, lane) /\ lane.start # Done
      /\ ListShape /\ order \in Orders
  BY <1>1, PageFacts DEF ListInv, ListShape, ListTypeOK
<1>3. /\ Len(Created) \in Nat /\ Stored \subseteq Nat /\ \A i \in settled : i \in Nat
      /\ lane.start \in Places /\ lane.next \in Places /\ lane.last \in Places
      /\ lane.exhausted \in BOOLEAN
  BY <1>2, StoredPlaces DEF LaneStates, ListShape
<1>4. /\ Done \in Nat /\ lane.start # Done /\ lane.next # Done /\ lane.last # Done
      /\ lane.start \in Nat /\ lane.next \in Nat /\ lane.last \in Nat
      /\ lane.start \in 0..Done /\ lane.next \in 0..Done /\ lane.last \in 0..Done
      /\ Done \in 0..Done
  BY <1>3 DEF Done, Places
<1>5. Resume(lane) \in 0..Done
  BY <1>4 DEF Resume
<1>6. ASSUME NEW i \in settled \cap Matching, status[i] = l
      PROVE  Told(i) <=> Passed(Resume(lane), i)
  <2>1. /\ Told(i) <=> Passed(lane.start, i) \/ (lane.last # None /\ ~Precedes(lane.last, i))
        /\ InBuffer(lane, i) <=> Reached(lane, i) /\ ~Told(i)
    BY <1>2, <1>6 DEF LaneTells
  <2>2. i \in Nat
    BY <1>3
  <2>3. CASE lane.buffer # << >> /\ lane.last # None
    <3>1. Resume(lane) = lane.last
      BY <2>3 DEF Resume
    <3>2. lane.start # None => Precedes(lane.start, lane.last)
      BY <1>2, <2>3 DEF LaneIsInOrder
    <3>3. Passed(lane.start, i) => ~Precedes(lane.last, i)
      BY <1>2, <1>4, <2>2, <3>2 DEF Passed, Precedes, Orders
    <3> QED
      BY <1>4, <2>1, <2>3, <3>1, <3>3 DEF Passed
  <2>4. CASE lane.buffer # << >> /\ lane.last = None
    BY <2>1, <2>4 DEF Resume
  <2>5. CASE lane.buffer = << >>
    <3>1. ~InBuffer(lane, i)
      BY <2>5 DEF InBuffer
    <3>2. Reached(lane, i) <=> Told(i)
      BY <1>2, <1>6, <2>1, <3>1, ToldIsReached
    <3>3. CASE lane.exhausted
      BY <2>5, <3>2, <3>3 DEF Resume, Reached, Passed
    <3>4. CASE ~lane.exhausted
      BY <1>4, <2>5, <3>2, <3>4 DEF Resume, Reached, Passed
    <3> QED
      BY <3>3, <3>4
  <2> QED
    BY <2>3, <2>4, <2>5
<1> QED
  BY <1>1, <1>5, <1>6

LEMMA EndPageKeeps == ListInv /\ EndPage => ListInv'
<1> SUFFICES ASSUME ListInv, EndPage PROVE ListInv'
  OBVIOUS
<1>1. /\ page.stage = "reading" /\ UNCHANGED <<order, status, indexed, settled, moves>>
      /\ cursor' = [l \in Lanes |-> IF l \in DOMAIN page.lanes THEN Resume(page.lanes[l]) ELSE Done]
      /\ listed' = listed \o page.items
      /\ page' = NoPage(IF \E l \in Lanes : cursor'[l] # Done THEN "more" ELSE "end")
  BY DEF EndPage
<1>2. /\ ListShape /\ ListTypeOK /\ DOMAIN page.lanes = Unfinished /\ Unfinished \subseteq Lanes
      /\ SoFar = listed \o page.items /\ SoFar \in Seq(Stored)
  BY <1>1, PageFacts DEF ListInv, ListShape
<1>3. /\ page'.stage = IF \E l \in Lanes : cursor'[l] # Done THEN "more" ELSE "end"
      /\ page'.stage # "reading"
  BY <1>1 DEF NoPage
<1>4. SoFar' = SoFar /\ \A i : Told(i)' <=> Told(i)
  <2>1. SoFar' = listed'
    BY <1>3 DEF SoFar
  <2>2. SoFar' = SoFar
    BY <1>1, <1>2, <2>1
  <2> QED
    BY <2>2 DEF Told
<1>5. \A l \in Lanes : cursor'[l] = IF l \in Unfinished THEN Resume(page.lanes[l]) ELSE Done
  BY <1>1, <1>2
<1>6. cursor' \in [Lanes -> 0..Done]
  <2>1. Done \in 0..Done
    BY <1>2, StoredPlaces DEF Done
  <2>2. \A l \in Unfinished : Resume(page.lanes[l]) \in 0..Done
    BY <1>1, ResumeFacts
  <2> QED
    BY <1>1, <1>2, <2>1, <2>2
<1>7. ListShape'
  <2>1. Stored' = Stored
    BY <1>1 DEF Stored
  <2>2. page'.stage \in {"more", "end"}
    BY <1>3
  <2>3. listed' \in Seq(Stored')
    BY <1>1, <1>2, <2>1
  <2>4. ListTypeOK'
    BY <1>1, <1>2, <1>6, <2>1, <2>2, <2>3 DEF ListTypeOK
  <2> QED
    BY <1>1, <1>2, <1>3, <2>4 DEF ListShape
<1>8. LanesTell'
  BY <1>3 DEF LanesTell
<1>9. CursorsTell'
  <2>1. ASSUME NEW i \in settled \cap Matching, status[i] \in Lanes
        PROVE  Told(i) <=> Passed(cursor'[status[i]], i)
    <3>1. CASE status[i] \in Unfinished
      BY <1>1, <1>5, <2>1, <3>1, ResumeFacts
    <3>2. CASE status[i] \notin Unfinished
      BY <1>1, <1>5, <2>1, <3>2 DEF ListInv, LanesTell, Passed
    <3> QED
      BY <3>1, <3>2
  <2> QED
    BY <1>1, <1>3, <1>4, <2>1 DEF CursorsTell, Passed, Precedes
<1>10. ToldWell'
  BY <1>1, <1>4 DEF ListInv, ToldWell, ToldMatch, ToldOnce, ToldInOrder, RestComesLater, Earlier
<1> QED
  BY <1>7, <1>8, <1>9, <1>10 DEF ListInv

LEMMA ListStep == ListInv /\ [ListNext]_listVars => ListInv'
<1> SUFFICES ASSUME ListInv, [ListNext]_listVars PROVE ListInv'
  OBVIOUS
<1>1. ASSUME NEW i \in Stored, NEW to \in Statuses, Move(i, to) PROVE ListInv'
  BY <1>1, MoveKeeps
<1>2. CASE Open
  BY <1>2, OpenKeeps
<1>3. CASE BuildIndex
  BY <1>3, BuildIndexKeeps
<1>4. CASE StartPage
  BY <1>4, StartPageKeeps
<1>5. CASE FallBack
  BY <1>5, FallBackKeeps
<1>6. CASE DecodeCreatedToken
  BY <1>6, FallBackKeeps
<1>7. CASE ReadLane
  BY <1>7, ReadLaneKeeps
<1>8. CASE TakeHead
  BY <1>8, TakeHeadKeeps
<1>9. CASE EndPage
  BY <1>9, EndPageKeeps
<1>10. CASE UNCHANGED listVars
  <2>1. UNCHANGED <<order, status, page, cursor, listed, settled>> /\ UNCHANGED <<indexed, moves>>
    BY <1>10 DEF listVars
  <2>2. ListTypeOK'
    BY <2>1 DEF ListInv, ListShape, ListTypeOK, Stored
  <2>3. Stored' = Stored
    BY <2>1 DEF Stored
  <2> QED
    BY <2>1, <2>2, <2>3, OthersKeep
<1> QED
  BY <1>1, <1>2, <1>3, <1>4, <1>5, <1>6, <1>7, <1>8, <1>9, <1>10 DEF ListNext

(* Whoever follows the tokens of a list to its end is given every matching  *)
(* issue that stayed in its status exactly once, and in the order of        *)
(* creation.                                                               *)
THEOREM Listing == ListSpec => []SettledIssuesListed
<1>1. ListInv /\ [ListNext]_listVars => ListInv'
  BY ListStep
<1> QED
  BY ListStart, <1>1, ListInvSuffices, PTL DEF ListSpec

-----------------------------------------------------------------------------
(* TrustCenter: the records of the reconciliation.                         *)
Times == Nat \cup {NoTime}
CisVerdicts == {v.status : v \in CisResults}
Comparisons == [khalifa : CisVerdicts, agreeingSince : Times,
                status : {"PASSED", "FAILED", "null"}, noData : BOOLEAN,
                stableSince : Times, publishable : BOOLEAN]
GoodRecords == [status : {"OK"}, at : Nat, by : [Requirements -> Comparisons]]
StaleRecords == [status : {"STALE"}, at : Nat]

RecShape ==
  /\ now \in 0..MaxNow /\ hub \in [Cells -> ShStatuses \cup {"none"}]
  /\ khalifa \in [Requirements -> CisResults] /\ records \in Seq(GoodRecords \cup StaleRecords)
  /\ recJob.stage \in {"idle", "assessed", "unreported"}
  /\ recJob.stage = "assessed" => recJob.report \in [Requirements -> CisResults]

(* Records are of different times, none of which is to come.               *)
TimesRise ==
  /\ \A i, j \in 1..Len(records) : i < j => records[i].at < records[j].at
  /\ \A i \in 1..Len(records) : records[i].at <= now
  /\ recJob.stage # "idle" => Latest.at < now

(* What a record says held, held in every record since; it began with one. *)
Stable(i, r) ==
  LET mine == records[i].by[r]
  IN  mine.stableSince # NoTime =>
        /\ \E j \in 1..i : records[j].at = mine.stableSince
        /\ \A j \in 1..i : records[j].at >= mine.stableSince =>
             /\ records[j].status = "OK"
             /\ records[j].by[r].status = mine.status /\ ~records[j].by[r].noData
             /\ j < i => records[j + 1].at - records[j].at <= MaxGap
Agreeing(i, r) ==
  LET mine == records[i].by[r]
  IN  mine.agreeingSince # NoTime =>
        \A j \in 1..i : records[j].at >= mine.agreeingSince =>
          /\ records[j].status = "OK" /\ records[j].by[r].agreeingSince # NoTime
          /\ j < i => records[j + 1].at - records[j].at <= MaxGap
Settled(i, r) ==
  LET mine == records[i].by[r]
  IN  mine.publishable =>
        /\ mine.stableSince # NoTime
        /\ records[i].at - mine.stableSince >= MinAgreementDays * Day
RecordsHold ==
  \A i \in 1..Len(records) : records[i].status = "OK" =>
    \A r \in Requirements : Stable(i, r) /\ Agreeing(i, r) /\ Settled(i, r)

RecInv == RecShape /\ TimesRise /\ RecordsHold

LEMMA TrustNumbers ==
  /\ MinAgreementDays \in Nat /\ Day \in Nat \ {0} /\ MaxGap \in Nat /\ Epoch \in Nat
  /\ MaxNow \in Nat /\ MaxAge \in Nat /\ ChangelogLimit \in Nat /\ NoTime = -1 /\ NoTime \notin Nat
BY TrustParameters DEF NoTime

LEMMA RecordFacts ==
  ASSUME RecShape
  PROVE  /\ Len(records) \in Nat /\ DOMAIN records = 1..Len(records) /\ now \in Nat
         /\ \A i \in 1..Len(records) :
              /\ records[i] \in GoodRecords \cup StaleRecords
              /\ records[i].at \in Nat /\ records[i].status \in {"OK", "STALE"}
              /\ records[i].status = "OK" => records[i] \in GoodRecords
              /\ records[i].status = "OK" =>
                   \A r \in Requirements : records[i].by[r] \in Comparisons
<1>1. /\ Len(records) \in Nat /\ DOMAIN records = 1..Len(records) /\ now \in Nat
      /\ \A i \in 1..Len(records) : records[i] \in GoodRecords \cup StaleRecords
  BY TrustNumbers DEF RecShape
<1>2. ASSUME NEW x \in GoodRecords \cup StaleRecords
      PROVE  /\ x.at \in Nat /\ x.status \in {"OK", "STALE"}
             /\ x.status = "OK" => x \in GoodRecords /\ \A r \in Requirements : x.by[r] \in Comparisons
  BY DEF GoodRecords, StaleRecords
<1> QED
  BY <1>1, <1>2

LEMMA RecInvSuffices == RecInv => RecTypeOK /\ StabilityIsUnbroken
<1> SUFFICES ASSUME RecInv PROVE RecTypeOK /\ StabilityIsUnbroken
  OBVIOUS
<1> USE DEF RecInv
<1>1. RecTypeOK
  <2>1. \A i \in 1..Len(records) : i > 1 => i - 1 \in 1..Len(records) /\ i - 1 < i
    BY RecordFacts
  <2> QED
    BY <2>1, RecordFacts DEF RecTypeOK, RecShape, TimesRise
<1>2. StabilityIsUnbroken
  BY DEF StabilityIsUnbroken, Unbroken, RecordsHold, Stable, Agreeing
<1> QED
  BY <1>1, <1>2

LEMMA RecStart == RecInit => RecInv
<1> SUFFICES ASSUME RecInit PROVE RecInv
  OBVIOUS
<1>1. khalifa \in [Requirements -> CisResults]
  <2>1. (CHOOSE v \in CisResults : v.by = "nothing") \in CisResults
    BY TrustParameters
  <2> QED
    BY <2>1 DEF RecInit
<1>2. RecShape
  <2>1. now \in 0..MaxNow /\ recJob.stage = "idle"
    BY TrustNumbers DEF RecInit
  <2>2. hub \in [Cells -> ShStatuses \cup {"none"}]
    BY DEF RecInit, ShStatuses
  <2>3. records \in Seq(GoodRecords \cup StaleRecords)
    BY DEF RecInit
  <2> QED
    BY <1>1, <2>1, <2>2, <2>3 DEF RecShape
<1>3. TimesRise /\ RecordsHold
  BY DEF RecInit, TimesRise, RecordsHold
<1> QED
  BY <1>2, <1>3 DEF RecInv

(* Steps that write no record.                                             *)
LEMMA NoRecordKeeps ==
  ASSUME RecInv, UNCHANGED records, RecShape', now <= now',
         recJob'.stage # "idle" => Latest.at < now'
  PROVE  RecInv'
<1>1. now \in Nat /\ now' \in Nat /\ \A i \in 1..Len(records) : records[i].at \in Nat
  BY RecordFacts, TrustNumbers DEF RecInv, RecShape
<1>2. Latest' = Latest
  BY DEF Latest
<1>3. TimesRise'
  BY <1>1, <1>2 DEF RecInv, TimesRise
<1>4. RecordsHold'
  BY DEF RecInv, RecordsHold, Stable, Agreeing, Settled
<1> QED
  BY <1>3, <1>4 DEF RecInv

LEMMA QuietStepsKeep ==
  ASSUME RecInv, NextTick \/ HubChanges \/ KhalifaChanges \/ Assess \/ Killed
  PROVE  RecInv'
<1>1. RecShape /\ TimesRise /\ now \in Nat
  BY RecordFacts DEF RecInv
<1>2. CASE NextTick
  <2>1. RecShape' /\ UNCHANGED records /\ now <= now' /\ recJob'.stage = "idle"
    BY <1>1, <1>2, TrustNumbers DEF NextTick, RecShape
  <2> QED
    BY <2>1, NoRecordKeeps
<1>3. CASE HubChanges
  <2>1. RecShape' /\ UNCHANGED <<records, now, recJob>>
    <3>1. PICK c \in Cells, s \in ShStatuses \cup {"none"} : hub' = [hub EXCEPT ![c] = s]
      BY <1>3 DEF HubChanges
    <3> QED
      BY <1>1, <1>3, <3>1 DEF HubChanges, RecShape
  <2> QED
    BY <1>1, <2>1, NoRecordKeeps DEF TimesRise
<1>4. CASE KhalifaChanges
  <2>1. RecShape' /\ UNCHANGED <<records, now, recJob>>
    <3>1. PICK r \in Requirements, v \in CisResults : khalifa' = [khalifa EXCEPT ![r] = v]
      BY <1>4 DEF KhalifaChanges
    <3> QED
      BY <1>1, <1>4, <3>1 DEF KhalifaChanges, RecShape
  <2> QED
    BY <1>1, <2>1, NoRecordKeeps DEF TimesRise
<1>5. CASE Assess
  <2>1. RecShape' /\ UNCHANGED <<records, now>> /\ Latest.at < now'
    BY <1>1, <1>5 DEF Assess, RecShape, hubVars
  <2> QED
    BY <1>1, <2>1, NoRecordKeeps
<1>6. CASE Killed
  <2>1. RecShape' /\ UNCHANGED <<records, now>> /\ recJob'.stage = "idle"
    BY <1>1, <1>6 DEF Killed, RecShape, hubVars
  <2> QED
    BY <1>1, <2>1, NoRecordKeeps
<1> QED
  BY <1>2, <1>3, <1>4, <1>5, <1>6

(* What a comparison says of its own record and of the one before.         *)
LEMMA WholeDays ==
  ASSUME NEW a \in Int, NEW d \in Nat \ {0}, NEW m \in Nat, a \div d >= m
  PROVE  a >= m * d
<1>1. a \div d \in Int /\ d * (a \div d) <= a
  OBVIOUS
<1>2. PICK q \in Int : q = a \div d
  BY <1>1
<1>3. q >= m /\ d * q <= a
  BY <1>1, <1>2
<1>4. d * q >= d * m
  BY <1>3
<1> QED
  BY <1>3, <1>4

LEMMA ComparedFacts ==
  ASSUME NEW report \in [Requirements -> CisResults], NEW seen, NEW before, NEW when \in Nat,
         NEW r \in Requirements, before.stableSince \in Times, before.agreeingSince \in Times
  PROVE  LET c == Compared(report, seen, before, when, r)
         IN  /\ c \in Comparisons
             /\ c.stableSince # NoTime =>
                  /\ ~c.noData
                  /\ \/ c.stableSince = when
                     \/ before.status = c.status /\ before.stableSince # NoTime
                        /\ c.stableSince = before.stableSince
             /\ c.agreeingSince # NoTime =>
                  \/ c.agreeingSince = when
                  \/ before.agreeingSince # NoTime /\ c.agreeingSince >= before.agreeingSince
             /\ c.publishable =>
                  c.stableSince # NoTime /\ when - c.stableSince >= MinAgreementDays * Day
<1> DEFINE view == SecurityHubView(KhalifaView(report[r]), seen, r)
           agrees == CompareOne(KhalifaView(report[r]), seen, r)
           since == StableSince(before, view, when)
           agreeing == AgreeingSince(before.agreeingSince, agrees, when)
           out == r \in Allowlist /\ since # NoTime /\ Days(since, when) >= MinAgreementDays
           c == Compared(report, seen, before, when, r)
<1>1. view.status \in {"PASSED", "FAILED", "null"} /\ view.noData \in BOOLEAN
  BY DEF SecurityHubView
<1>2. report[r].status \in CisVerdicts
  BY DEF CisVerdicts
<1>3. c = [khalifa |-> report[r].status, agreeingSince |-> agreeing, status |-> view.status,
           noData |-> view.noData, stableSince |-> since, publishable |-> out]
  BY DEF Compared
<1>4. out \in BOOLEAN
  OBVIOUS
<1> HIDE DEF view, agrees, c
<1>5. /\ since \in Times
      /\ since # NoTime =>
           /\ ~view.noData
           /\ since = when \/ (before.status = view.status /\ before.stableSince # NoTime
                            /\ since = before.stableSince)
  BY <1>1, TrustNumbers DEF StableSince, Times
<1>6. /\ agreeing \in Times
      /\ agreeing # NoTime =>
           agreeing = when \/ (before.agreeingSince # NoTime /\ agreeing >= before.agreeingSince)
  BY TrustNumbers DEF AgreeingSince, Later, Times
<1>7. ASSUME out PROVE since # NoTime /\ when - since >= MinAgreementDays * Day
  <2>1. since # NoTime /\ (when - since) \div Day >= MinAgreementDays
    BY <1>7 DEF Days
  <2>2. since \in Int /\ when - since \in Int
    BY <1>5, TrustNumbers DEF Times
  <2> QED
    BY <2>1, <2>2, TrustNumbers, WholeDays
<1> HIDE DEF since, agreeing, out
<1>8. c \in Comparisons
  BY <1>1, <1>2, <1>3, <1>4, <1>5, <1>6 DEF Comparisons
<1>9. /\ c.stableSince = since /\ c.noData = view.noData /\ c.status = view.status
      /\ c.agreeingSince = agreeing /\ c.publishable = out
  BY <1>3
<1> QED
  BY <1>5, <1>6, <1>7, <1>8, <1>9 DEF c

(* A record that is added changes none before it.                          *)
LEMMA AppendKeeps ==
  ASSUME RecInv, NEW x \in GoodRecords \cup StaleRecords, records' = Append(records, x),
         NEW i \in 1..Len(records), NEW r \in Requirements
  PROVE  /\ Stable(i, r) => Stable(i, r)'
         /\ Agreeing(i, r) => Agreeing(i, r)'
         /\ Settled(i, r) => Settled(i, r)'
<1>1. Len(records) \in Nat /\ records \in Seq(GoodRecords \cup StaleRecords)
  BY RecordFacts DEF RecInv, RecShape
<1>2. \A j \in 1..i : records'[j] = records[j] /\ (j < i => records'[j + 1] = records[j + 1])
  BY <1>1
<1>3. i \in 1..i
  BY <1>1
<1> QED
  BY <1>2, <1>3 DEF Stable, Agreeing, Settled

LEMMA RecordKeeps == ASSUME RecInv, RunReconciliation PROVE RecInv'
<1>0. RecShape /\ TimesRise /\ RecordsHold
  BY DEF RecInv
<1>00. Len(records) \in Nat /\ DOMAIN records = 1..Len(records) /\ now \in Nat
  BY <1>0, RecordFacts
<1>1. /\ recJob.stage # "idle" /\ recJob'.stage = "idle" /\ UNCHANGED <<now, hub, khalifa>>
      /\ recJob.stage \in {"assessed", "unreported"}
      /\ UNCHANGED records \/ \E unread \in BOOLEAN : records' = Append(records, RecordOf(unread))
  BY DEF RunReconciliation, hubVars
<1>2. CASE UNCHANGED records
  <2>1. RecShape'
    BY <1>0, <1>1, <1>2 DEF RecShape
  <2> QED
    BY <1>0, <1>00, <1>1, <1>2, <2>1, NoRecordKeeps
<1>3. CASE \E unread \in BOOLEAN : records' = Append(records, RecordOf(unread))
  <2>1. PICK x : /\ records' = Append(records, x)
                 /\ \/ x = StaleRecord(now)
                    \/ /\ recJob.stage = "assessed"
                       /\ x = ReconcileReports(recJob.report, hub, Latest, now)
    BY <1>1, <1>3 DEF RecordOf
  <2>0. PICK n : n = Len(records)
    OBVIOUS
  <2> DEFINE Before(r) == IF Continuous(Latest, now) THEN Latest.by[r] ELSE FromScratch
  <2>2. /\ n > 0 => Latest = records[n] /\ n \in 1..n
        /\ n = 0 => Latest.status = "none"
        /\ Latest.at < now
    <3>1. n \in Nat /\ (records = <<>> <=> n = 0)
      BY <1>0, <1>00, <2>0 DEF RecShape
    <3>2. n > 0 => Latest = records[n] /\ n \in 1..n
      BY <2>0, <3>1 DEF Latest
    <3>3. n = 0 => Latest.status = "none"
      BY <3>1 DEF Latest
    <3> QED
      BY <1>0, <1>1, <3>2, <3>3 DEF TimesRise
  <2>2a. n \in Nat
    BY <1>00, <2>0
  <2>3. Continuous(Latest, now) =>
          n > 0 /\ records[n].status = "OK" /\ now - records[n].at <= MaxGap
    <3>1. Continuous(Latest, now) => Latest.status = "OK" /\ now - Latest.at <= MaxGap
      BY DEF Continuous
    <3>2. n > 0 \/ n = 0
      BY <2>2a
    <3> QED
      BY <2>2, <3>1, <3>2
  <2>4. ASSUME NEW r \in Requirements
        PROVE  Before(r).stableSince \in Times /\ Before(r).agreeingSince \in Times
    <3>1. CASE Continuous(Latest, now)
      <4>1. records[n].by[r] \in Comparisons
        BY <1>0, <2>0, <2>2, <2>3, <3>1, RecordFacts
      <4>2. Before(r) = records[n].by[r]
        BY <2>2, <2>3, <3>1
      <4> QED
        BY <4>1, <4>2 DEF Comparisons
    <3>2. CASE ~Continuous(Latest, now)
      BY <3>2 DEF FromScratch, Times
    <3> QED
      BY <3>1, <3>2
  <2>5. ASSUME x = ReconcileReports(recJob.report, hub, Latest, now), recJob.stage = "assessed"
        PROVE  /\ x \in GoodRecords /\ x.at = now /\ x.status = "OK"
               /\ \A r \in Requirements :
                    x.by[r] = Compared(recJob.report, hub, Before(r), now, r)
    <3>1. x = [status |-> "OK", at |-> now,
               by |-> [r \in Requirements |-> Compared(recJob.report, hub, Before(r), now, r)]]
      BY <2>5 DEF ReconcileReports
    <3>2. recJob.report \in [Requirements -> CisResults]
      BY <1>0, <2>5 DEF RecShape
    <3> HIDE DEF Before
    <3>3. \A r \in Requirements : Compared(recJob.report, hub, Before(r), now, r) \in Comparisons
      BY <1>00, <2>4, <3>2, ComparedFacts
    <3> QED
      BY <1>00, <3>1, <3>3 DEF GoodRecords
  <2>6. x \in GoodRecords \cup StaleRecords /\ x.at = now
    BY <1>00, <2>1, <2>5 DEF StaleRecord, StaleRecords
  <2>7. /\ Len(records') = n + 1 /\ records'[n + 1] = x
        /\ \A i \in 1..n : records'[i] = records[i]
        /\ records' \in Seq(GoodRecords \cup StaleRecords)
        /\ \A i \in 1..n+1 : i \in 1..n \/ i = n + 1
    BY <1>0, <1>00, <2>0, <2>1, <2>6 DEF RecShape
  <2>8. RecShape'
    BY <1>0, <1>1, <2>7 DEF RecShape
  <2>9. \A i \in 1..n : records[i].at < now /\ records[i].at \in Nat
    <3> SUFFICES ASSUME NEW i \in 1..n PROVE records[i].at < now /\ records[i].at \in Nat
      OBVIOUS
    <3>1. n \in 1..n /\ n > 0 /\ (i = n \/ i < n)
      BY <2>2a
    <3>2. records[i].at \in Nat /\ records[n].at \in Nat
      BY <1>0, <2>0, <3>1, RecordFacts
    <3>3. records[n].at < now
      BY <2>2, <3>1
    <3>4. i < n => records[i].at < records[n].at
      BY <1>0, <2>0, <3>1 DEF TimesRise
    <3> QED
      BY <1>00, <3>1, <3>2, <3>3, <3>4
  <2>10. TimesRise'
    <3>1. ASSUME NEW i \in 1..n+1, NEW j \in 1..n+1, i < j
          PROVE  records'[i].at < records'[j].at
      <4>1. i \in 1..n
        BY <2>2a, <3>1
      <4>2. j \in 1..n \/ j = n + 1
        BY <2>7
      <4> QED
        BY <1>0, <2>0, <2>6, <2>7, <2>9, <3>1, <4>1, <4>2 DEF TimesRise
    <3>2. \A i \in 1..n+1 : records'[i].at <= now'
      BY <1>00, <1>1, <2>6, <2>7, <2>9
    <3> QED
      BY <1>1, <2>7, <3>1, <3>2 DEF TimesRise
  <2>11. ASSUME NEW r \in Requirements, x.status = "OK"
         PROVE  Stable(n + 1, r)' /\ Agreeing(n + 1, r)' /\ Settled(n + 1, r)'
    <3>1. recJob.stage = "assessed" /\ x = ReconcileReports(recJob.report, hub, Latest, now)
      BY <2>1, <2>11 DEF StaleRecord
    <3>2. PICK c, b : c = x.by[r] /\ b = Before(r)
      OBVIOUS
    <3>3. /\ c \in Comparisons
          /\ c.stableSince # NoTime =>
               /\ ~c.noData
               /\ \/ c.stableSince = now
                  \/ b.status = c.status /\ b.stableSince # NoTime /\ c.stableSince = b.stableSince
          /\ c.agreeingSince # NoTime =>
               c.agreeingSince = now \/ (b.agreeingSince # NoTime /\ c.agreeingSince >= b.agreeingSince)
          /\ c.publishable => c.stableSince # NoTime /\ now - c.stableSince >= MinAgreementDays * Day
      <4>1. recJob.report \in [Requirements -> CisResults]
        BY <1>0, <3>1 DEF RecShape
      <4>2. c = Compared(recJob.report, hub, b, now, r)
        BY <2>5, <3>1, <3>2
      <4>3. b.stableSince \in Times /\ b.agreeingSince \in Times
        BY <2>4, <3>2
      <4> QED
        BY <1>00, <4>1, <4>2, <4>3, ComparedFacts
    <3>4. b.stableSince # NoTime \/ b.agreeingSince # NoTime =>
            /\ n \in 1..n /\ records[n].status = "OK" /\ now - records[n].at <= MaxGap
            /\ b = records[n].by[r] /\ Stable(n, r) /\ Agreeing(n, r)
      <4>1. b.stableSince # NoTime \/ b.agreeingSince # NoTime => Continuous(Latest, now)
        BY <3>2 DEF FromScratch
      <4> QED
        BY <1>0, <2>0, <2>2, <2>3, <3>2, <4>1 DEF RecordsHold
    <3>5. b.stableSince \in Times /\ b.agreeingSince \in Times /\ c.stableSince \in Times
          /\ c.agreeingSince \in Times
      BY <2>4, <3>2, <3>3 DEF Comparisons
    <3>6. n + 1 \in 1..n+1 /\ \A j \in 1..n : j < n + 1 /\ (j < n => j + 1 \in 1..n)
      BY <2>2a
    <3>7. Settled(n + 1, r)'
      BY <2>6, <2>7, <3>2, <3>3 DEF Settled
    <3>8. Stable(n + 1, r)'
      <4> SUFFICES ASSUME c.stableSince # NoTime
                   PROVE  /\ \E j \in 1..n+1 : records'[j].at = c.stableSince
                          /\ \A j \in 1..n+1 : records'[j].at >= c.stableSince =>
                               /\ records'[j].status = "OK"
                               /\ records'[j].by[r].status = c.status /\ ~records'[j].by[r].noData
                               /\ j < n + 1 => records'[j + 1].at - records'[j].at <= MaxGap
        BY <2>7, <3>2 DEF Stable
      <4>1. CASE c.stableSince = now
        <5>1. \A j \in 1..n : ~(records'[j].at >= now)
          BY <1>00, <2>0, <2>2a, <2>7, <2>9
        <5> QED
          BY <2>6, <2>7, <2>11, <3>2, <3>3, <3>6, <4>1, <5>1
      <4>2. CASE b.status = c.status /\ b.stableSince # NoTime /\ c.stableSince = b.stableSince
        <5>1. /\ \E j \in 1..n : records[j].at = c.stableSince
              /\ \A j \in 1..n : records[j].at >= c.stableSince =>
                   /\ records[j].status = "OK"
                   /\ records[j].by[r].status = c.status /\ ~records[j].by[r].noData
                   /\ j < n => records[j + 1].at - records[j].at <= MaxGap
          BY <3>4, <4>2 DEF Stable
        <5>2. \E j \in 1..n+1 : records'[j].at = c.stableSince
          BY <1>00, <2>0, <2>2a, <2>7, <5>1
        <5>3. ASSUME NEW j \in 1..n, records'[j].at >= c.stableSince
              PROVE  /\ records'[j].status = "OK"
                     /\ records'[j].by[r].status = c.status /\ ~records'[j].by[r].noData
                     /\ records'[j + 1].at - records'[j].at <= MaxGap
          <6>1. CASE j < n
            BY <2>7, <3>6, <5>1, <5>3, <6>1
          <6>2. CASE j = n
            <7>1. records'[j] = records[j]
              BY <2>7, <6>2
            <7>2. records'[j + 1].at - records'[j].at <= MaxGap
              <8>1. now - records[n].at <= MaxGap
                BY <3>4, <4>2
              <8> QED
                BY <2>6, <2>7, <6>2, <7>1, <8>1
            <7>3. records[j].at >= c.stableSince
              BY <5>3, <7>1
            <7>4. records[j].status = "OK" /\ records[j].by[r].status = c.status /\ ~records[j].by[r].noData
              BY <5>1, <7>3
            <7> QED
              BY <7>1, <7>2, <7>4
          <6>3. j < n \/ j = n
            BY <2>2a
          <6> QED
            BY <6>1, <6>2, <6>3
        <5> QED
          BY <2>7, <2>11, <3>2, <3>3, <5>2, <5>3
      <4> QED
        BY <3>3, <4>1, <4>2
    <3>9. Agreeing(n + 1, r)'
      <4> SUFFICES ASSUME c.agreeingSince # NoTime, NEW j \in 1..n+1,
                          records'[j].at >= c.agreeingSince
                   PROVE  /\ records'[j].status = "OK" /\ records'[j].by[r].agreeingSince # NoTime
                          /\ j < n + 1 => records'[j + 1].at - records'[j].at <= MaxGap
        BY <2>7, <3>2 DEF Agreeing
      <4>1. CASE j = n + 1
        BY <2>7, <2>11, <3>2, <4>1
      <4>2. CASE j \in 1..n
        <5>1. c.agreeingSince # now
          BY <1>00, <2>0, <2>2a, <2>7, <2>9, <4>2
        <5>2. /\ b.agreeingSince # NoTime /\ records[j].at >= b.agreeingSince
              /\ records[j].at \in Nat
          BY <2>7, <2>9, <3>3, <3>5, <4>2, <5>1, TrustNumbers DEF Times
        <5>3. /\ records[j].status = "OK" /\ records[j].by[r].agreeingSince # NoTime
              /\ j < n => records[j + 1].at - records[j].at <= MaxGap
          BY <3>4, <4>2, <5>2 DEF Agreeing
        <5>4. CASE j < n
          BY <2>7, <3>6, <4>2, <5>3, <5>4
        <5>5. CASE j = n
          BY <2>6, <2>7, <3>4, <5>2, <5>3, <5>5
        <5>6. j < n \/ j = n
          BY <2>2a, <4>2
        <5> QED
          BY <5>4, <5>5, <5>6
      <4> QED
        BY <2>7, <4>1, <4>2
    <3> QED
      BY <3>7, <3>8, <3>9
  <2>12. RecordsHold'
    <3> SUFFICES ASSUME NEW i \in 1..n+1, records'[i].status = "OK", NEW r \in Requirements
                 PROVE  Stable(i, r)' /\ Agreeing(i, r)' /\ Settled(i, r)'
      BY <2>7 DEF RecordsHold
    <3>1. CASE i = n + 1
      BY <2>7, <2>11, <3>1
    <3>2. CASE i \in 1..n
      <4>1. Stable(i, r) /\ Agreeing(i, r) /\ Settled(i, r)
        BY <1>0, <2>0, <2>7, <3>2 DEF RecordsHold
      <4>2. i \in 1..Len(records) /\ records' = Append(records, x)
        BY <2>0, <2>1, <3>2
      <4>3. x \in GoodRecords \cup StaleRecords
        BY <2>6
      <4>4. /\ Stable(i, r) => Stable(i, r)'
            /\ Agreeing(i, r) => Agreeing(i, r)'
            /\ Settled(i, r) => Settled(i, r)'
        BY <4>2, <4>3, AppendKeeps
      <4> QED
        BY <4>1, <4>4
    <3> QED
      BY <2>7, <3>1, <3>2
  <2> QED
    BY <2>8, <2>10, <2>12 DEF RecInv
<1> QED
  BY <1>1, <1>2, <1>3

LEMMA RecStep == RecInv /\ [RecNext]_recVars => RecInv'
<1> SUFFICES ASSUME RecInv, [RecNext]_recVars PROVE RecInv'
  OBVIOUS
<1>1. CASE NextTick \/ HubChanges \/ KhalifaChanges \/ Assess \/ Killed
  BY <1>1, QuietStepsKeep
<1>2. CASE RunReconciliation
  BY <1>2, RecordKeeps
<1>3. CASE UNCHANGED recVars
  <2>1. RecShape' /\ UNCHANGED <<records, now, recJob>>
    BY <1>3 DEF recVars, RecInv, RecShape
  <2>2. now <= now' /\ (recJob'.stage # "idle" => Latest.at < now')
    BY <2>1, RecordFacts DEF RecInv, TimesRise
  <2> QED
    BY <2>1, <2>2, NoRecordKeeps
<1> QED
  BY <1>1, <1>2, <1>3 DEF RecNext

-----------------------------------------------------------------------------
(* TrustCenter: the public page.                                           *)
Keys == Requirements \cup DOMAIN MappedCitations
LogEntries == [key : Keys, date : Nat]

LogIsKept(s) ==
  /\ s.at \in Nat /\ s.at <= now /\ s.from \in Nat /\ DOMAIN s.posture \subseteq Keys
  /\ s.changelog \in Seq(LogEntries) /\ Len(s.changelog) <= ChangelogLimit

(* What a state publishes, its record let out.                             *)
Backed(s) ==
  \A r \in Requirements \cap DOMAIN s.posture :
    \E i \in 1..Len(records) : /\ records[i].at = s.record /\ records[i].status = "OK"
                               /\ records[i].by[r].publishable
Founded(s) ==
  \A m \in DOMAIN MappedCitations \cap DOMAIN s.posture : s.posture[m] = "implemented" =>
    \A c \in MappedCitations[m] \cap Requirements :
      c \in DOMAIN s.posture /\ s.posture[c] = "implemented"

(* The files tell how they differ from the site, if they go back to it.    *)
Explains(old, s) ==
  \A k \in Keys : Shown(old, k) # Shown(s, k) =>
    \E i \in 1..Len(s.changelog) : s.changelog[i].key = k /\ s.changelog[i].date > old.at
FilesTell ==
  site # Nothing /\ files # Nothing /\ files.from <= site.at
    /\ Len(files.changelog) < ChangelogLimit => Explains(site, files)

TcInv ==
  /\ RecInv
  /\ baseline \in [BaselineControls -> {"PASS", "FAIL", "NOT_EVALUATED"}]
  /\ ready => files # Nothing
  /\ \A s \in {files, site} : s # Nothing => LogIsKept(s) /\ Backed(s) /\ Founded(s)
  /\ FilesTell

LEMMA TcStart == TcInit => TcInv
<1> SUFFICES ASSUME TcInit PROVE TcInv
  OBVIOUS
<1>1. RecInv
  BY RecStart DEF TcInit
<1>2. baseline \in [BaselineControls -> {"PASS", "FAIL", "NOT_EVALUATED"}]
  BY DEF TcInit
<1> QED
  BY <1>1, <1>2 DEF TcInit, TcInv, FilesTell

(* The days a requirement must have held are in the records.               *)
LEMMA BackedIsSettled ==
  ASSUME RecInv, NEW s, Backed(s), NEW r \in Requirements \cap DOMAIN s.posture
  PROVE  \E i, j \in 1..Len(records) :
           /\ records[i].at = s.record /\ j <= i
           /\ records[i].at - records[j].at >= MinAgreementDays * Day
           /\ \A k \in j..i :
                /\ records[k].status = "OK"
                /\ records[k].by[r].status = records[i].by[r].status /\ ~ records[k].by[r].noData
                /\ k < i => records[k + 1].at - records[k].at <= MaxGap
<1>1. PICK i \in 1..Len(records) : /\ records[i].at = s.record /\ records[i].status = "OK"
                                   /\ records[i].by[r].publishable
  BY DEF Backed
<1>2. /\ records[i].by[r].stableSince # NoTime
      /\ records[i].at - records[i].by[r].stableSince >= MinAgreementDays * Day
      /\ Stable(i, r)
  BY <1>1 DEF RecInv, RecordsHold, Settled
<1>3. PICK j \in 1..i : records[j].at = records[i].by[r].stableSince
  BY <1>2 DEF Stable
<1>4. Len(records) \in Nat /\ j \in 1..Len(records) /\ j <= i
  BY RecordFacts DEF RecInv
<1>5. ASSUME NEW k \in j..i
      PROVE  k \in 1..i /\ records[k].at >= records[j].at
  <2>1. k \in 1..i /\ k \in 1..Len(records) /\ (k = j \/ j < k)
    BY <1>4
  <2>2. records[k].at \in Nat /\ records[j].at \in Nat
    BY <1>4, <2>1, RecordFacts DEF RecInv
  <2>3. j < k => records[j].at < records[k].at
    BY <1>4, <2>1 DEF RecInv, TimesRise
  <2> QED
    BY <2>1, <2>2, <2>3
<1>6. \A k \in j..i :
        /\ records[k].status = "OK"
        /\ records[k].by[r].status = records[i].by[r].status /\ ~ records[k].by[r].noData
        /\ k < i => records[k + 1].at - records[k].at <= MaxGap
  BY <1>2, <1>3, <1>5 DEF Stable
<1> QED
  BY <1>1, <1>2, <1>3, <1>4, <1>6

LEMMA TcInvSuffices ==
  TcInv => TcTypeOK /\ StabilityIsUnbroken /\ PageIsSettled /\ MappedStandsOnThePage
<1> SUFFICES ASSUME TcInv
             PROVE  TcTypeOK /\ StabilityIsUnbroken /\ PageIsSettled /\ MappedStandsOnThePage
  OBVIOUS
<1>1. RecTypeOK /\ StabilityIsUnbroken
  BY RecInvSuffices DEF TcInv
<1>2. TcTypeOK
  BY <1>1 DEF TcInv, TcTypeOK, LogIsKept, Keys
<1>3. PageIsSettled
  <2>1. ASSUME site # Nothing PROVE Backed(site) /\ RecInv
    BY <2>1 DEF TcInv
  <2> QED
    BY <2>1, BackedIsSettled DEF PageIsSettled
<1>4. MappedStandsOnThePage
  BY DEF TcInv, MappedStandsOnThePage, Founded
<1> QED
  BY <1>1, <1>2, <1>3, <1>4

(* The reconciliation goes on without the page.                            *)
LEMMA RecordsGoOn ==
  ASSUME TcInv, RecInv', now <= now',
         UNCHANGED records \/ \E x : records' = Append(records, x),
         UNCHANGED <<files, ready, site>>,
         baseline' \in [BaselineControls -> {"PASS", "FAIL", "NOT_EVALUATED"}]
  PROVE  TcInv'
<1>1. now \in Nat /\ now' \in Nat /\ Len(records) \in Nat
  BY RecordFacts, TrustNumbers DEF TcInv, RecInv, RecShape
<1>2. Len(records') \in Nat /\ Len(records) <= Len(records')
      /\ \A i \in 1..Len(records) : records'[i] = records[i]
  <2>1. records \in Seq(GoodRecords \cup StaleRecords) /\ records' \in Seq(GoodRecords \cup StaleRecords)
    BY DEF TcInv, RecInv, RecShape
  <2> QED
    BY <2>1
<1>3. ASSUME NEW s \in {files, site}, s # Nothing
      PROVE  LogIsKept(s)' /\ Backed(s)' /\ Founded(s)'
  <2>1. LogIsKept(s) /\ Backed(s) /\ Founded(s)
    BY <1>3 DEF TcInv
  <2>2. LogIsKept(s)'
    BY <1>1, <2>1 DEF LogIsKept
  <2>3. \A i \in 1..Len(records) : i \in 1..Len(records') /\ records'[i] = records[i]
    BY <1>1, <1>2
  <2>4. Backed(s)'
    BY <2>1, <2>3 DEF Backed
  <2> QED
    BY <2>1, <2>2, <2>4 DEF Founded
<1>4. FilesTell'
  BY DEF TcInv, FilesTell, Explains, Shown
<1> QED
  BY <1>3, <1>4 DEF TcInv

LEMMA ReconciliationKeeps ==
  ASSUME TcInv, [RecNext]_recVars, UNCHANGED tcVars PROVE TcInv'
<1>1. RecInv /\ RecInv'
  BY RecStep DEF TcInv
<1>2. now <= now' /\ (UNCHANGED records \/ \E x : records' = Append(records, x))
  <2>1. now \in Nat
    BY <1>1, RecordFacts DEF RecInv
  <2>2. CASE RunReconciliation
    BY <2>1, <2>2 DEF RunReconciliation, hubVars
  <2>3. CASE NextTick
    BY <2>1, <2>3 DEF NextTick
  <2>4. CASE HubChanges \/ KhalifaChanges \/ Assess \/ Killed
    BY <2>1, <2>4 DEF HubChanges, KhalifaChanges, Assess, Killed, hubVars
  <2>5. CASE UNCHANGED recVars
    BY <2>1, <2>5 DEF recVars
  <2> QED
    BY <2>2, <2>3, <2>4, <2>5 DEF RecNext
<1>3. /\ UNCHANGED <<files, ready, site>>
      /\ baseline' \in [BaselineControls -> {"PASS", "FAIL", "NOT_EVALUATED"}]
  BY DEF tcVars, TcInv
<1> QED
  BY <1>1, <1>2, <1>3, RecordsGoOn

(* A step that counts a fault or a change, and touches no record.          *)
LEMMA CountsKeepRecords ==
  ASSUME RecInv, UNCHANGED <<now, hub, khalifa, recJob, records>>
  PROVE  RecInv'
<1>1. RecShape' /\ now <= now'
  BY RecordFacts DEF RecInv, RecShape
<1>2. recJob'.stage # "idle" => Latest.at < now'
  BY DEF RecInv, TimesRise
<1> QED
  BY <1>1, <1>2, NoRecordKeeps

LEMMA BaselineKeeps == ASSUME TcInv, BaselineChanges PROVE TcInv'
<1>1. UNCHANGED <<now, hub, khalifa, recJob, records>> /\ UNCHANGED <<files, ready, site>>
  BY DEF BaselineChanges
<1>2. baseline' \in [BaselineControls -> {"PASS", "FAIL", "NOT_EVALUATED"}]
  <2>1. PICK c \in BaselineControls, s \in {"PASS", "FAIL", "NOT_EVALUATED"} :
          baseline' = [baseline EXCEPT ![c] = s]
    BY DEF BaselineChanges
  <2> QED
    BY <2>1 DEF TcInv
<1>3. RecInv' /\ now <= now'
  BY <1>1, CountsKeepRecords, RecordFacts DEF TcInv, RecInv
<1> QED
  BY <1>1, <1>2, <1>3, RecordsGoOn

LEMMA DeployFailsKeeps == ASSUME TcInv, DeployFails PROVE TcInv'
<1>1. UNCHANGED <<now, hub, khalifa, recJob, records, baseline, files, site>> /\ ~ready'
  BY DEF DeployFails, hubVars
<1>2. RecInv'
  BY <1>1, CountsKeepRecords DEF TcInv
<1> QED
  BY <1>1, <1>2 DEF TcInv, LogIsKept, Backed, Founded, FilesTell, Explains, Shown

LEMMA DeployKeeps ==
  ASSUME TcInv, DeployPage
  PROVE  TcInv' /\ (site # Nothing /\ site' # Nothing /\ site'.from <= site.at
                      /\ Len(site'.changelog) < ChangelogLimit => Explains(site, site'))
<1>1. /\ UNCHANGED <<now, hub, khalifa, recJob, records, baseline, files>> /\ ~ready'
      /\ site' = files
  BY DEF DeployPage, recVars
<1>2. RecInv'
  BY <1>1, CountsKeepRecords DEF TcInv
<1>3. FilesTell'
  BY <1>1 DEF FilesTell, Explains
<1>4. \A s \in {files', site'} : s # Nothing => (LogIsKept(s) /\ Backed(s) /\ Founded(s))'
  BY <1>1 DEF TcInv, LogIsKept, Backed, Founded
<1>5. TcInv'
  BY <1>1, <1>2, <1>3, <1>4 DEF TcInv
<1> QED
  BY <1>1, <1>5 DEF TcInv, FilesTell

(* A finite set put into a sequence is all there.                          *)
LEMMA SequenceOfAll ==
  ASSUME NEW S, IsFiniteSet(S)
  PROVE  /\ Cardinality(S) \in Nat
         /\ \A i \in 1..Cardinality(S) : SetToSeq(S)[i] \in S
         /\ \A x \in S : \E i \in 1..Cardinality(S) : SetToSeq(S)[i] = x
<1>1. PICK n : n = Cardinality(S)
  OBVIOUS
<1>2. n \in Nat /\ ExistsBijection(1..n, S)
  BY <1>1, FS_CardinalityType
<1>3. \E f \in [1..n -> S] : IsInjective(f)
  BY <1>2 DEF ExistsBijection, Bijection, Injection, IsInjective
<1>4. PICK q : q = SetToSeq(S)
  OBVIOUS
<1>5. q \in [1..n -> S] /\ IsInjective(q)
  BY <1>1, <1>3, <1>4 DEF SetToSeq
<1>6. IsFiniteSet(1..n) /\ Cardinality(1..n) = n
  <2>1. Cardinality(1..n) = IF 1 > n THEN 0 ELSE n - 1 + 1
    BY <1>2, FS_Interval
  <2> QED
    BY <1>2, <2>1, FS_Interval
<1>7. q \in Injection(1..n, S)
  BY <1>5 DEF Injection, IsInjective
<1>8. q \in Surjection(1..n, S)
  BY <1>1, <1>6, <1>7, FS_Injection
<1> QED
  BY <1>1, <1>2, <1>4, <1>5, <1>8 DEF Surjection

(* What the latest record lets out, and what stands on it.                 *)
LEMMA PostureFacts ==
  ASSUME NEW unread \in BOOLEAN, NEW record, RecInv,
         baseline \in [BaselineControls -> {"PASS", "FAIL", "NOT_EVALUATED"}],
         NEW i \in 1..Len(records), record = records[i], record.status = "OK"
  PROVE  LET s == [posture |-> Posture(Response(record, unread)), record |-> record.at]
         IN  DOMAIN s.posture \subseteq Keys /\ Backed(s) /\ Founded(s)
<1> DEFINE cis == CisPublishable(record)
           mapped == IF unread THEN <<>> ELSE DeriveMapped(cis, baseline)
           posture == Posture(Response(record, unread))
           s == [posture |-> posture, record |-> record.at]
<1>1. /\ DOMAIN cis \subseteq Requirements
      /\ \A r \in DOMAIN cis : /\ record.by[r].publishable
                               /\ cis[r] \in {"PASS", "FAIL"}
  BY DEF CisPublishable
<1>2. DOMAIN mapped \subseteq DOMAIN MappedCitations
  <2>1. DOMAIN << >> = {}
    OBVIOUS
  <2> QED
    BY <2>1 DEF DeriveMapped
<1>3. \A m \in DOMAIN mapped : mapped[m] = "PASS" =>
        \A c \in MappedCitations[m] : Resolvable(c, cis, baseline) /\ ResultOf(c, cis, baseline) # "FAIL"
  <2>1. DOMAIN << >> = {}
    OBVIOUS
  <2>2. CASE unread
    BY <2>1, <2>2
  <2>3. CASE ~unread
    BY <2>3 DEF DeriveMapped
  <2> QED
    BY <2>2, <2>3
<1>4. /\ DOMAIN posture = DOMAIN cis \cup DOMAIN mapped
      /\ \A k \in DOMAIN cis \cup DOMAIN mapped :
           posture[k] = PageAnswer(IF k \in DOMAIN cis THEN cis[k] ELSE mapped[k])
  BY DEF Posture, Response
<1> HIDE DEF cis, mapped, posture
<1>5. \A k \in Requirements : k \notin DOMAIN MappedCitations /\ k \notin DOMAIN baseline
  BY TrustParameters
<1>6. DOMAIN posture \subseteq Keys
  BY <1>1, <1>2, <1>4 DEF Keys
<1>7. Backed(s)
  <2>1. \A r \in Requirements \cap DOMAIN posture : record.by[r].publishable
    BY <1>1, <1>2, <1>4, <1>5
  <2> QED
    BY <2>1 DEF Backed
<1>8. Founded(s)
  <2> SUFFICES ASSUME NEW m \in DOMAIN MappedCitations, m \in DOMAIN posture,
                      posture[m] = "implemented", NEW c \in MappedCitations[m], c \in Requirements
               PROVE  c \in DOMAIN posture /\ posture[c] = "implemented"
    BY DEF Founded
  <2>1. m \in DOMAIN mapped /\ mapped[m] = "PASS"
    BY <1>1, <1>4, <1>5 DEF PageAnswer
  <2>2. Resolvable(c, cis, baseline) /\ ResultOf(c, cis, baseline) # "FAIL"
    BY <1>3, <2>1
  <2>3. c \in DOMAIN cis /\ cis[c] = "PASS"
    BY <1>1, <1>5, <2>2 DEF Resolvable, ResultOf
  <2> QED
    BY <1>4, <2>3 DEF PageAnswer
<1> QED
  BY <1>6, <1>7, <1>8 DEF posture

(* What a new state adds to the changelog and what it leaves there.        *)
Extends(log, s, posture) ==
  /\ Len(s.changelog) < ChangelogLimit
  /\ \A k \in DiffPosture(s.posture, posture) :
       \E i \in 1..Len(log) : log[i].key = k /\ log[i].date = now
  /\ \A j \in 1..Len(s.changelog) : \E i \in 1..Len(log) : log[i] = s.changelog[j]

LEMMA ChangelogFacts ==
  ASSUME NEW s, LogIsKept(s), NEW posture, DOMAIN posture \subseteq Keys, now \in Nat,
         NEW result, result = NextChangelog(s, posture)
  PROVE  /\ result \in Seq(LogEntries) /\ Len(result) <= ChangelogLimit
         /\ Len(result) < ChangelogLimit => Extends(result, s, posture)
<1> DEFINE D == DiffPosture(s.posture, posture)
           new == [i \in 1..Cardinality(D) |-> [key |-> SetToSeq(D)[i], date |-> now]]
           all == new \o s.changelog
<1>1. D \subseteq Keys /\ IsFiniteSet(D)
  <2>1. D \subseteq Keys
    BY DEF DiffPosture, LogIsKept
  <2> QED
    BY <2>1, FS_Subset, TrustParameters DEF Keys
<1>2. /\ Cardinality(D) \in Nat
      /\ \A i \in 1..Cardinality(D) : SetToSeq(D)[i] \in D
      /\ \A x \in D : \E i \in 1..Cardinality(D) : SetToSeq(D)[i] = x
  BY <1>1, SequenceOfAll
<1>3. s # Nothing
  BY TrustNumbers DEF LogIsKept, Nothing
<1>4. NextChangelog(s, posture)
        = SubSeq(all, 1, IF Len(all) < ChangelogLimit THEN Len(all) ELSE ChangelogLimit)
  BY <1>3 DEF NextChangelog
<1> HIDE DEF D
<1>5. new \in Seq(LogEntries) /\ Len(new) = Cardinality(D)
  <2>1. \A i \in 1..Cardinality(D) : [key |-> SetToSeq(D)[i], date |-> now] \in LogEntries
    BY <1>1, <1>2 DEF LogEntries
  <2> QED
    BY <1>2, <2>1
<1>6. \A x \in D : \E i \in 1..Len(new) : new[i].key = x /\ new[i].date = now
  BY <1>2, <1>5
<1>7. PICK added, old, log, whole :
        added = new /\ old = s.changelog /\ whole = added \o old
        /\ log = SubSeq(whole, 1, IF Len(whole) < ChangelogLimit THEN Len(whole) ELSE ChangelogLimit)
  OBVIOUS
<1> HIDE DEF new, all
<1>8. added \in Seq(LogEntries) /\ old \in Seq(LogEntries) /\ whole \in Seq(LogEntries)
      /\ Len(whole) = Len(added) + Len(old) /\ Len(added) \in Nat /\ Len(old) \in Nat
  BY <1>5, <1>7 DEF LogIsKept
<1>9. log \in Seq(LogEntries) /\ Len(log) <= ChangelogLimit
  BY <1>7, <1>8, TrustNumbers
<1>10. ASSUME Len(log) < ChangelogLimit
       PROVE  log = whole
  <2>1. Len(whole) < ChangelogLimit
    BY <1>7, <1>8, <1>10, TrustNumbers
  <2> QED
    BY <1>7, <1>8, <2>1
<1>11. /\ \A j \in 1..Len(added) : j \in 1..Len(whole) /\ whole[j] = added[j]
       /\ \A j \in 1..Len(old) : /\ Len(added) + j \in 1..Len(whole)
                                 /\ whole[Len(added) + j] = old[j]
  BY <1>7, <1>8
<1>12. log = NextChangelog(s, posture)
  BY <1>4, <1>7 DEF all
<1>13. ASSUME Len(log) < ChangelogLimit
       PROVE  /\ Len(old) < ChangelogLimit
              /\ \A k \in D : \E i \in 1..Len(log) : log[i].key = k /\ log[i].date = now
              /\ \A j \in 1..Len(old) : \E i \in 1..Len(log) : log[i] = old[j]
  <2>1. Len(old) < ChangelogLimit
    BY <1>8, <1>10, <1>13, TrustNumbers
  <2>2. \A k \in D : \E i \in 1..Len(log) : log[i].key = k /\ log[i].date = now
    <3> SUFFICES ASSUME NEW k \in D
                 PROVE  \E i \in 1..Len(log) : log[i].key = k /\ log[i].date = now
      OBVIOUS
    <3>1. PICK i \in 1..Len(added) : added[i].key = k /\ added[i].date = now
      BY <1>6, <1>7
    <3>2. i \in 1..Len(whole) /\ whole[i] = added[i] /\ log = whole
      BY <1>10, <1>11, <1>13
    <3> QED
      BY <3>1, <3>2
  <2> QED
    BY <1>10, <1>11, <1>13, <2>1, <2>2
<1>14. old = s.changelog
  BY <1>7
<1> QED
  BY <1>9, <1>12, <1>13, <1>14 DEF D, Extends

LEMMA DifferencesShow ==
  ASSUME NEW s, NEW t, NEW k, Shown(s, k) # Shown(t, k)
  PROVE  k \in DiffPosture(s.posture, t.posture)
BY DEF Shown, DiffPosture

LEMMA SyncKeeps == ASSUME TcInv, RunSync PROVE TcInv'
<1>0. RecInv /\ RecShape /\ now \in Nat /\ Len(records) \in Nat
      /\ baseline \in [BaselineControls -> {"PASS", "FAIL", "NOT_EVALUATED"}]
  BY RecordFacts DEF TcInv, RecInv
<1>1. /\ UNCHANGED <<now, hub, khalifa, recJob, records, baseline, site>>
      /\ files.at < now /\ site.at < now /\ ready' = TRUE /\ PublishableStatus(Latest) = "OK"
  BY DEF RunSync, hubVars
<1>2. PICK unread \in BOOLEAN, previous \in {files, site, Nothing} :
        files' = NextState(previous, Posture(Response(Latest, unread)), Latest)
  BY DEF RunSync, LoadPreviousState
<1>3. PICK posture, s : /\ posture = Posture(Response(Latest, unread))
                        /\ s = NextState(previous, posture, Latest)
  OBVIOUS
<1>4. /\ s.at = now /\ s.posture = posture /\ s.record = Latest.at
      /\ s.changelog = NextChangelog(previous, posture)
      /\ s.from = IF previous = Nothing THEN now ELSE previous.from
      /\ files' = s
  BY <1>2, <1>3 DEF NextState
<1>5. RecInv'
  BY <1>0, <1>1, CountsKeepRecords
<1>6. s # Nothing
  BY <1>0, <1>4, TrustNumbers DEF Nothing
<1>7. DOMAIN posture \subseteq Keys /\ Backed(s) /\ Founded(s)
  <2>1. PICK i \in 1..Len(records) : Latest = records[i] /\ Latest.status = "OK"
    <3>1. Latest.status = "OK"
      BY <1>1 DEF PublishableStatus
    <3>2. records # <<>> /\ Latest = records[Len(records)]
      BY <3>1 DEF Latest
    <3> QED
      BY <1>0, <3>1, <3>2 DEF RecShape
  <2> DEFINE t == [posture |-> Posture(Response(Latest, unread)), record |-> Latest.at]
  <2>2. DOMAIN t.posture \subseteq Keys /\ Backed(t) /\ Founded(t)
    BY <1>0, <2>1, PostureFacts
  <2>3. t.posture = s.posture /\ t.record = s.record
    BY <1>3, <1>4
  <2> HIDE DEF t
  <2>4. Backed(s) /\ Founded(s)
    BY <2>2, <2>3 DEF Backed, Founded
  <2> QED
    BY <1>4, <2>2, <2>3, <2>4
<1>8. previous # Nothing => LogIsKept(previous)
  BY DEF TcInv
<1>9. LogIsKept(s)
  <2>1. s.from \in Nat
    BY <1>0, <1>4, <1>8 DEF LogIsKept
  <2>2. s.changelog \in Seq(LogEntries) /\ Len(s.changelog) <= ChangelogLimit
    <3>1. CASE previous = Nothing
      BY <1>4, <3>1, TrustNumbers DEF NextChangelog
    <3>2. CASE previous # Nothing
      BY <1>0, <1>4, <1>7, <1>8, <3>2, ChangelogFacts
    <3> QED
      BY <3>1, <3>2
  <2> QED
    BY <1>0, <1>4, <1>7, <2>1, <2>2 DEF LogIsKept
<1>10. ASSUME site # Nothing, s.from <= site.at, Len(s.changelog) < ChangelogLimit
       PROVE  Explains(site, s)
  <2>1. LogIsKept(site) /\ site.at \in Nat /\ site.at < now
    BY <1>1, <1>10 DEF TcInv, LogIsKept
  <2>2. previous # Nothing /\ s.from = previous.from
    BY <1>0, <1>4, <1>10, <2>1
  <2>3. Extends(s.changelog, previous, posture)
    BY <1>0, <1>4, <1>7, <1>8, <1>10, <2>2, ChangelogFacts
  <2> SUFFICES ASSUME NEW k \in Keys, Shown(site, k) # Shown(s, k)
               PROVE  \E i \in 1..Len(s.changelog) :
                        s.changelog[i].key = k /\ s.changelog[i].date > site.at
    BY DEF Explains
  <2>4. CASE Shown(previous, k) # Shown(s, k)
    <3>1. k \in DiffPosture(previous.posture, posture)
      BY <1>4, <2>4, DifferencesShow
    <3> QED
      BY <1>0, <2>1, <2>3, <3>1 DEF Extends
  <2>5. CASE Shown(previous, k) = Shown(s, k)
    <3>1. previous = files
      BY <2>2, <2>5
    <3>2. Explains(site, files)
      BY <1>10, <2>2, <2>3, <3>1 DEF TcInv, FilesTell, Extends
    <3>3. PICK j \in 1..Len(files.changelog) :
            files.changelog[j].key = k /\ files.changelog[j].date > site.at
      BY <2>5, <3>1, <3>2 DEF Explains
    <3> QED
      BY <2>3, <3>1, <3>3 DEF Extends
  <2> QED
    BY <2>4, <2>5
<1>11. FilesTell'
  BY <1>1, <1>4, <1>10 DEF FilesTell, Explains, Shown
<1>12. \A t \in {files', site'} : t # Nothing => (LogIsKept(t) /\ Backed(t) /\ Founded(t))'
  <2>1. \A t : t # Nothing /\ LogIsKept(t) /\ Backed(t) /\ Founded(t)
                 => (LogIsKept(t) /\ Backed(t) /\ Founded(t))'
    BY <1>1 DEF LogIsKept, Backed, Founded
  <2>2. site # Nothing => LogIsKept(site) /\ Backed(site) /\ Founded(site)
    BY DEF TcInv
  <2> QED
    BY <1>1, <1>4, <1>6, <1>7, <1>9, <2>1, <2>2
<1> QED
  BY <1>0, <1>1, <1>4, <1>5, <1>6, <1>11, <1>12 DEF TcInv

LEMMA TcStep ==
  TcInv /\ [TcNext]_tcAllVars =>
    /\ TcInv'
    /\ site # Nothing /\ site' # Nothing /\ site'.from <= site.at
         /\ Len(site'.changelog) < ChangelogLimit => Explains(site, site')
<1> SUFFICES ASSUME TcInv, [TcNext]_tcAllVars
             PROVE  /\ TcInv'
                    /\ site # Nothing /\ site' # Nothing /\ site'.from <= site.at
                         /\ Len(site'.changelog) < ChangelogLimit => Explains(site, site')
  OBVIOUS
<1>1. UNCHANGED site => Explains(site, site')
  BY DEF Explains
<1>2. CASE [RecNext]_recVars /\ UNCHANGED tcVars
  BY <1>1, <1>2, ReconciliationKeeps DEF tcVars
<1>3. CASE BaselineChanges
  BY <1>1, <1>3, BaselineKeeps DEF BaselineChanges
<1>4. CASE RunSync
  BY <1>1, <1>4, SyncKeeps DEF RunSync
<1>5. CASE DeployPage
  BY <1>5, DeployKeeps
<1>6. CASE DeployFails
  BY <1>1, <1>6, DeployFailsKeeps DEF DeployFails
<1> QED
  BY <1>2, <1>3, <1>4, <1>5, <1>6 DEF TcNext, tcAllVars

\* A status said to have held since some run held in every run since, without a
\* hole; a requirement is on the page only once its status has held for the days
\* it must; a mapped requirement stands as implemented only next to those it
\* cites; and every answer that changes is told in the changelog (runReconciliation,
\* publishableFrom, deriveMappedPublishable, nextState).
THEOREM Publishing == TcSpec => PageIsTrue
<1>1. TcSpec => []TcInv
  BY TcStart, TcStep, PTL DEF TcSpec
<1>2. [](TcInv => TcTypeOK /\ StabilityIsUnbroken /\ PageIsSettled /\ MappedStandsOnThePage)
  BY TcInvSuffices, PTL
<1>3. TcInv /\ [TcNext]_tcAllVars =>
        [(site # Nothing /\ site' # Nothing /\ site'.from <= site.at
          /\ Len(site'.changelog) < ChangelogLimit) =>
           \A k \in Requirements \cup DOMAIN MappedCitations : Shown(site, k) # Shown(site', k) =>
             \E i \in 1..Len(site'.changelog) :
               site'.changelog[i].key = k /\ site'.changelog[i].date > site.at]_tcAllVars
  BY TcStep DEF Explains, Keys
<1>4. TcSpec => ChangesAreTold
  BY <1>1, <1>3, PTL DEF TcSpec, ChangesAreTold
<1> QED
  BY <1>1, <1>2, <1>4, PTL DEF PageIsTrue

-----------------------------------------------------------------------------
(* ComplianceAssessment: no framework looks better than its evidence.      *)
GoodResults(r) == IsFiniteSet(DOMAIN r) /\ \A c \in DOMAIN r : r[c] \in ControlStatuses
CanonicalNames == {"CIS_AWS_FOUNDATIONS", "KHALIFA_BASELINE"}

Assessed ==
  /\ frame \in 0..8 /\ runOutcome \in {"none", "succeeded", "failed"}
  /\ position \in Nat \ {0} /\ GoodResults(controlResults)
  /\ \A c \in DOMAIN controlResults :
       frame \in 1..2 /\ c \in ToSet(ControlsOf(AllFrameworks[frame]))
  /\ DOMAIN done \subseteq CanonicalNames
  /\ \A g \in DOMAIN done : /\ GoodResults(done[g])
                            /\ DOMAIN done[g] \subseteq ToSet(ControlsOf(g))

(* A mapped framework is reported when the canonical ones are over.        *)
Reported ==
  \A f \in DOMAIN reports :
    /\ GoodResults(reports[f])
    /\ f \in DOMAIN Citations => frame > 3 /\ reports[f] = Derived(f)

(* What no write was lost of is there.                                     *)
Complete ==
  /\ runOutcome # "none" => frame = 8
  /\ lostWrites = {} =>
       /\ \A i \in 1..6 : i < frame => AllFrameworks[i] \in DOMAIN reports
       /\ frame > 1 => "CIS_AWS_FOUNDATIONS" \in DOMAIN done
       /\ runOutcome # "none" => recon = "compared" /\ (runOutcome = "failed" <=> failures # {})

AssessmentInv == Assessed /\ Reported /\ Complete

LEMMA FrameworkOrder ==
  /\ Len(Canonical) = 2 /\ Len(AllFrameworks) = 6
  /\ AllFrameworks[1] = "CIS_AWS_FOUNDATIONS" /\ AllFrameworks[2] = "KHALIFA_BASELINE"
  /\ \A i \in 3..6 : AllFrameworks[i] \in DOMAIN Citations
  /\ CanonicalNames \cap DOMAIN Citations = {}
<1>1. Len(Canonical) = 2 /\ Len(Mapped) = 4
  BY DEF Canonical, Mapped
<1>2. /\ Len(AllFrameworks) = 6
      /\ \A i \in 1..2 : AllFrameworks[i] = Canonical[i]
      /\ \A i \in 3..6 : AllFrameworks[i] = Mapped[i - 2]
  <2> DEFINE Names == ToSet(Canonical) \cup ToSet(Mapped)
  <2>1. Canonical \in Seq(Names) /\ Mapped \in Seq(Names)
    <3>1. \A i \in 1..2 : Canonical[i] \in Names
      BY <1>1 DEF ToSet, Canonical
    <3>2. \A i \in 1..4 : Mapped[i] \in Names
      BY <1>1 DEF ToSet, Mapped
    <3>3. Canonical \in [1..2 -> Names]
      BY <3>1 DEF Canonical
    <3>4. Mapped \in [1..4 -> Names]
      BY <3>2 DEF Mapped
    <3> HIDE DEF Names
    <3>5. \A n \in Nat : \A q : q \in [1..n -> Names] => q \in Seq(Names)
      OBVIOUS
    <3>6. 2 \in Nat /\ 4 \in Nat
      OBVIOUS
    <3> QED
      BY <3>3, <3>4, <3>5, <3>6, Zenon
  <2> HIDE DEF Names
  <2>2. /\ Len(AllFrameworks) = Len(Canonical) + Len(Mapped)
        /\ \A i \in 1..Len(Canonical) + Len(Mapped) :
             AllFrameworks[i] = IF i <= Len(Canonical) THEN Canonical[i]
                                                       ELSE Mapped[i - Len(Canonical)]
    BY <2>1, ConcatProperties DEF AllFrameworks
  <2> QED
    BY <1>1, <2>2
<1>3. DOMAIN Citations = {"SOC2", "ISO27001", "PCI_DSS", "NIST_800_53"}
  BY ComplianceParameters DEF ToSet, Mapped
<1>4. Canonical[1] = "CIS_AWS_FOUNDATIONS" /\ Canonical[2] = "KHALIFA_BASELINE"
  BY DEF Canonical
<1>5. \A i \in 1..4 : Mapped[i] \in ToSet(Mapped)
  BY <1>1 DEF ToSet, Mapped
<1>6. \A i \in 3..6 : i - 2 \in 1..4
  OBVIOUS
<1>7. \A i \in 3..6 : AllFrameworks[i] \in DOMAIN Citations
  BY <1>2, <1>5, <1>6, ComplianceParameters
<1>8. CanonicalNames \cap DOMAIN Citations = {}
  BY <1>3 DEF CanonicalNames
<1> QED
  BY <1>1, <1>2, <1>4, <1>7, <1>8

LEMMA DisjointUnion ==
  ASSUME NEW S, IsFiniteSet(S), NEW T, IsFiniteSet(T), S \cap T = {}
  PROVE  /\ IsFiniteSet(S \cup T) /\ Cardinality(S \cup T) = Cardinality(S) + Cardinality(T)
<1>1. /\ IsFiniteSet(S \cup T)
      /\ Cardinality(S \cup T) = Cardinality(S) + Cardinality(T) - Cardinality(S \cap T)
  BY FS_Union
<1>2. Cardinality(S \cap T) = 0
  BY FS_EmptySet
<1>3. Cardinality(S) \in Nat /\ Cardinality(T) \in Nat
  BY FS_CardinalityType
<1> QED
  BY <1>1, <1>2, <1>3

(* The statuses' counts add up to the controls.                            *)
LEMMA CountsAddUp ==
  ASSUME NEW r, GoodResults(r)
  PROVE  Cardinality(DOMAIN r)
           = CountOf(r, "PASS") + CountOf(r, "FAIL")
               + CountOf(r, "MANUAL") + CountOf(r, "NOT_EVALUATED")
<1> DEFINE Of(s) == {c \in DOMAIN r : r[c] = s}
<1>1. PICK P, F, M, N :
        P = Of("PASS") /\ F = Of("FAIL") /\ M = Of("MANUAL") /\ N = Of("NOT_EVALUATED")
  OBVIOUS
<1>2. IsFiniteSet(P) /\ IsFiniteSet(F) /\ IsFiniteSet(M) /\ IsFiniteSet(N)
  BY <1>1, FS_Subset DEF GoodResults
<1>3. P \cap F = {} /\ (P \cup F) \cap M = {} /\ (P \cup F \cup M) \cap N = {}
  BY <1>1
<1>4. DOMAIN r = P \cup F \cup M \cup N
  BY <1>1 DEF GoodResults, ControlStatuses
<1>5. IsFiniteSet(P \cup F) /\ Cardinality(P \cup F) = Cardinality(P) + Cardinality(F)
  BY <1>2, <1>3, DisjointUnion
<1>6. IsFiniteSet(P \cup F \cup M)
      /\ Cardinality(P \cup F \cup M) = Cardinality(P \cup F) + Cardinality(M)
  BY <1>2, <1>3, <1>5, DisjointUnion
<1>7. Cardinality(P \cup F \cup M \cup N) = Cardinality(P \cup F \cup M) + Cardinality(N)
  BY <1>2, <1>3, <1>6, DisjointUnion
<1> QED
  BY <1>1, <1>4, <1>5, <1>6, <1>7 DEF CountOf

(* Which framework a control's result is of.                               *)
LEMMA ResultsOfControls ==
  ASSUME Assessed, NEW c
  PROVE  /\ c \in DOMAIN RunResults =>
              \E g \in DOMAIN done : c \in DOMAIN done[g] /\ done[g][c] = RunResults[c]
         /\ \A g \in DOMAIN done : c \in DOMAIN done[g] =>
              c \in DOMAIN RunResults /\ RunResults[c] = done[g][c]
<1> DEFINE cis == KeptResults("CIS_AWS_FOUNDATIONS")
           own == KeptResults("KHALIFA_BASELINE")
<1>0. DOMAIN NoResults = {}
  BY DEF NoResults
<1>1. /\ RunResults = [d \in DOMAIN cis \cup DOMAIN own |->
                        IF d \in DOMAIN cis THEN cis[d] ELSE own[d]]
      /\ c \in DOMAIN cis =>
           "CIS_AWS_FOUNDATIONS" \in DOMAIN done /\ cis = done["CIS_AWS_FOUNDATIONS"]
      /\ c \in DOMAIN own => "KHALIFA_BASELINE" \in DOMAIN done /\ own = done["KHALIFA_BASELINE"]
  BY <1>0 DEF RunResults, KeptResults
<1>2. \A g \in DOMAIN done : \/ g = "CIS_AWS_FOUNDATIONS" /\ cis = done[g]
                             \/ g = "KHALIFA_BASELINE" /\ own = done[g]
  BY DEF Assessed, CanonicalNames, KeptResults
<1>3. ~(c \in DOMAIN cis /\ c \in DOMAIN own)
  BY <1>1, ComplianceParameters DEF Assessed, ControlsOf
<1> HIDE DEF cis, own
<1> QED
  BY <1>1, <1>2, <1>3

LEMMA HonestInvSuffices == AssessmentInv => AssessmentsAreHonest
<1> SUFFICES ASSUME AssessmentInv PROVE AssessmentsAreHonest
  OBVIOUS
<1> USE DEF AssessmentInv
<1>1. AssessmentTypeOK
  <2>1. \A f \in DOMAIN reports :
          Cardinality(DOMAIN reports[f])
            = CountOf(reports[f], "PASS") + CountOf(reports[f], "FAIL")
                + CountOf(reports[f], "MANUAL") + CountOf(reports[f], "NOT_EVALUATED")
    BY CountsAddUp DEF Reported
  <2>2. \A f \in DOMAIN reports : LET summary == Summary(reports[f]) IN
          /\ summary.total = Cardinality(DOMAIN reports[f])
          /\ \A s \in ControlStatuses : summary.count[s] = CountOf(reports[f], s)
    BY DEF Summary
  <2>3. {"PASS", "FAIL", "MANUAL", "NOT_EVALUATED"} = ControlStatuses
    BY DEF ControlStatuses
  <2> HIDE DEF AssessmentInv
  <2>4. frame \in 0..Len(AllFrameworks) + 2 /\ runOutcome \in {"none", "succeeded", "failed"}
    BY FrameworkOrder DEF Assessed, AssessmentInv
  <2>5. \A f \in DOMAIN reports : \A c \in DOMAIN reports[f] : reports[f][c] \in ControlStatuses
    BY DEF Reported, GoodResults, AssessmentInv
  <2> QED
    BY <2>1, <2>2, <2>3, <2>4, <2>5 DEF AssessmentTypeOK
<1>2. MappedNeverLooksBetter
  <2> SUFFICES ASSUME NEW f \in DOMAIN reports \cap DOMAIN Citations, NEW r \in DOMAIN Citations[f]
               PROVE  LET Of(c, s) == \E g \in DOMAIN done : c \in DOMAIN done[g] /\ done[g][c] = s
                      IN /\ reports[f][r] = "PASS" => \A c \in Citations[f][r] : Of(c, "PASS")
                         /\ (\E c \in Citations[f][r] : Of(c, "FAIL")) => reports[f][r] = "FAIL"
    BY DEF MappedNeverLooksBetter
  <2>1. PICK S : S = CitedStatuses(Citations[f][r])
    OBVIOUS
  <2>2. reports[f][r] = AggregateMappedStatus(S)
    BY <2>1 DEF Reported, Derived
  <2>3. ASSUME reports[f][r] = "PASS", NEW c \in Citations[f][r]
        PROVE  \E g \in DOMAIN done : c \in DOMAIN done[g] /\ done[g][c] = "PASS"
    <3>1. S = {"PASS"}
      BY <2>2, <2>3 DEF AggregateMappedStatus
    <3>2. c \in DOMAIN RunResults /\ RunResults[c] = "PASS"
      <4>1. (IF c \in DOMAIN RunResults THEN RunResults[c] ELSE "NOT_EVALUATED") \in S
        BY <2>1, <2>3 DEF CitedStatuses
      <4> QED
        BY <3>1, <4>1
    <3> QED
      BY <3>2, ResultsOfControls
  <2>4. ASSUME NEW c \in Citations[f][r], NEW g \in DOMAIN done,
               c \in DOMAIN done[g], done[g][c] = "FAIL"
        PROVE  reports[f][r] = "FAIL"
    <3>1. c \in DOMAIN RunResults /\ RunResults[c] = "FAIL"
      BY <2>4, ResultsOfControls
    <3>2. "FAIL" \in S
      BY <2>1, <3>1 DEF CitedStatuses
    <3> QED
      BY <2>2, <3>2 DEF AggregateMappedStatus
  <2> QED
    BY <2>3, <2>4
<1>3. ErrorsSpareTheRest
  BY FrameworkOrder DEF Complete, ErrorsSpareTheRest
<1> QED
  BY <1>1, <1>2, <1>3 DEF AssessmentsAreHonest

LEMMA AssessmentStart == AssessmentInit => AssessmentInv
<1> SUFFICES ASSUME AssessmentInit PROVE AssessmentInv
  OBVIOUS
<1>1. DOMAIN NoResults = {} /\ IsFiniteSet({})
  BY FS_EmptySet DEF NoResults
<1> QED
  BY <1>1 DEF AssessmentInit, AssessmentInv, Assessed, Reported, Complete, GoodResults

(* A result more.                                                          *)
LEMMA PutKeyKeeps ==
  ASSUME NEW f, NEW key, NEW value, NEW g, g = PutKey(f, key, value)
  PROVE  /\ DOMAIN g = DOMAIN f \cup {key} /\ g[key] = value
         /\ \A k \in DOMAIN f : k # key => g[k] = f[k]
         /\ GoodResults(f) /\ value \in ControlStatuses => GoodResults(g)
<1>1. IsFiniteSet(DOMAIN f) => IsFiniteSet(DOMAIN f \cup {key})
  BY FS_AddElement
<1> QED
  BY <1>1 DEF PutKey, GoodResults

LEMMA RecordedKeeps ==
  ASSUME AssessmentInv, Assessing, NEW verdict \in ControlStatuses, RecordResult(verdict),
         UNCHANGED lostWrites
  PROVE  AssessmentInv'
<1>1. /\ frame \in 1..2 /\ frame \in 0..8 /\ position \in Nat \ {0}
      /\ position <= Len(ControlsOf(AllFrameworks[frame]))
  BY FrameworkOrder DEF AssessmentInv, Assessed, Assessing
<1>2. /\ controlResults' = PutKey(controlResults, Control, verdict) /\ position' = position + 1
      /\ UNCHANGED <<frame, done, reports, openRules, recon, runOutcome>>
  BY DEF RecordResult
<1>3. Control \in ToSet(ControlsOf(AllFrameworks[frame]))
  <2>1. \A q \in {CisControls, KhalifaControls} : \A i \in 1..Len(q) : q[i] \in ToSet(q)
    BY ComplianceParameters DEF ToSet
  <2> QED
    BY <1>1, <2>1 DEF Control, ControlsOf
<1>4. GoodResults(controlResults') /\ DOMAIN controlResults' = DOMAIN controlResults \cup {Control}
  BY <1>2, PutKeyKeeps DEF AssessmentInv, Assessed
<1>5. Assessed'
  BY <1>1, <1>2, <1>3, <1>4 DEF AssessmentInv, Assessed, ControlsOf
<1>6. Reported'
  BY <1>1, <1>2 DEF AssessmentInv, Reported
<1>7. Complete'
  BY <1>1, <1>2 DEF AssessmentInv, Complete
<1> QED
  BY <1>5, <1>6, <1>7 DEF AssessmentInv

(* A canonical framework is over, with its report or without.              *)
LEMMA NextCanonicalKeeps ==
  ASSUME AssessmentInv, frame \in 1..2, frame' = frame + 1, position' = 1,
         controlResults' = NoResults, UNCHANGED <<openRules, recon, runOutcome>>,
         \/ lostWrites' # {} /\ UNCHANGED <<reports, done>>
         \/ /\ reports' = PutKey(reports, AllFrameworks[frame], controlResults)
            /\ done' = PutKey(done, AllFrameworks[frame], controlResults)
            /\ UNCHANGED lostWrites
  PROVE  AssessmentInv'
<1>1. DOMAIN NoResults = {} /\ IsFiniteSet({})
  BY FS_EmptySet DEF NoResults
<1>2. PICK f : f = AllFrameworks[frame]
  OBVIOUS
<1>3. f \in CanonicalNames /\ f \notin DOMAIN Citations /\ (frame = 1 => f = "CIS_AWS_FOUNDATIONS")
  BY <1>2, FrameworkOrder DEF CanonicalNames
<1>4. GoodResults(controlResults) /\ DOMAIN controlResults \subseteq ToSet(ControlsOf(f))
  BY <1>2 DEF AssessmentInv, Assessed
<1>5. CASE lostWrites' # {} /\ UNCHANGED <<reports, done>>
  <2>1. Assessed'
    BY <1>1, <1>5 DEF AssessmentInv, Assessed, GoodResults, ControlsOf
  <2>2. Reported'
    BY <1>5 DEF AssessmentInv, Reported
  <2>3. Complete'
    BY <1>5 DEF AssessmentInv, Complete
  <2> QED
    BY <2>1, <2>2, <2>3 DEF AssessmentInv
<1>6. CASE /\ reports' = PutKey(reports, AllFrameworks[frame], controlResults)
           /\ done' = PutKey(done, AllFrameworks[frame], controlResults)
           /\ UNCHANGED lostWrites
  <2>1. /\ DOMAIN done' = DOMAIN done \cup {f} /\ done'[f] = controlResults
        /\ \A k \in DOMAIN done : k # f => done'[k] = done[k]
    <3>1. PICK d : d = done'
      OBVIOUS
    <3>2. d = PutKey(done, f, controlResults)
      BY <1>2, <1>6, <3>1
    <3> QED
      BY <3>1, <3>2 DEF PutKey
  <2>2. /\ DOMAIN reports' = DOMAIN reports \cup {f} /\ reports'[f] = controlResults
        /\ \A k \in DOMAIN reports : k # f => reports'[k] = reports[k]
    <3>1. PICK d : d = reports'
      OBVIOUS
    <3>2. d = PutKey(reports, f, controlResults)
      BY <1>2, <1>6, <3>1
    <3> QED
      BY <3>1, <3>2 DEF PutKey
  <2>3. Assessed'
    <3>1. \A g \in DOMAIN done' :
            GoodResults(done'[g]) /\ DOMAIN done'[g] \subseteq ToSet(ControlsOf(g))
      BY <1>4, <2>1 DEF AssessmentInv, Assessed
    <3>2. GoodResults(controlResults')
      BY <1>1 DEF GoodResults
    <3> QED
      BY <1>1, <1>3, <2>1, <3>1, <3>2 DEF AssessmentInv, Assessed, ControlsOf
  <2>4. Reported'
    BY <1>3, <1>4, <2>2 DEF AssessmentInv, Reported
  <2>5. Complete'
    <3>1. \A i \in 1..6 : i < frame' => i < frame \/ i = frame
      OBVIOUS
    <3>2. lostWrites = {} => \A i \in 1..6 : i < frame' => AllFrameworks[i] \in DOMAIN reports'
      BY <1>2, <2>2, <3>1 DEF AssessmentInv, Complete
    <3>3. lostWrites = {} => "CIS_AWS_FOUNDATIONS" \in DOMAIN done'
      BY <1>3, <2>1 DEF AssessmentInv, Complete
    <3>4. runOutcome' = "none"
      BY DEF AssessmentInv, Complete
    <3> QED
      BY <1>6, <3>2, <3>3, <3>4 DEF Complete
  <2> QED
    BY <2>3, <2>4, <2>5 DEF AssessmentInv
<1> QED
  BY <1>5, <1>6

(* The mapped frameworks are derived from what the run has.                *)
LEMMA MappedKeeps == ASSUME AssessmentInv, SaveMapped PROVE AssessmentInv'
<1>1. /\ frame \in 3..6 /\ frame' = frame + 1
      /\ UNCHANGED <<position, controlResults, done, failures, openRules, recon>>
      /\ UNCHANGED <<runOutcome, lostWrites>>
      /\ reports' = PutKey(reports, AllFrameworks[frame], Derived(AllFrameworks[frame]))
  BY FrameworkOrder DEF SaveMapped, runVars
<1>2. PICK f : f = AllFrameworks[frame]
  OBVIOUS
<1>3. f \in DOMAIN Citations /\ GoodResults(Derived(f))
  <2>1. f \in DOMAIN Citations
    BY <1>1, <1>2, FrameworkOrder
  <2>2. \A s : AggregateMappedStatus(s) \in ControlStatuses
    BY DEF AggregateMappedStatus, ControlStatuses
  <2> QED
    BY <2>1, <2>2, ComplianceParameters DEF Derived, GoodResults
<1>4. /\ DOMAIN reports' = DOMAIN reports \cup {f} /\ reports'[f] = Derived(f)
      /\ \A k \in DOMAIN reports : k # f => reports'[k] = reports[k]
  <2>1. PICK d : d = reports'
    OBVIOUS
  <2>2. d = PutKey(reports, f, Derived(f))
    BY <1>1, <1>2, <2>1
  <2> QED
    BY <2>1, <2>2 DEF PutKey
<1>5. \A g : Derived(g)' = Derived(g)
  BY <1>1 DEF Derived, CitedStatuses, RunResults, KeptResults
<1>6. Assessed'
  BY <1>1 DEF AssessmentInv, Assessed, ControlsOf
<1>7. Reported'
  BY <1>1, <1>3, <1>4, <1>5 DEF AssessmentInv, Reported
<1>8. Complete'
  <2>1. \A i \in 1..6 : i < frame' => i < frame \/ i = frame
    BY <1>1
  <2>2. lostWrites = {} => \A i \in 1..6 : i < frame' => AllFrameworks[i] \in DOMAIN reports'
    BY <1>2, <1>4, <2>1 DEF AssessmentInv, Complete
  <2> QED
    BY <1>1, <2>2 DEF AssessmentInv, Complete
<1> QED
  BY <1>6, <1>7, <1>8 DEF AssessmentInv

(* The steps that leave results and reports alone.                         *)
LEMMA RestKeeps ==
  ASSUME AssessmentInv,
         \/ BeginAssessment \/ MappedReportLost \/ ReconcileResults
         \/ (\E r \in AllRules : IssueChange(r)) \/ UNCHANGED assessmentVars
  PROVE  AssessmentInv'
<1>1. UNCHANGED <<position, controlResults, done, reports, failures>>
      /\ \/ frame = 0 /\ frame' = 1 /\ UNCHANGED <<recon, runOutcome, lostWrites>>
         \/ frame \in 3..6 /\ frame' = 8 /\ runOutcome' = "failed" /\ lostWrites' # {}
         \/ /\ frame = 7 /\ frame' = 8 /\ UNCHANGED lostWrites
            /\ recon' = IF "CIS_AWS_FOUNDATIONS" \in DOMAIN done THEN "compared" ELSE "stale"
            /\ runOutcome' = IF failures = {} THEN "succeeded" ELSE "failed"
         \/ UNCHANGED <<frame, recon, runOutcome, lostWrites>>
  <2>0. Len(AllFrameworks) = 6 /\ Len(Canonical) = 2
    BY FrameworkOrder
  <2>1. CASE BeginAssessment
    BY <2>1 DEF BeginAssessment, runVars
  <2>2. CASE MappedReportLost
    BY <2>0, <2>2 DEF MappedReportLost
  <2>3. CASE ReconcileResults
    BY <2>0, <2>3 DEF ReconcileResults
  <2>4. CASE \E r \in AllRules : IssueChange(r)
    BY <2>4 DEF IssueChange
  <2>5. CASE UNCHANGED assessmentVars
    BY <2>5 DEF assessmentVars, runVars
  <2> QED
    BY <2>1, <2>2, <2>3, <2>4, <2>5
<1>2. \A g : Derived(g)' = Derived(g)
  BY <1>1 DEF Derived, CitedStatuses, RunResults, KeptResults
<1>3. Assessed'
  BY <1>1 DEF AssessmentInv, Assessed, ControlsOf
<1>4. Reported'
  BY <1>1, <1>2 DEF AssessmentInv, Reported
<1>5. Complete'
  BY <1>1 DEF AssessmentInv, Assessed, Complete
<1> QED
  BY <1>3, <1>4, <1>5 DEF AssessmentInv

LEMMA AssessmentStep == AssessmentInv /\ [AssessmentNext]_assessmentVars => AssessmentInv'
<1> SUFFICES ASSUME AssessmentInv, [AssessmentNext]_assessmentVars PROVE AssessmentInv'
  OBVIOUS
<1>1. CASE AssessManual \/ Evaluate \/ EvaluationFails \/ AssessFromRules \/ NoEvaluator
  <2>1. /\ Assessing /\ UNCHANGED lostWrites
        /\ \E s \in ControlStatuses : RecordResult(s)
    BY <1>1 DEF AssessManual, Evaluate, EvaluationFails, AssessFromRules, NoEvaluator, FromRules,
       ControlStatuses
  <2> QED
    BY <2>1, RecordedKeeps
<1>2. CASE RuleEvidenceLost
  BY <1>2, NextCanonicalKeeps, FrameworkOrder DEF RuleEvidenceLost, Assessing
<1>3. CASE SaveCanonical
  BY <1>3, NextCanonicalKeeps, FrameworkOrder DEF SaveCanonical
<1>4. CASE SaveMapped
  BY <1>4, MappedKeeps
<1>5. CASE \/ BeginAssessment \/ MappedReportLost \/ ReconcileResults
           \/ (\E r \in AllRules : IssueChange(r)) \/ UNCHANGED assessmentVars
  BY <1>5, RestKeeps
<1> QED
  BY <1>1, <1>2, <1>3, <1>4, <1>5 DEF AssessmentNext

\* A requirement of a mapped framework passes only if this run assessed every
\* control it cites and all passed, also when a canonical report is lost; and a
\* control's error costs its own result only: unless a write is lost, the other
\* reports are saved, the records reconciled, and the run is said to have failed
\* (deriveMappedReport, runAllAssessments).
THEOREM HonestAssessments == AssessmentSpec => []AssessmentsAreHonest
<1>1. AssessmentInv => AssessmentsAreHonest
  BY HonestInvSuffices
<1> QED
  BY <1>1, AssessmentStart, AssessmentStep, PTL DEF AssessmentSpec

-----------------------------------------------------------------------------
(* SecretReaders: the list is who may read, the counts are those of the    *)
(* list.                                                                   *)

(* What another service is named by tells nothing of a secret.             *)
LEMMA PreparedReaches ==
  ASSUME NEW s, NEW secret, ReadersParameters
  PROVE  /\ ScopeFor(Prepared(s), secret) = ScopeFor(s, secret)
         /\ ScopeFor(s, secret) # "none" => CouldNameSecret(s)
         /\ Prepared(s).effect = s.effect /\ Prepared(s).conditional = s.conditional
<1>1. /\ Prepared(s).effect = s.effect /\ Prepared(s).conditional = s.conditional
      /\ Prepared(s).except = s.except
      /\ Prepared(s).resources = IF s.except THEN s.resources ELSE s.resources \ Elsewhere
  BY DEF Prepared
<1>2. {x \in Prepared(s).resources : secret \in SecretsMatching[x]}
        = {x \in s.resources : secret \in SecretsMatching[x]}
  BY <1>1 DEF ReadersParameters
<1>3. ScopeFor(Prepared(s), secret) = ScopeFor(s, secret)
  BY <1>1, <1>2 DEF ScopeFor
<1>4. ASSUME ScopeFor(s, secret) # "none", ~s.except
      PROVE  s.resources \ Elsewhere # {}
  <2>1. {x \in s.resources : secret \in SecretsMatching[x]} # {}
    BY <1>4 DEF ScopeFor
  <2> QED
    BY <2>1 DEF ReadersParameters
<1> QED
  BY <1>1, <1>3, <1>4 DEF CouldNameSecret

(* Grouping by statement loses no row and invents none.                    *)
LEMMA PreparedOfRow ==
  ASSUME ReadersParameters, NEW R \in SUBSET PolicyRows, NEW r \in R,
         CoversRead(r.statement), CouldNameSecret(r.statement)
  PROVE  \E p \in PrepareStatements(R) :
           p.statement = Prepared(r.statement) /\ r.principal \in p.attached
<1> DEFINE k == StatementKey(r.statement)
           c == CHOOSE q \in R : StatementKey(q.statement) = k
<1>1. c \in R /\ StatementKey(c.statement) = k
  OBVIOUS
<1>2. StatementOf(R, k) = r.statement
  BY <1>1 DEF ReadersParameters, StatementOf
<1> DEFINE p == [statement |-> Prepared(StatementOf(R, k)),
                 attached |-> {q.principal : q \in {x \in R : StatementKey(x.statement) = k}}]
<1>3. p \in PrepareStatements(R)
  BY <1>2 DEF PrepareStatements
<1>4. p.statement = Prepared(r.statement) /\ r.principal \in p.attached
  BY <1>2
<1> QED
  BY <1>3, <1>4

LEMMA RowOfPrepared ==
  ASSUME ReadersParameters, NEW R \in SUBSET PolicyRows, NEW p \in PrepareStatements(R),
         NEW x \in p.attached
  PROVE  \E r \in R : /\ r.principal = x /\ p.statement = Prepared(r.statement)
                      /\ CoversRead(r.statement)
<1>1. PICK k : /\ k \in {StatementKey(r.statement) : r \in R} /\ CoversRead(StatementOf(R, k))
               /\ p = [statement |-> Prepared(StatementOf(R, k)),
                       attached |-> {r.principal : r \in {q \in R : StatementKey(q.statement) = k}}]
  BY DEF PrepareStatements
<1>2. PICK r \in R : StatementKey(r.statement) = k /\ r.principal = x
  BY <1>1
<1> DEFINE c == CHOOSE q \in R : StatementKey(q.statement) = k
<1>3. c \in R /\ StatementKey(c.statement) = k
  BY <1>2
<1>4. StatementOf(R, k) = r.statement
  BY <1>2, <1>3 DEF ReadersParameters, StatementOf
<1> QED
  BY <1>1, <1>2, <1>4

(* A statement that reaches a secret is one of a row that grants it.       *)
LEMMA ReachedByRow ==
  ASSUME ReadersParameters, NEW R \in SUBSET PolicyRows, NEW secret,
         NEW p \in Reaching(PrepareStatements(R), secret), NEW x \in p.attached
  PROVE  \E r \in R : /\ r.principal = x /\ Grants(r, secret)
                      /\ r.statement.effect = p.statement.effect
                      /\ r.statement.conditional = p.statement.conditional
<1>1. p \in PrepareStatements(R) /\ ScopeFor(p.statement, secret) # "none"
  BY DEF Reaching
<1>2. PICK r \in R : /\ r.principal = x /\ p.statement = Prepared(r.statement)
                    /\ CoversRead(r.statement)
  BY <1>1, RowOfPrepared
<1> QED
  BY <1>1, <1>2, PreparedReaches DEF Grants

LEMMA RowIsReached ==
  ASSUME ReadersParameters, NEW R \in SUBSET PolicyRows, NEW secret, NEW r \in R, Grants(r, secret)
  PROVE  \E p \in Reaching(PrepareStatements(R), secret) :
           /\ r.principal \in p.attached
           /\ p.statement.effect = r.statement.effect
           /\ p.statement.conditional = r.statement.conditional
<1>1. CoversRead(r.statement) /\ CouldNameSecret(r.statement)
  BY PreparedReaches DEF Grants
<1>2. PICK p \in PrepareStatements(R) :
           p.statement = Prepared(r.statement) /\ r.principal \in p.attached
  BY <1>1, PreparedOfRow
<1>3. /\ ScopeFor(p.statement, secret) # "none"
      /\ p.statement.effect = r.statement.effect
      /\ p.statement.conditional = r.statement.conditional
  BY <1>2, PreparedReaches DEF Grants
<1>4. p \in Reaching(PrepareStatements(R), secret)
  BY <1>3 DEF Reaching
<1> QED
  BY <1>2, <1>3, <1>4

-----------------------------------------------------------------------------
(* Whom the statements reaching a secret let read it, and by what.         *)
GrantsIn(reach, x) == {s \in {p.statement : p \in {y \in reach : x \in y.attached}} : s.effect = "Allow"}
DeniedIn(reach, x) ==
    \E s \in {p.statement : p \in {y \in reach : x \in y.attached}} : s.effect = "Deny" /\ ~s.conditional
LetIn(reach) == {x \in Attached(reach) : GrantsIn(reach, x) # {} /\ ~DeniedIn(reach, x)}

LEMMA ReadersAreLetIn ==
  ASSUME NEW P, NEW secret
  PROVE  ReadersFor(P, secret) = {[principal |-> x, grants |-> GrantsIn(Reaching(P, secret), x)] :
                                     x \in LetIn(Reaching(P, secret))}
BY DEF ReadersFor, GrantsIn, DeniedIn, LetIn

LEMMA LetInAreAllowed ==
  ASSUME ReadersParameters, NEW R \in SUBSET PolicyRows, NEW secret
  PROVE  LetIn(Reaching(PrepareStatements(R), secret)) = Allowed(R, secret)
<1> DEFINE reach == Reaching(PrepareStatements(R), secret)
<1>1. ASSUME NEW x \in LetIn(reach)
      PROVE  x \in Allowed(R, secret)
  <2>1. GrantsIn(reach, x) # {} /\ ~DeniedIn(reach, x)
    BY <1>1 DEF LetIn
  <2>2. PICK p \in reach : x \in p.attached /\ p.statement.effect = "Allow"
    BY <2>1 DEF GrantsIn
  <2>3. PICK r \in R : /\ r.principal = x /\ Grants(r, secret) /\ r.statement.effect = "Allow"
    BY <2>2, ReachedByRow
  <2>4. ASSUME NEW q \in R, q.principal = x, q.statement.effect = "Deny",
               ~q.statement.conditional, Grants(q, secret)
        PROVE  FALSE
    <3>1. PICK d \in reach : /\ q.principal \in d.attached /\ d.statement.effect = q.statement.effect
                            /\ d.statement.conditional = q.statement.conditional
      BY <2>4, RowIsReached
    <3> QED
      BY <3>1, <2>4, <2>1 DEF DeniedIn
  <2>5. x \in Holders
    BY <2>3 DEF Holders
  <2> QED
    BY <2>3, <2>4, <2>5 DEF Allowed
<1>2. ASSUME NEW x \in Allowed(R, secret)
      PROVE  x \in LetIn(reach)
  <2>1. PICK r \in R : r.principal = x /\ r.statement.effect = "Allow" /\ Grants(r, secret)
    BY <1>2 DEF Allowed
  <2>2. PICK p \in reach : x \in p.attached /\ p.statement.effect = "Allow"
    BY <2>1, RowIsReached
  <2>3. ASSUME DeniedIn(reach, x)
        PROVE  FALSE
    <3>1. PICK d \in reach : /\ x \in d.attached /\ d.statement.effect = "Deny"
                            /\ ~d.statement.conditional
      BY <2>3 DEF DeniedIn
    <3>2. PICK q \in R : /\ q.principal = x /\ Grants(q, secret)
                        /\ q.statement.effect = d.statement.effect
                        /\ q.statement.conditional = d.statement.conditional
      BY <3>1, ReachedByRow
    <3> QED
      BY <3>1, <3>2, <1>2 DEF Allowed
  <2> QED
    BY <2>2, <2>3 DEF LetIn, GrantsIn, Attached
<1> QED
  BY <1>1, <1>2

(* One record for each reader: as many records as readers.                 *)
LEMMA OneEach ==
  ASSUME NEW S, IsFiniteSet(S), NEW g
  PROVE  Cardinality({[principal |-> x, grants |-> g[x]] : x \in S}) = Cardinality(S)
<1> DEFINE T == {[principal |-> x, grants |-> g[x]] : x \in S}
           f == [x \in S |-> [principal |-> x, grants |-> g[x]]]
<1>1. f \in Bijection(S, T)
  <2>1. f \in [S -> T]
    OBVIOUS
  <2>2. \A x, y \in S : f[x] = f[y] => x = y
    <3>1. \A x \in S : f[x].principal = x
      OBVIOUS
    <3> QED
      BY <3>1
  <2>3. \A t \in T : \E x \in S : f[x] = t
    OBVIOUS
  <2> QED
    BY <2>1, <2>2, <2>3, Fun_IsBij
<1>2. ExistsBijection(S, T)
  BY <1>1 DEF ExistsBijection
<1> QED
  BY <1>2, FS_Bijection

LEMMA FewHolders ==
  ASSUME ReadersParameters, NEW R \in SUBSET PolicyRows, NEW secret
  PROVE  IsFiniteSet(Allowed(R, secret))
<1>1. IsFiniteSet(Holders)
  <2> DEFINE f == [r \in PolicyRows |-> r.principal]
  <2>1. f \in [PolicyRows -> Holders] /\ \A x \in Holders : \E r \in PolicyRows : f[r] = x
    BY DEF Holders
  <2>2. f \in Surjection(PolicyRows, Holders)
    BY <2>1, Fun_IsSurj
  <2> HIDE DEF f
  <2> QED
    BY <2>2, FS_Surjection DEF ReadersParameters
<1> QED
  BY <1>1, FS_Subset DEF Allowed

(* The counts are of the list, the broad ones too.                         *)
LEMMA CountsAgree ==
  ASSUME ReadersParameters, NEW R \in SUBSET PolicyRows, NEW secret
  PROVE  LET P == PrepareStatements(R)
             readers == ReadersFor(P, secret)
         IN /\ CountReaders(P, secret).total = Cardinality(readers)
            /\ CountReaders(P, secret).broad
                  = Cardinality({x \in readers : \E g \in x.grants : IsBroadGrant(g, secret)})
<1> DEFINE P == PrepareStatements(R)
           reach == Reaching(P, secret)
           readers == ReadersFor(P, secret)
           allows == {p \in reach : p.statement.effect = "Allow"}
           deniedBy == Attached({p \in reach : p.statement.effect = "Deny" /\ ~p.statement.conditional})
           left == Attached(allows) \ deniedBy
           broad == {x \in left : Broadest({p.statement : p \in {y \in allows : x \in y.attached}}, secret)}
           G == [x \in left |-> GrantsIn(reach, x)]
<1>1. left = LetIn(reach)
  <2>1. \A x : x \in Attached(allows) <=> x \in Attached(reach) /\ GrantsIn(reach, x) # {}
    BY DEF Attached, GrantsIn
  <2>2. \A x : x \in deniedBy <=> DeniedIn(reach, x)
    BY DEF Attached, DeniedIn
  <2> QED
    BY <2>1, <2>2 DEF LetIn
<1>2. IsFiniteSet(left) /\ IsFiniteSet(broad)
  <2>1. left = Allowed(R, secret)
    BY <1>1, LetInAreAllowed
  <2>2. IsFiniteSet(Allowed(R, secret))
    BY FewHolders
  <2>3. broad \in SUBSET left
    OBVIOUS
  <2> HIDE DEF left, broad
  <2> QED
    BY <2>1, <2>2, <2>3, FS_Subset
<1>3. readers = {[principal |-> x, grants |-> G[x]] : x \in left}
  BY <1>1, ReadersAreLetIn
<1>4. Cardinality(readers) = Cardinality(left)
  <2> HIDE DEF left, G, readers
  <2> QED
    BY <1>2, <1>3, OneEach
<1>5. \A x : {p.statement : p \in {y \in allows : x \in y.attached}} = GrantsIn(reach, x)
  BY DEF GrantsIn
<1>6. {x \in readers : \E g \in x.grants : IsBroadGrant(g, secret)}
        = {[principal |-> x, grants |-> G[x]] : x \in broad}
  <2>1. broad = {x \in left : \E g \in G[x] : IsBroadGrant(g, secret)}
    BY <1>5 DEF Broadest
  <2> HIDE DEF left, G, broad, readers
  <2> QED
    BY <2>1, <1>3
<1>7. Cardinality({x \in readers : \E g \in x.grants : IsBroadGrant(g, secret)}) = Cardinality(broad)
  <2> HIDE DEF broad, G, readers
  <2> QED
    BY <1>2, <1>6, OneEach
<1>8. CountReaders(P, secret) = [total |-> Cardinality(left), broad |-> Cardinality(broad)]
  BY DEF CountReaders
<1> QED
  BY <1>4, <1>7, <1>8

-----------------------------------------------------------------------------
(* ReadersAreExact (SecretReaders): whatever the policies of the accounts  *)
(* become, a secret's readers are who its account's rows grant the read    *)
(* and do not deny it without a condition, and the counts are of the list. *)
THEOREM ReadersAreWhoMayRead == ReadersSpec => []ReadersAreExact
<1> USE ReadersParameters
<1>1. ReadersInit => ReadersTypeOK
  BY DEF ReadersInit, ReadersTypeOK
<1>2. ReadersTypeOK /\ [ReadersNext]_policyRows => ReadersTypeOK'
  BY DEF ReadersTypeOK, ReadersNext, EditPolicy
<1>3. ReadersTypeOK => ReadersAreExact
  <2> SUFFICES ASSUME ReadersTypeOK
               PROVE  ReadersAreAllowed /\ CountsAreOfTheList
    BY DEF ReadersAreExact
  <2>1. \A a \in Accounts : policyRows[a] \in SUBSET PolicyRows
    BY DEF ReadersTypeOK
  <2>2. ASSUME NEW a \in Accounts, NEW s \in Secrets
        PROVE  {x.principal : x \in ReadersFor(PrepareStatements(policyRows[a]), s)}
                 = Allowed(policyRows[a], s)
    <3> DEFINE reach == Reaching(PrepareStatements(policyRows[a]), s)
    <3>1. {x.principal : x \in ReadersFor(PrepareStatements(policyRows[a]), s)} = LetIn(reach)
      <4> HIDE DEF reach
      <4>1. ReadersFor(PrepareStatements(policyRows[a]), s)
              = {[principal |-> x, grants |-> GrantsIn(reach, x)] : x \in LetIn(reach)}
        BY ReadersAreLetIn DEF reach
      <4> DEFINE rec(x) == [principal |-> x, grants |-> GrantsIn(reach, x)]
      <4>2. \A x : rec(x).principal = x
        OBVIOUS
      <4>3. ReadersFor(PrepareStatements(policyRows[a]), s) = {rec(x) : x \in LetIn(reach)}
        BY <4>1
      <4> HIDE DEF rec
      <4> QED
        BY <4>2, <4>3
    <3> QED
      BY <2>1, <3>1, LetInAreAllowed
  <2>3. ReadersAreAllowed
    BY <2>2 DEF ReadersAreAllowed
  <2>4. CountsAreOfTheList
    BY <2>1, CountsAgree DEF CountsAreOfTheList
  <2> QED
    BY <2>3, <2>4
<1> QED
  BY <1>1, <1>2, <1>3, PTL DEF ReadersSpec
=============================================================================
