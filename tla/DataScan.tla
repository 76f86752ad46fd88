------------------------------ MODULE DataScan -------------------------------
(* The data security scanner (dspm-scanner): a daily scan of every bucket, and *)
(* a queue of object events. A bucket Macie covers is judged by Macie's own    *)
(* findings; another is sampled by reading its objects, which in the default   *)
(* mode only a bucket that carries the opt-in tag allows. Coverage, tags and   *)
(* contents change while a scan runs, and each question may fail. What a scan  *)
(* finds is written when all buckets have been looked at.                      *)
EXTENDS Integers, Sequences

CONSTANTS Buckets, Nobody,        \* Nobody: no bucket is being looked at
          MaxChanges, MaxScanFaults, MaxScans  \* bounds

\* What the proofs ask of the bounds.
Bounds == MaxChanges \in Nat /\ MaxScanFaults \in Nat /\ MaxScans \in Nat

Modes == {"tagged-only", "all", "off"}

VARIABLES mode,                            \* DSPM_SCAN_MODE as deployed
          covered, tagged, sensitive, changes,  \* AWS
          todo, at, seenCovered,           \* the daily scan: the bucket looked at
          both, erred, found, scans, outcome,   \* and what it has so far
          batch, invited, noticed,         \* events in hand, the memo of opt-ins, findings
          classified,                      \* the graph: by whom a bucket is classified
          everTagged, everAll, opened,  \* history
          scanFaults

scanVars == <<mode, covered, tagged, sensitive, changes, todo, at, seenCovered, both,
              erred, found, scans, outcome, batch, invited, noticed, classified,
              everTagged, everAll, opened, scanFaults>>
bucketVars  == <<mode, covered, tagged, sensitive, changes, everTagged, everAll>>
dailyVars == <<todo, at, seenCovered, both, erred, found, scans, outcome>>
eventVars == <<batch, invited, noticed>>
historyVars == <<opened>>

Verdicts == {"none", "macie", "regex"}

ScanTypeOK ==
  /\ mode \in Modes /\ outcome \in {"none", "running", "ok", "failed", "refused"}
  /\ \A s \in {covered, tagged, sensitive, todo, both, erred, noticed, everTagged, opened} :
       s \subseteq Buckets
  /\ at \in Buckets \cup {Nobody} /\ seenCovered \in BOOLEAN /\ everAll \in BOOLEAN
  /\ found \in [Buckets -> Verdicts] /\ classified \in [Buckets -> Verdicts]
  /\ batch \in Seq(Buckets) /\ invited \in [Buckets -> {"unasked", "yes", "no"}]
  /\ changes \in 0 .. MaxChanges /\ scans \in 0 .. MaxScans
  /\ scanFaults \in 0 .. MaxScanFaults

ScannerInit ==
  /\ mode = "tagged-only" /\ everAll = FALSE
  /\ covered = {} /\ tagged = {} /\ sensitive = {} /\ changes = 0
  /\ todo = {} /\ at = Nobody /\ seenCovered = FALSE
  /\ both = {} /\ erred = {} /\ found = [b \in Buckets |-> "none"]
  /\ scans = 0 /\ outcome = "none"
  /\ batch = <<>> /\ invited = [b \in Buckets |-> "unasked"] /\ noticed = {}
  /\ classified = [b \in Buckets |-> "none"]
  /\ everTagged = {} /\ opened = {} /\ scanFaults = 0

\* --- AWS and the deployment ------------------------------------------------
Other(set, b) == IF b \in set THEN set \ {b} ELSE set \cup {b}
Change == changes < MaxChanges /\ changes' = changes + 1
Unwatched == UNCHANGED <<dailyVars, eventVars, historyVars, classified, scanFaults>>

Tag(b) ==
  /\ Change /\ tagged' = Other(tagged, b) /\ everTagged' = everTagged \cup tagged'
  /\ Unwatched /\ UNCHANGED <<mode, covered, sensitive, everAll>>

Cover(b) ==
  /\ Change /\ covered' = Other(covered, b)
  /\ Unwatched /\ UNCHANGED <<mode, tagged, sensitive, everTagged, everAll>>

Fill(b) ==
  /\ Change /\ sensitive' = Other(sensitive, b)
  /\ Unwatched /\ UNCHANGED <<mode, covered, tagged, everTagged, everAll>>

\* The mode is read once per run, so a new one meets no run under way.
Deploy(m) ==
  /\ Change /\ outcome # "running" /\ batch = <<>> /\ m # mode /\ mode' = m
  /\ everAll' = (everAll \/ m = "all")
  /\ Unwatched /\ UNCHANGED <<covered, tagged, sensitive, everTagged>>

\* --- The daily scan --------------------------------------------------------
BeginScan ==
  /\ outcome # "running" /\ scans < MaxScans /\ scans' = scans + 1
  /\ outcome' = "running" /\ todo' = Buckets /\ both' = {} /\ erred' = {}
  /\ found' = [b \in Buckets |-> "none"]
  /\ UNCHANGED <<bucketVars, at, seenCovered, eventVars, classified, historyVars, scanFaults>>

\* Whether Macie covers the bucket, asked once; a question that fails says no.
LookAt(b) ==
  /\ at = Nobody /\ b \in todo /\ at' = b
  /\ \/ seenCovered' = (b \in covered) /\ scanFaults' = scanFaults
     \/ scanFaults < MaxScanFaults /\ scanFaults' = scanFaults + 1 /\ seenCovered' = FALSE
  /\ UNCHANGED <<bucketVars, todo, both, erred, found, scans, outcome, eventVars,
                 classified, historyVars>>

\* What a look at the tags may tell: what they say; "no" when there are none or
\* the bucket's policy hides them (a denial is a fault); any other error fails.
TagAnswers(b) == (IF b \in tagged THEN {"yes"} ELSE {"no"})
                 \cup (IF scanFaults < MaxScanFaults THEN {"denied", "error"} ELSE {})
Blamed(answer) ==
  scanFaults' = IF answer \in {"denied", "error"} THEN scanFaults + 1 ELSE scanFaults

OptedIn(answer) == answer = "yes"

Engine(opted) ==
  IF mode = "off" \/ (mode # "all" /\ ~seenCovered /\ ~opted) THEN "none"
  ELSE IF seenCovered THEN "macie" ELSE "regex"

\* The objects of a bucket are sampled; its listing may fail.
ReadObjects(b) ==
  /\ opened' = opened \cup {b}

BucketFails(b) ==
  /\ erred' = erred \cup {b} /\ todo' = todo \ {b}
  /\ UNCHANGED <<both, found, historyVars>>

Judge ==
  /\ at # Nobody /\ at' = Nobody
  /\ \E answer \in IF mode = "tagged-only" THEN TagAnswers(at) ELSE {"no"} :
       /\ Blamed(answer)
       /\ \/ answer = "error" /\ BucketFails(at)
          \/ /\ answer # "error"
             /\ LET engine == Engine(OptedIn(answer)) IN
                  /\ found' = [found EXCEPT ![at] = IF at \in sensitive THEN engine ELSE "none"]
                  /\ both' = IF seenCovered /\ OptedIn(answer) THEN both \cup {at} ELSE both
                  /\ IF engine = "regex" THEN ReadObjects(at) ELSE UNCHANGED historyVars
             /\ todo' = todo \ {at} /\ erred' = erred
  /\ UNCHANGED <<bucketVars, seenCovered, scans, outcome, eventVars, classified>>

\* A sampled bucket whose objects cannot be listed.
ListingFails ==
  /\ at # Nobody /\ at' = Nobody /\ scanFaults < MaxScanFaults /\ scanFaults' = scanFaults + 1
  /\ Engine(mode = "tagged-only" /\ at \in tagged) = "regex" /\ BucketFails(at)
  /\ UNCHANGED <<bucketVars, seenCovered, scans, outcome, eventVars, classified>>

\* Mutant: a failed bucket throws before anything is written.
PersistedIfWhole == IF erred = {} THEN found ELSE [b \in Buckets |-> "none"]

Persisted == found

\* A bucket both covered and opted in refuses the whole scan; otherwise what was
\* found is written, and only then do the failed buckets fail the run. The
\* function environments read in between touch no bucket's finding.
EndScan ==
  /\ outcome = "running" /\ todo = {} /\ at = Nobody
  /\ \/ /\ both # {} /\ outcome' = "refused"
        /\ UNCHANGED <<classified, scanFaults>>
     \/ /\ both = {} /\ scanFaults' = scanFaults
        /\ classified' = [b \in Buckets |->
             IF Persisted[b] # "none" THEN Persisted[b] ELSE classified[b]]
        /\ outcome' = IF erred = {} THEN "ok" ELSE "failed"
     \/ /\ both = {} /\ \E b \in Buckets : found[b] # "none"
        /\ scanFaults < MaxScanFaults /\ scanFaults' = scanFaults + 1
        /\ outcome' = "failed" /\ UNCHANGED classified
  /\ UNCHANGED <<bucketVars, todo, at, seenCovered, both, erred, found, scans, eventVars,
                 historyVars>>

\* --- Events ----------------------------------------------------------------
\* A message of up to two events; a failed batch is delivered again.
Deliver ==
  /\ batch = <<>> /\ mode # "off"
  /\ \E a, b \in Buckets : batch' \in {<<a>>, <<a, b>>}
  /\ invited' = [b \in Buckets |-> "unasked"] /\ noticed' = {}
  /\ UNCHANGED <<bucketVars, dailyVars, classified, historyVars, scanFaults>>

\* The next object: an opted-in bucket's object is read, whatever Macie covers; a
\* bucket's tags are asked for once a batch.
\* With the last one the batch's findings are written.
Event ==
  /\ batch # <<>> /\ batch' = Tail(batch)
  /\ LET b == Head(batch) IN
     \E answer \in IF invited[b] = "unasked" THEN TagAnswers(b) \ {"error"} ELSE {invited[b]} :
       /\ Blamed(answer)
       /\ invited' = [invited EXCEPT ![b] = IF OptedIn(answer) THEN "yes" ELSE "no"]
       /\ IF invited'[b] = "yes"
          THEN ReadObjects(b) /\ noticed' = noticed \cup ({b} \cap sensitive)
          ELSE UNCHANGED <<historyVars, noticed>>
  /\ classified' = [b \in Buckets |->
       IF batch' = <<>> /\ b \in noticed' THEN "regex" ELSE classified[b]]
  /\ UNCHANGED <<bucketVars, dailyVars>>

\* Tags that cannot be asked for, or a write that fails: the batch starts again.
EventFails ==
  /\ batch # <<>> /\ scanFaults < MaxScanFaults /\ scanFaults' = scanFaults + 1 /\ batch' = <<>>
  /\ UNCHANGED <<bucketVars, dailyVars, invited, noticed, classified, historyVars>>

ScannerNext ==
  \/ \E b \in Buckets : Tag(b) \/ Cover(b) \/ Fill(b) \/ LookAt(b)
  \/ \E m \in Modes : Deploy(m)
  \/ BeginScan \/ Judge \/ ListingFails \/ EndScan
  \/ Deliver \/ Event \/ EventFails

ScannerSpec == ScannerInit /\ [][ScannerNext]_scanVars

\* --- Properties ------------------------------------------------------------
\* While every mode deployed so far samples tagged buckets only, no object of a
\* bucket that never carried the tag is read, by the daily scan or by an event.
NeverUninvited == ~everAll => opened \subseteq everTagged

\* A daily scan that is not refused writes what it found even when other buckets
\* failed, and reports those failures.
FailuresSpareTheRest ==
  [][(outcome = "running" /\ outcome' \in {"ok", "failed"} /\ scanFaults' = scanFaults) =>
       /\ \A b \in Buckets : found[b] # "none" => classified'[b] = found[b]
       /\ outcome' = "ok" => erred = {}
       /\ \A b \in erred : classified'[b] = classified[b]]_scanVars

\* What the component promises: it reads only where it was invited, and what it
\* finds in some buckets is not lost with the others.
ScansAreInvited == [](ScanTypeOK /\ NeverUninvited) /\ FailuresSpareTheRest
=============================================================================
