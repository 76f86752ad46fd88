--------------------------- MODULE RecomputeSignals ---------------------------
(***************************************************************************)
(* How a change of IAM reaches the policy evaluator.  The incremental      *)
(* collector writes the change and signals it on a FIFO queue that drops   *)
(* all but the first signal of a five-minute window                        *)
(* (lambdas/incremental-collector/index.ts, lambdas/shared/recompute.ts).  *)
(* The recompute worker (lambdas/recompute-worker/index.ts) receives every *)
(* signal there is, evaluates unless it did so recently, and deletes them; *)
(* a scheduled evaluator runs beside it.  Time passes in windows.  All     *)
(* signals are one message group and are received together, so the queue   *)
(* is the set of its messages: their order decides only which of a batch   *)
(* is deleted first, and the model lets it be any.                         *)
(***************************************************************************)
EXTENDS Naturals

CONSTANTS
  Change,        \* the changes that may be made
  None,
  MinInterval,   \* RECOMPUTE_MIN_INTERVAL_SECONDS, in windows
  Visibility,    \* the queue's visibility timeout, in windows
  MaxReceives,   \* receptions before a message is dead-lettered
  MaxEvaluation, \* bound on how long a batch is held, in windows
  Crashes        \* the worker may crash, and its deletions fail

ASSUME TimesAssumption ==
  /\ {MinInterval, MaxEvaluation} \subseteq Nat
  /\ {Visibility, MaxReceives} \subseteq Nat \ {0}
  /\ Crashes \in BOOLEAN
ASSUME NoneAssumption == None \notin Nat

VARIABLES
  signal,     \* how far the collector got with each change
  accepted,   \* the queue has accepted a signal in this window
  queue,      \* the messages, by the change that was signalled
  receives,   \* how often each was received
  inFlight,   \* received and hidden
  hidden,     \* windows until they show again
  dead,       \* dead-lettered
  pc,         \* the worker
  batch,      \* messages the worker holds
  covered,    \* the changes its evaluation found in the graph when it started
  elapsed,    \* windows since it received the batch
  sinceRun,   \* windows since lastRunAt, up to MinInterval
  scheduled,  \* the scheduled evaluation, and the changes it found
  evaluated,  \* history: the changes a completed evaluation has covered
  answered,   \* history: the messages whose own evaluation completed in time,
              \* and whose worker did not end before their deletion
  sinceStart  \* history: windows since an evaluation of this worker started

queueVars  == <<accepted, queue, receives, inFlight, hidden, dead>>
workerVars == <<pc, batch, covered, elapsed, sinceRun, sinceStart>>
vars == <<signal, queueVars, workerVars, scheduled, evaluated, answered>>

TypeOK ==
  /\ signal \in [Change -> {"none", "written", "sent", "dropped", "failed"}]
  /\ accepted \in BOOLEAN
  /\ queue \subseteq Change
  /\ receives \in [Change -> 0 .. MaxReceives]
  /\ inFlight \subseteq queue
  /\ hidden \in 0 .. Visibility
  /\ hidden = 0 => inFlight = {}
  /\ dead \subseteq Change
  /\ pc \in {"polling", "evaluating", "deleting", "down"}
  /\ batch \subseteq queue
  /\ covered \subseteq Change
  /\ elapsed \in 0 .. MaxEvaluation
  /\ sinceRun \in 0 .. MinInterval \cup {None}
  /\ scheduled \in [on : BOOLEAN, covered : SUBSET Change]
  /\ evaluated \subseteq Change
  /\ answered \subseteq Change
  /\ sinceStart \in 0 .. MinInterval

Init ==
  /\ signal = [c \in Change |-> "none"]
  /\ accepted = FALSE
  /\ queue = {}
  /\ receives = [c \in Change |-> 0]
  /\ inFlight = {}
  /\ hidden = 0
  /\ dead = {}
  /\ pc = "polling"
  /\ batch = {}
  /\ covered = {}
  /\ elapsed = 0
  /\ sinceRun = None
  /\ scheduled = [on |-> FALSE, covered |-> {}]
  /\ evaluated = {}
  /\ answered = {}
  /\ sinceStart = MinInterval

Written == {c \in Change : signal[c] # "none"}
Least(a, b) == IF a < b THEN a ELSE b

-----------------------------------------------------------------------------
(* The incremental collector. *)

WriteGraph(c) ==
  /\ signal[c] = "none"
  /\ signal' = [signal EXCEPT ![c] = "written"]
  /\ UNCHANGED <<queueVars, workerVars, scheduled, evaluated, answered>>

\* signalRecompute: the first signal of a window is queued, later ones are
\* dropped by their deduplication id; a failed send is only logged.
Signal(c) ==
  /\ signal[c] = "written"
  /\ \/ /\ signal' = [signal EXCEPT ![c] = IF accepted THEN "dropped" ELSE "sent"]
        /\ accepted' = TRUE
        /\ queue' = IF accepted THEN queue ELSE queue \cup {c}
     \/ /\ signal' = [signal EXCEPT ![c] = "failed"]
        /\ UNCHANGED <<accepted, queue>>
  /\ UNCHANGED <<receives, inFlight, hidden, dead, workerVars, scheduled, evaluated, answered>>

\* The next window: messages whose visibility timeout ends show again.
Tick ==
  /\ pc \in {"evaluating", "deleting"} => elapsed < MaxEvaluation
  /\ accepted' = FALSE
  /\ hidden' = IF hidden = 0 THEN 0 ELSE hidden - 1
  /\ inFlight' = IF hidden' = 0 THEN {} ELSE inFlight
  /\ elapsed' = IF pc \in {"evaluating", "deleting"} THEN elapsed + 1 ELSE elapsed
  /\ sinceRun' = IF sinceRun = None THEN None ELSE Least(sinceRun + 1, MinInterval)
  /\ sinceStart' = Least(sinceStart + 1, MinInterval)
  /\ UNCHANGED <<signal, queue, receives, dead, pc, batch, covered, scheduled, evaluated, answered>>

-----------------------------------------------------------------------------
(* The worker. *)

\* The test of the minimum interval.
TooSoon == sinceRun # None /\ sinceRun < MinInterval

\* Messages received too often.
Spent == {c \in queue : receives[c] >= MaxReceives}

\* One message group: nothing is delivered while anything of it is in flight;
\* otherwise all there is (up to ten), but what was received too often is
\* dead-lettered.  Then the batch is evaluated, or deleted as it is.
Receive ==
  /\ pc = "polling"
  /\ inFlight = {} /\ queue # {}
  /\ dead' = dead \cup Spent
  /\ queue' = queue \ Spent
  /\ batch' = queue'
  /\ receives' = [c \in Change |-> IF c \in batch' THEN receives[c] + 1 ELSE receives[c]]
  /\ inFlight' = batch'
  /\ hidden' = IF batch' = {} THEN 0 ELSE Visibility
  /\ pc' = IF batch' = {} THEN "polling" ELSE IF TooSoon THEN "deleting" ELSE "evaluating"
  /\ elapsed' = 0
  /\ IF pc' = "evaluating"
     THEN covered' = Written /\ sinceStart' = 0
     ELSE UNCHANGED <<covered, sinceStart>>
  /\ UNCHANGED <<signal, accepted, sinceRun, scheduled, evaluated, answered>>

\* Mutants: lastRunAt is not set; the time since it is not capped; the messages
\* of an evaluation that succeeded are left like those of one that failed.
EvaluationSucceedsForgotten ==
  /\ pc = "evaluating"
  /\ pc' = "deleting"
  /\ evaluated' = evaluated \cup covered
  /\ answered' = IF elapsed < Visibility THEN answered \cup batch ELSE answered
  /\ UNCHANGED <<signal, queueVars, batch, covered, elapsed, sinceRun, sinceStart, scheduled>>

\* lastRunAt becomes the instant the evaluation started.
EvaluationSucceeds ==
  /\ pc = "evaluating"
  /\ pc' = "deleting"
  /\ sinceRun' = Least(elapsed, MinInterval)
  /\ evaluated' = evaluated \cup covered
  /\ answered' = IF elapsed < Visibility THEN answered \cup batch ELSE answered
  /\ UNCHANGED <<signal, queueVars, batch, covered, elapsed, sinceStart, scheduled>>

\* The messages are left for redelivery.
EvaluationFails ==
  /\ pc = "evaluating"
  /\ pc' = "polling"
  /\ batch' = {}
  /\ UNCHANGED <<signal, queueVars, covered, elapsed, sinceRun, sinceStart,
                 scheduled, evaluated, answered>>

Down ==
  /\ pc' = "down"
  /\ batch' = {}
  /\ sinceRun' = None
  /\ sinceStart' = MinInterval
  /\ answered' = answered \ batch
  /\ UNCHANGED <<signal, queueVars, covered, elapsed, scheduled, evaluated>>

\* Mutant: a refused deletion is tried again until it succeeds.
DeleteRetried ==
  /\ pc = "deleting"
  /\ \E c \in batch \cap inFlight :
       /\ queue' = queue \ {c}
       /\ inFlight' = inFlight \ {c}
       /\ hidden' = IF inFlight' = {} THEN 0 ELSE hidden
       /\ batch' = batch \ {c}
  /\ UNCHANGED <<signal, accepted, receives, dead, pc, covered, elapsed, sinceRun, sinceStart,
                 scheduled, evaluated, answered>>

\* The messages are deleted one by one; the receipt of one that shows again has
\* expired, its deletion is refused, and nothing catches that.
Delete ==
  /\ pc = "deleting"
  /\ \E c \in batch :
       \/ /\ c \in inFlight
          /\ queue' = queue \ {c}
          /\ inFlight' = inFlight \ {c}
          /\ hidden' = IF inFlight' = {} THEN 0 ELSE hidden
          /\ batch' = batch \ {c}
          /\ UNCHANGED <<signal, accepted, receives, dead, pc, covered, elapsed, sinceRun,
                         sinceStart, scheduled, evaluated, answered>>
       \/ c \notin inFlight /\ Down

Poll ==
  /\ pc = "deleting"
  /\ batch = {}
  /\ pc' = "polling"
  /\ UNCHANGED <<signal, queueVars, batch, covered, elapsed, sinceRun, sinceStart,
                 scheduled, evaluated, answered>>

\* The pod ends, or a receive or a delete fails past its retries.
Crash == Crashes /\ pc # "down" /\ Down

\* The Deployment starts the worker again.
Restart ==
  /\ pc = "down"
  /\ pc' = "polling"
  /\ UNCHANGED <<signal, queueVars, batch, covered, elapsed, sinceRun, sinceStart,
                 scheduled, evaluated, answered>>

-----------------------------------------------------------------------------
(* The scheduled evaluator. *)

ScheduledStart ==
  /\ ~scheduled.on
  /\ scheduled' = [on |-> TRUE, covered |-> Written]
  /\ UNCHANGED <<signal, queueVars, workerVars, evaluated, answered>>

ScheduledSucceeds ==
  /\ scheduled.on
  /\ evaluated' = evaluated \cup scheduled.covered
  /\ scheduled' = [on |-> FALSE, covered |-> {}]
  /\ UNCHANGED <<signal, queueVars, workerVars, answered>>

ScheduledFails ==
  /\ scheduled.on
  /\ scheduled' = [on |-> FALSE, covered |-> {}]
  /\ UNCHANGED <<signal, queueVars, workerVars, evaluated, answered>>

-----------------------------------------------------------------------------

Collector == \E c \in Change : WriteGraph(c) \/ Signal(c)
Evaluation == EvaluationSucceeds \/ EvaluationFails
Worker == Receive \/ Evaluation \/ Delete \/ Poll \/ Crash \/ Restart
Schedule == ScheduledStart \/ ScheduledSucceeds \/ ScheduledFails

Next == Collector \/ Tick \/ Worker \/ Schedule

Spec == Init /\ [][Next]_vars

\* The pod is restarted and does not crash for ever before it receives, its
\* loop goes on, evaluations end one way or the other, and time passes; nothing
\* says that they succeed.
WorkerFairness ==
  /\ WF_vars(Tick) /\ WF_vars(Restart) /\ SF_vars(Receive)
  /\ WF_vars(Evaluation) /\ WF_vars(Delete) /\ WF_vars(Poll)

\* The CronJob starts a run again and again, and they do not all fail.
ScheduleFairness == WF_vars(ScheduledStart) /\ SF_vars(ScheduledSucceeds)

FairSpec == Spec /\ WorkerFairness /\ ScheduleFairness
-----------------------------------------------------------------------------
(* What the recompute promises. *)

StartsEvaluation == pc = "polling" /\ pc' = "evaluating"

\* A worker evaluates at most once per minimum interval (OPERATIONAL.md:17),
\* also when an evaluation fails and its messages come back.  A worker that
\* restarts has forgotten when it last did.
EvaluationsSpaced == [][StartsEvaluation => sinceStart >= MinInterval]_vars

\* A message ends in the dead-letter queue only if each of its evaluations
\* failed, outlived the visibility timeout, or was followed by the end of the
\* worker before the deletion (OPERATIONAL.md:247-248).
DeadLetteredUnevaluated ==
  [][\A c \in Change : c \in dead' \ dead => c \notin answered]_vars

\* Whatever crashes, fails or outlives the visibility timeout, a worker's evaluations
\* keep their distance and nothing evaluated in time is dead-lettered.
EvaluationsCount == []TypeOK /\ EvaluationsSpaced /\ DeadLetteredUnevaluated

\* A message blocks its group while it is in flight, but no message blocks it
\* for ever: each is deleted or dead-lettered, however often the worker crashes
\* or its evaluations fail (messaging.tf:66-83).
QueueDrains == \A c \in Change : c \in queue ~> c \notin queue

\* Whatever becomes of its signal, a change is evaluated in the end: the
\* scheduled run is the backstop (OPERATIONAL.md:248-249).
ChangesAreEvaluated == \A c \in Change : signal[c] = "written" ~> c \in evaluated

-----------------------------------------------------------------------------
(* What a comment says of it, and a run refutes. *)

\* "Messages received inside the interval are deleted as covered by the run
\* that just happened" (recompute-worker/index.ts:12-13).
SkippedAreCovered ==
  [][pc = "polling" /\ pc' = "deleting" => batch' \subseteq evaluated]_vars
=============================================================================
