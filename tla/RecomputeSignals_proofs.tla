----------------------- MODULE RecomputeSignals_proofs -----------------------
(***************************************************************************)
(* Proofs about RecomputeSignals, for any set of changes and any times, as *)
(* long as the interval between evaluations is no longer than messages     *)
(* stay hidden.                                                            *)
(***************************************************************************)
EXTENDS RecomputeSignals, TLAPS

-----------------------------------------------------------------------------
(* The inductive invariant, in parts. *)

(* A worker that polls or is down holds nothing; a running evaluation      *)
(* started when its batch was received, and a worker that remembers its    *)
(* last one waited for the interval.                                       *)
WorkerAgrees ==
  /\ pc \in {"polling", "down"} => batch = {}
  /\ pc = "evaluating" =>
       /\ sinceStart = Least(elapsed, MinInterval)
       /\ sinceRun \in {None, MinInterval}

(* Within the interval after an evaluation started, either the worker      *)
(* remembers when that was, or the evaluation goes on or failed and its    *)
(* messages stay hidden until the interval is over.                        *)
RecentIsRemembered ==
  sinceStart < MinInterval =>
    \/ sinceRun = sinceStart
    \/ /\ pc \in {"polling", "evaluating"}
       /\ inFlight # {}
       /\ hidden + sinceStart >= Visibility

(* The messages in the queue were sent; those whose evaluation counted     *)
(* were too, and are in the queue only while the worker deletes them.      *)
AnsweredAreDeleted ==
  /\ \A c \in queue \cup answered : signal[c] = "sent"
  /\ answered \cap queue \subseteq batch
  /\ pc = "evaluating" => answered \cap queue = {}

SignalsInv == TypeOK /\ WorkerAgrees /\ RecentIsRemembered /\ AnsweredAreDeleted

-----------------------------------------------------------------------------

LEMMA LeastOf ==
  ASSUME NEW a \in Nat, NEW b \in Nat
  PROVE  Least(a, b) \in 0 .. b /\ (Least(a, b) = b \/ (Least(a, b) = a /\ a < b))
BY DEF Least

LEMMA Times ==
  /\ MinInterval \in Nat /\ MaxEvaluation \in Nat
  /\ Visibility \in Nat /\ Visibility > 0 /\ MaxReceives \in Nat /\ MaxReceives > 0
BY TimesAssumption

LEMMA InitSignals == Init => SignalsInv
<1> SUFFICES ASSUME Init PROVE SignalsInv
  OBVIOUS
<1>1. TypeOK
  <2>1. scheduled \in [on : BOOLEAN, covered : SUBSET Change]
    BY DEF Init
  <2>2. sinceRun \in 0 .. MinInterval \cup {None} /\ sinceStart \in 0 .. MinInterval
    BY Times DEF Init
  <2>3. /\ signal \in [Change -> {"none", "written", "sent", "dropped", "failed"}]
        /\ receives \in [Change -> 0 .. MaxReceives]
    BY Times DEF Init
  <2>4. hidden \in 0 .. Visibility /\ elapsed \in 0 .. MaxEvaluation
    BY Times DEF Init
  <2> QED
    BY <2>1, <2>2, <2>3, <2>4 DEF Init, TypeOK
<1>2. WorkerAgrees /\ RecentIsRemembered /\ AnsweredAreDeleted
  BY Times DEF Init, WorkerAgrees, RecentIsRemembered, AnsweredAreDeleted
<1> QED
  BY <1>1, <1>2 DEF SignalsInv

LEMMA CollectorSignals ==
  ASSUME SignalsInv, Collector
  PROVE  SignalsInv'
<1>1. PICK c \in Change : WriteGraph(c) \/ Signal(c)
  BY DEF Collector
<1>2. CASE WriteGraph(c)
  BY <1>2, Times
  DEF SignalsInv, TypeOK, WorkerAgrees, RecentIsRemembered, AnsweredAreDeleted, WriteGraph,
      queueVars, workerVars
<1>3. CASE Signal(c)
  BY ZenonT(60), <1>3, Times
  DEF SignalsInv, TypeOK, WorkerAgrees, RecentIsRemembered, AnsweredAreDeleted, Signal, workerVars
<1> QED
  BY <1>1, <1>2, <1>3

LEMMA TickSignals ==
  ASSUME SignalsInv, Tick, MinInterval <= Visibility
  PROVE  SignalsInv'
<1> USE Times, NoneAssumption
<1>1. TypeOK'
  <2>1. sinceRun' \in 0 .. MinInterval \cup {None} /\ sinceStart' \in 0 .. MinInterval
    BY DEF SignalsInv, TypeOK, Tick, Least
  <2>2. hidden' \in 0 .. Visibility /\ elapsed' \in 0 .. MaxEvaluation
    BY DEF SignalsInv, TypeOK, Tick
  <2> QED
    BY <2>1, <2>2 DEF SignalsInv, TypeOK, Tick
<1>2. WorkerAgrees'
  BY LeastOf DEF SignalsInv, TypeOK, WorkerAgrees, Tick, Least
<1>3. RecentIsRemembered'
  BY LeastOf DEF SignalsInv, TypeOK, RecentIsRemembered, WorkerAgrees, Tick, Least
<1>4. AnsweredAreDeleted'
  BY DEF SignalsInv, TypeOK, AnsweredAreDeleted, Tick
<1> QED
  BY <1>1, <1>2, <1>3, <1>4 DEF SignalsInv

LEMMA ReceiveSignals ==
  ASSUME SignalsInv, Receive
  PROVE  SignalsInv'
<1> USE Times, NoneAssumption
<1>1. TypeOK'
  <2>1. \A c \in batch' : receives[c] + 1 \in 0 .. MaxReceives
    BY DEF SignalsInv, TypeOK, Receive, Spent
  <2>2. receives' \in [Change -> 0 .. MaxReceives]
    BY <2>1 DEF SignalsInv, TypeOK, Receive
  <2>3. hidden' \in 0 .. Visibility /\ elapsed' \in 0 .. MaxEvaluation
    BY DEF Receive
  <2>4. pc' \in {"polling", "evaluating", "deleting", "down"}
    BY DEF Receive
  <2>5. covered' \subseteq Change /\ sinceStart' \in 0 .. MinInterval
    BY DEF SignalsInv, TypeOK, Receive, Written
  <2>6. /\ queue' \subseteq queue /\ batch' = queue' /\ inFlight' = queue'
        /\ dead' \subseteq Change /\ (hidden' = 0 => inFlight' = {})
    BY DEF SignalsInv, TypeOK, Receive, Spent
  <2> QED
    BY <2>2, <2>3, <2>4, <2>5, <2>6 DEF SignalsInv, TypeOK, Receive
<1>2. WorkerAgrees'
  <2>1. pc' = "evaluating" => /\ sinceStart' = 0 /\ elapsed' = 0
                              /\ ~TooSoon /\ sinceRun' = sinceRun
    BY DEF Receive
  <2>2. ~TooSoon => sinceRun \in {None, MinInterval}
    BY DEF SignalsInv, TypeOK, TooSoon
  <2>3. Least(0, MinInterval) = 0
    BY DEF Least
  <2>4. pc' # "down" /\ (pc' = "polling" => batch' = {})
    BY DEF Receive
  <2> QED
    BY <2>1, <2>2, <2>3, <2>4 DEF WorkerAgrees
<1>3. RecentIsRemembered'
  BY DEF SignalsInv, TypeOK, RecentIsRemembered, Receive, TooSoon
<1>4. AnsweredAreDeleted'
  BY DEF SignalsInv, TypeOK, WorkerAgrees, AnsweredAreDeleted, Receive, Spent
<1> QED
  BY <1>1, <1>2, <1>3, <1>4 DEF SignalsInv

LEMMA EvaluationSignals ==
  ASSUME SignalsInv, Evaluation
  PROVE  SignalsInv'
<1> USE Times, NoneAssumption
<1>1. CASE EvaluationSucceeds
  <2>1. TypeOK'
    <3>1. Least(elapsed, MinInterval) \in 0 .. MinInterval
      BY LeastOf DEF SignalsInv, TypeOK
    <3> QED
      BY <1>1, <3>1 DEF SignalsInv, TypeOK, EvaluationSucceeds, queueVars
  <2>2. WorkerAgrees' /\ RecentIsRemembered'
    BY <1>1 DEF SignalsInv, TypeOK, WorkerAgrees, RecentIsRemembered, EvaluationSucceeds, queueVars
  <2>3. AnsweredAreDeleted'
    BY <1>1 DEF SignalsInv, TypeOK, AnsweredAreDeleted, EvaluationSucceeds, queueVars
  <2> QED
    BY <2>1, <2>2, <2>3 DEF SignalsInv
<1>2. CASE EvaluationFails
  BY <1>2 DEF SignalsInv, TypeOK, WorkerAgrees, RecentIsRemembered, AnsweredAreDeleted,
              EvaluationFails, queueVars
<1> QED
  BY <1>1, <1>2 DEF Evaluation

LEMMA DownSignals ==
  ASSUME SignalsInv, Down
  PROVE  SignalsInv'
BY Times, NoneAssumption
DEF SignalsInv, TypeOK, WorkerAgrees, RecentIsRemembered, AnsweredAreDeleted, Down, queueVars

LEMMA DeleteSignals ==
  ASSUME SignalsInv, Delete
  PROVE  SignalsInv'
<1> USE Times, NoneAssumption
<1>1. PICK c \in batch :
         \/ /\ c \in inFlight
            /\ queue' = queue \ {c}
            /\ inFlight' = inFlight \ {c}
            /\ hidden' = IF inFlight' = {} THEN 0 ELSE hidden
            /\ batch' = batch \ {c}
            /\ UNCHANGED <<signal, accepted, receives, dead, pc, covered, elapsed, sinceRun,
                           sinceStart, scheduled, evaluated, answered>>
         \/ c \notin inFlight /\ Down
  BY DEF Delete
<1>2. CASE Down
  BY <1>2, DownSignals
<1>3. CASE ~Down
  <2>1. TypeOK'
    BY <1>1, <1>3 DEF SignalsInv, TypeOK
  <2>2. WorkerAgrees' /\ RecentIsRemembered'
    BY <1>1, <1>3 DEF SignalsInv, TypeOK, WorkerAgrees, RecentIsRemembered, Delete
  <2>3. AnsweredAreDeleted'
    BY <1>1, <1>3 DEF SignalsInv, TypeOK, AnsweredAreDeleted, Delete
  <2> QED
    BY <2>1, <2>2, <2>3 DEF SignalsInv
<1> QED
  BY <1>2, <1>3

LEMMA RestSignals ==
  ASSUME SignalsInv, Poll \/ Restart \/ Schedule
  PROVE  SignalsInv'
<1> USE Times
<1>1. CASE Poll \/ Restart
  BY <1>1 DEF SignalsInv, TypeOK, WorkerAgrees, RecentIsRemembered, AnsweredAreDeleted, Poll,
              Restart, queueVars
<1>2. CASE Schedule
  <2>1. /\ UNCHANGED <<signal, queueVars, workerVars, answered>>
        /\ scheduled' \in [on : BOOLEAN, covered : SUBSET Change] /\ evaluated' \subseteq Change
    <3>1. CASE ScheduledStart
      BY <3>1 DEF SignalsInv, TypeOK, ScheduledStart, Written
    <3>2. CASE ScheduledSucceeds
      BY <3>2 DEF SignalsInv, TypeOK, ScheduledSucceeds
    <3>3. CASE ScheduledFails
      BY <3>3 DEF SignalsInv, TypeOK, ScheduledFails
    <3> QED
      BY <1>2, <3>1, <3>2, <3>3 DEF Schedule
  <2> QED
    BY <2>1 DEF SignalsInv, TypeOK, WorkerAgrees, RecentIsRemembered, AnsweredAreDeleted,
                queueVars, workerVars
<1> QED
  BY <1>1, <1>2

LEMMA StepSignals ==
  ASSUME MinInterval <= Visibility, SignalsInv, [Next]_vars
  PROVE  SignalsInv'
<1>1. CASE UNCHANGED vars
  BY <1>1 DEF SignalsInv, TypeOK, WorkerAgrees, RecentIsRemembered, AnsweredAreDeleted,
              vars, queueVars, workerVars
<1> QED
  BY <1>1, CollectorSignals, TickSignals, ReceiveSignals, EvaluationSignals, DownSignals,
     DeleteSignals, RestSignals DEF Next, Worker, Crash

(* The evaluations of a worker are a minimum interval apart, and a message *)
(* whose evaluation counted is deleted, never dead-lettered: with any      *)
(* number of changes, whatever fails, crashes or comes too late, provided  *)
(* the interval is no longer than the visibility timeout (both are 900     *)
(* seconds as deployed).  A longer interval is not kept after an           *)
(* evaluation that failed: its messages come back first.                   *)
THEOREM Counted == MinInterval <= Visibility => (Spec => EvaluationsCount)
<1> SUFFICES ASSUME MinInterval <= Visibility
             PROVE  Spec => EvaluationsCount
  OBVIOUS
<1>1. SignalsInv /\ [Next]_vars => SignalsInv'
  BY StepSignals
<1>2. SignalsInv /\ [Next]_vars => [StartsEvaluation => sinceStart >= MinInterval]_vars
  <2> SUFFICES ASSUME SignalsInv, Next, StartsEvaluation
               PROVE  sinceStart >= MinInterval
    OBVIOUS
  <2>1. Receive
    BY DEF Next, Collector, WriteGraph, Signal, Tick, Worker, Evaluation, EvaluationSucceeds,
           EvaluationFails, Delete, Down, Poll, Crash, Restart, Schedule, ScheduledStart,
           ScheduledSucceeds, ScheduledFails, StartsEvaluation, workerVars
  <2>2. inFlight = {} /\ ~TooSoon
    BY <2>1 DEF StartsEvaluation, Receive
  <2>3. sinceRun = sinceStart => sinceStart >= MinInterval
    BY <2>2, Times, NoneAssumption DEF TooSoon, SignalsInv, TypeOK
  <2> QED
    BY <2>2, <2>3, Times DEF SignalsInv, TypeOK, RecentIsRemembered
<1>3. SignalsInv /\ [Next]_vars => [\A c \in Change : c \in dead' \ dead => c \notin answered]_vars
  <2> SUFFICES ASSUME SignalsInv, Next, NEW c \in dead' \ dead
               PROVE  c \notin answered
    OBVIOUS
  <2>1. Receive
    BY DEF Next, Collector, WriteGraph, Signal, Tick, Worker, Evaluation, EvaluationSucceeds,
           EvaluationFails, Delete, Down, Poll, Crash, Restart, Schedule, ScheduledStart,
           ScheduledSucceeds, ScheduledFails, queueVars
  <2> QED
    BY <2>1 DEF Receive, Spent, SignalsInv, WorkerAgrees, AnsweredAreDeleted
<1>4. SignalsInv => TypeOK
  BY DEF SignalsInv
<1> QED
  BY <1>1, <1>2, <1>3, <1>4, InitSignals, PTL
  DEF Spec, EvaluationsCount, EvaluationsSpaced, DeadLetteredUnevaluated
=============================================================================
