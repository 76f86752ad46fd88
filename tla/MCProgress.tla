------------------------------ MODULE MCProgress ------------------------------
(* What must eventually happen.  In a behaviour one component acts, the one   *)
(* `acting` names; they share nothing, and their counterexamples, fairness    *)
(* and mutants stay their own.                                                *)
EXTENDS RecomputeSignals, TLC

CONSTANTS c1, c2   \* two changes, windows of five minutes

VARIABLES acting

VARIABLES user, report, content, changed, expiries, faults, held, poll, waited, row, ask, answer, merged
Credentials == INSTANCE CredentialReport WITH
  changes <- changed, Wait <- 2, MaxChanges <- 2, MaxExpiries <- 2, MaxFaults <- 1

credentialVars == <<user, report, content, changed, expiries, faults, held, poll, waited,
                    row, ask, answer, merged>>
allVars == <<acting, vars, credentialVars>>

AllInit ==
  /\ acting \in {"recompute", "credentials"}
  /\ Init /\ Credentials!Init

RecomputeActs ==
  /\ acting = "recompute" /\ Next
  /\ UNCHANGED <<acting, credentialVars>>
CredentialsAct ==
  /\ acting = "credentials" /\ Credentials!Next
  /\ UNCHANGED <<acting, vars>>

AllNext == RecomputeActs \/ CredentialsAct

(* Each component's own fairness, while it acts.                              *)
Recompute(A) == acting = "recompute" /\ A
AllFairness ==
  /\ WF_vars(Recompute(Tick)) /\ WF_vars(Recompute(Restart)) /\ SF_vars(Recompute(Receive))
  /\ WF_vars(Recompute(Evaluation)) /\ WF_vars(Recompute(Delete)) /\ WF_vars(Recompute(Poll))
  /\ WF_vars(Recompute(ScheduledStart)) /\ SF_vars(Recompute(ScheduledSucceeds))
  /\ WF_credentialVars(acting = "credentials" /\ Credentials!Stage)

AllSpec == AllInit /\ [][AllNext]_allVars /\ AllFairness

\* No message blocks the queue for ever, and every change is evaluated in the end, by
\* a worker or by the scheduled run.
SignalsAreServed == QueueDrains /\ ChangesAreEvaluated

\* A vertex merged from the credential report says what the user was when it was read
\* or what the report said, a stage that succeeds had a report, and every stage ends.
ReportsAreTrue ==
  /\ [](acting = "credentials" =>
          Credentials!CredentialTypeOK /\ Credentials!SuccessHasReport /\ Credentials!MergedHeld)
  /\ (acting = "credentials" /\ poll = "get") ~> Credentials!Ended(poll)
===============================================================================
