--------------------------- MODULE CredentialReport ---------------------------
(* Two stages write the same IAM user: one asks IAM for the user's devices and *)
(* keys, the other reads the account's credential report, a snapshot IAM makes *)
(* on request and that expires. The second polls until a report is there, and  *)
(* gives up at a deadline. Of a user, only what the report and the questions   *)
(* both tell is kept: whether an MFA device is enabled.                        *)
EXTENDS Integers

CONSTANTS Wait,        \* polls before the deadline (CREDENTIAL_REPORT_WAIT_MS)
          MaxChanges, MaxExpiries, MaxFaults  \* bounds

VARIABLES user, report, content, changes, expiries, faults,  \* IAM
          held,                   \* history: what the user was since the report
          poll, waited, row,      \* the credential report's stage
          ask, answer,            \* the access key stage
          merged                  \* the vertex both stages make

credentialVars == <<user, report, content, changes, expiries, faults, held,
                    poll, waited, row, ask, answer, merged>>

Users == {"none", "plain", "mfa"}   \* no such user, without and with a device
Values == Users \cup {"unread"}

CredentialTypeOK ==
  /\ user \in Users /\ content \in Values /\ held \subseteq Users
  /\ report \in {"absent", "generating", "ready", "expired"}
  /\ poll \in {"get", "generate", "sleep", "succeeded", "failed"}
  /\ waited \in 0 .. Wait + 1
  /\ row \in Values
  /\ ask \in {"list", "devices", "keys", "succeeded", "failed"}
  /\ answer \in Values
  /\ merged \in Values

Init ==
  /\ user = "plain" /\ content = "unread" /\ report = "absent"
  /\ changes = 0 /\ expiries = 0 /\ faults = 0
  /\ held = {"plain"}
  /\ poll = "get" /\ waited = 0 /\ row = "unread"
  /\ ask = "list" /\ answer = "unread"
  /\ merged = "unread"

stageVars == <<poll, waited, row, ask, answer, merged>>

-----------------------------------------------------------------------------
(* IAM.                                                                      *)

UserChanges(v) ==
  /\ changes < MaxChanges /\ v # user
  /\ changes' = changes + 1
  /\ user' = v
  /\ held' = held \cup {v}
  /\ UNCHANGED <<report, content, expiries, faults, stageVars>>

Generated ==
  /\ report = "generating"
  /\ report' = "ready"
  /\ content' = user
  /\ held' = {user} \cup (IF answer = "unread" THEN {} ELSE {answer})
  /\ UNCHANGED <<user, changes, expiries, faults, stageVars>>

Expire ==
  /\ report = "ready" /\ expiries < MaxExpiries
  /\ report' = "expired"
  /\ expiries' = expiries + 1
  /\ UNCHANGED <<user, content, changes, faults, held, stageVars>>

iamVars == <<user, content, changes, expiries, held>>

\* A call to IAM may fail; SDK retries are within the call.
Fault == faults < MaxFaults /\ faults' = faults + 1

-----------------------------------------------------------------------------
(* readCredentialReport.                                                     *)

Get ==
  /\ poll = "get"
  /\ \/ /\ report = "ready"
        /\ poll' = "succeeded" /\ row' = content
        /\ UNCHANGED faults
     \/ /\ report \in {"absent", "expired"}
        /\ poll' = "generate"
        /\ UNCHANGED <<row, faults>>
     \/ /\ report = "generating"
        /\ poll' = "sleep"
        /\ UNCHANGED <<row, faults>>
     \/ /\ Fault
        /\ poll' = "failed"
        /\ UNCHANGED row
  /\ UNCHANGED <<iamVars, report, waited, ask, answer, merged>>

\* Someone else may have had the report made since: then it is read at once.
Generate ==
  /\ poll = "generate"
  /\ \/ /\ report = "ready"
        /\ poll' = "get"
        /\ UNCHANGED <<report, faults>>
     \/ /\ report # "ready"
        /\ report' = "generating"
        /\ poll' = "sleep"
        /\ UNCHANGED faults
     \/ /\ Fault
        /\ poll' = "failed"
        /\ UNCHANGED report
  /\ UNCHANGED <<iamVars, waited, row, ask, answer, merged>>

Sleep ==
  /\ poll = "sleep"
  /\ IF waited >= Wait
     THEN poll' = "failed" /\ UNCHANGED waited
     ELSE poll' = "get" /\ waited' = waited + 1
  /\ UNCHANGED <<iamVars, report, faults, row, ask, answer, merged>>

-----------------------------------------------------------------------------
(* collectIamAccessKeys, for the one user.                                   *)

\* A user who is gone by the time of a question fails the stage.
AskUser ==
  /\ ask \in {"list", "devices", "keys"}
  /\ \/ /\ user = "none"
        /\ ask' = IF ask = "list" THEN "succeeded" ELSE "failed"
        /\ UNCHANGED <<answer, faults>>
     \/ /\ user # "none"
        /\ ask' = CASE ask = "list" -> "devices" [] ask = "devices" -> "keys"
                    [] ask = "keys" -> "succeeded"
        /\ answer' = IF ask = "devices" THEN user ELSE answer
        /\ UNCHANGED faults
     \/ /\ Fault
        /\ ask' = "failed"
        /\ UNCHANGED answer
  /\ UNCHANGED <<iamVars, report, poll, waited, row, merged>>

Ended(stage) == stage \in {"succeeded", "failed"}
Told(stage, value) == IF stage = "succeeded" THEN value ELSE "unread"

\* Mutant: the later stage wins whatever it has to say.
LaterWins(earlier, later) == later

\* The report's stage comes later in the order, so its row wins when it has one.
PreferDefined(earlier, later) == IF later \in {"unread", "none"} THEN earlier ELSE later

Merge ==
  /\ Ended(poll) /\ Ended(ask) /\ merged = "unread"
  /\ merged' = PreferDefined(Told(ask, answer), Told(poll, row))
  /\ merged' # "unread"
  /\ UNCHANGED <<iamVars, report, faults, poll, waited, row, ask, answer>>

Stage == Get \/ Generate \/ Sleep \/ AskUser \/ Merge

Next == (\E v \in Users : UserChanges(v)) \/ Generated \/ Expire \/ Stage

Spec == Init /\ [][Next]_credentialVars /\ WF_credentialVars(Stage)

-----------------------------------------------------------------------------
(* Properties.                                                               *)

\* The stage succeeds with what a report said and never with nothing: those who
\* read its coverage judge accounts by its rows.
SuccessHasReport == poll = "succeeded" => row # "unread"

\* What is written of a user was so at some time since the report was made or the
\* user was asked, whichever was first; and a user whose own answer came is
\* written with something, whatever became of the report.
MergedHeld ==
  /\ merged # "unread" => merged \in held
  /\ Ended(poll) /\ ask = "succeeded" /\ answer # "unread" =>
       PreferDefined(Told(ask, answer), Told(poll, row)) # "unread"
=============================================================================
