-------------------------------- MODULE RuleJob --------------------------------
(* The rule job: a scheduled Lambda runs every enabled rule in turn and then   *)
(* records the day's trends, one row per metric and day. Gauges are put, so    *)
(* the last run of the day stands; created and resolved issues are added up.   *)
(* Runs overlap, time out at any step, cross midnight, and are invoked again   *)
(* when they fail. What one rule does to its issues is IssueLifecycle.         *)
EXTENDS Naturals, Sequences, SequencesExt, FiniteSetsExt

CONSTANTS Invocations,      \* of the Lambda: by its schedule, or again after a failure
          RuleOrder,        \* the enabled rules, in the catalogue's order
          MaxIssues,        \* bound: issues the rules open in all
          MaxFaults,        \* bound: runs broken off and calls applied twice
          LastDay           \* bound: days

VARIABLES run,              \* per invocation: where it is
          ruleResults,      \* its rules' results so far: "ok" or "errors"
          runTotals,        \* issues its rules created and resolved
          openSeen,         \* the open issues it counted, rule by rule
          recording,        \* metrics it still has to record, in order
          mishaps,          \* faults so far
          openIssues,       \* per rule: open issues in the issue table
          openedIssues,     \* per rule: issues ever opened
          today,
          trends,           \* per day: the rows of the trends table, by metric
          credited,         \* what completed increments were about, over all runs
          lostCounts        \* what runs that did not get there had to add

invocationVars == <<run, ruleResults, runTotals, openSeen, recording>>
ruleJobVars == <<invocationVars, openIssues, openedIssues, today, trends, credited,
                 lostCounts, mishaps>>

Rules == ToSet(RuleOrder)
Counters == {"issuesCreated", "issuesResolved"}
Gauges == {"openIssuesBySeverity"}     \* stands for the six series always there
Optional == {"exposedByType"}          \* and mttrHours, adminPrincipals
Metrics == Counters \cup Gauges \cup Optional

NoTotals == [c \in Counters |-> 0]
Nowhere == [n \in {} |-> 0]
Over == {"waiting", "succeeded", "failed", "killed"}

TypeOK ==
  /\ \A i \in Invocations : /\ Len(openSeen[i]) <= Len(RuleOrder)
                            /\ Len(ruleResults[i]) <= Len(RuleOrder)
                            /\ ToSet(recording[i]) \subseteq Metrics
  /\ run \in [Invocations -> Over \cup {"rules", "count", "record"}]
  /\ \A d \in 1 .. LastDay : DOMAIN trends[d] \subseteq Metrics
  /\ \A r \in Rules : openIssues[r] \in 0 .. openedIssues[r]

Init ==
  /\ run = [i \in Invocations |-> "waiting"]
  /\ ruleResults = [i \in Invocations |-> <<>>]
  /\ runTotals = [i \in Invocations |-> NoTotals]
  /\ openSeen = [i \in Invocations |-> <<>>]
  /\ recording = [i \in Invocations |-> <<>>]
  /\ mishaps = 0
  /\ openIssues = [r \in Rules |-> 0]
  /\ openedIssues = [r \in Rules |-> 0]
  /\ today = 1
  /\ trends = [d \in 1 .. LastDay |-> Nowhere]
  /\ credited = NoTotals
  /\ lostCounts = NoTotals

Start(i) ==
  /\ run[i] = "waiting"
  /\ run' = [run EXCEPT ![i] = "rules"]
  /\ UNCHANGED <<ruleResults, runTotals, openSeen, recording, openIssues, openedIssues, today,
                 trends, credited, lostCounts, mishaps>>

\* A rule's errors are its result; the next rule runs all the same.
NextRule(i, result) ==
  run' = [run EXCEPT ![i] =
            IF Len(ruleResults[i]) + 1 = Len(RuleOrder) THEN "count" ELSE "rules"]

\* runRule: what it created and resolved before an error counts.
RunRule(i) ==
  /\ run[i] = "rules"
  /\ LET r == RuleOrder[Len(ruleResults[i]) + 1] IN
     \E created \in 0 .. 1, resolved \in 0 .. openIssues[r], result \in {"ok", "errors"} :
       /\ MapThenSumSet(LAMBDA s : openedIssues[s], Rules) + created <= MaxIssues
       /\ openedIssues' = [openedIssues EXCEPT ![r] = @ + created]
       /\ openIssues' = [openIssues EXCEPT ![r] = @ + created - resolved]
       /\ runTotals' = [runTotals EXCEPT ![i].issuesCreated = @ + created,
                                         ![i].issuesResolved = @ + resolved]
       /\ ruleResults' = [ruleResults EXCEPT ![i] = Append(@, result)]
       /\ NextRule(i, result)
  /\ UNCHANGED <<openSeen, recording, today, trends, credited, lostCounts, mishaps>>

\* snapshotTrends, first loop: open issues rule by rule. Optional series are
\* left out when their source cannot be read.
CountOpen(i) ==
  /\ run[i] = "count"
  /\ LET n == Len(openSeen[i]) + 1 IN
     /\ openSeen' = [openSeen EXCEPT ![i] = Append(@, openIssues[RuleOrder[n]])]
     /\ \/ n < Len(RuleOrder) /\ UNCHANGED <<run, recording>>
        \/ /\ n = Len(RuleOrder)
           /\ run' = [run EXCEPT ![i] = "record"]
           /\ \E readable \in {<<>>, <<"exposedByType">>} :
                recording' = [recording EXCEPT ![i] =
                  <<"openIssuesBySeverity">> \o readable \o <<"issuesCreated", "issuesResolved">>]
  /\ UNCHANGED <<ruleResults, runTotals, openIssues, openedIssues, today, trends,
                 credited, lostCounts, mishaps>>

OpenTotal(i) == FoldSeq(LAMBDA n, sum : n + sum, 0, openSeen[i])

Put(metric, value) ==
  trends' = [trends EXCEPT ![today] =
    [n \in DOMAIN @ \cup {metric} |-> IF n = metric THEN value ELSE @[n]]]

\* recordMany: the day's row of a gauge is replaced.
Record(i) ==
  /\ run[i] = "record"
  /\ Head(recording[i]) \notin Counters
  /\ Put(Head(recording[i]), IF Head(recording[i]) \in Gauges THEN OpenTotal(i) ELSE 0)
  /\ recording' = [recording EXCEPT ![i] = Tail(@)]
  /\ UNCHANGED <<run, ruleResults, runTotals, openSeen, openIssues, openedIssues,
                 today, credited, lostCounts, mishaps>>

\* Mutant: a put keeps only the last run.
IncrementedPut(metric, amount) == Put(metric, amount)

\* ADD makes the row when there is none.
Incremented(metric, amount) ==
  Put(metric, IF metric \in DOMAIN trends[today] THEN trends[today][metric] + amount ELSE amount)

\* runOnce throws when any rule had errors.
Outcome(i) == IF "errors" \in ToSet(ruleResults[i]) THEN "failed" ELSE "succeeded"

\* increment. The SDK retries a call whose answer was lost, and an ADD that was
\* applied is applied again.
Increment(i) ==
  /\ run[i] = "record"
  /\ Head(recording[i]) \in Counters
  /\ LET counter == Head(recording[i]) IN
     /\ \E extra \in {0, 1} :
          /\ mishaps + extra <= MaxFaults
          /\ mishaps' = mishaps + extra
          /\ Incremented(counter, (1 + extra) * runTotals[i][counter])
     /\ credited' = [credited EXCEPT ![counter] = @ + runTotals[i][counter]]
  /\ recording' = [recording EXCEPT ![i] = Tail(@)]
  /\ run' = [run EXCEPT ![i] = IF Len(recording[i]) = 1 THEN Outcome(i) ELSE "record"]
  /\ UNCHANGED <<ruleResults, runTotals, openSeen, openIssues, openedIssues, today,
                 lostCounts>>

\* The counts a run has not added yet.
Unadded(i, c) ==
  IF run[i] \in {"rules", "count"} \/ (run[i] = "record" /\ c \in ToSet(recording[i]))
  THEN runTotals[i][c] ELSE 0

\* An issue table or trend table call throws, or the Lambda times out.
BreaksOff(i) ==
  /\ run[i] \in {"rules", "count", "record"}
  /\ mishaps < MaxFaults /\ mishaps' = mishaps + 1
  /\ run' = [run EXCEPT ![i] = "killed"]
  /\ lostCounts' = [c \in Counters |-> lostCounts[c] + Unadded(i, c)]
  /\ UNCHANGED <<ruleResults, runTotals, openSeen, recording, openIssues,
                 openedIssues, today, trends, credited>>

Midnight ==
  /\ today < LastDay
  /\ \E i \in Invocations : run[i] \notin Over \ {"waiting"}
  /\ today' = today + 1
  /\ UNCHANGED <<invocationVars, openIssues, openedIssues, trends, credited, lostCounts, mishaps>>

Next ==
  \/ \E i \in Invocations :
       Start(i) \/ RunRule(i) \/ CountOpen(i) \/ Record(i) \/ Increment(i) \/ BreaksOff(i)
  \/ Midnight

Spec == Init /\ [][Next]_ruleJobVars

-----------------------------------------------------------------------------
(* Properties. *)

AddedUp(c) ==
  MapThenSumSet(LAMBDA d : IF c \in DOMAIN trends[d] THEN trends[d][c] ELSE 0, 1 .. LastDay)

InFlight(c) == MapThenSumSet(LAMBDA i : Unadded(i, c), Invocations)

\* Every issue a rule opened is in the trends, still carried by a run, or went
\* down with a run that broke off: overlapping runs, midnight and invocations
\* again never lose one (posture-trend-store.ts, increment).
OpenedIssuesAddUp ==
  /\ MapThenSumSet(LAMBDA r : openedIssues[r], Rules)
       <= AddedUp("issuesCreated") + InFlight("issuesCreated") + lostCounts["issuesCreated"]
  /\ \A c \in Counters : AddedUp(c) >= credited[c]

\* A run that ends on its own has run every rule and recorded every trend, and
\* it says so when a rule had errors (runAllRules, runOnce).
FailedRulesStopNothing ==
  \A i \in Invocations :
    run[i] \in {"succeeded", "failed"} =>
      /\ Len(ruleResults[i]) = Len(RuleOrder)
      /\ Len(openSeen[i]) = Len(RuleOrder) /\ recording[i] = <<>>
      /\ run[i] = "failed" <=> "errors" \in ToSet(ruleResults[i])
=============================================================================
