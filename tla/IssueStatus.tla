----------------------------- MODULE IssueStatus -----------------------------
(***************************************************************************)
(* What the issue store promises its readers (the API's lists, the rule    *)
(* quality report, the trends): every issue is put once, by one creator,   *)
(* is never lost, and moves between its statuses only along the lifecycle  *)
(* open -> suppressed | resolved, suppressed -> open | resolved,           *)
(* resolved -> open.                                                       *)
(***************************************************************************)
CONSTANTS Issue, Creator, Absent

VARIABLE issue   \* per issue, Absent or its status and its creator

Init == issue \in [Issue -> {[status |-> s, creator |-> c] :
                               s \in {"open", "suppressed", "resolved"}, c \in Creator}
                            \cup {Absent}]

Create(i, c) ==
  /\ issue[i] = Absent
  /\ issue' = [issue EXCEPT ![i] = [status |-> "open", creator |-> c]]

Move(i, from, to) ==
  /\ issue[i] # Absent
  /\ issue[i].status \in from
  /\ issue' = [issue EXCEPT ![i].status = to]

Suppress(i) == Move(i, {"open"}, "suppressed")
Reopen(i) == Move(i, {"suppressed", "resolved"}, "open")
Resolve(i) == Move(i, {"open", "suppressed"}, "resolved")

Next == \E i \in Issue :
  \/ \E c \in Creator : Create(i, c)
  \/ Suppress(i)
  \/ Reopen(i)
  \/ Resolve(i)

Spec == Init /\ [][Next]_issue
===============================================================================
