--------------------------- MODULE MCIssueLifecycle ---------------------------
(* Instances of IssueLifecycle for TLC.                                     *)
EXTENDS IssueLifecycle, TLC

Symmetry == Permutations(Run) \cup Permutations(Issue) \cup Permutations(Analyst)

(* Analysts and changes of severity are explored apart.                     *)
Observed == {graph[i] : i \in Issue} \cup UNION {{found[r][i] : i \in Issue} : r \in Run}
            \cup {table[i] : i \in Issue}
RequestsOrSeverities == requests > 0 => \A o \in Observed \ {None} : o.severity = 1
===============================================================================
