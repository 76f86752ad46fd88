------------------------ MODULE IssueLifecycle_proofs ------------------------
(***************************************************************************)
(* Proofs about IssueLifecycle for every number of issues, runs, analysts, *)
(* resources and severities and every history limit: type correctness,     *)
(* that histories and records agree with the status they belong to, that   *)
(* the table implements the issue lifecycle of IssueStatus, and that one   *)
(* run at a time ends issues and suppressions only for their reasons.      *)
(***************************************************************************)
EXTENDS IssueLifecycle, TLAPS

-------------------------------------------------------------------------------
(* The operators on rows.                                                  *)

(* Keeping the newest changes of a history keeps it a history, and its     *)
(* last change.                                                            *)
LEMMA NewestType ==
  ASSUME NEW h \in Seq(StatusChange)
  PROVE  /\ Newest(h) \in Seq(StatusChange)
         /\ h # <<>> => Newest(h) # <<>>
         /\ h # <<>> => Newest(h)[Len(Newest(h))] = h[Len(h)]
<1>1. CASE Len(h) <= HistoryLimit
  BY <1>1, HistoryLimitAssumption DEF Newest
<1>2. CASE Len(h) > HistoryLimit
  <2> DEFINE n == Len(h) - HistoryLimit
             s == SubSeq(h, n + 1, Len(h))
  <2>1. Newest(h) = s
    BY <1>2, HistoryLimitAssumption DEF Newest
  <2>2. n + 1 \in 1..Len(h) /\ n \in Nat
    BY <1>2, HistoryLimitAssumption
  <2>3. s \in Seq(StatusChange)
    BY <2>2
  <2>4. Len(s) = HistoryLimit
    BY <1>2, HistoryLimitAssumption
  <2>5. s[HistoryLimit] = h[HistoryLimit + n]
    BY <1>2, <2>4, HistoryLimitAssumption
  <2>6. HistoryLimit + n = Len(h)
    BY <1>2, HistoryLimitAssumption
  <2>7. s # <<>>
    BY <2>3, <2>4, HistoryLimitAssumption
  <2>8. s[Len(s)] = h[Len(h)]
    BY <2>4, <2>5, <2>6
  <2> HIDE DEF s
  <2> QED
    BY <2>1, <2>3, <2>7, <2>8
<1> QED
  BY <1>1, <1>2, HistoryLimitAssumption

(* ... and every two neighbours of it.                                     *)
LEMMA NewestChained ==
  ASSUME NEW h \in Seq(StatusChange), Chained(h)
  PROVE  Chained(Newest(h))
<1>1. CASE Len(h) <= HistoryLimit
  BY <1>1, HistoryLimitAssumption DEF Newest
<1>2. CASE Len(h) > HistoryLimit
  <2> DEFINE n == Len(h) - HistoryLimit
  <2>1. Newest(h) = SubSeq(h, n + 1, Len(h))
    BY <1>2, HistoryLimitAssumption DEF Newest
  <2>2. /\ n \in Nat
        /\ Len(SubSeq(h, n + 1, Len(h))) = HistoryLimit
        /\ \A k \in 1..HistoryLimit : SubSeq(h, n + 1, Len(h))[k] = h[k + n]
    BY <1>2, HistoryLimitAssumption
  <2>3. \A k \in 1..(HistoryLimit - 1) : h[k + n].to = h[(k + 1) + n].from
    BY <1>2, <2>2, HistoryLimitAssumption DEF Chained
  <2> QED
    BY <2>1, <2>2, <2>3, HistoryLimitAssumption DEF Chained
<1> QED
  BY <1>1, <1>2, HistoryLimitAssumption

LEMMA RecordedType ==
  ASSUME NEW c, c.history \in Seq(StatusChange), c.status \in Status,
         NEW to \in Status, NEW by \in Actor
  PROVE  /\ Recorded(c, to, by) \in Seq(StatusChange)
         /\ Recorded(c, to, by) # <<>>
         /\ Recorded(c, to, by)[Len(Recorded(c, to, by))].to = to
<1> DEFINE e == [from |-> c.status, to |-> to, by |-> by]
           h == Append(c.history, e)
<1>1. e \in StatusChange
  BY DEF StatusChange
<1>2. h \in Seq(StatusChange) /\ h # <<>> /\ h[Len(h)] = e
  BY <1>1
<1>3. /\ Newest(h) \in Seq(StatusChange)
      /\ Newest(h) # <<>>
      /\ Newest(h)[Len(Newest(h))] = e
  BY <1>2, NewestType
<1>4. Recorded(c, to, by) = Newest(h)
  BY DEF Recorded
<1> QED
  BY <1>3, <1>4

(* A change recorded on a copy that explains itself explains the new row.  *)
LEMMA RecordedExplains ==
  ASSUME NEW c, c.history \in Seq(StatusChange), c.status \in Status,
         HistoryExplains(c),
         NEW to \in Status, NEW by \in Actor
  PROVE  HistoryExplains([status |-> to, history |-> Recorded(c, to, by)])
<1> DEFINE e == [from |-> c.status, to |-> to, by |-> by]
           h == Append(c.history, e)
<1>1. e \in StatusChange
  BY DEF StatusChange
<1>2. /\ Chained(c.history)
      /\ c.history # <<>> => c.history[Len(c.history)].to = c.status
  BY DEF HistoryExplains
<1>3. Chained(h)
  BY <1>1, <1>2 DEF Chained
<1>4. Recorded(c, to, by) = Newest(h)
  BY DEF Recorded
<1>5. h \in Seq(StatusChange)
  BY <1>1
<1>6. Chained(Recorded(c, to, by))
  BY <1>3, <1>4, <1>5, NewestChained
<1>7. Recorded(c, to, by)[Len(Recorded(c, to, by))].to = to
  BY RecordedType
<1> QED
  BY <1>6, <1>7 DEF HistoryExplains

(* Every write of the repository turns a row into a row.                   *)
LEMMA TransitionType ==
  ASSUME NEW row \in Row, NEW c, c.history \in Seq(StatusChange), c.status \in Status,
         NEW to \in Status, NEW by \in Actor,
         NEW s \in Suppression \cup {None}, NEW b \in BOOLEAN
  PROVE  /\ Transition(row, c, to, by, s, b) \in Row
         /\ Transition(row, c, to, by, s, b).status = to
         /\ Transition(row, c, to, by, s, b).history = Recorded(c, to, by)
         /\ Transition(row, c, to, by, s, b).suppression = s
         /\ Transition(row, c, to, by, s, b).stamped = b
         /\ Transition(row, c, to, by, s, b).creator = row.creator
  BY RecordedType DEF Transition, Row

LEMMA EntryOfType ==
  ASSUME NEW row \in Row
  PROVE  EntryOf(row) \in Entry /\ EntryOf(row) # None
<1>1. EntryOf(row) \in Entry
  BY DEF EntryOf, Entry, Row
<1> QED
  BY <1>1, NoneAssumption

LEMMA WriteTypes ==
  ASSUME NEW row \in Row, NEW c \in Row
  PROVE  /\ \A by \in Actor : Reopened(row, c, by) \in Row
         /\ \A e \in Entry : Resolved(row, e) \in Row
         /\ \A until \in Time : Suppressed(row, c, until) \in Row
         /\ \A seen \in Observation : Refreshed(row, c, seen) \in Row
         /\ \A d \in SUBSET Sink : WithRefs(row, c, d) \in Row
<1>1. /\ c.history \in Seq(StatusChange) /\ c.status \in Status /\ c.severity \in Severity
      /\ "system" \in Actor /\ "analyst" \in Actor
  BY DEF Row, EntryOf, Actor
<1>2. \A by \in Actor : Reopened(row, c, by) \in Row
  BY <1>1, TransitionType DEF Reopened, Status
<1>3. \A e \in Entry : Resolved(row, e) \in Row
  BY <1>1, TransitionType DEF Resolved, Status, Entry
<1>4. \A until \in Time : Suppressed(row, c, until) \in Row
  <2>1. \A until \in Time : [until |-> until, severity |-> c.severity] \in Suppression
    BY <1>1 DEF Suppression
  <2> QED
    BY <1>1, <2>1, TransitionType DEF Suppressed, Status
<1>5. \A seen \in Observation : Refreshed(row, c, seen) \in Row
  BY DEF Refreshed, Row, Observation
<1>6. \A d \in SUBSET Sink : WithRefs(row, c, d) \in Row
  BY DEF WithRefs, Row
<1> QED
  BY <1>2, <1>3, <1>4, <1>5, <1>6

LEMMA CreatedType ==
  ASSUME NEW seen \in Observation, NEW r \in Run
  PROVE  Created(seen, r) \in Row /\ Created(seen, r) # None
<1>1. Created(seen, r) \in Row
  BY DEF Created, Row, Observation, Status
<1> QED
  BY <1>1, NoneAssumption

-------------------------------------------------------------------------------
(* What a run holds where it is: a copy of the issue once it has read one, *)
(* and an observation of every issue it handles.                           *)
RunHolds(r) ==
  /\ pc[r] = "idle" => cur[r] = None
  /\ pc[r] \in {"reopen", "refresh", "endSuppression", "refreshLost", "emit"} => copy[r] # None
  /\ \A i \in Issue : (cur[r] = i \/ i \in todo[r]) => found[r][i] # None

TypeInv == TypeOK /\ \A r \in Run : RunHolds(r)

LEMMA EarlierRowType ==
  ASSUME NEW s \in Status
  PROVE  EarlierRow(s) \in Row /\ EarlierRow(s) # None
<1>1. EarlierRow(s) \in Row
  BY SeverityAssumption DEF EarlierRow, Row, Severity
<1> QED
  BY <1>1, NoneAssumption

LEMMA InitTypeInv == Init => TypeInv
<1> SUFFICES ASSUME Init PROVE TypeInv
  OBVIOUS
<1>1. table \in [Issue -> Row \cup {None}]
  BY EarlierRowType, EarlierStatusAssumption DEF Init, EarlierRows
<1>2. index \in [Issue -> Entry \cup {None}]
  <2>1. \A i \in Issue : table[i] # None => EntryOf(table[i]) \in Entry
    BY <1>1, EntryOfType
  <2> QED
    BY <2>1 DEF Init, IndexOf
<1>3. TypeOK
  BY <1>1, <1>2, TimeAssumption, BudgetAssumption
     DEF Init, TypeOK, Nothing, Time, PC
<1>4. \A r \in Run : RunHolds(r)
  BY IssueAssumption DEF Init, RunHolds, Nothing
<1> QED
  BY <1>3, <1>4 DEF TypeInv

(* A run that did not move still holds what it held.                       *)
LEMMA OthersHold ==
  ASSUME TypeInv, NEW q \in Run,
         pc'[q] = pc[q], cur'[q] = cur[q], copy'[q] = copy[q],
         todo'[q] = todo[q], found'[q] = found[q]
  PROVE  RunHolds(q)'
  BY DEF TypeInv, RunHolds

LEMMA StoreType ==
  ASSUME TypeInv, NEW i \in Issue, NEW row \in Row, Store(i, row)
  PROVE  table' \in [Issue -> Row \cup {None}]
  BY DEF TypeInv, TypeOK, Store

LEMMA StartRunType ==
  ASSUME TypeInv, NEW r \in Run, StartRun(r)
  PROVE  TypeInv'
<1>1. TypeOK'
  BY DEF TypeInv, TypeOK, StartRun, tableVars, Goto, PC
<1>2. RunHolds(r)'
  <2>1. /\ found'[r] = graph
        /\ todo'[r] = {i \in Issue : graph[i] # None}
        /\ cur'[r] = None
        /\ pc'[r] = "match"
    BY DEF TypeInv, TypeOK, RunHolds, StartRun, Goto
  <2> QED
    BY <2>1, IssueAssumption DEF RunHolds
<1>3. \A q \in Run \ {r} : RunHolds(q)'
  BY OthersHold DEF TypeInv, TypeOK, StartRun, Goto
<1> QED
  BY <1>1, <1>2, <1>3 DEF TypeInv

LEMMA ReadIssueType ==
  ASSUME TypeInv, NEW r \in Run, NEW i \in Issue, ReadIssue(r, i)
  PROVE  TypeInv'
<1>1. TypeOK'
  BY DEF TypeInv, TypeOK, ReadIssue, tableVars, Goto, PC
<1>2. \A q \in Run : RunHolds(q)'
  BY DEF TypeInv, TypeOK, RunHolds, ReadIssue, tableVars, Goto, PC
<1> QED
  BY <1>1, <1>2 DEF TypeInv

LEMMA ReopenType ==
  ASSUME TypeInv, NEW r \in Run, NEW i \in Issue, Reopen(r, i)
  PROVE  TypeInv'
<1>1. copy[r] \in Row /\ table[i] \in Row \cup {None} /\ pc[r] = "reopen" /\ cur[r] = i
  BY DEF TypeInv, TypeOK, RunHolds, Reopen, At
<1>2. [copy[r] EXCEPT !.status = "open"] \in Row
  BY <1>1 DEF Row, Status
<1>3. table' \in [Issue -> Row \cup {None}]
  <2>1. CASE MayReopen(table[i], copy[r])
    <3>1. table[i] \in Row
      BY <1>1, <2>1 DEF MayReopen, MayTransition
    <3>2. Reopened(table[i], copy[r], "system") \in Row
      BY <1>1, <3>1, WriteTypes DEF Actor
    <3> QED
      BY <2>1, <3>2, StoreType DEF Reopen
  <2>2. CASE ~MayReopen(table[i], copy[r])
    BY <2>2 DEF TypeInv, TypeOK, Reopen
  <2> QED
    BY <2>1, <2>2
<1>4. \/ /\ Goto(r, "refresh")
         /\ copy' = [copy EXCEPT ![r].status = "open"]
         /\ UNCHANGED cur
      \/ NextGroup(r)
  BY DEF Reopen
<1>5. TypeOK'
  <2>1. copy' \in [Run -> Row \cup {None}]
    BY <1>1, <1>2, <1>4 DEF TypeInv, TypeOK, NextGroup
  <2>2. pc' \in [Run -> PC] /\ cur' \in [Run -> Issue \cup {None}]
    BY <1>4 DEF TypeInv, TypeOK, NextGroup, Goto, PC
  <2> QED
    BY <1>3, <2>1, <2>2 DEF TypeInv, TypeOK, Reopen
<1>6. RunHolds(r)'
  <2>1. CASE Goto(r, "refresh") /\ copy' = [copy EXCEPT ![r].status = "open"] /\ UNCHANGED cur
    <3>1. copy'[r] # None
      BY <1>1, <1>2, <2>1, NoneAssumption DEF TypeInv, TypeOK
    <3> QED
      BY <2>1, <3>1 DEF TypeInv, TypeOK, RunHolds, Reopen, Goto
  <2>2. CASE NextGroup(r)
    BY <2>2, IssueAssumption DEF TypeInv, TypeOK, RunHolds, Reopen, NextGroup, Goto
  <2> QED
    BY <1>4, <2>1, <2>2
<1>7. \A q \in Run \ {r} : RunHolds(q)'
  BY <1>4, OthersHold DEF TypeInv, TypeOK, Reopen, NextGroup, Goto
<1> QED
  BY <1>5, <1>6, <1>7 DEF TypeInv

(* Where a step of the loop body leaves the run.                           *)
LEMMA NextGroupHolds ==
  ASSUME TypeInv, NEW r \in Run, NextGroup(r), UNCHANGED <<found, todo>>
  PROVE  /\ pc' \in [Run -> PC]
         /\ cur' \in [Run -> Issue \cup {None}]
         /\ copy' \in [Run -> Row \cup {None}]
         /\ \A q \in Run : RunHolds(q)'
<1>1. /\ pc' \in [Run -> PC]
      /\ cur' \in [Run -> Issue \cup {None}]
      /\ copy' \in [Run -> Row \cup {None}]
  BY DEF TypeInv, TypeOK, NextGroup, Goto, PC
<1>2. RunHolds(r)'
  BY IssueAssumption DEF TypeInv, TypeOK, RunHolds, NextGroup, Goto
<1>3. \A q \in Run \ {r} : RunHolds(q)'
  BY OthersHold DEF TypeInv, TypeOK, NextGroup, Goto
<1> QED
  BY <1>1, <1>2, <1>3

LEMMA StayHolds ==
  ASSUME TypeInv, NEW r \in Run, NEW label \in PC \ {"idle"}, Goto(r, label),
         NEW c \in Row \cup {None}, copy' = [copy EXCEPT ![r] = c], UNCHANGED cur,
         label \in {"create", "reread", "match", "resolve"} \/ c # None,
         UNCHANGED <<found, todo>>
  PROVE  /\ pc' \in [Run -> PC]
         /\ cur' \in [Run -> Issue \cup {None}]
         /\ copy' \in [Run -> Row \cup {None}]
         /\ \A q \in Run : RunHolds(q)'
<1>1. /\ pc' \in [Run -> PC]
      /\ cur' \in [Run -> Issue \cup {None}]
      /\ copy' \in [Run -> Row \cup {None}]
  BY DEF TypeInv, TypeOK, Goto, PC
<1>2. RunHolds(r)'
  BY DEF TypeInv, TypeOK, RunHolds, Goto
<1>3. \A q \in Run \ {r} : RunHolds(q)'
  BY OthersHold DEF TypeInv, TypeOK, Goto
<1> QED
  BY <1>1, <1>2, <1>3

(* ... with the copy it had.                                               *)
LEMMA KeepHolds ==
  ASSUME TypeInv, NEW r \in Run, NEW label \in PC \ {"idle"}, Goto(r, label), Keeps(r),
         label \in {"create", "reread", "match", "resolve"} \/ copy[r] # None,
         UNCHANGED <<found, todo>>
  PROVE  /\ pc' \in [Run -> PC]
         /\ cur' \in [Run -> Issue \cup {None}]
         /\ copy' \in [Run -> Row \cup {None}]
         /\ \A q \in Run : RunHolds(q)'
<1>1. /\ pc' \in [Run -> PC]
      /\ cur' \in [Run -> Issue \cup {None}]
      /\ copy' \in [Run -> Row \cup {None}]
  BY DEF TypeInv, TypeOK, Keeps, Goto, PC
<1>2. RunHolds(r)'
  BY DEF TypeInv, TypeOK, RunHolds, Keeps, Goto
<1>3. \A q \in Run \ {r} : RunHolds(q)'
  BY OthersHold DEF TypeInv, TypeOK, Keeps, Goto
<1> QED
  BY <1>1, <1>2, <1>3

LEMMA BodyType ==
  ASSUME TypeInv,
         table' \in [Issue -> Row \cup {None}],
         active' \in [Run -> SUBSET Issue],
         pc' \in [Run -> PC],
         cur' \in [Run -> Issue \cup {None}],
         copy' \in [Run -> Row \cup {None}],
         \A q \in Run : RunHolds(q)',
         UNCHANGED <<now, graph, index, found, todo, listed, req, aborts, requests>>
  PROVE  TypeInv'
  BY DEF TypeInv, TypeOK

LEMMA HandledType ==
  ASSUME TypeInv, NEW r \in Run, NEW i \in Issue, Handled(r, i),
         table' \in [Issue -> Row \cup {None}],
         UNCHANGED <<now, graph, index, found, todo, listed, req, aborts, requests>>
  PROVE  TypeInv'
<1>1. active' \in [Run -> SUBSET Issue]
  BY DEF TypeInv, TypeOK, Handled
<1> QED
  BY <1>1, NextGroupHolds, BodyType DEF Handled

LEMMA RefreshType ==
  ASSUME TypeInv, NEW r \in Run, NEW i \in Issue, Refresh(r, i)
  PROVE  TypeInv'
<1>1. /\ copy[r] \in Row /\ copy[r] # None
      /\ table[i] \in Row \cup {None}
      /\ found[r][i] \in Observation
  BY NoneAssumption DEF TypeInv, TypeOK, RunHolds, Refresh, At
<1>2. table' \in [Issue -> Row \cup {None}]
  <2>1. CASE MayRefresh(table[i])
    <3>1. table[i] \in Row
      BY <1>1, <2>1 DEF MayRefresh
    <3>2. Refreshed(table[i], copy[r], found[r][i]) \in Row
      BY <1>1, <3>1, WriteTypes
    <3> QED
      BY <2>1, <3>2, StoreType DEF Refresh
  <2>2. CASE ~MayRefresh(table[i])
    BY <2>2 DEF TypeInv, TypeOK, Refresh
  <2> QED
    BY <2>1, <2>2
<1>3. UNCHANGED <<now, graph, index, found, todo, listed, req, aborts, requests>>
  BY DEF Refresh
<1>4. CASE \/ Goto(r, "emit") /\ Keeps(r)
           \/ Goto(r, "endSuppression") /\ Keeps(r)
  <2>1. active' \in [Run -> SUBSET Issue]
    BY <1>4 DEF TypeInv, TypeOK, Keeps
  <2> QED
    BY <1>1, <1>2, <1>3, <1>4, <2>1, KeepHolds, BodyType DEF PC
<1>5. CASE Handled(r, i)
  BY <1>2, <1>3, <1>5, HandledType
<1> QED
  BY <1>4, <1>5 DEF Refresh

LEMMA EmitType ==
  ASSUME TypeInv, NEW r \in Run, NEW i \in Issue, Emit(r, i)
  PROVE  TypeInv'
<1>1. copy[r] \in Row /\ table[i] \in Row
  BY DEF TypeInv, TypeOK, RunHolds, Emit, At
<1>2. \A d \in SUBSET Sink : WithRefs(table[i], copy[r], d) \in Row
  BY <1>1, WriteTypes
<1>3. table' \in [Issue -> Row \cup {None}]
  <2>1. CASE UNCHANGED table
    BY <2>1 DEF TypeInv, TypeOK
  <2>2. CASE \E d \in SUBSET Sink : Store(i, WithRefs(table[i], copy[r], d))
    BY <1>2, <2>2, StoreType
  <2> QED
    BY <2>1, <2>2 DEF Emit
<1> QED
  BY <1>3, HandledType DEF Emit

LEMMA EndSuppressionType ==
  ASSUME TypeInv, NEW r \in Run, NEW i \in Issue, EndSuppression(r, i)
  PROVE  TypeInv'
<1>1. copy[r] \in Row /\ table[i] \in Row \cup {None}
  BY DEF TypeInv, TypeOK, RunHolds, EndSuppression, At
<1>2. table' \in [Issue -> Row \cup {None}]
  <2>1. CASE MayReopen(table[i], copy[r])
    <3>1. table[i] \in Row
      BY <1>1, <2>1 DEF MayReopen, MayTransition
    <3>2. Reopened(table[i], copy[r], "system") \in Row
      BY <1>1, <3>1, WriteTypes DEF Actor
    <3> QED
      BY <3>2, StoreType DEF EndSuppression, TypeInv, TypeOK
  <2>2. CASE ~MayReopen(table[i], copy[r])
    BY <2>2 DEF TypeInv, TypeOK, EndSuppression
  <2> QED
    BY <2>1, <2>2
<1> QED
  BY <1>2, HandledType DEF EndSuppression

LEMMA CreateType ==
  ASSUME TypeInv, NEW r \in Run, NEW i \in Issue, Create(r, i)
  PROVE  TypeInv'
<1> DEFINE row == Created(found[r][i], r)
<1>1. found[r][i] \in Observation
  BY DEF TypeInv, TypeOK, RunHolds, Create, At
<1>2. row \in Row /\ row # None
  BY <1>1, CreatedType
<1> HIDE DEF row
<1>3. table' \in [Issue -> Row \cup {None}]
  <2>1. Store(i, row) \/ UNCHANGED table
    BY DEF Create, row
  <2> QED
    BY <1>2, <2>1, StoreType DEF TypeInv, TypeOK
<1>4. UNCHANGED <<now, graph, index, found, todo, listed, req, aborts, requests>>
  BY DEF Create
<1>5. \/ Goto(r, "reread") /\ Keeps(r)
      \/ Handled(r, i)
      \/ Goto(r, "emit") /\ copy' = [copy EXCEPT ![r] = row] /\ UNCHANGED <<active, cur>>
  BY DEF Create, row
<1>6. CASE Goto(r, "reread") /\ Keeps(r)
  <2>1. active' \in [Run -> SUBSET Issue]
    BY <1>6 DEF TypeInv, TypeOK, Keeps
  <2> QED
    BY <1>3, <1>4, <1>6, <2>1, KeepHolds, BodyType DEF PC
<1>7. CASE Handled(r, i)
  BY <1>3, <1>4, <1>7, HandledType
<1>8. CASE Goto(r, "emit") /\ copy' = [copy EXCEPT ![r] = row] /\ UNCHANGED <<active, cur>>
  <2>1. active' \in [Run -> SUBSET Issue]
    BY <1>8 DEF TypeInv, TypeOK
  <2> QED
    BY <1>2, <1>3, <1>4, <1>8, <2>1, StayHolds, BodyType DEF PC
<1> QED
  BY <1>5, <1>6, <1>7, <1>8

LEMMA RereadType ==
  ASSUME TypeInv, NEW r \in Run, NEW i \in Issue, Reread(r, i)
  PROVE  TypeInv'
<1>1. table' \in [Issue -> Row \cup {None}] /\ table[i] \in Row \cup {None}
  BY DEF TypeInv, TypeOK, Reread, tableVars
<1>2. UNCHANGED <<now, graph, index, found, todo, listed, req, aborts, requests>>
  BY DEF Reread, tableVars
<1>3. CASE Handled(r, i)
  BY <1>1, <1>2, <1>3, HandledType
<1>4. CASE /\ table[i] # None
           /\ Goto(r, "refreshLost")
           /\ copy' = [copy EXCEPT ![r] = table[i]]
           /\ UNCHANGED <<active, cur>>
  <2>1. active' \in [Run -> SUBSET Issue]
    BY <1>4 DEF TypeInv, TypeOK
  <2> QED
    BY <1>1, <1>2, <1>4, <2>1, StayHolds, BodyType DEF PC
<1> QED
  BY <1>3, <1>4 DEF Reread

LEMMA ListActiveType ==
  ASSUME TypeInv, NEW r \in Run, ListActive(r)
  PROVE  TypeInv'
<1>1. TypeOK'
  BY DEF TypeInv, TypeOK, ListActive, tableVars, Goto, PC
<1>2. \A q \in Run : RunHolds(q)'
  BY DEF TypeInv, TypeOK, RunHolds, ListActive, Goto
<1> QED
  BY <1>1, <1>2 DEF TypeInv

LEMMA ResolveType ==
  ASSUME TypeInv, NEW r \in Run, NEW i \in Issue, Resolve(r, i)
  PROVE  TypeInv'
<1>1. listed[r][i] \in Entry /\ table[i] \in Row \cup {None}
  BY DEF TypeInv, TypeOK, Resolve
<1>2. table' \in [Issue -> Row \cup {None}]
  <2>1. CASE MayResolve(table[i], listed[r][i])
    <3>1. table[i] \in Row
      BY <1>1, <2>1 DEF MayResolve, MayTransition
    <3>2. Resolved(table[i], listed[r][i]) \in Row
      BY <1>1, <3>1, WriteTypes
    <3> QED
      BY <2>1, <3>2, StoreType DEF Resolve
  <2>2. CASE ~MayResolve(table[i], listed[r][i])
    BY <2>2 DEF TypeInv, TypeOK, Resolve
  <2> QED
    BY <2>1, <2>2
<1>3. listed' \in [Run -> [Issue -> Entry \cup {None}]]
  BY DEF TypeInv, TypeOK, Resolve
<1>4. TypeOK'
  BY <1>2, <1>3 DEF TypeInv, TypeOK, Resolve
<1>5. \A q \in Run : RunHolds(q)'
  BY OthersHold DEF Resolve
<1> QED
  BY <1>4, <1>5 DEF TypeInv

LEMMA ForgetHolds ==
  ASSUME TypeInv, NEW r \in Run, Forget(r)
  PROVE  /\ pc' \in [Run -> PC]
         /\ found' \in [Run -> [Issue -> Observation \cup {None}]]
         /\ todo' \in [Run -> SUBSET Issue]
         /\ active' \in [Run -> SUBSET Issue]
         /\ cur' \in [Run -> Issue \cup {None}]
         /\ copy' \in [Run -> Row \cup {None}]
         /\ listed' \in [Run -> [Issue -> Entry \cup {None}]]
         /\ \A q \in Run : RunHolds(q)'
<1>1. Nothing \in [Issue -> Observation \cup {None}] /\ Nothing \in [Issue -> Entry \cup {None}]
  BY DEF Nothing
<1>2. /\ pc' \in [Run -> PC]
      /\ found' \in [Run -> [Issue -> Observation \cup {None}]]
      /\ todo' \in [Run -> SUBSET Issue]
      /\ active' \in [Run -> SUBSET Issue]
      /\ cur' \in [Run -> Issue \cup {None}]
      /\ copy' \in [Run -> Row \cup {None}]
      /\ listed' \in [Run -> [Issue -> Entry \cup {None}]]
  BY <1>1 DEF TypeInv, TypeOK, Forget, Goto, PC
<1>3. RunHolds(r)'
  BY IssueAssumption DEF TypeInv, TypeOK, RunHolds, Forget, Goto
<1>4. \A q \in Run \ {r} : RunHolds(q)'
  BY OthersHold DEF TypeInv, TypeOK, Forget, Goto
<1> QED
  BY <1>2, <1>3, <1>4

LEMMA FinishType ==
  ASSUME TypeInv, NEW r \in Run, Finish(r)
  PROVE  TypeInv'
<1>1. UNCHANGED <<now, graph, table, index, req, aborts, requests>>
  BY DEF Finish, tableVars
<1>2. Forget(r)
  BY DEF Finish
<1> QED
  BY <1>1, <1>2, ForgetHolds DEF TypeInv, TypeOK

LEMMA AbortType ==
  ASSUME TypeInv, NEW r \in Run, Abort(r)
  PROVE  TypeInv'
<1>1. UNCHANGED <<now, graph, table, index, req, requests>>
  BY DEF Abort, tableVars
<1>2. Forget(r) /\ aborts' \in 0..MaxAborts
  BY BudgetAssumption DEF Abort, TypeInv, TypeOK
<1> QED
  BY <1>1, <1>2, ForgetHolds DEF TypeInv, TypeOK

(* The steps that leave every run where it is.                             *)
LEMMA WorldType ==
  ASSUME TypeInv, Tick \/ \E i \in Issue : GraphChanges(i) \/ IndexCatchesUp(i)
  PROVE  TypeInv'
<1>1. CASE Tick
  <2>1. now' \in Time
    BY <1>1, TimeAssumption DEF Tick, TypeInv, TypeOK, Time
  <2>2. TypeOK'
    BY <1>1, <2>1 DEF Tick, TypeInv, TypeOK, runVars
  <2>3. \A q \in Run : RunHolds(q)'
    BY <1>1, OthersHold DEF Tick, runVars
  <2> QED
    BY <2>2, <2>3 DEF TypeInv
<1>2. ASSUME NEW i \in Issue, GraphChanges(i)
      PROVE  TypeInv'
  <2>1. TypeOK'
    BY <1>2 DEF GraphChanges, TypeInv, TypeOK, runVars
  <2>2. \A q \in Run : RunHolds(q)'
    BY <1>2, OthersHold DEF GraphChanges, runVars
  <2> QED
    BY <2>1, <2>2 DEF TypeInv
<1>3. ASSUME NEW i \in Issue, IndexCatchesUp(i)
      PROVE  TypeInv'
  <2>1. IndexOf(table)[i] \in Entry \cup {None}
    BY EntryOfType DEF IndexOf, TypeInv, TypeOK
  <2>2. TypeOK'
    BY <1>3, <2>1 DEF IndexCatchesUp, TypeInv, TypeOK, runVars
  <2>3. \A q \in Run : RunHolds(q)'
    BY <1>3, OthersHold DEF IndexCatchesUp, runVars
  <2> QED
    BY <2>2, <2>3 DEF TypeInv
<1> QED
  BY <1>1, <1>2, <1>3

LEMMA AskType ==
  ASSUME TypeInv, NEW a \in Analyst, NEW i \in Issue,
         AskSuppress(a, i) \/ AskReopen(a, i)
  PROVE  TypeInv'
<1>1. PICK op \in {"suppress", "reopen"}, until \in Time : Ask(a, op, i, until)
  BY TimeAssumption, AnalystOpAssumption DEF AskSuppress, AskReopen, Time
<1>2. [op |-> op, issue |-> i, until |-> until, copy |-> table[i]] \in Request
  BY <1>1 DEF Ask, TypeInv, TypeOK, Request
<1>3. requests' \in 0..MaxRequests
  BY <1>1, BudgetAssumption DEF Ask, TypeInv, TypeOK
<1>4. TypeOK'
  BY <1>1, <1>2, <1>3 DEF Ask, TypeInv, TypeOK, runVars, tableVars
<1>5. \A q \in Run : RunHolds(q)'
  BY <1>1, OthersHold DEF Ask, runVars
<1> QED
  BY <1>4, <1>5 DEF TypeInv

LEMMA AnswerType ==
  ASSUME TypeInv, NEW a \in Analyst, NEW i \in Issue,
         Suppress(a, i) \/ ReopenByHand(a, i)
  PROVE  TypeInv'
<1>1. /\ req[a] \in Request /\ req[a].copy \in Row /\ req[a].until \in Time
      /\ table[i] \in Row \cup {None}
  BY DEF TypeInv, TypeOK, Request, Suppress, ReopenByHand
<1>2. table' \in [Issue -> Row \cup {None}]
  <2>1. CASE UNCHANGED table
    BY <2>1 DEF TypeInv, TypeOK
  <2>2. CASE /\ MaySuppress(table[i], req[a].copy)
             /\ Store(i, Suppressed(table[i], req[a].copy, req[a].until))
    <3>1. table[i] \in Row
      BY <1>1, <2>2 DEF MaySuppress, MayTransition
    <3>2. Suppressed(table[i], req[a].copy, req[a].until) \in Row
      BY <1>1, <3>1, WriteTypes
    <3> QED
      BY <2>2, <3>1, <3>2, StoreType DEF TypeInv, TypeOK
  <2>3. CASE /\ MayReopen(table[i], req[a].copy)
             /\ Store(i, Reopened(table[i], req[a].copy, "analyst"))
    <3>1. table[i] \in Row
      BY <1>1, <2>3 DEF MayReopen, MayTransition
    <3>2. Reopened(table[i], req[a].copy, "analyst") \in Row
      BY <1>1, <3>1, WriteTypes DEF Actor
    <3> QED
      BY <2>3, <3>2, StoreType DEF TypeInv, TypeOK
  <2> QED
    BY <2>1, <2>2, <2>3 DEF Suppress, ReopenByHand
<1>3. TypeOK'
  BY <1>2 DEF Suppress, ReopenByHand, Answered, TypeInv, TypeOK, runVars
<1>4. \A q \in Run : RunHolds(q)'
  BY OthersHold DEF Suppress, ReopenByHand, Answered, runVars
<1> QED
  BY <1>3, <1>4 DEF TypeInv

LEMMA StepType == TypeInv /\ [Next]_vars => TypeInv'
<1> SUFFICES ASSUME TypeInv, [Next]_vars PROVE TypeInv'
  OBVIOUS
<1>1. CASE UNCHANGED vars
  <2>1. TypeOK'
    BY <1>1 DEF TypeInv, TypeOK, vars
  <2>2. \A q \in Run : RunHolds(q)'
    BY <1>1, OthersHold DEF vars
  <2> QED
    BY <2>1, <2>2 DEF TypeInv
<1>2. CASE Tick \/ \E i \in Issue : GraphChanges(i) \/ IndexCatchesUp(i)
  BY <1>2, WorldType
<1>3. ASSUME NEW r \in Run, RunStep(r) \/ Abort(r)
      PROVE  TypeInv'
  BY <1>3, StartRunType, ReadIssueType, ReopenType, RefreshType, EmitType,
     EndSuppressionType, CreateType, RereadType, ListActiveType, ResolveType,
     FinishType, AbortType
     DEF RunStep
<1>4. ASSUME NEW a \in Analyst, AnalystStep(a)
      PROVE  TypeInv'
  BY <1>4, AskType, AnswerType DEF AnalystStep
<1> QED
  BY <1>1, <1>2, <1>3, <1>4 DEF Next

(* Whatever the runs and the analysts do, and for every number of them, no *)
(* row, copy, request or counter leaves its domain: in particular no write *)
(* puts an attribute of an absent row.                                     *)
THEOREM TypeCorrect == Spec => []TypeOK
<1>1. Init => TypeInv
  BY InitTypeInv
<1>2. TypeInv /\ [Next]_vars => TypeInv'
  BY StepType
<1>3. TypeInv => TypeOK
  BY DEF TypeInv
<1> QED
  BY <1>1, <1>2, <1>3, PTL DEF Spec

-------------------------------------------------------------------------------
(* What a step may write: at most one row, in one of the ways the          *)
(* repository has, from a copy that somebody holds.                        *)
Holds(i, c) ==
  \/ \E r \in Run : copy[r] = c /\ pc[r] \in {"reopen", "endSuppression"}
  \/ \E a \in Analyst : req[a] # None /\ req[a].copy = c

Written(i, row) ==
  \/ \E seen \in Observation, r \in Run : table[i] = None /\ row = Created(seen, r)
  \/ \E seen \in Observation, c \in Row :
       table[i] \in Row /\ table[i].status # "resolved" /\ row = Refreshed(table[i], c, seen)
  \/ \E c \in Row, d \in SUBSET Sink : table[i] \in Row /\ row = WithRefs(table[i], c, d)
  \/ \E c \in Row, by \in Actor :
       /\ Holds(i, c) /\ table[i] \in Row /\ MayReopen(table[i], c)
       /\ row = Reopened(table[i], c, by)
  \/ \E c \in Row, until \in Time :
       /\ Holds(i, c) /\ table[i] \in Row /\ MaySuppress(table[i], c)
       /\ row = Suppressed(table[i], c, until)
  \/ \E e \in Entry :
       /\ \E r \in Run : listed[r][i] = e
       /\ table[i] \in Row /\ MayResolve(table[i], e)
       /\ row = Resolved(table[i], e)

Writes == UNCHANGED table \/ \E i \in Issue : \E row : Store(i, row) /\ Written(i, row)

LEMMA WrittenType ==
  ASSUME TypeInv, NEW i \in Issue, NEW row, Written(i, row)
  PROVE  row \in Row
<1>1. ASSUME NEW e \in Entry, table[i] \in Row
      PROVE  Resolved(table[i], e) \in Row
  BY <1>1, WriteTypes
<1> QED
  BY <1>1, CreatedType, WriteTypes DEF Written

LEMMA StepWrites == TypeInv /\ [Next]_vars => Writes
<1> SUFFICES ASSUME TypeInv, [Next]_vars PROVE Writes
  OBVIOUS
<1>1. CASE UNCHANGED vars
  BY <1>1 DEF vars, Writes
<1>2. CASE Tick \/ \E i \in Issue : GraphChanges(i) \/ IndexCatchesUp(i)
  BY <1>2 DEF Tick, GraphChanges, IndexCatchesUp, Writes
<1>3. ASSUME NEW r \in Run, RunStep(r) \/ Abort(r)
      PROVE  Writes
  <2>1. CASE StartRun(r) \/ ListActive(r) \/ Finish(r) \/ Abort(r)
    BY <2>1 DEF StartRun, ListActive, Finish, Abort, tableVars, Writes
  <2>2. ASSUME NEW i \in Issue, ReadIssue(r, i) \/ Reread(r, i)
        PROVE  Writes
    BY <2>2 DEF ReadIssue, Reread, tableVars, Writes
  <2>3. ASSUME NEW i \in Issue, Reopen(r, i) \/ EndSuppression(r, i)
        PROVE  Writes
    <3>1. /\ copy[r] \in Row /\ table[i] \in Row \cup {None}
          /\ Holds(i, copy[r]) /\ "system" \in Actor
      BY <2>3 DEF TypeInv, TypeOK, RunHolds, Reopen, EndSuppression, At, Holds, Actor
    <3>2. \/ UNCHANGED table
          \/ /\ MayReopen(table[i], copy[r])
             /\ Store(i, Reopened(table[i], copy[r], "system"))
      BY <2>3 DEF Reopen, EndSuppression
    <3>3. MayReopen(table[i], copy[r]) => table[i] \in Row
      BY <3>1 DEF MayReopen, MayTransition
    <3> QED
      BY <3>1, <3>2, <3>3 DEF Writes, Written
  <2>4. ASSUME NEW i \in Issue, Refresh(r, i)
        PROVE  Writes
    <3>1. copy[r] \in Row /\ table[i] \in Row \cup {None} /\ found[r][i] \in Observation
      BY <2>4 DEF TypeInv, TypeOK, RunHolds, Refresh, At
    <3>2. \/ UNCHANGED table
          \/ MayRefresh(table[i]) /\ Store(i, Refreshed(table[i], copy[r], found[r][i]))
      BY <2>4 DEF Refresh
    <3> QED
      BY <3>1, <3>2 DEF Writes, Written, MayRefresh
  <2>5. ASSUME NEW i \in Issue, Emit(r, i)
        PROVE  Writes
    <3>1. copy[r] \in Row /\ table[i] \in Row
      BY <2>5 DEF TypeInv, TypeOK, RunHolds, Emit, At
    <3>2. \/ UNCHANGED table
          \/ \E d \in SUBSET Sink : Store(i, WithRefs(table[i], copy[r], d))
      BY <2>5 DEF Emit
    <3> QED
      BY <3>1, <3>2 DEF Writes, Written
  <2>6. ASSUME NEW i \in Issue, Create(r, i)
        PROVE  Writes
    <3>1. found[r][i] \in Observation
      BY <2>6 DEF TypeInv, TypeOK, RunHolds, Create, At
    <3>2. \/ UNCHANGED table
          \/ table[i] = None /\ Store(i, Created(found[r][i], r))
      BY <2>6 DEF Create, MayCreate
    <3> QED
      BY <3>1, <3>2 DEF Writes, Written
  <2>7. ASSUME NEW i \in Issue, Resolve(r, i)
        PROVE  Writes
    <3>1. listed[r][i] \in Entry /\ table[i] \in Row \cup {None}
      BY <2>7 DEF TypeInv, TypeOK, Resolve
    <3>2. \/ UNCHANGED table
          \/ /\ MayResolve(table[i], listed[r][i])
             /\ Store(i, Resolved(table[i], listed[r][i]))
      BY <2>7 DEF Resolve
    <3>3. MayResolve(table[i], listed[r][i]) => table[i] \in Row
      BY <3>1 DEF MayResolve, MayTransition
    <3> QED
      BY <3>1, <3>2, <3>3 DEF Writes, Written
  <2> QED
    BY <1>3, <2>1, <2>2, <2>3, <2>4, <2>5, <2>6, <2>7 DEF RunStep
<1>4. ASSUME NEW a \in Analyst, AnalystStep(a)
      PROVE  Writes
  <2> PICK i \in Issue :
        AskSuppress(a, i) \/ AskReopen(a, i) \/ Suppress(a, i) \/ ReopenByHand(a, i)
    BY <1>4 DEF AnalystStep
  <2>1. CASE AskSuppress(a, i) \/ AskReopen(a, i)
    BY <2>1 DEF AskSuppress, AskReopen, Ask, tableVars, Writes
  <2>2. CASE Suppress(a, i) \/ ReopenByHand(a, i)
    <3>1. /\ req[a].copy \in Row /\ req[a].until \in Time
          /\ table[i] \in Row \cup {None}
          /\ Holds(i, req[a].copy) /\ "analyst" \in Actor
      BY <2>2 DEF TypeInv, TypeOK, Request, Suppress, ReopenByHand, Holds, Actor
    <3>2. \/ UNCHANGED table
          \/ /\ MaySuppress(table[i], req[a].copy)
             /\ Store(i, Suppressed(table[i], req[a].copy, req[a].until))
          \/ /\ MayReopen(table[i], req[a].copy)
             /\ Store(i, Reopened(table[i], req[a].copy, "analyst"))
      BY <2>2 DEF Suppress, ReopenByHand
    <3>3. MaySuppress(table[i], req[a].copy) \/ MayReopen(table[i], req[a].copy)
            => table[i] \in Row
      BY <3>1 DEF MaySuppress, MayReopen, MayTransition
    <3> QED
      BY <3>1, <3>2, <3>3 DEF Writes, Written
  <2> QED
    BY <2>1, <2>2
<1> QED
  BY <1>1, <1>2, <1>3, <1>4 DEF Next

-------------------------------------------------------------------------------
LEMMA WrittenAgrees ==
  ASSUME NEW i \in Issue, table[i] # None => StatusFieldsAgree(table[i]),
         NEW row, Written(i, row)
  PROVE  StatusFieldsAgree(row)
<1>1. ASSUME NEW seen \in Observation, NEW r \in Run, row = Created(seen, r)
      PROVE  StatusFieldsAgree(row)
  BY <1>1 DEF Created, StatusFieldsAgree
<1>2. ASSUME NEW seen \in Observation, NEW c \in Row, table[i] \in Row,
             row = Refreshed(table[i], c, seen)
      PROVE  StatusFieldsAgree(row)
  BY <1>2, NoneAssumption DEF Refreshed, StatusFieldsAgree, Row
<1>3. ASSUME NEW c \in Row, NEW d \in SUBSET Sink, table[i] \in Row,
             row = WithRefs(table[i], c, d)
      PROVE  StatusFieldsAgree(row)
  BY <1>3, NoneAssumption DEF WithRefs, StatusFieldsAgree, Row
<1>4. ASSUME NEW c \in Row, NEW by \in Actor, table[i] \in Row, row = Reopened(table[i], c, by)
      PROVE  StatusFieldsAgree(row)
  <2>1. row.status = "open" /\ row.suppression = None /\ ~row.stamped
    BY <1>4 DEF Reopened, Transition, Row
  <2> QED
    BY <2>1 DEF StatusFieldsAgree
<1>5. ASSUME NEW c \in Row, NEW until \in Time, table[i] \in Row,
             row = Suppressed(table[i], c, until)
      PROVE  StatusFieldsAgree(row)
  <2> DEFINE s == [until |-> until, severity |-> c.severity]
  <2>1. s \in Suppression
    BY DEF Suppression, Row
  <2>2. s # None
    BY <2>1, NoneAssumption
  <2>3. row = Transition(table[i], c, "suppressed", "analyst", s, FALSE)
    BY <1>5 DEF Suppressed
  <2> HIDE DEF s
  <2>4. row.status = "suppressed" /\ row.suppression = s /\ ~row.stamped
    BY <1>5, <2>3 DEF Transition, Row
  <2> QED
    BY <2>2, <2>4 DEF StatusFieldsAgree
<1>6. ASSUME NEW e \in Entry, table[i] \in Row, row = Resolved(table[i], e)
      PROVE  StatusFieldsAgree(row)
  <2>1. row.status = "resolved" /\ row.suppression = None /\ row.stamped
    BY <1>6 DEF Resolved, Transition, Row
  <2> QED
    BY <2>1 DEF StatusFieldsAgree
<1> QED
  BY <1>1, <1>2, <1>3, <1>4, <1>5, <1>6 DEF Written

(* No interleaving of rule runs and analysts, however old the copies they  *)
(* write from, leaves a suppression record or a resolution stamp on a row  *)
(* of another status, or a recorded suppression without its record.        *)
THEOREM RecordsMatch == Spec => []RecordsMatchStatus
<1>1. Init => TypeInv /\ RecordsMatchStatus
  <2>1. \A s \in EarlierStatus : StatusFieldsAgree(EarlierRow(s))
    BY DEF EarlierRow, StatusFieldsAgree
  <2> QED
    BY <2>1, InitTypeInv DEF Init, EarlierRows, RecordsMatchStatus
<1>2. TypeInv /\ RecordsMatchStatus /\ [Next]_vars => (TypeInv /\ RecordsMatchStatus)'
  <2> SUFFICES ASSUME TypeInv, RecordsMatchStatus, [Next]_vars
               PROVE  RecordsMatchStatus'
    BY StepType
  <2>1. CASE UNCHANGED table
    BY <2>1 DEF RecordsMatchStatus
  <2>2. ASSUME NEW i \in Issue, NEW row, Store(i, row), Written(i, row)
        PROVE  RecordsMatchStatus'
    <3>1. StatusFieldsAgree(row)
      BY <2>2, WrittenAgrees DEF RecordsMatchStatus
    <3> QED
      BY <2>2, <3>1 DEF RecordsMatchStatus, Store, TypeInv, TypeOK
  <2> QED
    BY <2>1, <2>2, StepWrites DEF Writes
<1> QED
  BY <1>1, <1>2, PTL DEF Spec

-------------------------------------------------------------------------------
LEMMA TransitionExplains ==
  ASSUME NEW row \in Row, NEW c, c.history \in Seq(StatusChange), c.status \in Status,
         HistoryExplains(c), NEW to \in Status, NEW by \in Actor, NEW s, NEW b
  PROVE  HistoryExplains(Transition(row, c, to, by, s, b))
<1>1. HistoryExplains([status |-> to, history |-> Recorded(c, to, by)])
  BY RecordedExplains
<1>2. /\ Transition(row, c, to, by, s, b).status = to
      /\ Transition(row, c, to, by, s, b).history = Recorded(c, to, by)
  BY DEF Transition, Row
<1> QED
  BY <1>1, <1>2 DEF HistoryExplains

(* The copies that a status is written from explain themselves, so the     *)
(* rows written from them do.                                              *)
LEMMA WrittenExplains ==
  ASSUME HistoriesExplainStatus, NEW i \in Issue, NEW row, Written(i, row)
  PROVE  HistoryExplains(row)
<1>1. ASSUME NEW seen \in Observation, NEW r \in Run, row = Created(seen, r)
      PROVE  HistoryExplains(row)
  BY <1>1 DEF Created, HistoryExplains, Chained
<1>2. ASSUME table[i] \in Row, row.status = table[i].status, row.history = table[i].history
      PROVE  HistoryExplains(row)
  <2>1. HistoryExplains(table[i])
    BY <1>2, NoneAssumption DEF HistoriesExplainStatus, RowsExplain
  <2> QED
    BY <1>2, <2>1 DEF HistoryExplains
<1>3. ASSUME NEW c \in Row, NEW seen \in Observation, table[i] \in Row,
             row = Refreshed(table[i], c, seen)
      PROVE  HistoryExplains(row)
  BY <1>2, <1>3 DEF Refreshed, Row
<1>4. ASSUME NEW c \in Row, NEW d \in SUBSET Sink, table[i] \in Row,
             row = WithRefs(table[i], c, d)
      PROVE  HistoryExplains(row)
  BY <1>2, <1>4 DEF WithRefs, Row
<1>5. ASSUME NEW c \in Row, Holds(i, c)
      PROVE  HistoryExplains(c) /\ c.history \in Seq(StatusChange) /\ c.status \in Status
  BY <1>5 DEF Holds, HistoriesExplainStatus, CopiesExplain, Deciding, Row
<1>6. "open" \in Status /\ "suppressed" \in Status /\ "resolved" \in Status
      /\ "system" \in Actor /\ "analyst" \in Actor
  BY DEF Status, Actor
<1>7. ASSUME NEW c \in Row, NEW by \in Actor, Holds(i, c), table[i] \in Row,
             row = Reopened(table[i], c, by)
      PROVE  HistoryExplains(row)
  BY <1>5, <1>6, <1>7, TransitionExplains DEF Reopened
<1>8. ASSUME NEW c \in Row, NEW until \in Time, Holds(i, c), table[i] \in Row,
             row = Suppressed(table[i], c, until)
      PROVE  HistoryExplains(row)
  BY <1>5, <1>6, <1>8, TransitionExplains DEF Suppressed
<1>9. ASSUME NEW e \in Entry, NEW r \in Run, listed[r][i] = e, table[i] \in Row,
             row = Resolved(table[i], e)
      PROVE  HistoryExplains(row)
  <2>1. HistoryExplains(e) /\ e.history \in Seq(StatusChange) /\ e.status \in Status
    BY <1>9, NoneAssumption DEF HistoriesExplainStatus, CopiesExplain, Entry
  <2> QED
    BY <1>6, <1>9, <2>1, TransitionExplains DEF Resolved
<1> QED
  BY <1>1, <1>3, <1>4, <1>7, <1>8, <1>9 DEF Written

LEMMA RowsKeepExplaining ==
  ASSUME TypeInv, HistoriesExplainStatus, [Next]_vars
  PROVE  RowsExplain'
<1>1. CASE UNCHANGED table
  BY <1>1 DEF HistoriesExplainStatus, RowsExplain
<1>2. ASSUME NEW i \in Issue, NEW row, Store(i, row), Written(i, row)
      PROVE  RowsExplain'
  <2>1. HistoryExplains(row)
    BY <1>2, WrittenExplains
  <2> QED
    BY <1>2, <2>1 DEF HistoriesExplainStatus, RowsExplain, Store, TypeInv, TypeOK
<1> QED
  BY <1>1, <1>2, StepWrites DEF Writes

(* A run decides on a row as it read it, until it has changed its status.  *)
LEMMA DecidingCopies ==
  ASSUME TypeInv, HistoriesExplainStatus, NEW r \in Run, RunStep(r) \/ Abort(r)
  PROVE  (Deciding(r) => HistoryExplains(copy[r]))'
<1>1. Deciding(r) => HistoryExplains(copy[r])
  BY DEF HistoriesExplainStatus, CopiesExplain
<1>2. CASE StartRun(r) \/ ListActive(r) \/ Finish(r) \/ Abort(r)
  BY <1>2 DEF StartRun, ListActive, Finish, Abort, Forget, Goto, Deciding, TypeInv, TypeOK
<1>3. ASSUME NEW i \in Issue, ReadIssue(r, i)
      PROVE  (Deciding(r) => HistoryExplains(copy[r]))'
  <2>1. copy'[r] = table[i]
    BY <1>3 DEF ReadIssue, TypeInv, TypeOK
  <2>2. Deciding(r)' => table[i] # None
    BY <1>3 DEF ReadIssue, Deciding, Goto, TypeInv, TypeOK
  <2> QED
    BY <2>1, <2>2 DEF HistoriesExplainStatus, RowsExplain
<1>4. CASE NextGroup(r)
  BY <1>4 DEF NextGroup, Goto, Deciding, TypeInv, TypeOK
<1>5. ASSUME NEW i \in Issue, Reopen(r, i), ~NextGroup(r)
      PROVE  ~Deciding(r)'
  <2>1. copy[r] \in Row
    BY <1>5 DEF TypeInv, TypeOK, RunHolds, Reopen, At
  <2>2. Goto(r, "refresh") /\ copy' = [copy EXCEPT ![r].status = "open"]
    BY <1>5 DEF Reopen
  <2>3. pc'[r] = "refresh" /\ copy'[r].status = "open"
    BY <2>1, <2>2 DEF Goto, TypeInv, TypeOK, Row
  <2> QED
    BY <2>3 DEF Deciding
<1>6. ASSUME NEW i \in Issue, Refresh(r, i), ~NextGroup(r)
      PROVE  (Deciding(r) => HistoryExplains(copy[r]))'
  <2>1. Keeps(r)
    BY <1>6 DEF Refresh, Handled
  <2>2. Deciding(r)' => Deciding(r)
    BY <1>6 DEF Refresh, Handled, Keeps, Goto, Deciding, TypeInv, TypeOK
  <2> QED
    BY <1>1, <2>1, <2>2 DEF Keeps
<1>7. ASSUME NEW i \in Issue, Emit(r, i) \/ EndSuppression(r, i)
      PROVE  NextGroup(r)
  BY <1>7 DEF Emit, EndSuppression, Handled
<1>8. ASSUME NEW i \in Issue, Create(r, i) \/ Reread(r, i), ~NextGroup(r)
      PROVE  ~Deciding(r)'
  BY <1>8 DEF Create, Reread, Handled, Goto, Deciding, TypeInv, TypeOK
<1>9. ASSUME NEW i \in Issue, Resolve(r, i)
      PROVE  (Deciding(r) => HistoryExplains(copy[r]))'
  BY <1>1, <1>9 DEF Resolve, Deciding
<1> QED
  BY <1>2, <1>3, <1>4, <1>5, <1>6, <1>7, <1>8, <1>9 DEF RunStep

LEMMA CopiesKeepExplaining ==
  ASSUME TypeInv, HistoriesExplainStatus, [Next]_vars
  PROVE  CopiesExplain'
<1> USE DEF HistoriesExplainStatus, RowsExplain, CopiesExplain
<1>1. CASE UNCHANGED vars
  BY <1>1 DEF vars, Deciding
<1>2. CASE Tick \/ \E i \in Issue : GraphChanges(i)
  BY <1>2 DEF Tick, GraphChanges, runVars, Deciding
<1>3. ASSUME NEW i \in Issue, IndexCatchesUp(i)
      PROVE  CopiesExplain'
  <2>1. IndexOf(table)[i] # None => HistoryExplains(IndexOf(table)[i])
    BY DEF IndexOf, EntryOf, HistoryExplains
  <2> QED
    BY <1>3, <2>1 DEF IndexCatchesUp, runVars, Deciding, TypeInv, TypeOK
<1>4. ASSUME NEW r \in Run, RunStep(r) \/ Abort(r)
      PROVE  CopiesExplain'
  <2>1. (Deciding(r) => HistoryExplains(copy[r]))'
    BY <1>4, DecidingCopies
  <2>2. \A q \in Run \ {r} : pc'[q] = pc[q] /\ copy'[q] = copy[q] /\ UNCHANGED <<index, req>>
    BY <1>4 DEF RunStep, StartRun, ReadIssue, Reopen, Refresh, Emit, EndSuppression, Create,
       Reread, ListActive, Resolve, Finish, Abort, Forget, Handled, NextGroup, Keeps, Goto,
       tableVars, TypeInv, TypeOK
  <2>3. UNCHANGED <<index, req>>
    BY <1>4 DEF RunStep, StartRun, ReadIssue, Reopen, Refresh, Emit, EndSuppression, Create,
       Reread, ListActive, Resolve, Finish, Abort, tableVars
  <2>4. \A q \in Run, i \in Issue : listed'[q][i] \in {listed[q][i], index[i], None}
    <3>1. CASE UNCHANGED listed
      BY <3>1
    <3>2. CASE ListActive(r)
      BY <3>2 DEF ListActive, TypeInv, TypeOK
    <3>3. CASE \E i \in Issue : Resolve(r, i)
      BY <3>3 DEF Resolve, TypeInv, TypeOK
    <3>4. CASE Forget(r)
      BY <3>4 DEF Forget, Nothing, TypeInv, TypeOK
    <3> QED
      BY <1>4, <3>1, <3>2, <3>3, <3>4
         DEF RunStep, StartRun, ReadIssue, Reopen, Refresh, Emit, EndSuppression, Create,
             Reread, Finish, Abort
  <2>5. \A q \in Run : (Deciding(q) => HistoryExplains(copy[q]))'
    BY <2>1, <2>2 DEF Deciding
  <2>6. \A q \in Run, i \in Issue : listed'[q][i] # None => HistoryExplains(listed'[q][i])
    BY <2>4
  <2> QED
    BY <2>3, <2>5, <2>6
<1>5. ASSUME NEW a \in Analyst, AnalystStep(a)
      PROVE  CopiesExplain'
  <2>1. UNCHANGED <<index, runVars>>
    BY <1>5 DEF AnalystStep, AskSuppress, AskReopen, Ask, Suppress, ReopenByHand, Answered,
       tableVars
  <2>2. \A b \in Analyst : req'[b] # None => HistoryExplains(req'[b].copy)
    <3>1. CASE req' = [req EXCEPT ![a] = None]
      BY <3>1 DEF TypeInv, TypeOK
    <3>2. ASSUME NEW i \in Issue, NEW op, NEW until, Ask(a, op, i, until)
          PROVE  \A b \in Analyst : req'[b] # None => HistoryExplains(req'[b].copy)
      BY <3>2 DEF Ask, TypeInv, TypeOK
    <3> QED
      BY <1>5, <3>1, <3>2
         DEF AnalystStep, AskSuppress, AskReopen, Suppress, ReopenByHand, Answered
  <2> QED
    BY <2>1, <2>2 DEF runVars, Deciding
<1> QED
  BY <1>1, <1>2, <1>3, <1>4, <1>5 DEF Next

(* Every row's history explains its status, whatever copies the writers    *)
(* worked from; the copies that decide a status explain themselves, which  *)
(* is what makes the invariant inductive.                                  *)
THEOREM Histories == Spec => []HistoriesExplainStatus
<1>1. Init => TypeInv /\ HistoriesExplainStatus
  <2> SUFFICES ASSUME Init PROVE HistoriesExplainStatus
    BY InitTypeInv
  <2>1. \A i \in Issue : table[i] # None => table[i].history = <<>>
    BY DEF Init, EarlierRows, EarlierRow
  <2>2. RowsExplain
    BY <2>1 DEF RowsExplain, HistoryExplains, Chained
  <2>3. \A i \in Issue : index[i] # None => HistoryExplains(index[i])
    BY <2>1 DEF Init, IndexOf, EntryOf, HistoryExplains, Chained
  <2>4. CopiesExplain
    BY <2>3 DEF Init, CopiesExplain, Deciding, Nothing
  <2> QED
    BY <2>2, <2>4 DEF HistoriesExplainStatus
<1>2. TypeInv /\ HistoriesExplainStatus /\ [Next]_vars => (TypeInv /\ HistoriesExplainStatus)'
  BY StepType, RowsKeepExplaining, CopiesKeepExplaining DEF HistoriesExplainStatus
<1> QED
  BY <1>1, <1>2, PTL DEF Spec

-------------------------------------------------------------------------------
(* A refresh or a late delivery of references leaves a resolved issue's    *)
(* severity, resources and history as they were, in every interleaving.    *)
THEOREM Frozen == Spec => ResolvedRowsFrozen
<1> DEFINE Keep(i) ==
      Is(table, i, "resolved") /\ Is(table', i, "resolved")
        => /\ table'[i].severity = table[i].severity
           /\ table'[i].resources = table[i].resources
           /\ table'[i].history = table[i].history
<1>1. ASSUME TypeInv, [Next]_vars, NEW i \in Issue
      PROVE  Keep(i)
  <2>1. CASE table'[i] = table[i]
    BY <2>1
  <2>2. ASSUME NEW row, table'[i] = row, Written(i, row)
        PROVE  Keep(i)
    <3>1. ASSUME NEW c \in Row, NEW d \in SUBSET Sink, table[i] \in Row,
                 row = WithRefs(table[i], c, d)
          PROVE  Keep(i)
      BY <2>2, <3>1 DEF WithRefs, Row
    <3>2. ASSUME NEW c, NEW by, table[i] \in Row, row = Reopened(table[i], c, by)
          PROVE  row.status = "open"
      BY <3>2 DEF Reopened, Transition, Row
    <3>3. ASSUME NEW c, NEW until, table[i] \in Row, row = Suppressed(table[i], c, until)
          PROVE  row.status = "suppressed"
      BY <3>3 DEF Suppressed, Transition, Row
    <3>4. ASSUME NEW e, MayResolve(table[i], e)
          PROVE  table[i].status # "resolved"
      BY <3>4 DEF MayResolve, MayTransition, ActiveStatus
    <3> QED
      BY <2>2, <3>1, <3>2, <3>3, <3>4 DEF Written, Is
  <2>3. CASE \E row : table'[i] = row /\ Written(i, row)
    BY <2>2, <2>3
  <2> QED
    BY <1>1, <2>1, <2>3, StepWrites DEF Writes, Store, TypeInv, TypeOK
<1>2. TypeInv /\ [Next]_vars => [\A i \in Issue : Keep(i)]_table
  BY <1>1
<1> QED
  BY <1>2, InitTypeInv, StepType, PTL DEF Spec, ResolvedRowsFrozen

-------------------------------------------------------------------------------
(* The refinement of IssueStatus.                                          *)
StatusOfTable == [i \in Issue |-> IF table[i] = None THEN None ELSE StatusOf(table[i])]

LEMMA StatusOfType ==
  ASSUME NEW row \in Row
  PROVE  StatusOf(row) # None
<1>1. StatusOf(row) \in [status : Status, creator : Run \cup {Earlier}]
  BY DEF StatusOf, Row
<1> QED
  BY <1>1, NoneAssumption

LEMMA StatusInit == Init => Lifecycle!Init
<1> SUFFICES ASSUME Init PROVE Lifecycle!Init
  OBVIOUS
<1> DEFINE S == {[status |-> s, creator |-> c] : s \in {"open", "suppressed", "resolved"},
                                                 c \in Run \cup {Earlier}}
<1>1. \A i \in Issue : table[i] # None => StatusOf(table[i]) \in S
  <2>1. \A s \in EarlierStatus : StatusOf(EarlierRow(s)) = [status |-> s, creator |-> Earlier]
    BY DEF StatusOf, EarlierRow
  <2>2. EarlierStatus \subseteq {"open", "suppressed", "resolved"}
    BY EarlierStatusAssumption DEF Status
  <2> QED
    BY <2>1, <2>2 DEF Init, EarlierRows
<1>2. Lifecycle!Init <=> StatusOfTable \in [Issue -> S \cup {None}]
  BY DEF Lifecycle!Init, StatusOfTable
<1> HIDE DEF S
<1>3. StatusOfTable \in [Issue -> S \cup {None}]
  BY <1>1 DEF StatusOfTable
<1> QED
  BY <1>2, <1>3

(* What a write does to the status and the creator of its row.             *)
LEMMA WrittenStatus ==
  ASSUME TypeInv, NEW i \in Issue, NEW row, Written(i, row)
  PROVE  \/ \E c \in Run : table[i] = None /\ StatusOf(row) = [status |-> "open", creator |-> c]
         \/ table[i] \in Row /\ StatusOf(row) = StatusOf(table[i])
         \/ \E to \in Status :
              /\ table[i] \in Row
              /\ StatusOf(row) = [StatusOf(table[i]) EXCEPT !.status = to]
              /\ \/ to = "open" /\ table[i].status \in {"suppressed", "resolved"}
                 \/ to = "suppressed" /\ table[i].status = "open"
                 \/ to = "resolved" /\ table[i].status \in {"open", "suppressed"}
<1>1. ASSUME NEW seen, NEW r \in Run, row = Created(seen, r)
      PROVE  StatusOf(row) = [status |-> "open", creator |-> r]
  BY <1>1 DEF Created, StatusOf
<1>2. ASSUME NEW c, NEW seen, table[i] \in Row, row = Refreshed(table[i], c, seen)
      PROVE  StatusOf(row) = StatusOf(table[i])
  BY <1>2 DEF Refreshed, StatusOf, Row
<1>3. ASSUME NEW c, NEW d, table[i] \in Row, row = WithRefs(table[i], c, d)
      PROVE  StatusOf(row) = StatusOf(table[i])
  BY <1>3 DEF WithRefs, StatusOf, Row
<1>4. ASSUME NEW c, NEW to, NEW by, NEW s, NEW b, table[i] \in Row,
             row = Transition(table[i], c, to, by, s, b)
      PROVE  StatusOf(row) = [StatusOf(table[i]) EXCEPT !.status = to]
  BY <1>4 DEF Transition, StatusOf, Row
<1>5. ASSUME NEW c, NEW by, table[i] \in Row, MayReopen(table[i], c),
             row = Reopened(table[i], c, by)
      PROVE  /\ StatusOf(row) = [StatusOf(table[i]) EXCEPT !.status = "open"]
             /\ table[i].status \in {"suppressed", "resolved"}
  BY <1>4, <1>5 DEF MayReopen, MayTransition, Reopened
<1>6. ASSUME NEW c, NEW until, table[i] \in Row, MaySuppress(table[i], c),
             row = Suppressed(table[i], c, until)
      PROVE  /\ StatusOf(row) = [StatusOf(table[i]) EXCEPT !.status = "suppressed"]
             /\ table[i].status = "open"
  BY <1>4, <1>6 DEF MaySuppress, MayTransition, Suppressed
<1>7. ASSUME NEW e, table[i] \in Row, MayResolve(table[i], e), row = Resolved(table[i], e)
      PROVE  /\ StatusOf(row) = [StatusOf(table[i]) EXCEPT !.status = "resolved"]
             /\ table[i].status \in {"open", "suppressed"}
  BY <1>4, <1>7 DEF MayResolve, MayTransition, Resolved, ActiveStatus
<1>8. "open" \in Status /\ "suppressed" \in Status /\ "resolved" \in Status
  BY DEF Status
<1> QED
  BY <1>1, <1>2, <1>3, <1>5, <1>6, <1>7, <1>8 DEF Written

LEMMA StatusStep ==
  TypeInv /\ [Next]_vars => [Lifecycle!Next]_StatusOfTable
<1> SUFFICES ASSUME TypeInv, [Next]_vars
             PROVE  Lifecycle!Next \/ StatusOfTable' = StatusOfTable
  OBVIOUS
<1>1. CASE UNCHANGED table
  BY <1>1 DEF StatusOfTable
<1>2. ASSUME NEW i \in Issue, NEW row, Store(i, row), Written(i, row)
      PROVE  Lifecycle!Next \/ StatusOfTable' = StatusOfTable
  <2>1. row # None
    BY <1>2, WrittenType, NoneAssumption
  <2>2. StatusOfTable' = [StatusOfTable EXCEPT ![i] = StatusOf(row)]
    BY <1>2, <2>1 DEF StatusOfTable, Store, TypeInv, TypeOK
  <2>3. ASSUME NEW c \in Run, table[i] = None,
               StatusOf(row) = [status |-> "open", creator |-> c]
        PROVE  Lifecycle!Next
    <3>1. StatusOfTable[i] = None
      BY <2>3 DEF StatusOfTable
    <3>2. Lifecycle!Create(i, c)
      BY <2>2, <2>3, <3>1 DEF Lifecycle!Create, StatusOfTable
    <3> QED
      BY <3>2 DEF Lifecycle!Next
  <2>4. CASE table[i] \in Row /\ StatusOf(row) = StatusOf(table[i])
    <3>1. StatusOfTable[i] = StatusOf(table[i])
      BY <2>4, NoneAssumption DEF StatusOfTable
    <3> QED
      BY <2>2, <2>4, <3>1 DEF StatusOfTable
  <2>5. ASSUME NEW to \in Status, NEW from,
               table[i] \in Row, table[i].status \in from,
               StatusOf(row) = [StatusOf(table[i]) EXCEPT !.status = to]
        PROVE  Lifecycle!Move(i, from, to)
    <3>1. /\ StatusOfTable[i] = StatusOf(table[i])
          /\ StatusOfTable[i] # None
          /\ StatusOfTable[i].status \in from
      BY <2>5, StatusOfType, NoneAssumption DEF StatusOfTable, StatusOf
    <3>2. StatusOfTable' = [StatusOfTable EXCEPT ![i].status = to]
      BY <2>2, <2>5, <3>1
    <3> QED
      BY <3>1, <3>2 DEF Lifecycle!Move, StatusOfTable
  <2>6. ASSUME NEW to \in Status,
               table[i] \in Row,
               StatusOf(row) = [StatusOf(table[i]) EXCEPT !.status = to],
               \/ to = "open" /\ table[i].status \in {"suppressed", "resolved"}
               \/ to = "suppressed" /\ table[i].status = "open"
               \/ to = "resolved" /\ table[i].status \in {"open", "suppressed"}
        PROVE  Lifecycle!Next
    <3>1. CASE to = "open" /\ table[i].status \in {"suppressed", "resolved"}
      BY <2>5, <2>6, <3>1 DEF Lifecycle!Next, Lifecycle!Reopen
    <3>2. CASE to = "suppressed" /\ table[i].status \in {"open"}
      BY <2>5, <2>6, <3>2 DEF Lifecycle!Next, Lifecycle!Suppress
    <3>3. CASE to = "resolved" /\ table[i].status \in {"open", "suppressed"}
      BY <2>5, <2>6, <3>3 DEF Lifecycle!Next, Lifecycle!Resolve
    <3> QED
      BY <2>6, <3>1, <3>2, <3>3
  <2> QED
    BY <1>2, <2>3, <2>4, <2>6, WrittenStatus
<1> QED
  BY <1>1, <1>2, StepWrites DEF Writes

(* The table implements the issue lifecycle: however runs and analysts     *)
(* interleave, an issue has one creation, is never lost, and only makes    *)
(* the moves of IssueStatus.                                               *)
THEOREM ImplementsLifecycle == Spec => LifecycleSpec
<1>1. Init => Lifecycle!Init
  BY StatusInit
<1>2. Init => TypeInv
  BY InitTypeInv
<1>3. TypeInv /\ [Next]_vars => TypeInv'
  BY StepType
<1>4. TypeInv /\ [Next]_vars => [Lifecycle!Next]_StatusOfTable
  BY StatusStep
<1> QED
  BY <1>1, <1>2, <1>3, <1>4, PTL DEF Spec, LifecycleSpec, Lifecycle!Spec, StatusOfTable

-------------------------------------------------------------------------------
(* Where a run has what its query matched: ahead, in hand, or counted as   *)
(* active, and then it is not among the issues to resolve.                 *)
Accounts(r) ==
  /\ \A i \in Issue : pc[r] # "idle" /\ found[r][i] # None
                        => i \in todo[r] \/ i \in active[r] \/ cur[r] = i
  /\ pc[r] \in {"match", "resolve"} => cur[r] = None
  /\ pc[r] = "resolve" => todo[r] = {}
  /\ \A i \in Issue : listed[r][i] # None => pc[r] = "resolve" /\ i \notin active[r]

(* Alone, a run's copy of a row that is not open tells how the row is.     *)
Knows(r) ==
  \A i \in Issue : cur[r] = i =>
    /\ pc[r] = "reopen" => Is(table, i, "resolved") /\ copy[r].status = "resolved"
    /\ pc[r] \in {"refresh", "endSuppression"} /\ copy[r].status = "suppressed"
         => Is(table, i, "suppressed") /\ table[i].suppression = copy[r].suppression

AloneInv ==
  /\ TypeInv
  /\ \A r \in Run : Accounts(r) /\ Knows(r)
  /\ \A a \in Analyst : req[a] # None => req[a].op = "suppress"

LEMMA InitAlone == Init => AloneInv
<1> SUFFICES ASSUME Init PROVE AloneInv
  OBVIOUS
<1>1. \A r \in Run : Accounts(r) /\ Knows(r)
  BY IssueAssumption DEF Init, Accounts, Knows, Nothing
<1>2. \A a \in Analyst : req[a] = None
  BY DEF Init
<1> QED
  BY <1>1, <1>2, InitTypeInv DEF AloneInv

(* The run is over, or done with an issue.                                 *)
LEMMA HandledAlone ==
  ASSUME TypeInv, NEW r \in Run, Accounts(r), NEW i \in Issue, cur[r] = i, pc[r] # "idle",
         Handled(r, i), UNCHANGED <<found, todo, listed>>
  PROVE  Accounts(r)' /\ Knows(r)'
<1>1. /\ pc'[r] = "match" /\ cur'[r] = None /\ active'[r] = active[r] \cup {i}
      /\ UNCHANGED <<found, todo, listed>>
  BY DEF TypeInv, TypeOK, Handled, NextGroup, Goto
<1>2. pc[r] \notin {"match", "resolve"}
  BY IssueAssumption DEF Accounts
<1> QED
  BY <1>1, <1>2, IssueAssumption DEF Accounts, Knows

LEMMA RunAlone ==
  ASSUME Alone, AloneInv, NEW r \in Run, RunStep(r) \/ Abort(r)
  PROVE  Accounts(r)' /\ Knows(r)'
<1>0. TypeInv /\ Accounts(r) /\ Knows(r)
  BY DEF AloneInv
<1>1. CASE StartRun(r)
  <2>1. /\ pc'[r] = "match" /\ found'[r] = graph /\ todo'[r] = {i \in Issue : graph[i] # None}
        /\ cur'[r] = None /\ pc[r] = "idle" /\ listed' = listed
    BY <1>0, <1>1 DEF StartRun, Goto, TypeInv, TypeOK, RunHolds
  <2> QED
    BY <1>0, <2>1, IssueAssumption DEF Accounts, Knows
<1>2. ASSUME NEW i \in Issue, ReadIssue(r, i)
      PROVE  Accounts(r)' /\ Knows(r)'
  <2>1. /\ todo'[r] = todo[r] \ {i} /\ cur'[r] = i /\ copy'[r] = table[i] /\ pc[r] = "match"
        /\ UNCHANGED <<table, found, active, listed>>
        /\ \/ table[i] = None /\ pc'[r] = "create"
           \/ table[i] # None /\ table[i].status = "resolved" /\ pc'[r] = "reopen"
           \/ table[i] # None /\ table[i].status # "resolved" /\ pc'[r] = "refresh"
    BY <1>0, <1>2 DEF ReadIssue, Goto, TypeInv, TypeOK, tableVars
  <2>2. Accounts(r)'
    BY <1>0, <2>1, IssueAssumption DEF Accounts
  <2>3. Knows(r)'
    BY <2>1 DEF Knows, Is
  <2> QED
    BY <2>2, <2>3
<1>3. ASSUME NEW i \in Issue, Reopen(r, i)
      PROVE  Accounts(r)' /\ Knows(r)'
  <2>1. /\ pc[r] = "reopen" /\ cur[r] = i /\ copy[r] \in Row
        /\ table[i] # None /\ table[i].status = "resolved" /\ copy[r].status = "resolved"
    BY <1>0, <1>3 DEF Reopen, At, Knows, Is, TypeInv, TypeOK, RunHolds
  <2>2. MayReopen(table[i], copy[r])
    BY <2>1 DEF MayReopen, MayTransition
  <2>3. \A reported \in Reports(MayReopen(table[i], copy[r])) : reported
    BY <2>2 DEF Reports, Alone
  <2>4. Goto(r, "refresh") /\ copy' = [copy EXCEPT ![r].status = "open"] /\ UNCHANGED cur
    BY <1>3, <2>3 DEF Reopen
  <2>5. pc'[r] = "refresh" /\ copy'[r].status = "open" /\ cur'[r] = i
    BY <1>0, <2>1, <2>4 DEF Goto, TypeInv, TypeOK, Row
  <2>6. UNCHANGED <<found, todo, active, listed>>
    BY <1>3 DEF Reopen
  <2> QED
    BY <1>0, <2>1, <2>5, <2>6 DEF Accounts, Knows
<1>4. ASSUME NEW i \in Issue, Refresh(r, i)
      PROVE  Accounts(r)' /\ Knows(r)'
  <2>1. /\ pc[r] \in {"refresh", "refreshLost"} /\ cur[r] = i
        /\ UNCHANGED <<found, todo, listed>>
    BY <1>4 DEF Refresh, At
  <2>2. CASE Handled(r, i)
    BY <1>0, <2>1, <2>2, HandledAlone
  <2>3. CASE copy[r].status # "suppressed" /\ Goto(r, "emit") /\ Keeps(r)
    <3>1. pc'[r] = "emit" /\ UNCHANGED <<active, cur, copy>>
      BY <1>0, <2>3 DEF Goto, Keeps, TypeInv, TypeOK
    <3> QED
      BY <1>0, <2>1, <3>1 DEF Accounts, Knows
  <2>4. CASE pc[r] = "refresh" /\ copy[r].status = "suppressed" /\ Goto(r, "endSuppression") /\ Keeps(r)
    <3>1. pc'[r] = "endSuppression" /\ UNCHANGED <<active, cur, copy>>
      BY <1>0, <2>4 DEF Goto, Keeps, TypeInv, TypeOK
    <3>2. table[i] # None /\ table[i].status = "suppressed" /\ table[i].suppression = copy[r].suppression
      BY <1>0, <2>1, <2>4 DEF Knows, Is
    <3>3. /\ table'[i] # None /\ table'[i].status = "suppressed"
          /\ table'[i].suppression = copy[r].suppression
      <4>1. table[i] \in Row /\ copy[r] \in Row /\ found[r][i] \in Observation
        BY <1>0, <2>1, <3>2 DEF TypeInv, TypeOK, RunHolds
      <4>2. CASE table' = table
        BY <3>2, <4>2
      <4>3. CASE Store(i, Refreshed(table[i], copy[r], found[r][i]))
        <5>1. table'[i] = Refreshed(table[i], copy[r], found[r][i])
          BY <1>0, <4>3 DEF Store, TypeInv, TypeOK
        <5>2. table'[i] \in Row
          BY <4>1, <5>1, WriteTypes
        <5> QED
          BY ZenonT(60), <3>2, <4>1, <5>1, <5>2, NoneAssumption DEF Refreshed, Row
      <4> QED
        BY <1>4, <4>2, <4>3 DEF Refresh
    <3>4. Accounts(r)'
      BY <1>0, <2>1, <3>1 DEF Accounts
    <3>5. Knows(r)'
      BY <2>1, <3>1, <3>3 DEF Knows, Is
    <3> QED
      BY <3>4, <3>5
  <2> QED
    BY <1>4, <2>1, <2>2, <2>3, <2>4 DEF Refresh
<1>5. ASSUME NEW i \in Issue, Emit(r, i) \/ EndSuppression(r, i)
      PROVE  Accounts(r)' /\ Knows(r)'
  BY <1>0, <1>5, HandledAlone DEF Emit, EndSuppression, At
<1>6. ASSUME NEW i \in Issue, Create(r, i) \/ Reread(r, i)
      PROVE  Accounts(r)' /\ Knows(r)'
  <2>1. /\ pc[r] \in {"create", "reread"} /\ cur[r] = i
        /\ UNCHANGED <<found, todo, listed>>
    BY <1>6 DEF Create, Reread, At
  <2>2. CASE Handled(r, i)
    BY <1>0, <2>1, <2>2, HandledAlone
  <2>3. CASE /\ UNCHANGED <<active, cur>>
             /\ Goto(r, "reread") \/ Goto(r, "emit") \/ Goto(r, "refreshLost")
    <3>1. pc'[r] \in {"reread", "emit", "refreshLost"} /\ UNCHANGED <<active, cur>>
      BY <1>0, <2>3 DEF Goto, TypeInv, TypeOK
    <3> QED
      BY <1>0, <2>1, <3>1 DEF Accounts, Knows
  <2> QED
    BY <1>6, <2>2, <2>3 DEF Create, Reread, Keeps
<1>7. CASE ListActive(r)
  <2>1. /\ pc[r] = "match" /\ todo[r] = {} /\ pc'[r] = "resolve"
        /\ \A i \in Issue : listed'[r][i] # None => i \notin active[r]
        /\ UNCHANGED <<found, todo, active, cur>>
    BY <1>0, <1>7 DEF ListActive, Goto, TypeInv, TypeOK
  <2> QED
    BY <1>0, <2>1, IssueAssumption DEF Accounts, Knows
<1>8. ASSUME NEW i \in Issue, Resolve(r, i)
      PROVE  Accounts(r)' /\ Knows(r)'
  <2>1. /\ pc[r] = "resolve"
        /\ \A j \in Issue : listed'[r][j] # None => listed[r][j] # None
        /\ UNCHANGED <<pc, found, todo, active, cur>>
    BY <1>0, <1>8 DEF Resolve, TypeInv, TypeOK
  <2> QED
    BY <1>0, <2>1, IssueAssumption DEF Accounts, Knows
<1>9. CASE Finish(r) \/ Abort(r)
  <2>1. pc'[r] = "idle" /\ cur'[r] = None /\ \A i \in Issue : listed'[r][i] = None
    BY <1>0, <1>9 DEF Finish, Abort, Forget, Goto, Nothing, TypeInv, TypeOK
  <2> QED
    BY <2>1, IssueAssumption DEF Accounts, Knows
<1> QED
  BY <1>1, <1>2, <1>3, <1>4, <1>5, <1>6, <1>7, <1>8, <1>9 DEF RunStep

(* An analyst who reopens nothing writes on open rows only.                *)
LEMMA AnalystAlone ==
  ASSUME Alone, AloneInv, NEW a \in Analyst, AnalystStep(a)
  PROVE  /\ UNCHANGED runVars
         /\ \A b \in Analyst : req'[b] # None => req'[b].op = "suppress"
         /\ \A i \in Issue : table'[i] # table[i] =>
              /\ table[i] # None /\ table[i].status = "open"
              /\ table'[i] # None /\ table'[i].status = "suppressed"
<1>0. TypeInv
  BY DEF AloneInv
<1>1. ASSUME NEW i \in Issue, AskSuppress(a, i) \/ AskReopen(a, i)
      PROVE  /\ UNCHANGED <<runVars, table>>
             /\ \A b \in Analyst : req'[b] # None => req'[b].op = "suppress"
  <2>1. ASSUME NEW op, NEW until, Ask(a, op, i, until)
        PROVE  /\ UNCHANGED <<runVars, table>>
               /\ \A b \in Analyst : req'[b] # None => req'[b].op = "suppress"
    <3>1. op = "suppress"
      BY <2>1 DEF Ask, Alone
    <3> QED
      BY <1>0, <2>1, <3>1 DEF Ask, tableVars, AloneInv, TypeInv, TypeOK
  <2> QED
    BY <1>1, <2>1 DEF AskSuppress, AskReopen
<1>2. ASSUME NEW i \in Issue, Suppress(a, i) \/ ReopenByHand(a, i)
      PROVE  /\ UNCHANGED runVars
             /\ \A b \in Analyst : req'[b] # None => req'[b].op = "suppress"
             /\ \A j \in Issue : table'[j] # table[j] =>
                  /\ table[j] # None /\ table[j].status = "open"
                  /\ table'[j] # None /\ table'[j].status = "suppressed"
  <2>1. Suppress(a, i)
    BY <1>2 DEF ReopenByHand, AloneInv
  <2>2. UNCHANGED runVars /\ \A b \in Analyst : req'[b] # None => req'[b].op = "suppress"
    BY <1>0, <2>1 DEF Suppress, Answered, AloneInv, TypeInv, TypeOK
  <2>3. CASE UNCHANGED table
    BY <2>2, <2>3
  <2>4. CASE /\ MaySuppress(table[i], req[a].copy)
             /\ Store(i, Suppressed(table[i], req[a].copy, req[a].until))
    <3>1. /\ table[i] \in Row /\ req[a].copy \in Row /\ req[a].until \in Time
          /\ table[i] # None /\ table[i].status = "open"
      BY <1>0, <2>1, <2>4 DEF Suppress, MaySuppress, MayTransition, TypeInv, TypeOK, Request
    <3>2. /\ table'[i] = Suppressed(table[i], req[a].copy, req[a].until)
          /\ \A j \in Issue \ {i} : table'[j] = table[j]
      BY <1>0, <2>4 DEF Store, TypeInv, TypeOK
    <3>3. table'[i].status = "suppressed"
      BY <3>1, <3>2 DEF Suppressed, Transition, Row
    <3>4. table'[i] # None
      BY <3>1, <3>2, <2>4, WriteTypes, NoneAssumption
    <3> QED
      BY <2>2, <3>1, <3>2, <3>3, <3>4
  <2> QED
    BY <2>1, <2>3, <2>4 DEF Suppress
<1> QED
  BY <1>1, <1>2 DEF AnalystStep

LEMMA StepAlone == Alone /\ AloneInv /\ [Next]_vars => AloneInv'
<1> SUFFICES ASSUME Alone, AloneInv, [Next]_vars PROVE AloneInv'
  OBVIOUS
<1>0. TypeInv'
  BY StepType DEF AloneInv
<1>1. CASE UNCHANGED <<table, runVars, req>>
  BY <1>0, <1>1 DEF AloneInv, runVars, Accounts, Knows, Is
<1>2. ASSUME NEW r \in Run, RunStep(r) \/ Abort(r)
      PROVE  AloneInv'
  <2>1. UNCHANGED req
    BY <1>2 DEF RunStep, StartRun, ReadIssue, Reopen, Refresh, Emit, EndSuppression, Create,
       Reread, ListActive, Resolve, Finish, Abort
  <2>2. \A s \in Run : s = r
    BY DEF Alone
  <2> QED
    BY <1>0, <1>2, <2>1, <2>2, RunAlone DEF AloneInv
<1>3. ASSUME NEW a \in Analyst, AnalystStep(a)
      PROVE  AloneInv'
  <2>1. ASSUME NEW r \in Run
        PROVE  Accounts(r)' /\ Knows(r)'
    <3>1. Accounts(r)'
      BY <1>3, AnalystAlone DEF AloneInv, Accounts, runVars
    <3>2. Knows(r)'
      BY <1>3, AnalystAlone DEF AloneInv, Knows, runVars, Is
    <3> QED
      BY <3>1, <3>2
  <2> QED
    BY <1>0, <1>3, <2>1, AnalystAlone DEF AloneInv
<1>4. CASE Tick \/ \E i \in Issue : GraphChanges(i) \/ IndexCatchesUp(i)
  <2>1. UNCHANGED <<table, runVars, req>>
    BY <1>4 DEF Tick, GraphChanges, IndexCatchesUp
  <2> QED
    BY <1>1, <2>1
<1>5. CASE UNCHANGED vars
  BY <1>1, <1>5 DEF vars, runVars
<1> QED
  BY <1>2, <1>3, <1>4, <1>5 DEF Next

(* Whose step it is when an issue is resolved or its suppression ended.    *)
LEMMA ResolvedUnmatched ==
  ASSUME Alone, AloneInv, [Next]_vars, NEW r \in Run, NEW i \in Issue,
         listed[r][i] # None
  PROVE  found[r][i] = None
  BY IssueAssumption DEF AloneInv, Accounts

LEMMA EndedWhenDue ==
  ASSUME Alone, AloneInv, [Next]_vars, NEW r \in Run, NEW i \in Issue,
         At(r, i, "endSuppression"), Is(table, i, "suppressed"), Is(table', i, "open")
  PROVE  LET s == table[i].suppression IN
         \/ s = None \/ s.until <= now \/ s.severity < found[r][i].severity
         \/ \E x \in found[r][i].resources : x \notin copy[r].resources
<1>0. TypeInv /\ Knows(r) /\ pc[r] = "endSuppression" /\ cur[r] = i
  BY DEF AloneInv, At
<1>1. table'[i] # table[i]
  BY DEF Is
<1>2. \A a \in Analyst : ~AnalystStep(a)
  BY <1>1, AnalystAlone DEF Is
<1>3. RunStep(r)
  <2>1. PICK q \in Run : RunStep(q) \/ Abort(q)
    BY <1>1, <1>2 DEF Next, vars, Tick, GraphChanges, IndexCatchesUp
  <2>2. q = r
    BY DEF Alone
  <2> QED
    BY <1>1, <2>1, <2>2 DEF Abort, tableVars
<1>4. EndSuppression(r, i)
  <2>1. ASSUME NEW j \in Issue, \/ ReadIssue(r, j) \/ Reopen(r, j) \/ Refresh(r, j) \/ Emit(r, j)
                                \/ Create(r, j) \/ Reread(r, j) \/ Resolve(r, j)
        PROVE  FALSE
    BY <1>0, <2>1 DEF ReadIssue, Reopen, Refresh, Emit, Create, Reread, Resolve, At
  <2>2. ~(StartRun(r) \/ ListActive(r) \/ Finish(r))
    BY <1>0 DEF StartRun, ListActive, Finish
  <2>3. PICK j \in Issue : EndSuppression(r, j)
    BY <1>3, <2>1, <2>2 DEF RunStep
  <2> QED
    BY <1>0, <2>3 DEF EndSuppression, At
<1>5. SuppressionDue(copy[r], found[r][i]) /\ MayReopen(table[i], copy[r])
  BY <1>1, <1>4 DEF EndSuppression
<1>6. copy[r].status = "suppressed"
  BY <1>5 DEF MayReopen, MayTransition, Is
<1>7. table[i].suppression = copy[r].suppression
  BY <1>0, <1>6 DEF Knows
<1>8. CASE ~(found[r][i].resources \subseteq copy[r].resources)
  BY <1>8
<1>9. CASE found[r][i].resources \subseteq copy[r].resources
  <2>1. \/ copy[r].suppression = None
        \/ copy[r].suppression # None /\ copy[r].suppression.until <= now
        \/ copy[r].suppression # None /\ found[r][i].severity > copy[r].suppression.severity
    BY <1>5, <1>9 DEF SuppressionDue
  <2>2. CASE copy[r].suppression = None
    BY <1>7, <2>2
  <2>3. CASE copy[r].suppression # None
    <3>1. copy[r].suppression \in Suppression /\ found[r][i] \in Observation
      BY <1>0, <2>3 DEF TypeInv, TypeOK, RunHolds, Row
    <3>2. copy[r].suppression.severity \in Nat /\ found[r][i].severity \in Nat
      BY <3>1 DEF Suppression, Observation, Severity
    <3> QED
      BY <1>7, <2>1, <2>3, <3>2
  <2> QED
    BY <2>2, <2>3
<1> QED
  BY <1>8, <1>9

(* Alone, a run resolves only what its own query did not match and ends    *)
(* only suppressions that are due (runRule(), endSuppressionIfDue()).      *)
THEOREM EndingsJustified == Alone => (Spec => EndingsAreJustified)
<1> SUFFICES ASSUME Alone PROVE Spec => EndingsAreJustified
  OBVIOUS
<1> DEFINE ResolvesUnmatched == \A r \in Run, i \in Issue :
             /\ listed[r][i] # None /\ listed'[r][i] = None
             /\ ~Is(table, i, "resolved") /\ Is(table', i, "resolved")
             => found[r][i] = None
           EndsDue == \A r \in Run, i \in Issue :
             /\ At(r, i, "endSuppression") /\ pc'[r] = "match"
             /\ Is(table, i, "suppressed") /\ Is(table', i, "open")
             => LET s == table[i].suppression IN
                \/ s = None \/ s.until <= now \/ s.severity < found[r][i].severity
                \/ \E x \in found[r][i].resources : x \notin copy[r].resources
<1>1. AloneInv /\ [Next]_vars => [ResolvesUnmatched]_vars
  BY ResolvedUnmatched
<1>2. AloneInv /\ [Next]_vars => [EndsDue]_vars
  BY EndedWhenDue
<1> QED
  BY <1>1, <1>2, InitAlone, StepAlone, PTL
  DEF Spec, EndingsAreJustified, ResolvedOnlyWhenUnmatched, SuppressionEndsOnlyWhenDue
===============================================================================
