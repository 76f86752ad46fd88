----------------------------- MODULE IssueListing -----------------------------
(***************************************************************************)
(* A client pages through the issue list while issues are opened and       *)
(* change status.  Every status is a partition of StatusCreatedIndex, a    *)
(* lane: a page merges the heads of the lanes, reads them in bounded       *)
(* pieces, and hands back per lane the place to resume from.               *)
(*                                                                         *)
(* An issue is its place in the order of creation; Created gives its time, *)
(* which several may share.                                                *)
(***************************************************************************)
EXTENDS Naturals, Sequences, FiniteSets, SequencesExt

CONSTANTS
    LaneOrder,          \* the statuses the query reads, as ISSUE_STATUSES orders them
    Created,            \* createdAt of issue n, non-decreasing
    Matching,           \* the issues the query's filters let through
    Limit, ReadSize, MaxReads,
    Existing,           \* how many issues there are at first
    MaxMoves            \* bound: status changes while the list is read

ASSUME ListParameters ==
    /\ Created \in Seq(Nat) /\ \A i, j \in DOMAIN Created : i < j => Created[i] <= Created[j]
    /\ LaneOrder \in Seq({LaneOrder[n] : n \in DOMAIN LaneOrder}) /\ Existing \in 0..Len(Created)
    /\ Limit \in Nat /\ ReadSize \in Nat \ {0} /\ MaxReads \in Nat /\ MaxMoves \in Nat

VARIABLES
    order,              \* of the list, "asc" or "desc"
    status,             \* of every issue there is
    indexed,            \* StatusCreatedIndex is built
    page,               \* the request in progress
    cursor,             \* the token the client holds: per lane None, an issue or Done
    listed,             \* the issues the client was given, in all pages
    settled,            \* the issues that were there at first and did not move since
    moves
listVars == <<order, status, indexed, page, cursor, listed, settled, moves>>

Statuses == {"open", "suppressed", "resolved"}
Lanes == ToSet(LaneOrder)
Issue == DOMAIN Created
Stored == DOMAIN status
None == 0
Done == Len(Created) + 1
NoPage(stage) == [stage |-> stage]

ListInit ==
    /\ order \in {"asc", "desc"}
    /\ status \in [1..Existing -> Statuses]
    /\ indexed \in BOOLEAN
    /\ page = NoPage("start") /\ listed = << >>
    /\ cursor = [l \in Lanes |-> None]
    /\ settled = 1..Existing /\ moves = 0

-----------------------------------------------------------------------------
(* The others: the runner opens issues, analysts and runs move them.       *)

Move(i, to) ==
    /\ moves < MaxMoves /\ moves' = moves + 1
    /\ to \in CASE status[i] = "open" -> {"suppressed", "resolved"}
                [] status[i] = "suppressed" -> {"open", "resolved"}
                [] status[i] = "resolved" -> {"open"}
    /\ status' = [status EXCEPT ![i] = to]
    /\ settled' = settled \ {i}
    /\ UNCHANGED <<order, indexed, page, cursor, listed>>

Open ==
    /\ Cardinality(Stored) < Len(Created)
    /\ status' = Append(status, "open")
    /\ UNCHANGED <<order, indexed, page, cursor, listed, settled, moves>>

BuildIndex ==
    /\ ~indexed /\ indexed' = TRUE
    /\ UNCHANGED <<order, status, page, cursor, listed, settled, moves>>

-----------------------------------------------------------------------------
(* listIssuesByCreated().                                                  *)

Precedes(i, j) == IF order = "asc" THEN i < j ELSE i > j
After(i) == IF i = None THEN Stored ELSE {j \in Stored : Precedes(i, j)}
InOrder(S) ==
    [n \in 1..Cardinality(S) |->
       CHOOSE i \in S : Cardinality({j \in S : Precedes(j, i)}) = n - 1]

\* A page opens the lanes the token has not finished.
StartPage ==
    /\ page.stage \in {"start", "more"} /\ indexed
    /\ page' = [stage |-> "reading", items |-> << >>, reads |-> 0,
                lanes |-> [l \in {k \in Lanes : cursor[k] # Done} |->
                             [start |-> cursor[l], next |-> cursor[l], last |-> None,
                              buffer |-> << >>, exhausted |-> FALSE]]]
    /\ UNCHANGED <<order, status, indexed, cursor, listed, settled, moves>>

\* Without the index the first page is in another index's order, and its token has another shape:
\* decodeCreatedToken() refuses it.
FallBack ==
    /\ page.stage = "start" /\ ~indexed
    /\ page' = NoPage("fallback")
    /\ UNCHANGED <<order, status, indexed, cursor, listed, settled, moves>>

DecodeCreatedToken ==
    /\ page.stage = "fallback" /\ page' = NoPage("refused")
    /\ UNCHANGED <<order, status, indexed, cursor, listed, settled, moves>>

Full == Len(page.items) = Limit
Empty(l) == page.lanes[l].buffer = << >> /\ ~page.lanes[l].exhausted
EmptyLanes == {l \in DOMAIN page.lanes : Empty(l)}
FirstLane(S) == LaneOrder[SelectInSeq(LaneOrder, LAMBDA l : l \in S)]

\* One Query of ReadSize index entries, filtered afterwards; LastEvaluatedKey says there may be more.
ReadLane ==
    /\ page.stage = "reading" /\ ~Full /\ EmptyLanes # {} /\ page.reads < MaxReads
    /\ LET l == FirstLane(EmptyLanes)
           lane == page.lanes[l]
           rest == InOrder({i \in After(lane.next) : status[i] = l})
           read == SubSeq(rest, 1, IF Len(rest) < ReadSize THEN Len(rest) ELSE ReadSize)
       IN page' = [page EXCEPT
            !.reads = @ + 1,
            !.lanes[l] = [lane EXCEPT
                !.buffer = InOrder(ToSet(read) \cap Matching),
                !.next = IF Len(read) < ReadSize THEN None ELSE Last(read),
                !.exhausted = Len(read) < ReadSize]]
    /\ UNCHANGED <<order, status, indexed, cursor, listed, settled, moves>>

Ready == {l \in DOMAIN page.lanes : page.lanes[l].buffer # << >>}
Earlier(s, t) == IF order = "asc" THEN s < t ELSE s > t
Head1(l) == Created[Head(page.lanes[l].buffer)]

\* The head created first (or last); among equals, of the first lane.
Best == FirstLane({l \in Ready : \A k \in Ready : ~Earlier(Head1(k), Head1(l))})

TakeHead ==
    /\ page.stage = "reading" /\ ~Full /\ EmptyLanes = {} /\ Ready # {}
    /\ LET lane == page.lanes[Best]
       IN page' = [page EXCEPT
            !.items = Append(@, Head(lane.buffer)),
            !.lanes[Best] = [lane EXCEPT !.buffer = Tail(@), !.last = Head(lane.buffer)]]
    /\ UNCHANGED <<order, status, indexed, cursor, listed, settled, moves>>

\* Mutant: a lane resumes where reading stopped, whatever it has still to give.
ResumeAfterRead(lane) ==
    IF lane.exhausted THEN Done ELSE lane.next

\* A lane resumes after its last returned issue; an emptied lane where reading stopped.
Resume(lane) ==
    IF lane.buffer # << >> THEN IF lane.last # None THEN lane.last ELSE lane.start
    ELSE IF lane.exhausted THEN Done
    ELSE lane.next

EndPage ==
    /\ page.stage = "reading"
    /\ \/ Full
       \/ EmptyLanes # {} /\ page.reads = MaxReads
       \/ EmptyLanes = {} /\ Ready = {}
    /\ cursor' = [l \in Lanes |-> IF l \in DOMAIN page.lanes THEN Resume(page.lanes[l]) ELSE Done]
    /\ listed' = listed \o page.items
    /\ page' = NoPage(IF \E l \in Lanes : cursor'[l] # Done THEN "more" ELSE "end")
    /\ UNCHANGED <<order, status, indexed, settled, moves>>

ListNext ==
    \/ \E i \in Stored, to \in Statuses : Move(i, to)
    \/ Open
    \/ BuildIndex
    \/ StartPage \/ FallBack \/ DecodeCreatedToken
    \/ ReadLane \/ TakeHead \/ EndPage

ListSpec == ListInit /\ [][ListNext]_listVars

-----------------------------------------------------------------------------
(* Type correctness.                                                       *)
ListTypeOK ==
    /\ status \in Seq(Statuses) /\ Len(status) <= Len(Created)
    /\ indexed \in BOOLEAN /\ moves \in 0..MaxMoves /\ settled \subseteq Stored
    /\ page.stage \in {"start", "reading", "more", "end", "fallback", "refused"}
    /\ page.stage = "reading" => /\ Len(page.items) <= Limit /\ page.reads <= MaxReads
                                 /\ \A l \in DOMAIN page.lanes : page.lanes[l].start # Done
    /\ cursor \in [Lanes -> 0..Done] /\ listed \in Seq(Stored)

(* Whoever follows the tokens to the end is given every matching issue     *)
(* that stayed in its status, exactly once, whatever the others did and    *)
(* however the pages, the reads and the filters fell (listIssuesByCreated, *)
(* listIssues: "resume after the last issue returned rather than the last  *)
(* item read").                                                            *)
Given(i) == {n \in DOMAIN listed : listed[n] = i}
SettledListedOnce ==
    \A i \in settled \cap Matching :
        /\ Cardinality(Given(i)) <= 1
        /\ page.stage = "end" /\ status[i] \in Lanes => Given(i) # {}

(* Those issues come in one order of creation across statuses and pages.   *)
SettledInOrder ==
    \A m, n \in DOMAIN listed :
        m < n /\ {listed[m], listed[n]} \subseteq settled
            => ~Earlier(Created[listed[n]], Created[listed[m]])

(* What the list owes its reader, with the types that make sense of it.     *)
SettledIssuesListed == ListTypeOK /\ SettledListedOnce /\ SettledInOrder
===============================================================================
