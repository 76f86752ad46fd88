------------------------- MODULE GraphWriter_proofs -------------------------
(***************************************************************************)
(* Proofs about GraphWriter, for any number of requests, posts, attempts,  *)
(* admitted requests and connections.                                      *)
(***************************************************************************)
EXTENDS GraphWriter, FiniteSetTheorems, TLAPS

-----------------------------------------------------------------------------
(* The inductive invariant, in parts. *)

Busy == {p \in Posts : handler[p] \notin {"none", "answered"}}

(* The slots taken are those of the posts being handled.                   *)
SlotsCounted == IsFiniteSet(Busy) /\ active = Cardinality(Busy)

(* A request that is not idle was posted, one that pauses may be posted    *)
(* again, and a post that was not made has left no trace.                  *)
PostsMade ==
  /\ \A r \in Requests :
       /\ client[r] = "idle" <=> tries[r] = 0
       /\ client[r] = "backoff" => tries[r] < Tries
  /\ \A p \in Posts :
       /\ tries[p[1]] < p[2] => handler[p] = "none" /\ reply[p] = "none"
       /\ handler[p] = "sleeping" => attempt[p] < Attempts

(* Of the attempts to open a connection at most one was begun since the    *)
(* last reset, the one the writer waits for; until it has the connection   *)
(* the writer has none that is open.                                       *)
OneAttempt ==
  /\ \A k \in stale : routine[k] # "none"
  /\ \A k \in Sockets : routine[k] # "none" /\ k \notin stale =>
       /\ connecting = k
       /\ routine[k] = "headers" => ~Usable
       /\ routine[k] = "open" => connection = k

(* What is written, on its way or answered was sent, and success is told   *)
(* of what the graph has taken.                                            *)
ToldWritten ==
  /\ \A r \in graph \cup late : client[r] # "idle"
  /\ \A p \in Posts : reply[p] = "200" => p[1] \in graph
  /\ \A r \in Requests : client[r] = "ok" => r \in graph

TypeInv == TypeOK /\ SlotsCounted /\ PostsMade
WriterInv == TypeInv /\ OneAttempt /\ NoConnectionLeaks /\ ToldWritten

-----------------------------------------------------------------------------
(* Operators. *)

LEMMA PostOf ==
  ASSUME NEW p \in Posts
  PROVE  p[1] \in Requests /\ p[2] \in 1 .. Tries
BY DEF Posts

LEMMA GetRepositoryType ==
  ASSUME TypeOK, NEW p \in Posts, GetRepository(p)
  PROVE  /\ handler' = [handler EXCEPT ![p] = handler'[p]] /\ handler'[p] \in {"waiting", "writing"}
         /\ on' \in [Posts -> Sockets \cup {None}]
         /\ connecting' \in Sockets \cup {None}
         /\ routine' \in [Sockets -> {"none", "headers", "open", "close"}]
         /\ UNCHANGED <<connection, stale, cause, socket>>
<1>1. CASE Usable
  <2>1. connection \in Sockets
    BY <1>1 DEF TypeOK, Usable
  <2> QED
    BY <1>1, <2>1 DEF GetRepository, TypeOK, writerVars
<1>2. CASE ~Usable /\ connecting # None
  BY <1>2 DEF GetRepository, TypeOK, writerVars
<1>3. CASE ~Usable /\ connecting = None
  BY <1>3 DEF GetRepository, TypeOK
<1> QED
  BY <1>1, <1>2, <1>3

LEMMA SettleType ==
  ASSUME TypeOK, NEW k \in Sockets, NEW state \in {"caught", "writing"},
         NEW error \in Faults \cup {"none"}, Settle(k, state, error),
         connection' \in Sockets \cup {None},
         socket' \in [Sockets -> {"none", "opening", "open", "lost", "closing"}]
  PROVE  TypeOK'
BY DEF TypeOK, Settle, clientVars, graphVars

-----------------------------------------------------------------------------
(* Types. *)

LEMMA InitType == Init => TypeInv
<1> SUFFICES ASSUME Init PROVE TypeInv
  OBVIOUS
<1>1. TypeOK
  BY WriterAssumption DEF Init, TypeOK
<1>2. Busy = {}
  BY DEF Init, Busy
<1>3. SlotsCounted
  BY <1>2, FS_EmptySet DEF SlotsCounted, Init
<1>4. PostsMade
  BY PostOf DEF Init, PostsMade
<1> QED
  BY <1>1, <1>3, <1>4 DEF TypeInv

LEMMA OpeningType ==
  ASSUME TypeOK, NEW k \in Sockets, Opening(k) \/ Lose(k)
  PROVE  TypeOK'
<1>1. CASE Headers(k)
  <2>1. CASE /\ connection' = k
             /\ socket' = [socket EXCEPT ![k] = "opening"]
             /\ routine' = [routine EXCEPT ![k] = "open"]
             /\ UNCHANGED <<clientVars, handlerVars, connecting, stale, cause, graphVars>>
    BY <2>1 DEF TypeOK, clientVars, handlerVars, graphVars
  <2>2. ASSUME NEW error \in Faults, Settle(k, "caught", error), UNCHANGED <<connection, socket>>
        PROVE  TypeOK'
    BY <2>2, SettleType DEF TypeOK
  <2> QED
    BY <1>1, <2>1, <2>2 DEF Headers
<1>2. ASSUME NEW error \in Faults, CloseOwn(k, error)
      PROVE  TypeOK'
  BY <1>2 DEF CloseOwn, TypeOK, clientVars, handlerVars, graphVars
<1>3. CASE Opened(k)
  <2>1. CASE k \in stale
    BY <1>2, <1>3, <2>1 DEF Opened, Faults
  <2>2. CASE k \notin stale
    <3>1. connection' = connection /\ socket' = [socket EXCEPT ![k] = "open"]
      BY <1>3, <2>2 DEF Opened
    <3>2. Settle(k, "writing", "none")
      BY <1>3, <2>2 DEF Opened
    <3> QED
      BY <3>1, <3>2, SettleType DEF TypeOK
  <2> QED
    BY <2>1, <2>2
<1>4. CASE OpenFails(k)
  BY <1>2, <1>4 DEF OpenFails, Faults
<1>5. CASE OwnClosed(k)
  <2>1. connection' = connection /\ socket' = [socket EXCEPT ![k] = "none"]
    BY <1>5 DEF OwnClosed
  <2>2. Settle(k, "caught", cause[k]) /\ cause[k] \in Faults \cup {"none"}
    BY <1>5 DEF OwnClosed, TypeOK
  <2> QED
    BY <2>1, <2>2, SettleType DEF TypeOK
<1>6. CASE Lose(k)
  BY <1>6 DEF Lose, TypeOK, clientVars, handlerVars, graphVars
<1> QED
  BY <1>1, <1>3, <1>4, <1>5, <1>6 DEF Opening

(* What a step does to the posts: a post is answered, and gives its slot   *)
(* back, or goes on.                                                       *)
GoesOn(p) ==
  /\ handler[p] \notin {"none", "answered"}
  /\ handler'[p] \notin {"none", "answered"}
  /\ handler' = [handler EXCEPT ![p] = handler'[p]]
  /\ UNCHANGED <<reply, active>>

Answered(p) ==
  /\ handler[p] \notin {"none", "answered"}
  /\ \E status \in {"200", "503", "other"} : Answer(p, status)

LEMMA HandlerSteps ==
  ASSUME TypeOK, NEW p \in Posts, Handler(p)
  PROVE  /\ GoesOn(p) \/ Answered(p)
         /\ UNCHANGED clientVars
<1>1. CASE ReadBody(p)
  BY <1>1, GetRepositoryType DEF ReadBody, GoesOn, Answered
<1>2. CASE Written(p)
  BY <1>2 DEF Written, Answered
<1>3. CASE WaitTimesOut(p)
  BY <1>3 DEF WaitTimesOut, GoesOn, TypeOK
<1>4. CASE Catch(p)
  <2>1. handler[p] = "caught" /\ UNCHANGED clientVars
    BY <1>4 DEF Catch
  <2>2. CASE GoOn(p)
    BY <2>1, <2>2 DEF GoOn, GoesOn, Answered, TypeOK
  <2>3. CASE handler' = [handler EXCEPT ![p] = "resetting"] /\ UNCHANGED <<reply, active>>
    BY <2>1, <2>3 DEF GoesOn, TypeOK
  <2>4. CASE Answer(p, "other")
    BY <2>1, <2>4 DEF Answered
  <2> QED
    BY <1>4, <2>1, <2>2, <2>3, <2>4 DEF Catch
<1>5. CASE ResetDone(p)
  BY <1>5 DEF ResetDone, GoOn, GoesOn, Answered, TypeOK
<1>6. CASE Wake(p)
  BY <1>6, GetRepositoryType DEF Wake, GoesOn
<1>7. ASSUME NEW error \in {"transient", "permanent"}, WriteFails(p, error)
      PROVE  GoesOn(p) /\ UNCHANGED clientVars
  BY <1>7 DEF WriteFails, GoesOn, TypeOK
<1> QED
  BY <1>1, <1>2, <1>3, <1>4, <1>5, <1>6, <1>7 DEF Handler

LEMMA HandlerType ==
  ASSUME TypeInv, NEW p \in Posts, Handler(p)
  PROVE  TypeOK'
<1>1. TypeOK /\ (handler[p] \notin {"none", "answered"} => active \in 1 .. MaxConcurrency)
  <2>1. ASSUME handler[p] \notin {"none", "answered"}
        PROVE  active # 0
    <3>1. p \in Busy
      BY <2>1 DEF Busy
    <3> QED
      BY <3>1, FS_EmptySet DEF TypeInv, SlotsCounted
  <2> QED
    BY <2>1 DEF TypeInv, TypeOK
<1>2. /\ active' \in 0 .. MaxConcurrency
      /\ reply' \in [Posts -> {"none", "200", "503", "other"}]
      /\ client' \in [Requests -> {"idle", "posting", "backoff", "ok", "failed"}]
      /\ tries' \in [Requests -> 0 .. Tries]
  <2>1. CASE GoesOn(p)
    BY <1>1, <2>1, HandlerSteps DEF GoesOn, TypeOK, clientVars
  <2>2. CASE Answered(p)
    <3>1. active' = active - 1 /\ active \in 1 .. MaxConcurrency
      BY <1>1, <2>2 DEF Answered, Answer
    <3>2. active' \in 0 .. MaxConcurrency
      BY <3>1, WriterAssumption
    <3>3. reply' \in [Posts -> {"none", "200", "503", "other"}]
      BY <1>1, <2>2 DEF Answered, Answer, TypeOK
    <3> QED
      BY <1>1, <3>2, <3>3, HandlerSteps DEF TypeOK, clientVars
  <2> QED
    BY <1>1, <2>1, <2>2, HandlerSteps
<1>3. CASE ReadBody(p) \/ Wake(p)
  <2>1. attempt' \in [Posts -> 0 .. Attempts]
    BY <1>1, <1>3, WriterAssumption DEF ReadBody, Wake, TypeOK, TypeInv, PostsMade
  <2>2. CASE GetRepository(p) /\ UNCHANGED <<fault, graphVars>>
    BY <1>1, <1>2, <2>1, <2>2, GetRepositoryType DEF TypeOK, graphVars
  <2>3. CASE Answer(p, "other") /\ UNCHANGED <<fault, writerVars, graphVars>>
    BY <1>1, <1>2, <2>1, <2>3 DEF Answer, TypeOK, writerVars, graphVars
  <2> QED
    BY <1>3, <2>2, <2>3 DEF ReadBody, Wake
<1>4. CASE Written(p)
  BY <1>1, <1>2, <1>4, PostOf DEF Written, Answer, TypeOK, writerVars
<1>5. CASE WaitTimesOut(p)
  BY <1>1, <1>2, <1>5 DEF WaitTimesOut, TypeOK, writerVars, graphVars, Faults
<1>6. ASSUME NEW error \in {"transient", "permanent"}, WriteFails(p, error)
      PROVE  TypeOK'
  BY <1>1, <1>2, <1>6, PostOf DEF WriteFails, TypeOK, writerVars, Faults
<1>7. ASSUME GoOn(p)
      PROVE  /\ handler' \in [Posts -> {"none", "reading", "waiting", "writing", "caught",
                                        "resetting", "sleeping", "answered"}]
             /\ on' \in [Posts -> Sockets \cup {None}]
  BY <1>1, <1>7 DEF GoOn, Answer, TypeOK
<1>8. CASE Catch(p)
  <2>1. UNCHANGED <<attempt, fault, routine, cause, graphVars>>
    BY <1>8 DEF Catch, writerVars
  <2>2. CASE fault[p] = "transient"
    <3>1. connection' = None /\ connecting' = None /\ stale' = {k \in Sockets : routine[k] # "none"}
      BY <1>8, <2>2 DEF Catch
    <3>2. CASE GoOn(p) /\ UNCHANGED socket
      BY <1>1, <1>2, <1>7, <2>1, <3>1, <3>2 DEF TypeOK, graphVars
    <3>3. CASE /\ connection # None
               /\ socket' = [socket EXCEPT ![connection] = "closing"]
               /\ handler' = [handler EXCEPT ![p] = "resetting"]
               /\ on' = [on EXCEPT ![p] = connection]
      BY <1>1, <1>2, <2>1, <3>1, <3>3 DEF TypeOK, graphVars
    <3> QED
      BY <1>8, <2>2, <3>2, <3>3 DEF Catch
  <2>3. CASE fault[p] # "transient"
    BY <1>1, <1>2, <1>8, <2>3 DEF Catch, Answer, TypeOK, writerVars, graphVars
  <2> QED
    BY <2>2, <2>3
<1>9. CASE ResetDone(p)
  BY <1>1, <1>2, <1>7, <1>9 DEF ResetDone, TypeOK, graphVars
<1> QED
  BY <1>3, <1>4, <1>5, <1>6, <1>8, <1>9 DEF Handler

LEMMA ResumeType ==
  ASSUME TypeOK, NEW r \in Requests, NEW status, Resume(r, status)
  PROVE  /\ client' = [client EXCEPT ![r] = client'[r]]
         /\ client'[r] \in {"ok", "backoff", "failed"}
         /\ client'[r] = "ok" <=> status = "200"
         /\ client'[r] = "backoff" => tries[r] < Tries
BY DEF Resume, TypeOK

LEMMA ClientType ==
  ASSUME TypeInv, NEW r \in Requests, Post(r) \/ Receive(r) \/ PostFails(r) \/ Land(r)
  PROVE  TypeOK'
<1> USE DEF TypeInv
<1>1. CASE Post(r)
  <2>1. tries[r] \in 0 .. Tries - 1 /\ tries' = [tries EXCEPT ![r] = @ + 1]
    BY <1>1, WriterAssumption DEF Post, PostsMade, TypeOK
  <2>2. tries' \in [Requests -> 0 .. Tries]
    BY <2>1, WriterAssumption DEF TypeOK
  <2>3. /\ active' \in 0 .. MaxConcurrency
        /\ handler' \in [Posts -> {"none", "reading", "waiting", "writing", "caught",
                                   "resetting", "sleeping", "answered"}]
        /\ reply' \in [Posts -> {"none", "200", "503", "other"}]
    BY SMTT(30), <1>1, WriterAssumption DEF Post, TypeOK
  <2>4. client' \in [Requests -> {"idle", "posting", "backoff", "ok", "failed"}]
    BY <1>1 DEF Post, TypeOK
  <2> QED
    BY <1>1, <2>2, <2>3, <2>4 DEF Post, TypeOK, writerVars, graphVars
<1>2. ASSUME NEW status, Resume(r, status), UNCHANGED <<tries, handlerVars, writerVars, graphVars>>
      PROVE  TypeOK'
  <2>1. client' \in [Requests -> {"idle", "posting", "backoff", "ok", "failed"}]
    BY <1>2, ResumeType DEF TypeOK
  <2> QED
    BY <1>2, <2>1 DEF TypeOK, handlerVars, writerVars, graphVars
<1>3. CASE Receive(r) \/ PostFails(r)
  BY <1>2, <1>3 DEF Receive, PostFails
<1>4. CASE Land(r)
  BY <1>4 DEF Land, TypeOK, clientVars, handlerVars, writerVars
<1> QED
  BY <1>1, <1>3, <1>4

-----------------------------------------------------------------------------
(* Slots. *)

LEMMA OpeningKeepsPosts ==
  ASSUME TypeOK, NEW k \in Sockets, Opening(k) \/ Lose(k)
  PROVE  /\ UNCHANGED <<clientVars, reply, attempt, active, graphVars>>
         /\ \A p \in Posts : \/ handler'[p] = handler[p]
                             \/ handler[p] = "waiting" /\ handler'[p] \in {"caught", "writing"}
<1>1. ASSUME NEW state \in {"caught", "writing"}, NEW error, Settle(k, state, error)
      PROVE  /\ UNCHANGED <<clientVars, reply, attempt, active, graphVars>>
             /\ \A p \in Posts : \/ handler'[p] = handler[p]
                                 \/ handler[p] = "waiting" /\ handler'[p] \in {"caught", "writing"}
  BY <1>1 DEF Settle, Waiters
<1>2. ASSUME UNCHANGED <<clientVars, handlerVars, graphVars>>
      PROVE  /\ UNCHANGED <<clientVars, reply, attempt, active, graphVars>>
             /\ \A p \in Posts : handler'[p] = handler[p]
  BY <1>2 DEF handlerVars
<1> QED
  BY <1>1, <1>2 DEF Opening, Headers, Opened, OpenFails, OwnClosed, CloseOwn, Lose

(* A post takes a slot, keeps it or gives it back.                         *)
LEMMA SlotSteps ==
  ASSUME TypeInv, [Next]_writerServiceVars
  PROVE  \/ Busy' = Busy /\ active' = active
         \/ \E p \in Busy : Busy' = Busy \ {p} /\ active' = active - 1
         \/ \E p \in Posts \ Busy : Busy' = Busy \cup {p} /\ active' = active + 1
<1> USE DEF TypeInv
<1>1. ASSUME NEW p \in Posts, Handler(p)
      PROVE  \/ Busy' = Busy /\ active' = active
             \/ p \in Busy /\ Busy' = Busy \ {p} /\ active' = active - 1
  <2>1. CASE GoesOn(p)
    BY <2>1 DEF GoesOn, Busy, TypeOK
  <2>2. CASE Answered(p)
    BY <2>2 DEF Answered, Answer, Busy, TypeOK
  <2> QED
    BY <1>1, <2>1, <2>2, HandlerSteps
<1>2. ASSUME NEW r \in Requests, Post(r)
      PROVE  \/ Busy' = Busy /\ active' = active
             \/ \E p \in Posts \ Busy : Busy' = Busy \cup {p} /\ active' = active + 1
  <2> DEFINE p == <<r, tries[r] + 1>>
  <2>1. tries[r] \in 0 .. Tries - 1
    BY <1>2, WriterAssumption DEF Post, PostsMade, TypeOK
  <2>2. p \in Posts /\ p[1] = r /\ p[2] = tries[r] + 1
    BY <2>1, WriterAssumption DEF Posts
  <2>3. handler[p] = "none" /\ p \notin Busy
    BY <2>1, <2>2 DEF PostsMade, Busy
  <2>4. CASE active' = active + 1 /\ handler' = [handler EXCEPT ![p] = "reading"]
    <3>1. Busy' = Busy \cup {p}
      BY <2>2, <2>4 DEF Busy, TypeOK
    <3> QED
      BY <2>2, <2>3, <2>4, <3>1
  <2>5. CASE active' = active /\ handler' = [handler EXCEPT ![p] = "answered"]
    BY <2>2, <2>3, <2>5 DEF Busy, TypeOK
  <2>6. CASE UNCHANGED <<active, handler>>
    BY <2>6 DEF Busy
  <2> QED
    BY <1>2, <2>4, <2>5, <2>6 DEF Post
<1>3. CASE \/ \E r \in Requests : Receive(r) \/ PostFails(r) \/ Land(r)
           \/ UNCHANGED writerServiceVars
  BY <1>3 DEF Receive, PostFails, Land, writerServiceVars, handlerVars, Busy
<1>4. ASSUME NEW k \in Sockets, Opening(k) \/ Lose(k)
      PROVE  Busy' = Busy /\ active' = active
  BY <1>4, OpeningKeepsPosts DEF Busy
<1> QED
  BY <1>1, <1>2, <1>3, <1>4 DEF Next

LEMMA StepSlots ==
  ASSUME TypeInv, [Next]_writerServiceVars
  PROVE  SlotsCounted'
<1>1. IsFiniteSet(Busy) /\ active = Cardinality(Busy)
  BY DEF TypeInv, SlotsCounted
<1>2. CASE Busy' = Busy /\ active' = active
  BY <1>1, <1>2 DEF SlotsCounted
<1>3. CASE \E p \in Busy : Busy' = Busy \ {p} /\ active' = active - 1
  BY <1>1, <1>3, FS_RemoveElement DEF SlotsCounted
<1>4. CASE \E p \in Posts \ Busy : Busy' = Busy \cup {p} /\ active' = active + 1
  BY <1>1, <1>4, FS_AddElement DEF SlotsCounted
<1> QED
  BY <1>2, <1>3, <1>4, SlotSteps

LEMMA StepPosts ==
  ASSUME TypeInv, [Next]_writerServiceVars
  PROVE  PostsMade'
<1> USE DEF TypeInv
<1>1. ASSUME NEW p \in Posts, Handler(p)
      PROVE  PostsMade'
  <2>1. UNCHANGED <<client, tries>> /\ handler[p] # "none" /\ tries[p[1]] >= p[2]
    <3>1. handler[p] # "none"
      BY <1>1, HandlerSteps DEF GoesOn, Answered
    <3>2. tries[p[1]] \in Nat /\ p[2] \in Nat
      BY PostOf DEF TypeOK
    <3> QED
      BY <1>1, <3>1, <3>2, HandlerSteps DEF PostsMade, clientVars
  <2>2. \A q \in Posts : q # p => handler'[q] = handler[q] /\ reply'[q] = reply[q]
    BY <1>1, HandlerSteps DEF GoesOn, Answered, Answer, TypeOK
  <2>3. \A q \in Posts : q # p => attempt'[q] = attempt[q]
    BY <1>1 DEF Handler, ReadBody, Written, WaitTimesOut, Catch, ResetDone, Wake, WriteFails,
       TypeOK
  <2>4. handler'[p] = "sleeping" => attempt'[p] < Attempts
    <3>1. GoOn(p) => handler'[p] \in {"sleeping", "answered"}
                     /\ (handler'[p] = "sleeping" => attempt[p] < Attempts)
      BY DEF GoOn, Answer, TypeOK
    <3>2. CASE handler'[p] \in {"waiting", "writing", "answered", "caught", "resetting"}
      BY <3>2
    <3>3. CASE GoOn(p) /\ attempt' = attempt
      BY <3>1, <3>3
    <3> QED
      BY <1>1, <3>2, <3>3, GetRepositoryType DEF Handler, ReadBody, Written, WaitTimesOut, Catch,
         ResetDone, Wake, WriteFails, Answer, TypeOK
  <2> QED
    BY <2>1, <2>2, <2>3, <2>4 DEF PostsMade
<1>2. ASSUME NEW r \in Requests, Post(r)
      PROVE  PostsMade'
  <2> DEFINE p == <<r, tries[r] + 1>>
  <2>1. tries[r] \in 0 .. Tries - 1 /\ tries'[r] = tries[r] + 1 /\ client'[r] = "posting"
    BY <1>2, WriterAssumption DEF Post, PostsMade, TypeOK
  <2>2. \A q \in Requests : q # r => tries'[q] = tries[q] /\ client'[q] = client[q]
    BY <1>2 DEF Post, TypeOK
  <2>3. /\ attempt' = attempt
        /\ \A q \in Posts : q # p => handler'[q] = handler[q] /\ reply'[q] = reply[q]
        /\ handler'[p] # "sleeping" \/ handler' = handler
    BY <1>2 DEF Post, TypeOK
  <2>4. \A q \in Posts : q[2] > tries'[q[1]] => q # p /\ q[2] > tries[q[1]]
    BY <2>1, <2>2, PostOf DEF TypeOK
  <2> QED
    BY <2>1, <2>2, <2>3, <2>4 DEF PostsMade
<1>3. ASSUME NEW r \in Requests, NEW status, Resume(r, status), client[r] = "posting",
             UNCHANGED <<tries, handlerVars>>
      PROVE  PostsMade'
  <2>1. \A q \in Requests : q # r => client'[q] = client[q]
    BY <1>3 DEF Resume, TypeOK
  <2>2. /\ client'[r] \in {"ok", "backoff", "failed"}
        /\ client'[r] = "backoff" => tries[r] < Tries
    BY <1>3, ResumeType
  <2> QED
    BY <1>3, <2>1, <2>2 DEF PostsMade, handlerVars
<1>4. CASE \E r \in Requests : Receive(r) \/ PostFails(r)
  BY <1>3, <1>4 DEF Receive, PostFails
<1>5. CASE UNCHANGED writerServiceVars \/ \E r \in Requests : Land(r)
  BY <1>5 DEF Land, PostsMade, writerServiceVars, clientVars, handlerVars
<1>6. ASSUME NEW k \in Sockets, Opening(k) \/ Lose(k)
      PROVE  PostsMade'
  BY <1>6, OpeningKeepsPosts DEF PostsMade, clientVars
<1> QED
  BY <1>1, <1>2, <1>4, <1>5, <1>6 DEF Next

LEMMA StepType == TypeInv /\ [Next]_writerServiceVars => TypeInv'
<1> SUFFICES ASSUME TypeInv, [Next]_writerServiceVars PROVE TypeInv'
  OBVIOUS
<1>1. ASSUME UNCHANGED writerServiceVars
      PROVE  TypeOK'
  BY <1>1 DEF TypeInv, TypeOK, writerServiceVars, clientVars, handlerVars, writerVars, graphVars
<1>2. TypeOK'
  BY <1>1, OpeningType, HandlerType, ClientType DEF Next, TypeInv
<1> QED
  BY <1>2, StepSlots, StepPosts DEF TypeInv

-----------------------------------------------------------------------------
(* Connections. *)

LEMMA InitConnections == Init => OneAttempt /\ NoConnectionLeaks
BY DEF Init, OneAttempt, NoConnectionLeaks

LEMMA SettleConnections ==
  ASSUME TypeInv, OneAttempt, NoConnectionLeaks, NEW k \in Sockets, NEW state, NEW error,
         Settle(k, state, error), connection' = connection,
         \/ socket' = socket
         \/ socket' = [socket EXCEPT ![k] = "none"]
         \/ /\ socket' = [socket EXCEPT ![k] = "open"]
            /\ routine[k] = "open" /\ k \notin stale
  PROVE  OneAttempt' /\ NoConnectionLeaks'
<1> USE DEF TypeInv
<1>1. NoConnectionLeaks'
  BY DEF OneAttempt, NoConnectionLeaks, TypeOK
<1>2. ASSUME NEW j \in Sockets, routine'[j] # "none", j \notin stale'
      PROVE  /\ j # k /\ routine'[j] = routine[j] /\ j \notin stale
             /\ routine[j] # "none"
             /\ connecting = j /\ connecting' = j
  BY <1>2 DEF Settle, OneAttempt, TypeOK
<1>3. ASSUME NEW j \in Sockets, routine'[j] = "headers", j \notin stale'
      PROVE  ~Usable'
  <2>1. k \notin stale => routine[k] = "none"
    BY <1>2, <1>3 DEF OneAttempt
  <2>2. ~Usable
    BY <1>2, <1>3 DEF OneAttempt
  <2> QED
    BY <2>1, <2>2 DEF Usable, TypeOK
<1>4. \A j \in stale' : routine'[j] # "none"
  BY DEF Settle, OneAttempt, TypeOK
<1> QED
  BY <1>1, <1>2, <1>3, <1>4 DEF OneAttempt

LEMMA OpeningConnections ==
  ASSUME TypeInv, OneAttempt, NoConnectionLeaks, NEW k \in Sockets, Opening(k) \/ Lose(k)
  PROVE  OneAttempt' /\ NoConnectionLeaks'
<1> USE DEF TypeInv
<1>1. CASE Headers(k)
  <2>1. CASE /\ routine[k] = "headers" /\ k \notin stale
             /\ connection' = k
             /\ socket' = [socket EXCEPT ![k] = "opening"]
             /\ routine' = [routine EXCEPT ![k] = "open"]
             /\ UNCHANGED <<connecting, stale>>
    <3>1. connecting = k /\ ~Usable
      BY <2>1 DEF OneAttempt
    <3>2. \A j \in Sockets : socket[j] # "open"
      BY <3>1, WriterAssumption DEF Usable, NoConnectionLeaks
    <3>3. NoConnectionLeaks'
      BY <2>1, <3>2 DEF NoConnectionLeaks, TypeOK
    <3>4. \A j \in Sockets : routine'[j] # "none" /\ j \notin stale => j = k
      BY <2>1, <3>1 DEF OneAttempt, TypeOK
    <3>5. routine'[k] = "open"
      BY <2>1 DEF TypeOK
    <3>6. \A j \in stale : routine'[j] # "none"
      BY <2>1 DEF OneAttempt, TypeOK
    <3> QED
      BY <2>1, <3>1, <3>3, <3>4, <3>5, <3>6 DEF OneAttempt
  <2>2. ASSUME NEW error, Settle(k, "caught", error), UNCHANGED <<connection, socket>>
        PROVE  OneAttempt' /\ NoConnectionLeaks'
    BY <2>2, SettleConnections
  <2> QED
    BY <1>1, <2>1, <2>2 DEF Headers
<1>2. ASSUME NEW error, routine[k] = "open", CloseOwn(k, error)
      PROVE  OneAttempt' /\ NoConnectionLeaks'
  <2>1. NoConnectionLeaks'
    BY <1>2 DEF CloseOwn, NoConnectionLeaks, TypeOK
  <2>2. ASSUME NEW j \in Sockets, routine'[j] # "none", j \notin stale'
        PROVE  /\ connecting' = j
               /\ routine'[j] = "headers" => ~Usable'
               /\ routine'[j] = "open" => connection' = j
    <3>1. /\ routine[j] # "none" /\ j \notin stale
          /\ j # k => routine'[j] = routine[j]
          /\ routine'[k] = "close"
      BY <1>2, <2>2 DEF CloseOwn, TypeOK
    <3>2. Usable' => Usable
      BY <1>2, WriterAssumption DEF CloseOwn, Usable, TypeOK
    <3> QED
      BY <1>2, <3>1, <3>2 DEF CloseOwn, OneAttempt
  <2>3. \A j \in stale' : routine'[j] # "none"
    BY <1>2 DEF CloseOwn, OneAttempt, TypeOK
  <2> QED
    BY <2>1, <2>2, <2>3 DEF OneAttempt
<1>3. CASE Opened(k)
  <2>1. CASE k \in stale
    BY <1>2, <1>3, <2>1 DEF Opened
  <2>2. CASE k \notin stale
    BY <1>3, <2>2, SettleConnections DEF Opened
  <2> QED
    BY <2>1, <2>2
<1>4. CASE OpenFails(k)
  BY <1>2, <1>4 DEF OpenFails
<1>5. CASE OwnClosed(k)
  BY <1>5, SettleConnections DEF OwnClosed
<1>6. CASE Lose(k)
  <2>1. \A j \in Sockets : socket'[j] = "open" => socket[j] = "open"
    BY <1>6 DEF Lose, TypeOK
  <2>2. Usable' => Usable
    BY <1>6, <2>1 DEF Lose, Usable, TypeOK
  <2> QED
    BY <1>6, <2>1, <2>2 DEF Lose, OneAttempt, NoConnectionLeaks
<1> QED
  BY <1>1, <1>3, <1>4, <1>5, <1>6 DEF Opening

LEMMA RepositoryConnections ==
  ASSUME TypeInv, OneAttempt, NoConnectionLeaks, NEW p \in Posts, GetRepository(p)
  PROVE  OneAttempt' /\ NoConnectionLeaks'
<1> USE DEF TypeInv
<1>1. CASE UNCHANGED writerVars
  BY <1>1 DEF writerVars, OneAttempt, NoConnectionLeaks, Usable
<1>2. ASSUME ~Usable, connecting = None,
             NEW k \in Sockets, routine[k] = "none", connecting' = k,
             routine' = [routine EXCEPT ![k] = "headers"],
             UNCHANGED <<connection, stale, cause, socket>>
      PROVE  OneAttempt' /\ NoConnectionLeaks'
  <2>1. \A j \in Sockets : j \notin stale => routine[j] = "none"
    BY <1>2, WriterAssumption DEF OneAttempt
  <2>2. \A j \in Sockets : j # k => routine'[j] = routine[j]
    BY <1>2 DEF TypeOK
  <2>3. routine'[k] = "headers" /\ ~Usable'
    BY <1>2 DEF TypeOK, Usable
  <2>4. \A j \in stale : routine'[j] # "none"
    BY <2>2, <2>3 DEF OneAttempt, TypeOK
  <2> QED
    BY <1>2, <2>1, <2>2, <2>3, <2>4 DEF OneAttempt, NoConnectionLeaks
<1> QED
  BY <1>1, <1>2 DEF GetRepository, FreeSocket

LEMMA HandlerConnections ==
  ASSUME TypeInv, OneAttempt, NoConnectionLeaks, NEW p \in Posts, Handler(p)
  PROVE  OneAttempt' /\ NoConnectionLeaks'
<1> USE DEF TypeInv
<1>1. CASE UNCHANGED writerVars
  BY <1>1 DEF writerVars, OneAttempt, NoConnectionLeaks, Usable
<1>2. CASE Catch(p) /\ fault[p] = "transient"
  <2>1. /\ stale' = {k \in Sockets : routine[k] # "none"} /\ connection' = None
        /\ routine' = routine
        /\ socket' = IF connection = None THEN socket ELSE [socket EXCEPT ![connection] = "closing"]
    BY <1>2 DEF Catch
  <2>2. \A k \in Sockets : socket'[k] # "open"
    BY <2>1, WriterAssumption DEF NoConnectionLeaks, TypeOK
  <2> QED
    BY <2>1, <2>2 DEF OneAttempt, NoConnectionLeaks
<1>3. CASE ResetDone(p)
  <2>1. \A k \in Sockets : socket'[k] = "open" => socket[k] = "open"
    BY <1>3 DEF ResetDone, TypeOK
  <2>2. Usable' => Usable
    BY <1>3, <2>1 DEF ResetDone, Usable, TypeOK
  <2> QED
    BY <1>3, <2>1, <2>2 DEF ResetDone, OneAttempt, NoConnectionLeaks
<1>4. CASE GetRepository(p)
  BY <1>4, RepositoryConnections
<1> QED
  BY <1>1, <1>2, <1>3, <1>4 DEF Handler, ReadBody, Written, WaitTimesOut, Catch, Wake, WriteFails

LEMMA StepConnections ==
  ASSUME TypeInv, OneAttempt, NoConnectionLeaks, [Next]_writerServiceVars
  PROVE  OneAttempt' /\ NoConnectionLeaks'
<1>1. ASSUME UNCHANGED writerVars
      PROVE  OneAttempt' /\ NoConnectionLeaks'
  BY <1>1 DEF writerVars, OneAttempt, NoConnectionLeaks, Usable
<1>2. \/ UNCHANGED writerVars
      \/ \E p \in Posts : Handler(p)
      \/ \E k \in Sockets : Opening(k) \/ Lose(k)
  BY DEF Next, Post, Receive, PostFails, Land, writerServiceVars
<1> QED
  BY <1>1, <1>2, OpeningConnections, HandlerConnections

-----------------------------------------------------------------------------
(* Delivery. *)

LEMMA InitTold == Init => ToldWritten
BY DEF Init, ToldWritten

LEMMA StepTold ==
  ASSUME TypeInv, ToldWritten, [Next]_writerServiceVars
  PROVE  ToldWritten'
<1> USE DEF TypeInv
<1>1. ASSUME NEW p \in Posts, Handler(p)
      PROVE  ToldWritten'
  <2>1. p[1] \in Requests /\ client[p[1]] # "idle" /\ client' = client
    <3>1. handler[p] # "none" /\ client' = client
      BY <1>1, HandlerSteps DEF GoesOn, Answered, clientVars
    <3>2. p[1] \in Requests /\ p[2] \in 1 .. Tries
      BY PostOf
    <3>3. tries[p[1]] # 0
      BY <3>1, <3>2 DEF PostsMade, TypeOK
    <3> QED
      BY <3>1, <3>2, <3>3 DEF PostsMade
  <2>2. CASE Written(p)
    BY <2>1, <2>2 DEF Written, Answer, ToldWritten, TypeOK
  <2>3. CASE graph' = graph /\ late' \subseteq late \cup {p[1]}
             /\ \A q \in Posts : reply'[q] = reply[q] \/ reply'[q] # "200"
    BY <2>1, <2>3 DEF ToldWritten
  <2>4. GoOn(p) => \A q \in Posts : reply'[q] = reply[q] \/ reply'[q] # "200"
    BY DEF GoOn, Answer, TypeOK
  <2> QED
    BY <1>1, <2>2, <2>3, <2>4 DEF Handler, ReadBody, WaitTimesOut, Catch, ResetDone, Wake,
       WriteFails, Answer, TypeOK, graphVars
<1>2. ASSUME NEW r \in Requests, Post(r)
      PROVE  ToldWritten'
  <2>1. client[r] \in {"idle", "backoff"} /\ client' = [client EXCEPT ![r] = "posting"]
        /\ UNCHANGED graphVars
    BY <1>2 DEF Post
  <2>2. \A q \in Posts : reply'[q] = reply[q] \/ reply'[q] # "200"
    BY <1>2 DEF Post, TypeOK
  <2> QED
    BY <2>1, <2>2 DEF ToldWritten, TypeOK, graphVars
<1>3. ASSUME NEW r \in Requests, NEW status, Resume(r, status), client[r] = "posting",
             status = "200" => r \in graph, reply' = reply, UNCHANGED graphVars
      PROVE  ToldWritten'
  <2>1. \A q \in Requests : q # r => client'[q] = client[q]
    BY <1>3 DEF Resume, TypeOK
  <2>2. client'[r] \in {"ok", "backoff", "failed"} /\ (client'[r] = "ok" => r \in graph)
    BY <1>3, ResumeType
  <2>3. graph \cup late \subseteq Requests
    BY DEF TypeOK
  <2> QED
    BY <1>3, <2>1, <2>2, <2>3 DEF ToldWritten, graphVars
<1>4. ASSUME NEW r \in Requests, Receive(r)
      PROVE  ToldWritten'
  <2>1. Current(r) \in Posts /\ Current(r)[1] = r
    <3>1. tries[r] \in 1 .. Tries
      BY <1>4, WriterAssumption DEF Receive, PostsMade, TypeOK
    <3> QED
      BY <3>1 DEF Current, Posts
  <2> QED
    BY <1>3, <1>4, <2>1 DEF Receive, ToldWritten, handlerVars
<1>5. ASSUME NEW r \in Requests, PostFails(r)
      PROVE  ToldWritten'
  BY <1>3, <1>5 DEF PostFails, handlerVars
<1>6. ASSUME NEW r \in Requests, Land(r)
      PROVE  ToldWritten'
  BY <1>6 DEF Land, ToldWritten, clientVars, handlerVars
<1>7. CASE UNCHANGED writerServiceVars
  BY <1>7 DEF ToldWritten, writerServiceVars, clientVars, handlerVars, graphVars
<1>8. ASSUME NEW k \in Sockets, Opening(k) \/ Lose(k)
      PROVE  ToldWritten'
  BY <1>8, OpeningKeepsPosts DEF ToldWritten, clientVars, graphVars
<1> QED
  BY <1>1, <1>2, <1>4, <1>5, <1>6, <1>7, <1>8 DEF Next

(* How the three variables of the promise are read off the writer's.       *)
Sent == {r \in Requests : client[r] # "idle"}
Told == [r \in Requests |-> IF client[r] \in {"ok", "failed"} THEN client[r] ELSE "nothing"]

LEMMA DeliveryInit == Init => Delivery!Init
BY DEF Init, Delivery!Init

LEMMA DeliveryStep ==
  ASSUME TypeInv, ToldWritten, ToldWritten', [Next]_writerServiceVars
  PROVE  [Delivery!Next]_<<Sent, graph, Told>>
<1> USE DEF TypeInv
<1>1. ASSUME client' = client, graph' = graph
      PROVE  UNCHANGED <<Sent, graph, Told>>
  BY <1>1 DEF Sent, Told
<1>2. ASSUME NEW r \in Requests, client' = client, graph' = graph \cup {r}, client[r] # "idle"
      PROVE  Delivery!Next
  <2>1. Delivery!Persist(r)
    BY <1>2 DEF Delivery!Persist
  <2> QED
    BY <2>1 DEF Delivery!Next
<1>3. ASSUME NEW r \in Requests, Post(r)
      PROVE  [Delivery!Next]_<<Sent, graph, Told>>
  <2>1. /\ client[r] \in {"idle", "backoff"}
        /\ client' = [client EXCEPT ![r] = "posting"] /\ graph' = graph
    BY <1>3 DEF Post, graphVars
  <2>2. Told' = Told
    BY <2>1 DEF Told, TypeOK
  <2>3. CASE client[r] = "backoff"
    BY <2>1, <2>2, <2>3 DEF Sent, TypeOK
  <2>4. CASE client[r] = "idle"
    <3>1. Delivery!Send(r)
      BY <2>1, <2>2, <2>4 DEF Delivery!Send, Told, TypeOK
    <3> QED
      BY <3>1 DEF Delivery!Next
  <2> QED
    BY <2>1, <2>3, <2>4
<1>4. ASSUME NEW r \in Requests, Receive(r) \/ PostFails(r)
      PROVE  [Delivery!Next]_<<Sent, graph, Told>>
  <2>1. client[r] = "posting" /\ graph' = graph
    BY <1>4 DEF Receive, PostFails, graphVars
  <2>2. /\ client' = [client EXCEPT ![r] = client'[r]]
        /\ client'[r] \in {"ok", "backoff", "failed"}
    BY <1>4, ResumeType DEF Receive, PostFails
  <2>3. Sent' = Sent
    BY <2>1, <2>2 DEF Sent, TypeOK
  <2>4. CASE client'[r] = "backoff"
    BY <2>1, <2>2, <2>3, <2>4 DEF Told, TypeOK
  <2>5. ASSUME NEW answer \in {"ok", "failed"}, client'[r] = answer
        PROVE  Delivery!Next
    <3>1. answer = "ok" => r \in graph
      BY <2>1, <2>5 DEF ToldWritten
    <3>2. Told' = [Told EXCEPT ![r] = answer] /\ Told[r] = "nothing" /\ r \in Sent
      BY <2>1, <2>2, <2>5 DEF Told, Sent, TypeOK
    <3>3. Delivery!Tell(r, answer)
      BY <2>1, <2>3, <3>1, <3>2 DEF Delivery!Tell, Sent, Told
    <3> QED
      BY <3>3 DEF Delivery!Next
  <2> QED
    BY <2>2, <2>4, <2>5
<1>5. ASSUME NEW r \in Requests, Land(r)
      PROVE  Delivery!Next
  BY <1>2, <1>5 DEF Land, clientVars, ToldWritten
<1>6. ASSUME NEW p \in Posts, Handler(p)
      PROVE  [Delivery!Next]_<<Sent, graph, Told>>
  <2>1. client' = client
    BY <1>6, HandlerSteps DEF clientVars
  <2>2. CASE Written(p)
    <3>1. graph' = graph \cup {p[1]} /\ p[1] \in Requests
      BY <2>2, PostOf DEF Written
    <3>2. client[p[1]] # "idle"
      BY <2>1, <3>1 DEF ToldWritten
    <3> QED
      BY <1>2, <2>1, <3>1, <3>2
  <2>3. CASE graph' = graph
    BY <1>1, <2>1, <2>3
  <2> QED
    BY <1>6, <2>2, <2>3 DEF Handler, ReadBody, WaitTimesOut, Catch, ResetDone, Wake, WriteFails,
       graphVars
<1>7. CASE UNCHANGED writerServiceVars
  BY <1>1, <1>7 DEF writerServiceVars, clientVars, graphVars
<1>8. ASSUME NEW k \in Sockets, Opening(k) \/ Lose(k)
      PROVE  UNCHANGED <<Sent, graph, Told>>
  BY <1>1, <1>8, OpeningKeepsPosts DEF clientVars, graphVars
<1> QED
  BY <1>3, <1>4, <1>5, <1>6, <1>7, <1>8 DEF Next

(* However connections fail, are reset and open late, the only open one is *)
(* the writer's, every slot is given back, and the writer implements       *)
(* delivery at least once: whoever is told success finds it written.       *)
THEOREM ImplementsDelivery == Spec => WriterDelivers
<1>1. Init => WriterInv
  BY InitType, InitConnections, InitTold DEF WriterInv
<1>2. WriterInv /\ [Next]_writerServiceVars => WriterInv'
  BY StepType, StepConnections, StepTold DEF WriterInv
<1>3. WriterInv => TypeOK /\ NoConnectionLeaks /\ SlotsAreReleased
  BY DEF WriterInv, TypeInv, SlotsCounted, SlotsAreReleased, Busy
<1>4. WriterInv /\ WriterInv' /\ [Next]_writerServiceVars => [Delivery!Next]_<<Sent, graph, Told>>
  BY DeliveryStep DEF WriterInv
<1> QED
  BY <1>1, <1>2, <1>3, <1>4, DeliveryInit, PTL
  DEF Spec, WriterDelivers, Delivery!Spec, Delivery!deliveryVars, Sent, Told
=============================================================================
