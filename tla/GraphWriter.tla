------------------------------ MODULE GraphWriter ------------------------------
(* The graph writer: the client collectors call, the server that admits a     *)
(* bounded number of requests, and the writer behind it, whose one Neptune    *)
(* connection all requests share and any of them may reset.                   *)
(*                                                                            *)
(* The program runs on one event loop. A step is what one event sets off; the *)
(* continuations a settled connection attempt wakes run one by one before the *)
(* next event (Quiet). The counter of generations is only ever compared with  *)
(* the value an attempt began under, so stale holds the attempts begun before *)
(* the last reset. The repository is set in the event that opens its          *)
(* connection and is used only while that one is open: it is not a variable.  *)
EXTENDS Integers, FiniteSets

CONSTANTS Requests,        \* mutations to write, one call of the client each
          Tries,           \* posts of one request by the client
          Attempts,        \* attempts of one write by the writer
          MaxConcurrency,  \* requests the server admits at once
          Sockets,         \* names for connections, reused when closed (a bound)
          None             \* no connection

ASSUME WriterAssumption ==
  /\ {Tries, Attempts, MaxConcurrency} \subseteq Nat \ {0}
  /\ Sockets \subseteq Nat
  /\ None \notin Sockets

VARIABLES client, tries,               \* per request: the call and its posts
          handler, attempt, on, fault, \* per post: the server's handler, its
                                       \* attempt, connection and last error
          reply,                       \* per post: the response
          active,                      \* the server's count of requests
          connection, connecting,      \* the writer's fields
          routine, stale, cause,       \* per connection: the attempt to open it
          socket,                      \* per connection: the driver's socket
          graph, late                  \* requests applied, and still on the way

clientVars == <<client, tries>>
handlerVars == <<handler, attempt, on, fault, reply, active>>
writerVars == <<connection, connecting, routine, stale, cause, socket>>
graphVars == <<graph, late>>
writerServiceVars == <<clientVars, handlerVars, writerVars, graphVars>>

Posts == Requests \X (1 .. Tries)
Faults == {"transient", "permanent", "superseded"}

TypeOK ==
  /\ client \in [Requests -> {"idle", "posting", "backoff", "ok", "failed"}]
  /\ tries \in [Requests -> 0 .. Tries]
  /\ handler \in [Posts -> {"none", "reading", "waiting", "writing", "caught",
                            "resetting", "sleeping", "answered"}]
  /\ attempt \in [Posts -> 0 .. Attempts]
  /\ on \in [Posts -> Sockets \cup {None}]
  /\ fault \in [Posts -> Faults \cup {"none"}]
  /\ reply \in [Posts -> {"none", "200", "503", "other"}]
  /\ active \in 0 .. MaxConcurrency
  /\ connection \in Sockets \cup {None}
  /\ connecting \in Sockets \cup {None}
  /\ routine \in [Sockets -> {"none", "headers", "open", "close"}]
  /\ cause \in [Sockets -> Faults \cup {"none"}]
  /\ stale \subseteq Sockets
  /\ socket \in [Sockets -> {"none", "opening", "open", "lost", "closing"}]
  /\ graph \subseteq Requests
  /\ late \subseteq Requests

Init ==
  /\ client = [r \in Requests |-> "idle"]
  /\ tries = [r \in Requests |-> 0]
  /\ handler = [p \in Posts |-> "none"]
  /\ attempt = [p \in Posts |-> 0]
  /\ on = [p \in Posts |-> None]
  /\ fault = [p \in Posts |-> "none"]
  /\ reply = [p \in Posts |-> "none"]
  /\ active = 0
  /\ connection = None
  /\ connecting = None
  /\ routine = [k \in Sockets |-> "none"]
  /\ cause = [k \in Sockets |-> "none"]
  /\ stale = {}
  /\ socket = [k \in Sockets |-> "none"]
  /\ graph = {}
  /\ late = {}

\* No continuation is waiting to run.
Quiet == \A p \in Posts : handler[p] # "caught"

-----------------------------------------------------------------------------
(* The writer's connection.                                                  *)

Usable == connection # None /\ socket[connection] = "open"

\* Not in use: closed, or lost and replaced.
FreeSocket(k) ==
  /\ routine[k] = "none"
  /\ socket[k] \in {"none", "lost"} /\ connection # k
  /\ \A p \in Posts : on[p] # k

\* A write takes the open connection, joins the attempt under way, or begins one.
GetRepository(p) ==
  \/ /\ Usable
     /\ handler' = [handler EXCEPT ![p] = "writing"]
     /\ on' = [on EXCEPT ![p] = connection]
     /\ UNCHANGED writerVars
  \/ /\ ~Usable
     /\ connecting # None
     /\ handler' = [handler EXCEPT ![p] = "waiting"]
     /\ on' = [on EXCEPT ![p] = connecting]
     /\ UNCHANGED writerVars
  \/ /\ ~Usable
     /\ connecting = None
     /\ \E k \in Sockets :
          /\ FreeSocket(k)
          /\ \A j \in Sockets : FreeSocket(j) => k <= j
          /\ handler' = [handler EXCEPT ![p] = "waiting"]
          /\ on' = [on EXCEPT ![p] = k]
          /\ connecting' = k
          /\ routine' = [routine EXCEPT ![k] = "headers"]
     /\ UNCHANGED <<connection, stale, cause, socket>>

Waiters(k) == {p \in Posts : handler[p] = "waiting" /\ on[p] = k}

\* The attempt k settles: all who wait for it go on.
Settle(k, state, error) ==
  /\ routine' = [routine EXCEPT ![k] = "none"]
  /\ cause' = [cause EXCEPT ![k] = "none"]
  /\ stale' = stale \ {k}
  /\ connecting' = IF connecting = k THEN None ELSE connecting
  /\ handler' = [p \in Posts |-> IF p \in Waiters(k) THEN state ELSE handler[p]]
  /\ fault' = [p \in Posts |-> IF p \in Waiters(k) THEN error ELSE fault[p]]
  /\ UNCHANGED <<clientVars, attempt, on, reply, active, graphVars>>

\* The headers are signed, or cannot be.
Headers(k) ==
  /\ Quiet
  /\ routine[k] = "headers"
  /\ \/ /\ k \notin stale
        /\ connection' = k
        /\ socket' = [socket EXCEPT ![k] = "opening"]
        /\ routine' = [routine EXCEPT ![k] = "open"]
        /\ UNCHANGED <<clientVars, handlerVars, connecting, stale, cause, graphVars>>
     \/ /\ \E error \in Faults :
             /\ error = "superseded" <=> k \in stale
             /\ Settle(k, "caught", error)
        /\ UNCHANGED <<connection, socket>>

\* An attempt that failed, or was superseded while it opened, closes its own
\* connection before its waiters hear of it.
CloseOwn(k, error) ==
  /\ connection' = IF connection = k THEN None ELSE connection
  /\ socket' = [socket EXCEPT ![k] = "closing"]
  /\ routine' = [routine EXCEPT ![k] = "close"]
  /\ cause' = [cause EXCEPT ![k] = error]
  /\ UNCHANGED <<clientVars, handlerVars, connecting, stale, graphVars>>

\* Mutant: the generation is not compared after the connection opened.
OpenedAnyway(k) ==
  /\ Quiet
  /\ routine[k] = "open"
  /\ socket' = [socket EXCEPT ![k] = "open"]
  /\ Settle(k, "writing", "none")
  /\ UNCHANGED connection

Opened(k) ==
  /\ Quiet
  /\ routine[k] = "open"
  /\ IF k \in stale
       THEN CloseOwn(k, "superseded")
       ELSE /\ socket' = [socket EXCEPT ![k] = "open"]
            /\ Settle(k, "writing", "none")
            /\ UNCHANGED connection

OpenFails(k) ==
  /\ Quiet
  /\ routine[k] = "open"
  /\ \E error \in {"transient", "permanent"} : CloseOwn(k, error)

OwnClosed(k) ==
  /\ Quiet
  /\ routine[k] = "close"
  /\ socket' = [socket EXCEPT ![k] = "none"]
  /\ Settle(k, "caught", cause[k])
  /\ UNCHANGED connection

-----------------------------------------------------------------------------
(* A request in the server.                                                  *)

\* The response is written and the request's slot released.
Answer(p, status) ==
  /\ handler' = [handler EXCEPT ![p] = "answered"]
  /\ reply' = [reply EXCEPT ![p] = status]
  /\ on' = [on EXCEPT ![p] = None]
  /\ active' = active - 1

\* The body was read and is a mutation; or it is not, or the client went away.
ReadBody(p) ==
  /\ Quiet
  /\ handler[p] = "reading"
  /\ \/ /\ attempt' = [attempt EXCEPT ![p] = 1]
        /\ GetRepository(p)
        /\ UNCHANGED <<fault, reply, active>>
     \/ /\ Answer(p, "other")
        /\ UNCHANGED <<attempt, fault, writerVars>>
  /\ UNCHANGED <<clientVars, graphVars>>

\* One of Neptune's answers to the write, or none in time. A write that was cut
\* off may still be on its way.
Written(p) ==
  /\ Quiet
  /\ handler[p] = "writing"
  /\ socket[on[p]] \in {"open", "closing"}
  /\ graph' = graph \cup {p[1]}
  /\ Answer(p, "200")
  /\ UNCHANGED <<clientVars, attempt, fault, writerVars, late>>

WriteFails(p, error) ==
  /\ Quiet
  /\ handler[p] = "writing"
  /\ handler' = [handler EXCEPT ![p] = "caught"]
  /\ fault' = [fault EXCEPT ![p] = error]
  /\ \/ error = "permanent" /\ socket[on[p]] = "open" /\ late' = late
     \/ error = "transient" /\ late' \in {late, late \cup {p[1]}}
  /\ UNCHANGED <<clientVars, attempt, on, reply, active, writerVars, graph>>

WaitTimesOut(p) ==
  /\ Quiet
  /\ handler[p] = "waiting"
  /\ handler' = [handler EXCEPT ![p] = "caught"]
  /\ fault' = [fault EXCEPT ![p] = "transient"]
  /\ UNCHANGED <<clientVars, attempt, on, reply, active, writerVars, graphVars>>

\* After a reset: another attempt after a pause, or the error to the server.
GoOn(p) ==
  \/ /\ attempt[p] < Attempts
     /\ handler' = [handler EXCEPT ![p] = "sleeping"]
     /\ on' = [on EXCEPT ![p] = None]
     /\ UNCHANGED <<reply, active>>
  \/ attempt[p] = Attempts /\ Answer(p, "503")

\* The writer's catch: a transient error resets whatever connection is there by
\* now; any other goes to the server at once.
Catch(p) ==
  /\ handler[p] = "caught"
  /\ \/ /\ fault[p] = "transient"
        /\ stale' = {k \in Sockets : routine[k] # "none"}
        /\ connection' = None
        /\ connecting' = None
        /\ \/ /\ connection = None
              /\ GoOn(p)
              /\ UNCHANGED socket
           \/ /\ connection # None
              /\ socket' = [socket EXCEPT ![connection] = "closing"]
              /\ handler' = [handler EXCEPT ![p] = "resetting"]
              /\ on' = [on EXCEPT ![p] = connection]
              /\ UNCHANGED <<reply, active>>
        /\ UNCHANGED <<attempt, fault, routine, cause>>
     \/ /\ fault[p] # "transient"
        /\ Answer(p, "other")
        /\ UNCHANGED <<attempt, fault, writerVars>>
  /\ UNCHANGED <<clientVars, graphVars>>

\* The close ends, or is no longer waited for: in both cases its socket is let go.
ResetDone(p) ==
  /\ Quiet
  /\ handler[p] = "resetting"
  /\ socket' = [socket EXCEPT ![on[p]] = "none"]
  /\ GoOn(p)
  /\ UNCHANGED <<clientVars, attempt, fault, connection, connecting, routine, stale, cause,
                 graphVars>>

Wake(p) ==
  /\ Quiet
  /\ handler[p] = "sleeping"
  /\ attempt' = [attempt EXCEPT ![p] = @ + 1]
  /\ GetRepository(p)
  /\ UNCHANGED <<clientVars, fault, reply, active, graphVars>>

-----------------------------------------------------------------------------
(* The client of a request.                                                  *)

Current(r) == <<r, tries[r]>>

\* A post reaches the server, which admits it or is busy, or reaches nobody.
Post(r) ==
  /\ Quiet
  /\ client[r] \in {"idle", "backoff"}
  /\ client' = [client EXCEPT ![r] = "posting"]
  /\ tries' = [tries EXCEPT ![r] = @ + 1]
  /\ LET p == <<r, tries[r] + 1>> IN
       \/ /\ active < MaxConcurrency
          /\ active' = active + 1
          /\ handler' = [handler EXCEPT ![p] = "reading"]
          /\ UNCHANGED reply
       \/ /\ active >= MaxConcurrency
          /\ handler' = [handler EXCEPT ![p] = "answered"]
          /\ reply' = [reply EXCEPT ![p] = "503"]
          /\ UNCHANGED active
       \/ UNCHANGED <<active, handler, reply>>
  /\ UNCHANGED <<attempt, on, fault, writerVars, graphVars>>

\* The post's outcome: persisted, worth another post, or an error.
Resume(r, status) ==
  client' = [client EXCEPT ![r] =
    CASE status = "200" -> "ok"
      [] status = "503" /\ tries[r] < Tries -> "backoff"
      [] OTHER -> "failed"]

Receive(r) ==
  /\ Quiet
  /\ client[r] = "posting"
  /\ reply[Current(r)] # "none"
  /\ Resume(r, reply[Current(r)])
  /\ UNCHANGED <<tries, handlerVars, writerVars, graphVars>>

\* The connection breaks, or the client's timeout aborts the post: as a 503.
PostFails(r) ==
  /\ Quiet
  /\ client[r] = "posting"
  /\ Resume(r, "503")
  /\ UNCHANGED <<tries, handlerVars, writerVars, graphVars>>

-----------------------------------------------------------------------------
(* Neptune: it drops a connection, and a write it got before that may land.  *)

Lose(k) ==
  /\ Quiet
  /\ socket[k] = "open"
  /\ socket' = [socket EXCEPT ![k] = "lost"]
  /\ UNCHANGED <<clientVars, handlerVars, connection, connecting, routine, stale, cause,
                 graphVars>>

Land(r) ==
  /\ Quiet
  /\ r \in late
  /\ late' = late \ {r}
  /\ graph' = graph \cup {r}
  /\ UNCHANGED <<clientVars, handlerVars, writerVars>>

Handler(p) ==
  \/ ReadBody(p) \/ Written(p) \/ WaitTimesOut(p) \/ Catch(p) \/ ResetDone(p) \/ Wake(p)
  \/ \E error \in {"transient", "permanent"} : WriteFails(p, error)

Opening(k) == Headers(k) \/ Opened(k) \/ OpenFails(k) \/ OwnClosed(k)

Next ==
  \/ \E r \in Requests : Post(r) \/ Receive(r) \/ PostFails(r) \/ Land(r)
  \/ \E p \in Posts : Handler(p)
  \/ \E k \in Sockets : Opening(k) \/ Lose(k)

Spec == Init /\ [][Next]_writerServiceVars

-----------------------------------------------------------------------------
(* Properties. *)

\* No connection leaks: one that is open is the one the writer holds, whatever
\* resets came between the signing of its headers and its opening
\* (getRepository's two comparisons of the generation, close).
NoConnectionLeaks == \A k \in Sockets : socket[k] = "open" => connection = k

\* Every response releases the slot its request took, on all paths (active++
\* and the finally of createGraphWriterServer).
SlotsAreReleased ==
  active = Cardinality({p \in Posts : handler[p] \notin {"none", "answered"}})

Delivery == INSTANCE MutationDelivery WITH
  sent <- {r \in Requests : client[r] # "idle"},
  persisted <- graph,
  told <- [r \in Requests |->
             IF client[r] \in {"ok", "failed"} THEN client[r] ELSE "nothing"]

\* Every mutation's way through the writer implements MutationDelivery: retries
\* at both ends, resets, busy answers and cut-off writes add up to delivery at
\* least once, and whoever is told it was written finds it written. However
\* connections fail, are reset and open late, none but the current one stays
\* open and every slot is given back.
WriterDelivers ==
  /\ [](TypeOK /\ NoConnectionLeaks /\ SlotsAreReleased)
  /\ Delivery!Spec
=============================================================================
