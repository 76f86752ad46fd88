------------------------------ MODULE SecretCounts ------------------------------
(***************************************************************************)
(* How many principals can read each secret of the inventory:              *)
(* secretReaderCounts() counts account by account, a few at a time and     *)
(* within a budget, over reads of the graph that all requests share for a  *)
(* while.  A read is one Promise in a map; whoever awaits it gets what it  *)
(* settles to.                                                             *)
(***************************************************************************)
EXTENDS SecretReaders

CONSTANTS
    RowLimit,           \* rows one read of the graph returns
    Requests, Concurrency,
    CacheFor, Budget,   \* CACHE_MS, START_BUDGET_MS
    MaxPolicyEdits, MaxFailedReads, MaxClock     \* bounds of the model

\* The accounts are the keys of a Map; no read starts after 20 seconds, the cache lives for
\* ten minutes.
ASSUME CountsParameters ==
    /\ AccountOrder \in Seq(Accounts) /\ IsInjective(AccountOrder)
    /\ IsFiniteSet(PolicyRows) /\ RowLimit \in Nat /\ Concurrency \in Nat
    /\ Budget \in Nat /\ CacheFor \in Nat /\ Budget < CacheFor
    /\ MaxPolicyEdits \in Nat /\ MaxFailedReads \in Nat /\ MaxClock \in Nat \ {0}

VARIABLES
    cache,              \* per account, the shared read
    request,            \* the requests for all counts
    clock, policyEdits, failedReads
countsVars == <<policyRows, cache, request, clock, policyEdits, failedReads>>

NoRead == [stage |-> "none"]
NotAsked == [stage |-> "none"]

CountsInit ==
    /\ policyRows = [a \in Accounts |-> PolicyRows]
    /\ cache = [a \in Accounts |-> NoRead]
    /\ request = [q \in Requests |-> NotAsked]
    /\ clock = 1 /\ policyEdits = 0 /\ failedReads = 0

ChangePolicies(a, r) ==
    /\ policyEdits < MaxPolicyEdits /\ policyEdits' = policyEdits + 1
    /\ EditPolicy(a, r)
    /\ UNCHANGED <<cache, request, clock, failedReads>>

\* A read of the graph ends long before the cache does.
Tick ==
    /\ clock < MaxClock /\ clock' = clock + 1
    /\ \A a \in Accounts : cache[a].stage = "loading" => clock' < cache[a].at + CacheFor
    /\ UNCHANGED <<policyRows, cache, request, policyEdits, failedReads>>

-----------------------------------------------------------------------------
(* secretReaderCounts().                                                   *)

Ask(q) ==
    /\ request[q].stage = "none"
    /\ request' = [request EXCEPT ![q] = [stage |-> "open", now |-> clock, todo |-> AccountOrder,
                                          waiting |-> {}, unavailable |-> 0, counts |-> << >>]]
    /\ UNCHANGED <<policyRows, cache, clock, policyEdits, failedReads>>

\* Mutant: a read is kept as long as somebody asks for it.
HitSliding(a, now) == cache[a].stage # "none"

Hit(a, now) == cache[a].stage # "none" /\ now < cache[a].at + CacheFor

OverBudget(q) == clock > request[q].now + Budget

\* The accounts left over count as unavailable.
GiveUp(q) ==
    request' = [request EXCEPT ![q].unavailable = @ + Len(request[q].todo), ![q].todo = << >>]

Counted(a, read) ==
    <<a, CountReaders(PrepareStatements(read.rows), SecretIn[a]), read.truncated, read.when>>

\* A worker takes the next account: from the cache, with those who wait for it, or from the graph.
TakeAccount(q) ==
    /\ request[q].stage = "open" /\ request[q].todo # << >>
    /\ Cardinality(request[q].waiting) < Concurrency
    /\ LET a == Head(request[q].todo) IN
       IF OverBudget(q) THEN GiveUp(q) /\ UNCHANGED cache
       ELSE IF Hit(a, request[q].now) /\ cache[a].stage = "loaded"
       THEN /\ request' = [request EXCEPT ![q].todo = Tail(@),
                                          ![q].counts = Append(@, Counted(a, cache[a]))]
            /\ UNCHANGED cache
       ELSE /\ request' = [request EXCEPT ![q].todo = Tail(@), ![q].waiting = @ \cup {a}]
            /\ cache' = IF Hit(a, request[q].now) THEN cache
                        ELSE [cache EXCEPT ![a] = [stage |-> "loading", at |-> request[q].now]]
    /\ UNCHANGED <<policyRows, clock, policyEdits, failedReads>>

Waiting(a) == {q \in Requests : request[q].stage = "open" /\ a \in request[q].waiting}

\* The read returns up to RowLimit rows, in no order, to all who wait for it.
Loaded(a) ==
    /\ cache[a].stage = "loading"
    /\ \E got \in SUBSET policyRows[a] :
          /\ Cardinality(got) = Min({RowLimit, Cardinality(policyRows[a])})
          /\ LET read == [stage |-> "loaded", at |-> cache[a].at, rows |-> got,
                          truncated |-> got # policyRows[a], when |-> clock]
             IN /\ cache' = [cache EXCEPT ![a] = read]
                /\ request' = [q \in Requests |->
                     IF q \in Waiting(a)
                     THEN [request[q] EXCEPT !.waiting = @ \ {a},
                                             !.counts = Append(@, Counted(a, read))]
                     ELSE request[q]]
    /\ UNCHANGED <<policyRows, clock, policyEdits, failedReads>>

\* A read that fails is not cached, and counts as unavailable for all who wait for it.
LoadFails(a) ==
    /\ cache[a].stage = "loading"
    /\ failedReads < MaxFailedReads /\ failedReads' = failedReads + 1
    /\ cache' = [cache EXCEPT ![a] = NoRead]
    /\ request' = [q \in Requests |->
         IF q \in Waiting(a)
         THEN [request[q] EXCEPT !.waiting = @ \ {a}, !.unavailable = @ + 1]
         ELSE request[q]]
    /\ UNCHANGED <<policyRows, clock, policyEdits>>

Answer(q) ==
    /\ request[q].stage = "open" /\ request[q].todo = << >> /\ request[q].waiting = {}
    /\ request' = [request EXCEPT ![q].stage = "answered"]
    /\ UNCHANGED <<policyRows, cache, clock, policyEdits, failedReads>>

CountsNext ==
    \/ \E a \in Accounts, r \in PolicyRows : ChangePolicies(a, r)
    \/ Tick
    \/ \E q \in Requests : Ask(q) \/ TakeAccount(q) \/ Answer(q)
    \/ \E a \in Accounts : Loaded(a) \/ LoadFails(a)

CountsSpec == CountsInit /\ [][CountsNext]_countsVars

-----------------------------------------------------------------------------
(* Type correctness.                                                       *)
CountsTypeOK ==
    /\ ReadersTypeOK /\ clock \in 1..MaxClock
    /\ policyEdits \in 0..MaxPolicyEdits /\ failedReads \in 0..MaxFailedReads
    /\ \A a \in Accounts : /\ cache[a].stage \in {"none", "loading", "loaded"}
                           /\ cache[a].stage = "loading" => Waiting(a) # {}
    /\ \A q \in Requests : request[q].stage # "none" =>
          /\ Cardinality(request[q].waiting) <= Concurrency
          /\ request[q].unavailable <= Len(AccountOrder)

(* What is read once for many requests is never older, when a request      *)
(* starts, than the cache lives.                                           *)
AnswersAreFresh ==
    \A q \in Requests : request[q].stage # "none" =>
        \A n \in DOMAIN request[q].counts : request[q].now < request[q].counts[n][4] + CacheFor

(* An answer leaves no account out: it counts it or says it could not.     *)
AnswersAreWhole ==
    \A q \in Requests : request[q].stage = "answered" =>
        Len(request[q].counts) + request[q].unavailable = Len(AccountOrder)

(* Nobody waits for a read that nobody runs: one the cache replaced or     *)
(* dropped while requests shared it.                                       *)
WaitersAreServed ==
    \A q \in Requests : request[q].stage = "open" =>
        \A a \in request[q].waiting : cache[a].stage = "loading"

(* What is read once for many requests is never older, when a request      *)
(* starts, than the cache lives; an answer leaves no account out: it       *)
(* counts it or says that it could not; and nobody waits for a read that   *)
(* nobody runs.                                                            *)
CountsAreAnswered == CountsTypeOK /\ AnswersAreFresh /\ AnswersAreWhole /\ WaitersAreServed
===============================================================================
