------------------------------ MODULE FlowLogs ------------------------------
(***************************************************************************)
(* Observed traffic.  The flow log analyzer asks Athena which network      *)
(* interfaces received accepted traffic and from whom, and writes one row  *)
(* per interface that expires; the collector reads the rows of the         *)
(* interfaces of the instances it lists and writes what it finds onto      *)
(* their vertices; an attack path that arrives at such a vertex cites it.  *)
(* The two run on their own schedules and share only the table.            *)
(***************************************************************************)
EXTENDS Naturals, FiniteSets, SequencesExt, FiniteSetsExt

CONSTANTS
    Interfaces,         \* network interfaces
    Addresses,          \* remote addresses, the biggest sender first (a sequence)
    Instances,
    FlowWindow,         \* FLOW_LOG_DAYS
    ObservationTtl,     \* OBSERVATION_TTL_DAYS
    ObservationLag,     \* days an expired row may still be read
    MaxObservations,    \* MAX_OBSERVATIONS
    PerInterface,       \* ENDPOINTS_PER_INTERFACE
    PerInstance,        \* MAX_INSTANCE_ENDPOINTS
    BatchSize,          \* BATCH_SIZE
    FlowAttempts,       \* MAX_BATCH_ATTEMPTS
    MaxFlowDay, MaxFlowFaults, MaxFlows   \* bounds of the model

VARIABLES
    flowDay, flows,     \* the last day each sender's traffic was accepted (0: never)
    attached,           \* the instance each interface is attached to
    flowRun,            \* the analyzer's invocation
    observations,       \* the TrafficObservations table
    described,          \* the collector: instances with their interfaces, or undescribed
    vertices,           \* traffic_observed, observed_endpoints of each instance
    flowFaults,
    flowed              \* accepted flows so far, bounded by MaxFlows
flowVars == <<flowDay, flows, flowed, attached, flowRun, observations, described, vertices,
              flowFaults>>

Senders == ToSet(Addresses)

ASSUME FlowParameters ==
    /\ IsFiniteSet(Interfaces) /\ Addresses \in Seq(Senders) /\ Instances # {}
    /\ \A c \in {FlowWindow, ObservationTtl, ObservationLag, MaxObservations, PerInterface,
                  PerInstance, MaxFlowFaults, MaxFlows} : c \in Nat
    /\ \A c \in {BatchSize, FlowAttempts, MaxFlowDay} : c \in Nat \ {0}

Flowed(n, a) == flows[n][a] > 0 /\ flows[n][a] + FlowWindow >= flowDay
First(s, k) == SubSeq(s, 1, IF k > Len(s) THEN Len(s) ELSE k)
Undescribed == [i \in {} |-> {}]
NoAnalysis == [stage |-> "idle"]

FlowInit ==
    /\ flowDay = 1 /\ flowFaults = 0 /\ flowed = 0 /\ flowRun = NoAnalysis
    /\ flows = [n \in Interfaces |-> [a \in Senders |-> 0]]
    /\ attached = [n \in Interfaces |-> CHOOSE i \in Instances : TRUE]
    /\ observations = [n \in {} |-> 0]
    /\ described = Undescribed
    /\ vertices = [i \in Instances |-> [observed |-> FALSE, endpoints |-> {}]]

-----------------------------------------------------------------------------
(* The world.  DynamoDB deletes an expired row within Lag days.            *)

AcceptTraffic ==
    /\ flowed < MaxFlows /\ flowed' = flowed + 1
    /\ \E n \in Interfaces, a \in Senders :
          /\ flows[n][a] # flowDay
          /\ flows' = [flows EXCEPT ![n][a] = flowDay]
    /\ UNCHANGED <<flowDay, attached, flowRun, observations, described, vertices, flowFaults>>

MoveInterface ==
    /\ flowFaults < MaxFlowFaults /\ flowFaults' = flowFaults + 1
    /\ \E n \in Interfaces : \E i \in Instances \ {attached[n]} :
          attached' = [attached EXCEPT ![n] = i]
    /\ UNCHANGED <<flowDay, flows, flowed, flowRun, observations, described, vertices>>

Expired(day) == {n \in DOMAIN observations : observations[n].expires < day}
LongExpired(day) ==
    {n \in DOMAIN observations : observations[n].expires + ObservationLag < day}
NextFlowDay ==
    /\ flowDay < MaxFlowDay /\ flowRun.stage \in {"idle", "done", "failed"}
    /\ flowDay' = flowDay + 1
    /\ \E gone \in SUBSET Expired(flowDay + 1) :
          /\ LongExpired(flowDay + 1) \subseteq gone
          /\ observations' = [n \in DOMAIN observations \ gone |-> observations[n]]
    /\ UNCHANGED <<flows, flowed, attached, flowRun, described, vertices, flowFaults>>

-----------------------------------------------------------------------------
(* The analyzer: the query of interfaces, the query of senders, the rows.  *)

FlowFault == flowFaults < MaxFlowFaults /\ flowFaults' = flowFaults + 1
FlowWorks == flowFaults' = flowFaults
\* An Athena query fails, is cancelled or does not end in time (or the stop signal is seen).
QueryFails == FlowFault
\* One row that does not parse fails the whole reading.
RowIsMalformed == FlowFault

StartAnalysis ==
    /\ \/ flowRun.stage = "idle"
       \/ flowRun.stage \in {"done", "failed"} /\ flowRun.day < flowDay
    /\ flowRun' = [stage |-> "traffic", day |-> flowDay]
    /\ UNCHANGED <<flowDay, flows, flowed, attached, observations, described, vertices, flowFaults>>

\* buildTrafficQuery(): one row per interface with traffic in the window, in no order; the
\* parsed rows are cut at the limit.
QueryTraffic ==
    /\ flowRun.stage = "traffic"
    /\ \/ /\ QueryFails \/ RowIsMalformed
          /\ flowRun' = [flowRun EXCEPT !.stage = "failed"]
       \/ /\ FlowWorks
          /\ LET active == {n \in Interfaces : \E a \in Senders : Flowed(n, a)}
             IN \E order \in SetToSeqs(active) :
                   flowRun' = [stage |-> "endpoints", day |-> flowDay,
                               truncated |-> Len(order) > MaxObservations,
                               asked |-> active, seen |-> First(order, MaxObservations)]
    /\ UNCHANGED <<flowDay, flows, flowed, attached, observations, described, vertices>>

\* Of the addresses at these positions the first k.
Leading(positions, k) ==
    {Addresses[p] : p \in {q \in positions : Cardinality({o \in positions : o < q}) < k}}

\* The biggest senders of an interface (endpoint_rank <= n).
TopSenders(n) == Leading({p \in DOMAIN Addresses : Flowed(n, Addresses[p])}, PerInterface)

Writing(endpoints) ==
    flowRun' = [stage |-> "writing", day |-> flowRun.day, truncated |-> flowRun.truncated,
                asked |-> flowRun.asked, seen |-> flowRun.seen, endpoints |-> endpoints,
                attempt |-> 1]

\* A failure of the second query, the stop signal's included, only costs the citations.
QueryEndpoints ==
    /\ flowRun.stage = "endpoints"
    /\ \/ (QueryFails \/ RowIsMalformed) /\ Writing([n \in {} |-> {}])
       \/ FlowWorks /\ Writing([n \in {m \in Interfaces : TopSenders(m) # {}} |-> TopSenders(n)])
    /\ UNCHANGED <<flowDay, flows, flowed, attached, observations, described, vertices>>

FlowBatch == ToSet(First(flowRun.seen, BatchSize))
EndpointsOf(n) == IF n \in DOMAIN flowRun.endpoints THEN flowRun.endpoints[n] ELSE {}
ItemOf(n) == [day |-> flowDay, expires |-> flowDay + ObservationTtl, endpoints |-> EndpointsOf(n)]
PutObservations(ns) ==
    observations' = [n \in DOMAIN observations \cup ns |->
                       IF n \in ns THEN ItemOf(n) ELSE observations[n]]
NextBatch ==
    [flowRun EXCEPT !.seen = SubSeq(flowRun.seen, BatchSize + 1, Len(flowRun.seen)),
                    !.attempt = 1]

\* Mutant: what DynamoDB left unprocessed is not looked at.
TryAgainForgotten == flowRun' = NextBatch

\* One BatchWriteItem: it may be taken in part or fail, and is then resent whole.
TryAgain ==
    flowRun' = IF flowRun.attempt >= FlowAttempts THEN [flowRun EXCEPT !.stage = "failed"]
               ELSE [flowRun EXCEPT !.attempt = @ + 1]

WriteObservations ==
    /\ flowRun.stage = "writing" /\ flowRun.seen # << >>
    /\ \/ FlowWorks /\ PutObservations(FlowBatch) /\ flowRun' = NextBatch
       \/ /\ FlowFault
          /\ \E taken \in SUBSET FlowBatch : taken # FlowBatch /\ PutObservations(taken)
          /\ TryAgain
    /\ UNCHANGED <<flowDay, flows, flowed, attached, described, vertices>>

FinishAnalysis ==
    /\ flowRun.stage = "writing" /\ flowRun.seen = << >>
    /\ flowRun' = [stage |-> "done", day |-> flowRun.day, truncated |-> flowRun.truncated,
                   asked |-> flowRun.asked]
    /\ UNCHANGED <<flowDay, flows, flowed, attached, observations, described, vertices, flowFaults>>

-----------------------------------------------------------------------------
(* The collector: instances are described, then their rows are read.       *)

DescribeInstances ==
    /\ described = Undescribed
    /\ described' = [i \in Instances |-> {n \in Interfaces : attached[n] = i}]
    /\ UNCHANGED <<flowDay, flows, flowed, attached, flowRun, observations, vertices, flowFaults>>

\* instanceObservation(): an instance with a row on one of its interfaces was observed.
InstanceObservation(i, found) ==
    LET mine == described[i] \cap found
        cited == UNION {observations[n].endpoints : n \in mine}
    IN [observed |-> mine # {},
        endpoints |-> Leading({p \in DOMAIN Addresses : Addresses[p] \in cited}, PerInstance)]

\* A vertex gains what was observed; what was not observed is left as it was.
Noted(i, found) ==
    LET o == InstanceObservation(i, found)
    IN [observed |-> vertices[i].observed \/ o.observed,
        endpoints |-> IF o.endpoints # {} THEN o.endpoints ELSE vertices[i].endpoints]

\* A chunk that cannot be read, or keys left unprocessed, count as no traffic.
LoadObservations ==
    /\ described # Undescribed
    /\ \/ FlowWorks /\ vertices' = [i \in Instances |-> Noted(i, DOMAIN observations)]
       \/ FlowFault /\ \E got \in SUBSET DOMAIN observations :
                      vertices' = [i \in Instances |-> Noted(i, got)]
    /\ described' = Undescribed
    /\ UNCHANGED <<flowDay, flows, flowed, attached, flowRun, observations>>

\* observedTrafficFromPath(): the hop that arrives at an observed vertex cites its endpoints.
ObservedTrafficFromPath(path) ==
    {[hop |-> k, endpoints |-> vertices[path[k]].endpoints] :
        k \in {j \in 2..Len(path) : vertices[path[j]].observed}}

FlowNext ==
    \/ AcceptTraffic \/ MoveInterface \/ NextFlowDay
    \/ StartAnalysis \/ QueryTraffic \/ QueryEndpoints \/ WriteObservations \/ FinishAnalysis
    \/ DescribeInstances \/ LoadObservations

FlowSpec == FlowInit /\ [][FlowNext]_flowVars

-----------------------------------------------------------------------------
(* Type correctness: what a run carries depends on its stage.              *)
AnalysisStates ==
    {NoAnalysis} \cup [stage : {"traffic", "failed"}, day : 1..MaxFlowDay]
    \cup [stage : {"endpoints"}, day : 1..MaxFlowDay, truncated : BOOLEAN,
          asked : SUBSET Interfaces, seen : Seq(Interfaces)]
    \cup [stage : {"writing", "failed"}, day : 1..MaxFlowDay, truncated : BOOLEAN,
          asked : SUBSET Interfaces, seen : Seq(Interfaces),
          endpoints : UNION {[ns -> SUBSET Senders] : ns \in SUBSET Interfaces},
          attempt : 1..FlowAttempts]
    \cup [stage : {"done"}, day : 1..MaxFlowDay, truncated : BOOLEAN, asked : SUBSET Interfaces]
FlowTypeOK ==
    /\ flowDay \in 1..MaxFlowDay /\ flowFaults \in 0..MaxFlowFaults /\ flowed \in 0..MaxFlows
    /\ flowRun \in AnalysisStates
    /\ flows \in [Interfaces -> [Senders -> 0..flowDay]] /\ attached \in [Interfaces -> Instances]
    /\ described = Undescribed \/ described \in [Instances -> SUBSET Interfaces]
    /\ DOMAIN observations \subseteq Interfaces
    /\ \A n \in DOMAIN observations :
          /\ observations[n] \in [day : 1..flowDay, expires : Nat, endpoints : SUBSET Senders]
          /\ Cardinality(observations[n].endpoints) <= PerInterface
          /\ observations[n].expires = observations[n].day + ObservationTtl
          /\ observations[n].expires + ObservationLag >= flowDay
    /\ vertices \in [Instances -> [observed : BOOLEAN, endpoints : SUBSET Senders]]
    /\ \A i \in Instances : vertices[i].endpoints # {} => vertices[i].observed

(* On the day a run ends well there is a row of that day for every         *)
(* interface its query found, whether or not the second query failed and   *)
(* however often a batch was only taken in part; unless it said it         *)
(* truncated (writeObservations, collectEndpointEvidence).                 *)
CompleteRunsCover ==
    flowRun.stage = "done" /\ flowRun.day = flowDay /\ ~flowRun.truncated =>
        \A n \in flowRun.asked : n \in DOMAIN observations /\ observations[n].day = flowDay

(* What a path newly cites for a hop after a collection really arrived on  *)
(* an interface that collection saw on the instance of that hop, and not   *)
(* longer ago than the window, the time to live and the delay of the       *)
(* deletion add up to (instanceObservation, observedTrafficFromPath).      *)
NewlyCited(i, j) == ObservedTrafficFromPath(<<i, j>>)' \ ObservedTrafficFromPath(<<i, j>>)
Earned(a, ns) ==
    \E n \in ns : flows[n][a] > 0
                /\ flows[n][a] + FlowWindow + ObservationTtl + ObservationLag >= flowDay
CitationsAreEarned ==
    [][\A i, j \in Instances : \A c \in NewlyCited(i, j) : \A a \in c.endpoints :
          Earned(a, described[<<i, j>>[c.hop]])]_flowVars

(* On the day a collection ends well every interface its query found has a *)
(* row of that day, however the batches were taken, unless it said it      *)
(* truncated; and what a path newly cites arrived on an interface seen on  *)
(* the instance of that hop, not longer ago than the window and the row's  *)
(* life allow.                                                             *)
TrafficIsObserved == [](FlowTypeOK /\ CompleteRunsCover) /\ CitationsAreEarned
=============================================================================
