---------------------------- MODULE IncrementalBatch ----------------------------
(***************************************************************************)
(* The incremental collector over its FIFO queue: processBatch() receives  *)
(* what there is, asks the organization which accounts are approved, and   *)
(* takes the messages one by one - describe, write, signal, delete.  A     *)
(* message that fails is left for redelivery and the next one follows;     *)
(* what fails too often is dead-lettered.  A message is its place in the   *)
(* order in which they were sent.                                          *)
(***************************************************************************)
EXTENDS Naturals, Sequences, FiniteSets

CONSTANTS
    EventTargets,       \* the account each message is about, in the order they were sent
    Poison,             \* those that never pass requireApprovedEventTarget() or JSON.parse()
    Uneventful,         \* those that describe nothing to write
    MaxReceives,        \* of the queue's redrive policy
    MaxBatchFaults, MaxDeparted     \* bounds of the model

VARIABLES
    queue, receives, inFlight, dead,
    departed,           \* the accounts that left the organization
    batch,              \* the batch in progress
    written,            \* the events the graph took
    failed,             \* the events one of whose own steps failed
    lost,               \* how often each was in a batch that broke off before its end
    batchFaults
batchVars == <<queue, receives, inFlight, dead, departed, batch, written, failed, lost,
               batchFaults>>

Messages == DOMAIN EventTargets
EventAccounts == {EventTargets[e] : e \in Messages}

ASSUME BatchParameters == EventTargets \in Seq(EventAccounts) /\ MaxReceives \in Nat

Polling == [stage |-> "polling", todo |-> {}]

BatchInit ==
    /\ queue = Messages /\ receives = [e \in Messages |-> 0] /\ inFlight = {} /\ dead = {}
    /\ departed = {} /\ batch = Polling /\ written = {} /\ failed = {}
    /\ lost = [e \in Messages |-> 0] /\ batchFaults = 0

BatchFault == batchFaults < MaxBatchFaults /\ batchFaults' = batchFaults + 1
NoBatchFault == batchFaults' = batchFaults

CloseAccount(a) ==
    /\ a \notin departed /\ Cardinality(departed) < MaxDeparted
    /\ departed' = departed \cup {a}
    /\ UNCHANGED <<queue, receives, inFlight, dead, batch, written, failed, lost, batchFaults>>

\* The visibility timeout of the messages in flight ends; nobody holds them any more.
ShowAgain ==
    /\ inFlight # {} /\ batch.stage = "polling"
    /\ inFlight' = {}
    /\ UNCHANGED <<queue, receives, dead, departed, batch, written, failed, lost, batchFaults>>

-----------------------------------------------------------------------------
\* One message group: nothing is delivered while anything of it is in flight.
ReceiveBatch ==
    /\ batch.stage = "polling" /\ inFlight = {} /\ queue # {}
    /\ LET spent == {e \in queue : receives[e] = MaxReceives}
           got == queue \ spent
       IN /\ dead' = dead \cup spent /\ queue' = got /\ inFlight' = got
          /\ receives' = [e \in Messages |-> IF e \in got THEN receives[e] + 1 ELSE receives[e]]
          /\ batch' = IF got = {} THEN Polling
                      ELSE [stage |-> "discover", todo |-> got, before |-> departed]
    /\ UNCHANGED <<departed, written, failed, lost, batchFaults>>

\* The batch is over, and all it has not done with comes back.
BreakOff ==
    /\ BatchFault
    /\ batch' = Polling
    /\ lost' = [e \in Messages |-> IF e \in batch.todo THEN lost[e] + 1 ELSE lost[e]]

\* discoverAccounts(): asked again for every batch; a failure ends the batch.
Discover ==
    /\ batch.stage = "discover"
    /\ \/ /\ NoBatchFault /\ UNCHANGED lost
          /\ batch' = [stage |-> "take", todo |-> batch.todo, before |-> batch.before,
                       scope |-> EventAccounts \ departed]
       \/ BreakOff
    /\ UNCHANGED <<queue, receives, inFlight, dead, departed, written, failed>>

\* The messages of a batch are taken in their order.
IsNext(e) == e \in batch.todo /\ \A other \in batch.todo : e <= other

\* Mutant: the first failure ends the batch.
NextMessageStops(e, ok) ==
    batch' = IF ~ok \/ batch.todo = {e} THEN Polling
             ELSE [batch EXCEPT !.stage = "take", !.todo = @ \ {e}]

\* A failure is counted and the next message follows.
NextMessage(e, ok) ==
    batch' = IF batch.todo = {e} THEN Polling
             ELSE [batch EXCEPT !.stage = "take", !.todo = @ \ {e}]

\* requireApprovedEventTarget().
ApprovedTarget(e) == e \notin Poison /\ EventTargets[e] \in batch.scope

\* processEvent() and writeGraph(); a write that is reported as failed may have reached the graph.
TakeMessage(e) ==
    /\ batch.stage = "take" /\ IsNext(e)
    /\ \/ /\ NoBatchFault /\ ApprovedTarget(e)
          /\ batch' = [batch EXCEPT !.stage = "delete"]
          /\ written' = written \cup ({e} \ Uneventful)
          /\ UNCHANGED failed
       \/ /\ ~ApprovedTarget(e) /\ NoBatchFault
          /\ failed' = failed \cup {e} /\ NextMessage(e, FALSE) /\ UNCHANGED written
       \/ /\ BatchFault /\ ApprovedTarget(e)
          /\ written' \in {written, written \cup ({e} \ Uneventful)}
          /\ failed' = failed \cup {e} /\ NextMessage(e, FALSE)
    /\ UNCHANGED <<queue, receives, inFlight, dead, departed, lost>>

\* A failed deletion leaves the message, though it was written.
DeleteMessage(e) ==
    /\ batch.stage = "delete" /\ IsNext(e)
    /\ \/ /\ NoBatchFault /\ UNCHANGED failed /\ NextMessage(e, TRUE)
          /\ queue' = queue \ {e} /\ inFlight' = inFlight \ {e}
       \/ /\ BatchFault /\ failed' = failed \cup {e} /\ NextMessage(e, FALSE)
          /\ UNCHANGED <<queue, inFlight>>
    /\ UNCHANGED <<receives, dead, departed, written, lost>>

\* The invocation times out or the process stops; its messages show again.
Crash ==
    /\ batch.stage # "polling" /\ BreakOff
    /\ UNCHANGED <<queue, receives, inFlight, dead, departed, written, failed>>

BatchNext ==
    \/ \E a \in EventAccounts : CloseAccount(a)
    \/ ShowAgain \/ ReceiveBatch \/ Discover \/ Crash
    \/ \E e \in Messages : TakeMessage(e) \/ DeleteMessage(e)

BatchSpec == BatchInit /\ [][BatchNext]_batchVars

-----------------------------------------------------------------------------
(* Type correctness.                                                       *)
BatchTypeOK ==
    /\ queue \subseteq Messages /\ inFlight \subseteq queue /\ dead \subseteq Messages
    /\ receives \in [Messages -> 0..MaxReceives] /\ lost \in [Messages -> 0..MaxReceives]
    /\ departed \subseteq EventAccounts
    /\ written \subseteq Messages /\ failed \subseteq Messages
    /\ batch.stage \in {"polling", "discover", "take", "delete"}
    /\ batch.todo \subseteq inFlight /\ (batch.todo = {} <=> batch.stage = "polling")

(* A message leaves the queue with its change in the graph, or for the     *)
(* dead-letter queue, and goes there only for a failure of its own: not    *)
(* for what another message of its batch did, unless all the batches it    *)
(* came in broke off (processBatch).                                       *)
NothingIsLost ==
    \A e \in Messages :
        /\ e \in queue \cup dead \cup written \cup Uneventful
        /\ e \in dead => e \in failed \/ lost[e] = MaxReceives

(* A batch writes nothing about an account that had left the organization  *)
(* when the batch began.                                                   *)
ClosedAccountsStayOut ==
    [][\A e \in written' \ written : EventTargets[e] \notin batch.before]_batchVars

(* No event of a batch is lost to another one's failure: each is handled,  *)
(* comes back or is dead-lettered for its own; and events of a closed      *)
(* account write nothing.                                                  *)
EventsAreHandled ==
    /\ [](BatchTypeOK /\ NothingIsLost)
    /\ ClosedAccountsStayOut
===============================================================================
