--------------------------- MODULE MutationDelivery ---------------------------
(* What the graph writer promises to the callers of its client: a mutation is *)
(* applied at any time after it was sent, perhaps after its sender gave up,   *)
(* and a sender is told that it was persisted only when it has been applied.  *)
(* What a sender was told never changes.                                      *)
CONSTANT Requests
VARIABLES sent,         \* the requests handed to the client
          persisted,    \* those the graph has taken
          told          \* what each caller heard

deliveryVars == <<sent, persisted, told>>

Init ==
  /\ sent = {}
  /\ persisted = {}
  /\ told = [r \in Requests |-> "nothing"]

Send(r) ==
  /\ r \notin sent
  /\ sent' = sent \cup {r}
  /\ UNCHANGED <<persisted, told>>

Persist(r) ==
  /\ r \in sent
  /\ persisted' = persisted \cup {r}
  /\ UNCHANGED <<sent, told>>

Tell(r, answer) ==
  /\ r \in sent
  /\ told[r] = "nothing"
  /\ answer = "ok" => r \in persisted
  /\ told' = [told EXCEPT ![r] = answer]
  /\ UNCHANGED <<sent, persisted>>

Next ==
  \E r \in Requests :
    \/ Send(r)
    \/ Persist(r)
    \/ \E answer \in {"ok", "failed"} : Tell(r, answer)

Spec == Init /\ [][Next]_deliveryVars
=============================================================================
