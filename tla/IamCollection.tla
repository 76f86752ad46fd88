---------------------------- MODULE IamCollection ----------------------------
(* The walk through IAM that every account's collector makes: users, then      *)
(* roles, then groups are listed, each is asked for its policies, and each     *)
(* policy once for its document; then the account's own policies and the       *)
(* AWS-managed ones in use. IAM changes between any two calls, and whoever was *)
(* listed may be gone when asked. AWS-managed policies have one ARN in every   *)
(* account, so the edge from such a policy to its document is one edge that    *)
(* all accounts write. Statements hang below their document and share its fate.*)
EXTENDS Integers, Sequences, FiniteSets

CONSTANTS Accounts,
          KindOrder,    \* the kinds of principal, in the order they are walked
          Principals,   \* records [name, account, kind]
          LocalPolicies,   \* policy -> the account that owns it
          ManagedPolicies, \* AWS-managed: one vertex for all accounts
          Initially,    \* attachments <<principal, policy>> at the start
          MaxIamChanges, MaxVersion, MaxIamRuns, \* bounds
          Nobody

VARIABLES alive, attached, version, iamChanges, \* IAM
          step, kind, iamTodo, iamPending,  \* per account: the walk
          iamFound, documents,              \* per account: what it has read
          began, iamRuns,                   \* history: IAM at the walk's start; bound
          linked, contains, complete        \* the graph; accounts whose last run was whole

iamVars == <<alive, attached, version, iamChanges>>
iamWalkVars == <<step, kind, iamTodo, iamPending, iamFound, documents, began, iamRuns>>
policyVars == <<linked, contains, complete>>
iamCollectionVars == <<iamVars, iamWalkVars, policyVars>>

Policies == DOMAIN LocalPolicies \cup ManagedPolicies
Of(a) == {p \in Principals : p.account = a}
Attachable(p) == {q \in Policies : q \in ManagedPolicies \/ LocalPolicies[q] = p.account}
Attachments == {x \in Principals \X Policies : x[2] \in Attachable(x[1])}
AttachmentsOf(a) == {x \in Attachments : x[1].account = a}
Steps == {"idle", "list", "visit", "local", "managed", "write", "reconcile"}

\* Every policy has one owner, or is AWS's; every principal's kind is walked.
ASSUME IamParameters ==
  /\ Nobody \notin Accounts /\ DOMAIN LocalPolicies \cap ManagedPolicies = {}
  /\ LocalPolicies \in [DOMAIN LocalPolicies -> Accounts]
  /\ Len(KindOrder) \in Nat \ {0}
  /\ \A p \in Principals : \E i \in 1 .. Len(KindOrder) : KindOrder[i] = p.kind
  /\ Initially \subseteq Attachments /\ MaxVersion \in Nat \ {0}

IamTypeOK ==
  /\ alive \subseteq Principals /\ attached \subseteq {x \in Attachments : x[1] \in alive}
  /\ version \in [Policies -> 1 .. MaxVersion]
  /\ step \in [Accounts -> Steps]
  /\ kind \in [Accounts -> 1 .. Len(KindOrder)]
  /\ \A a \in Accounts : /\ iamTodo[a] \subseteq Of(a)
                         /\ iamPending[a] \subseteq Policies
                         /\ iamFound[a] \subseteq AttachmentsOf(a)
  /\ documents \in [Accounts -> [Policies -> 0 .. MaxVersion]]
  /\ linked \subseteq Attachments
  /\ contains \in [Policies -> [by : Accounts \cup {Nobody}, version : 0 .. MaxVersion]]
  /\ complete \subseteq Accounts

NoDocuments == [q \in Policies |-> 0]

IamInit ==
  /\ alive = Principals /\ attached = Initially
  /\ version = [q \in Policies |-> 1] /\ iamChanges = 0
  /\ step = [a \in Accounts |-> "idle"]
  /\ kind = [a \in Accounts |-> 1]
  /\ iamTodo = [a \in Accounts |-> {}]
  /\ iamPending = [a \in Accounts |-> {}]
  /\ iamFound = [a \in Accounts |-> {}]
  /\ documents = [a \in Accounts |-> NoDocuments]
  /\ began = [a \in Accounts |-> [steady |-> {}, absent |-> {}]]
  /\ iamRuns = [a \in Accounts |-> 0]
  /\ linked = {} /\ complete = {}
  /\ contains = [q \in Policies |-> [by |-> Nobody, version |-> 0]]

-----------------------------------------------------------------------------
(* IAM.                                                                      *)

\* What stays attached, or detached, while a walk goes on.
Observe(after) ==
  began' = [a \in Accounts |-> [steady |-> began[a].steady \cap after,
                                absent |-> began[a].absent \ after]]

Changed == iamChanges < MaxIamChanges /\ iamChanges' = iamChanges + 1
WalkGoesOn == UNCHANGED <<step, kind, iamTodo, iamPending, iamFound, documents, iamRuns,
                          policyVars>>

Attach(x) ==
  /\ Changed
  /\ x[1] \in alive
  /\ attached' = IF x \in attached THEN attached \ {x} ELSE attached \cup {x}
  /\ Observe(attached')
  /\ WalkGoesOn
  /\ UNCHANGED <<alive, version>>

Delete(p) ==
  /\ Changed
  /\ p \in alive
  /\ alive' = alive \ {p}
  /\ attached' = {x \in attached : x[1] # p}
  /\ Observe(attached')
  /\ WalkGoesOn
  /\ UNCHANGED version

Publish(q) ==
  /\ Changed
  /\ version[q] < MaxVersion
  /\ version' = [version EXCEPT ![q] = @ + 1]
  /\ WalkGoesOn
  /\ UNCHANGED <<alive, attached, began>>

-----------------------------------------------------------------------------
(* The walk of account a.                                                    *)

BeginIam(a) ==
  /\ step[a] = "idle" /\ iamRuns[a] < MaxIamRuns[a]
  /\ step' = [step EXCEPT ![a] = "list"]
  /\ kind' = [kind EXCEPT ![a] = 1]
  /\ iamFound' = [iamFound EXCEPT ![a] = {}]
  /\ documents' = [documents EXCEPT ![a] = NoDocuments]
  /\ began' = [began EXCEPT ![a] = [steady |-> attached \cap AttachmentsOf(a),
                                    absent |-> AttachmentsOf(a) \ attached]]
  /\ iamRuns' = [iamRuns EXCEPT ![a] = @ + 1]
  /\ UNCHANGED <<iamTodo, iamPending, iamVars, policyVars>>

ListKind(a) ==
  /\ step[a] = "list"
  /\ iamTodo' = [iamTodo EXCEPT ![a] = {p \in Of(a) \cap alive : p.kind = KindOrder[kind[a]]}]
  /\ step' = [step EXCEPT ![a] = "visit"]
  /\ UNCHANGED <<kind, iamPending, iamFound, documents, began, iamRuns, iamVars, policyVars>>

\* Mutant: a policy counts as read once any account's walk has met it.
UncachedAnywhere(a, policies) ==
  {q \in policies : \A b \in Accounts : documents[b][q] = 0}

\* The documents this walk has not read yet.
Uncached(a, policies) == {q \in policies : documents[a][q] = 0}

PoliciesOf(p) == {q \in Policies : <<p, q>> \in attached}

\* Who was deleted since it was listed fails the stage.
Visit(a, p) ==
  /\ step[a] = "visit" /\ iamPending[a] = {} /\ p \in iamTodo[a]
  /\ iamTodo' = [iamTodo EXCEPT ![a] = @ \ {p}]
  /\ p \in alive
  /\ iamFound' = [iamFound EXCEPT ![a] = @ \cup {<<p, q>> : q \in PoliciesOf(p)}]
  /\ iamPending' = [iamPending EXCEPT ![a] = Uncached(a, PoliciesOf(p))]
  /\ UNCHANGED <<step, kind, documents, began, iamRuns, iamVars, policyVars>>

\* Nothing of a failed stage is written, and its account is not reconciled.
StageFails(a, p) ==
  /\ step[a] = "visit" /\ iamPending[a] = {} /\ p \in iamTodo[a]
  /\ p \notin alive
  /\ step' = [step EXCEPT ![a] = "idle"]
  /\ iamTodo' = [iamTodo EXCEPT ![a] = {}]
  /\ complete' = complete \ {a}
  /\ UNCHANGED <<kind, iamPending, iamFound, documents, began, iamRuns, iamVars, linked,
                 contains>>

FetchDocument(a, q) ==
  /\ q \in iamPending[a]
  /\ documents' = [documents EXCEPT ![a][q] = version[q]]
  /\ iamPending' = [iamPending EXCEPT ![a] = @ \ {q}]
  /\ UNCHANGED <<step, kind, iamTodo, iamFound, began, iamRuns, iamVars, policyVars>>

NextKind(a) ==
  /\ step[a] = "visit" /\ iamPending[a] = {} /\ iamTodo[a] = {}
  /\ IF kind[a] < Len(KindOrder)
     THEN /\ kind' = [kind EXCEPT ![a] = @ + 1]
          /\ step' = [step EXCEPT ![a] = "list"]
     ELSE step' = [step EXCEPT ![a] = "local"] /\ UNCHANGED kind
  /\ UNCHANGED <<iamTodo, iamPending, iamFound, documents, began, iamRuns, iamVars, policyVars>>

\* The account's own policies, attached or not.
ListLocal(a) ==
  /\ step[a] = "local"
  /\ iamPending' = [iamPending EXCEPT ![a] =
                   Uncached(a, {q \in DOMAIN LocalPolicies : LocalPolicies[q] = a})]
  /\ step' = [step EXCEPT ![a] = "managed"]
  /\ UNCHANGED <<kind, iamTodo, iamFound, documents, began, iamRuns, iamVars, policyVars>>

\* The AWS-managed policies attached to anyone in the account.
ListManaged(a) ==
  /\ step[a] = "managed" /\ iamPending[a] = {}
  /\ iamPending' = [iamPending EXCEPT ![a] =
                   Uncached(a, {q \in ManagedPolicies :
                                  \E p \in Of(a) : <<p, q>> \in attached})]
  /\ step' = [step EXCEPT ![a] = "write"]
  /\ UNCHANGED <<kind, iamTodo, iamFound, documents, began, iamRuns, iamVars, policyVars>>

-----------------------------------------------------------------------------
(* The graph. A policy has a vertex when an account owns it or has attached it. *)

HasVertex(q) == q \in DOMAIN LocalPolicies \/ \E x \in linked' : x[2] = q

Write(a) ==
  /\ step[a] = "write" /\ iamPending[a] = {}
  /\ linked' = linked \cup iamFound[a]
  /\ contains' = [q \in Policies |->
       IF documents[a][q] # 0 /\ HasVertex(q)
       THEN [by |-> a, version |-> documents[a][q]] ELSE contains[q]]
  /\ step' = [step EXCEPT ![a] = "reconcile"]
  /\ UNCHANGED <<kind, iamTodo, iamPending, iamFound, documents, began, iamRuns, iamVars,
                 complete>>

\* An edge this account wrote last, and did not write in this run.
Dropped(a, q) == contains[q].by = a /\ documents[a][q] = 0

ReconcileIam(a) ==
  /\ step[a] = "reconcile"
  /\ linked' = {x \in linked : x[1].account = a => x \in iamFound[a]}
  /\ contains' = [q \in Policies |->
       IF Dropped(a, q) THEN [by |-> Nobody, version |-> 0] ELSE contains[q]]
  /\ complete' = complete \cup {a}
  /\ step' = [step EXCEPT ![a] = "idle"]
  /\ UNCHANGED <<kind, iamTodo, iamPending, iamFound, documents, began, iamRuns, iamVars>>

Walk(a) ==
  \/ BeginIam(a) \/ ListKind(a) \/ NextKind(a) \/ ListLocal(a) \/ ListManaged(a)
  \/ \E p \in Of(a) : Visit(a, p) \/ StageFails(a, p)
  \/ \E q \in Policies : FetchDocument(a, q)
  \/ Write(a) \/ ReconcileIam(a)

Iam ==
  \/ \E x \in Attachments : Attach(x)
  \/ \E p \in Principals : Delete(p)
  \/ \E q \in Policies : Publish(q)

IamNext == Iam \/ \E a \in Accounts : Walk(a)

IamSpec == IamInit /\ [][IamNext]_iamCollectionVars

-----------------------------------------------------------------------------
(* Properties.                                                               *)

\* A walk that comes to its end has the document of every policy it found
\* attached: no attachment is written whose permissions nobody read.
AttachmentsHaveDocuments ==
  \A a \in Accounts :
    step[a] = "write" /\ iamPending[a] = {} =>
      \A x \in iamFound[a] : documents[a][x[2]] # 0

\* What was attached all through the walk is found, and what never was is not,
\* though the principals are asked one after the other.
SteadyAttachmentsExact ==
  \A a \in Accounts :
    step[a] = "reconcile" =>
      /\ began[a].steady \subseteq iamFound[a]
      /\ iamFound[a] \cap began[a].absent = {}

\* In the graph an attachment of a completely collected account leads to the
\* policy's document, here for the account's own policies.
Readable(x) == contains[x[2]].by # Nobody
OwnDocumentsKept ==
  \A a \in complete : \A x \in linked :
    x[1].account = a /\ x[2] \in DOMAIN LocalPolicies => Readable(x)

\* Whatever runs of two accounts do to the policies they share, an attached
\* policy has its document, an account's own documents stay, and after a complete
\* run the attachments that stood throughout are exact.
PoliciesAreMirrored ==
  IamTypeOK /\ AttachmentsHaveDocuments /\ SteadyAttachmentsExact /\ OwnDocumentsKept
=============================================================================
