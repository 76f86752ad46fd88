------------------------------ MODULE SecretReaders ------------------------------
(***************************************************************************)
(* Who can read a secret, as the API tells it: prepareStatements() keeps   *)
(* the policy statements of an account that bear on reading a secret,      *)
(* readersFor() lists a secret's readers, countReaders() counts them.      *)
(*                                                                         *)
(* A row is a principal and a statement: its policy and id, effect,        *)
(* whether it has conditions, its actions and the resources it names or    *)
(* excepts.                                                                *)
(***************************************************************************)
EXTENDS Naturals, Sequences, FiniteSets, SequencesExt, FiniteSetsExt

CONSTANTS
    AccountOrder,       \* the accounts of the inventory
    SecretIn,           \* the secret of each account
    PolicyRows,         \* the rows an account's policies may yield
    SecretsMatching,    \* the secrets each resource text matches
    Literal,            \* the resource texts without a wildcard
    Elsewhere           \* those whose service cannot be Secrets Manager

StatementKey(s) == <<s.policy, s.id>>

\* A key is of one statement: an id is of one vertex, and a missing one stands for all the
\* statement says.  A resource of another service matches no secret.
ASSUME ReadersParameters ==
    /\ IsFiniteSet(PolicyRows)
    /\ \A r, q \in PolicyRows : StatementKey(r.statement) = StatementKey(q.statement) =>
          r.statement = q.statement
    /\ \A x \in Elsewhere : SecretsMatching[x] = {}

VARIABLE policyRows     \* the graph, per account

Accounts == ToSet(AccountOrder)
Holders == {r.principal : r \in PolicyRows}
Secrets == {SecretIn[a] : a \in Accounts}

-----------------------------------------------------------------------------
(* The statements of a set of rows.                                        *)

CoversRead(s) == s.actions \in {"read", "not-other"}

\* A list of resources that can only be elsewhere matches no secret; exceptions always stay.
CouldNameSecret(s) == s.except \/ s.resources \ Elsewhere # {}

\* What is kept of a statement.
Prepared(s) ==
    [policy |-> s.policy, id |-> s.id, effect |-> s.effect, conditional |-> s.conditional,
     actions |-> s.actions, except |-> s.except,
     resources |-> IF s.except THEN s.resources ELSE s.resources \ Elsewhere]

\* prepareStatements(): the first row of a key gives the statement, every row an attachment.
StatementOf(R, k) == (CHOOSE r \in R : StatementKey(r.statement) = k).statement
PrepareStatements(R) ==
    LET keys == {StatementKey(r.statement) : r \in R}
    IN {[statement |-> Prepared(StatementOf(R, k)),
         attached |-> {r.principal : r \in {x \in R : StatementKey(x.statement) = k}}] :
           k \in {j \in keys : CoversRead(StatementOf(R, j)) /\ CouldNameSecret(StatementOf(R, j))}}

\* scopeFor(): how widely a statement reaches a secret, or "none".
ScopeFor(s, secret) ==
    LET matching == {x \in s.resources : secret \in SecretsMatching[x]}
    IN CASE s.except -> IF matching = {} THEN "not-resource" ELSE "none"
         [] ~s.except /\ matching = {} -> "none"
         [] ~s.except /\ matching # {} /\ "*" \in matching -> "all"
         [] OTHER -> IF matching \cap Literal # {} THEN "secret" ELSE "pattern"

Reaching(P, secret) == {p \in P : ScopeFor(p.statement, secret) # "none"}
Attached(P) == UNION {p.attached : p \in P}
IsBroadGrant(s, secret) == ScopeFor(s, secret) \in {"all", "not-resource"} \/ s.actions = "not-other"

\* readersFor(): granted, and not denied without a condition.
ReadersFor(P, secret) ==
    LET reach == Reaching(P, secret)
        of(x) == {p.statement : p \in {y \in reach : x \in y.attached}}
        grants(x) == {s \in of(x) : s.effect = "Allow"}
        denied(x) == \E s \in of(x) : s.effect = "Deny" /\ ~s.conditional
    IN {[principal |-> x, grants |-> grants(x)] :
           x \in {y \in Attached(reach) : grants(y) # {} /\ ~denied(y)}}

\* Mutant: one narrow grant makes a reader narrow.
BroadestByEvery(grants, secret) == \A s \in grants : IsBroadGrant(s, secret)

\* A reader is broad when one of its grants is.
Broadest(grants, secret) == \E s \in grants : IsBroadGrant(s, secret)

\* countReaders(): the same, without the readers.
CountReaders(P, secret) ==
    LET reach == Reaching(P, secret)
        allows == {p \in reach : p.statement.effect = "Allow"}
        denied == Attached({p \in reach : p.statement.effect = "Deny" /\ ~p.statement.conditional})
        left == Attached(allows) \ denied
    IN [total |-> Cardinality(left),
        broad |-> Cardinality({x \in left :
                     Broadest({p.statement : p \in {y \in allows : x \in y.attached}}, secret)})]

-----------------------------------------------------------------------------
ReadersInit == policyRows = [a \in Accounts |-> {}]

\* The collector writes an account's policies as they change.
EditPolicy(a, r) == policyRows' = [policyRows EXCEPT ![a] = IF r \in @ THEN @ \ {r} ELSE @ \cup {r}]

ReadersNext == \E a \in Accounts, r \in PolicyRows : EditPolicy(a, r)

ReadersSpec == ReadersInit /\ [][ReadersNext]_policyRows

-----------------------------------------------------------------------------
ReadersTypeOK == policyRows \in [Accounts -> SUBSET PolicyRows]

(* The list of a secret's readers is who its account's rows grant the read *)
(* and do not deny it without a condition; grouping the rows by statement  *)
(* and dropping those about other services changes nothing.                *)
Grants(r, secret) == CoversRead(r.statement) /\ ScopeFor(r.statement, secret) # "none"
Allowed(R, secret) ==
    {x \in Holders :
        /\ \E r \in R : r.principal = x /\ r.statement.effect = "Allow" /\ Grants(r, secret)
        /\ ~\E r \in R : /\ r.principal = x /\ r.statement.effect = "Deny"
                         /\ ~r.statement.conditional /\ Grants(r, secret)}
ReadersAreAllowed ==
    \A a \in Accounts, s \in Secrets :
        {x.principal : x \in ReadersFor(PrepareStatements(policyRows[a]), s)} = Allowed(policyRows[a], s)

(* The counts are those of the list (secret-readers.ts: "The same answer   *)
(* as readersFor, as counts only"), the broad ones too.                    *)
CountsAreOfTheList ==
    \A a \in Accounts, s \in Secrets :
        LET readers == ReadersFor(PrepareStatements(policyRows[a]), s)
            count == CountReaders(PrepareStatements(policyRows[a]), s)
        IN /\ count.total = Cardinality(readers)
           /\ count.broad = Cardinality({x \in readers : \E g \in x.grants : IsBroadGrant(g, s)})

(* The list of a secret's readers is who its account's rows grant the read *)
(* and do not deny it without a condition, however statements are grouped  *)
(* and whatever reaches the secret: a name, a wildcard or what a statement *)
(* leaves out; and the counts are those of the list.                       *)
ReadersAreExact == ReadersTypeOK /\ ReadersAreAllowed /\ CountsAreOfTheList
===============================================================================
