--------------------------- MODULE PolicyEffects ---------------------------
(***************************************************************************)
(* What the policy evaluator makes of a principal's policy documents       *)
(* (lambdas/policy-evaluator): its effective permission                    *)
(* (effect-resolver.ts, as handler calls it: identity policies only) and   *)
(* the admin roles it can hand to a compute service it can start           *)
(* (pass-role.ts).  The documents are the state: statements are attached   *)
(* and detached, and the operators are compared with IAM's own rules in    *)
(* every state.                                                            *)
(*                                                                         *)
(* Action, resource and service patterns are strings; Covers says which    *)
(* strings a pattern matches.                                              *)
(***************************************************************************)
EXTENDS Naturals, FiniteSets

CONSTANTS
  Covers,        \* pattern -> the strings it matches
  Statements,    \* the statements documents are made of
  AdminRoles,    \* the roles with admin rights: [arn, passArn, accountId, trusted]
  Self,          \* the principal: [arn, accountId]
  MaxStatements

\* "*" matches "anything"; a list of conditions that is not empty has a first one.
ASSUME EffectsParameters ==
  /\ "*" \in DOMAIN Covers /\ "anything" \in Covers["*"]
  /\ \A s \in Statements : s.conditions = <<>> \/ 1 \in DOMAIN s.conditions
  /\ MaxStatements \in Nat

VARIABLE statements

EffectsInit == statements = {}

Attach ==
  /\ Cardinality(statements) < MaxStatements
  /\ \E s \in Statements \ statements : statements' = statements \cup {s}

Detach == \E s \in statements : statements' = statements \ {s}

EffectsNext == Attach \/ Detach
EffectsSpec == EffectsInit /\ [][EffectsNext]_statements

Matched(patterns, x) == \E p \in patterns : x \in Covers[p]

-----------------------------------------------------------------------------
(* effect-resolver.ts and condition-evaluator.ts *)

\* Without a context only a Null condition is decided: the key is absent.
EvaluateCondition(c) ==
  IF c.op = "Null" THEN (IF c.values = {"true"} THEN "true" ELSE "false")
                   ELSE "conditional"

\* A statement's conditions are a sequence of at most two; the first that is
\* not true decides.
EvaluateConditionBlock(conditions) ==
  LET undecided == {i \in DOMAIN conditions : EvaluateCondition(conditions[i]) # "true"}
  IN  IF undecided = {} THEN "true"
      ELSE EvaluateCondition(conditions[CHOOSE i \in undecided : \A j \in undecided : i <= j])

\* A NotAction statement has no actions.
ActionsOf(s) == IF s.notAction THEN {} ELSE s.actions

DeniedPatterns(ss) == UNION {ActionsOf(s) : s \in {t \in ss : t.effect = "Deny"}}

Allows(ss) == {s \in ss : s.effect = "Allow"}

AllowedPatterns(ss) ==
  (UNION {ActionsOf(s) : s \in {t \in Allows(ss) : t.conditions = <<>>}}) \ DeniedPatterns(ss)

ConditionalGrants(ss) ==
  (UNION {ActionsOf(s) : s \in {t \in Allows(ss) :
           t.conditions # <<>> /\ EvaluateConditionBlock(t.conditions) # "false"}})
    \ DeniedPatterns(ss)

ResolveEffectivePermissions(ss) ==
  [allowed |-> AllowedPatterns(ss), denied |-> DeniedPatterns(ss),
   conditional |-> ConditionalGrants(ss),
   isAdmin |-> AllowedPatterns(ss) \cap {"*", "*:*", "iam:*"} # {}]

-----------------------------------------------------------------------------
(* pass-role.ts *)

PASS_ROLE == "iam:PassRole"

\* Any one action set, fully allowed, starts the service's compute.
PASS_ROLE_COMPUTE ==
  [lambda |-> {{"lambda:CreateFunction", "lambda:InvokeFunction"},
               {"lambda:CreateFunction", "lambda:CreateEventSourceMapping"},
               {"lambda:CreateFunction", "lambda:AddPermission"}},
   ec2 |-> {{"ec2:RunInstances"}},
   cloudformation |-> {{"cloudformation:CreateStack"}, {"cloudformation:UpdateStack"}},
   glue |-> {{"glue:CreateDevEndpoint"}, {"glue:CreateJob", "glue:StartJobRun"}},
   sagemaker |-> {{"sagemaker:CreateNotebookInstance"}, {"sagemaker:CreateTrainingJob"},
                  {"sagemaker:CreateProcessingJob"}},
   codebuild |-> {{"codebuild:CreateProject", "codebuild:StartBuild"}},
   ecsTasks |-> {{"ecs:RegisterTaskDefinition", "ecs:RunTask"}}]

CoversAction(s, action) == Matched(s.actions, action) <=> ~ s.notAction

\* The services an unconditional or iam:PassedToService grant is for; a grant
\* with any other condition is not counted.
Counted(s) == \A i \in DOMAIN s.conditions :
  s.conditions[i].op \in {"StringEquals", "StringLike"}
  /\ s.conditions[i].key = "iam:PassedToService"

PassedToServices(s) ==
  IF s.conditions = <<>> THEN DOMAIN PASS_ROLE_COMPUTE
  ELSE {x \in DOMAIN PASS_ROLE_COMPUTE :
          \E i \in DOMAIN s.conditions : Matched(s.conditions[i].values, x)}

AnyDeny(s) == s.effect = "Deny"

PlainDeny(s) == s.effect = "Deny" /\ s.conditions = <<>> /\ ~ s.notResource

ActionAllowed(ss, action) ==
  /\ ~ \E s \in ss : PlainDeny(s) /\ CoversAction(s, action) /\ "*" \in s.resources
  /\ \E s \in Allows(ss) : s.conditions = <<>> /\ CoversAction(s, action)

\* What the principal may pass, and the services whose compute it can create.
PassRoleCapability(ss) ==
  [grants |-> {s \in Allows(ss) : CoversAction(s, PASS_ROLE) /\ Counted(s)},
   denied |-> UNION {s.resources : s \in {t \in ss : PlainDeny(t) /\ CoversAction(t, PASS_ROLE)}},
   services |-> {x \in DOMAIN PASS_ROLE_COMPUTE :
                   \E actions \in PASS_ROLE_COMPUTE[x] :
                     \A a \in actions : ActionAllowed(ss, a)}]

\* A role is a target if a compute service can assume it.
PassableAdminRoles == {r \in AdminRoles : r.trusted \cap DOMAIN PASS_ROLE_COMPUTE # {}}

GrantAllows(grant, role, service) ==
  /\ Matched(grant.resources, role.passArn) <=> ~ grant.notResource
  /\ service \in PassedToServices(grant)

DetectPassRoleEscalations(ss) ==
  LET capability == PassRoleCapability(ss)
      Via(r) == {x \in r.trusted \cap capability.services :
                   \E g \in capability.grants : GrantAllows(g, r, x)}
  IN  {r \in PassableAdminRoles :
         /\ r.accountId = Self.accountId /\ r.arn # Self.arn
         /\ ~ Matched(capability.denied, r.passArn)
         /\ Via(r) # {}}

\* An admin has nothing to escalate to.
PassRolePaths(ss) ==
  IF ResolveEffectivePermissions(ss).isAdmin THEN {} ELSE DetectPassRoleEscalations(ss)

-----------------------------------------------------------------------------
(* IAM's rules for one request: an action on a resource, with the service a    *)
(* role is passed to; mfa says whether the other conditions are met.           *)

\* Without a role passed there is no iam:PassedToService to compare: equality fails, what
\* must differ does.
Absent(c, service, mfa) == IF c.key = "iam:PassedToService" THEN service = "none" ELSE ~ mfa
Met(c, service, mfa) ==
  CASE c.op = "Null" -> (c.values = {"true"}) = Absent(c, service, mfa)
    [] c.op # "Null" /\ c.key = "iam:PassedToService" ->
         (service # "none" /\ Matched(c.values, service))
           # (c.op \in {"StringNotEquals", "StringNotLike"})
    [] OTHER -> mfa

Applies(s, action, resource, service, mfa) ==
  /\ Matched(s.actions, action) <=> ~ s.notAction
  /\ Matched(s.resources, resource) <=> ~ s.notResource
  /\ \A i \in DOMAIN s.conditions : Met(s.conditions[i], service, mfa)

IamAllows(ss, action, resource, service, mfa) ==
  /\ \E s \in ss : s.effect = "Allow" /\ Applies(s, action, resource, service, mfa)
  /\ ~ \E s \in ss : s.effect = "Deny" /\ Applies(s, action, resource, service, mfa)

\* Whether the principal can run code as the role, in the given context.
CanBecome(ss, r, mfa) ==
  \E x \in r.trusted \cap DOMAIN PASS_ROLE_COMPUTE :
    /\ IamAllows(ss, PASS_ROLE, r.passArn, x, mfa)
    /\ \E actions \in PASS_ROLE_COMPUTE[x] :
         \A a \in actions : IamAllows(ss, a, "anything", "none", mfa)

-----------------------------------------------------------------------------
(* Properties. *)

EffectsTypeOK == statements \subseteq Statements /\ Cardinality(statements) <= MaxStatements

\* Leaving a conditional or NotResource Deny out "can only report more, never
\* hide a path" (pass-role.ts): whoever can run code as a role without meeting a
\* condition is reported, or is an administrator; but for an Allow whose conditions
\* hold without any context and that pass-role.ts does not count.
Uncounted(s) ==
  /\ s.effect = "Allow" /\ ~ Counted(s)
  /\ \E x \in DOMAIN PASS_ROLE_COMPUTE \cup {"none"} :
       \A i \in DOMAIN s.conditions : Met(s.conditions[i], x, FALSE)
NoPathIsHidden ==
  \A r \in AdminRoles :
    (CanBecome(statements, r, FALSE) /\ r.accountId = Self.accountId /\ r.arn # Self.arn)
    => \/ r \in PassRolePaths(statements)
       \/ ResolveEffectivePermissions(statements).isAdmin
       \/ \E s \in statements : Uncounted(s)

\* And without such statements nothing is reported that IAM refuses.
PathsAreReal ==
  (\A s \in statements : s.conditions = <<>> /\ ~ s.notResource /\ s.resources = {"*"}) =>
    \A r \in PassRolePaths(statements) : CanBecome(statements, r, FALSE)

\* Every permission IAM gives unconditionally to a principal none of whose
\* statements uses NotAction appears among the allowed patterns, and a pattern
\* that a Deny repeats does not.
AllowedIsWhatIamAllows ==
  (\A s \in statements : ~ s.notAction) =>
    /\ \A a \in DOMAIN Covers :
         (\A s \in statements :
            s.resources = {"*"} /\ ~ s.notResource /\ s.conditions = <<>>)
         /\ IamAllows(statements, a, "anything", "none", FALSE)
         => Matched(ResolveEffectivePermissions(statements).allowed, a)
    /\ AllowedPatterns(statements) \cap DeniedPatterns(statements) = {}

\* Leaving a conditional or NotResource Deny out hides no path: whoever can run
\* code as a role without meeting a condition is reported or is an administrator;
\* without such statements nothing is reported that IAM refuses; and what IAM
\* gives unconditionally, without NotAction, is among the allowed patterns.
PoliciesMeanWhatIamSays ==
  EffectsTypeOK /\ NoPathIsHidden /\ PathsAreReal /\ AllowedIsWhatIamAllows
=============================================================================
