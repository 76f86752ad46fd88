----------------------------- MODULE MCAlgorithms -----------------------------
(* What the pure parts of the code compute: searches, policy evaluation, scores, *)
(* exposure, controls, counts and forecasts, over small inputs.  In a behaviour  *)
(* one component acts, the one `acting` names: the others do not move, so the    *)
(* states add up instead of multiplying.                                         *)
EXTENDS EscalationWalk, PolicyEffects, SecretReaders, NetworkCollection, FiniteSets, TLC

(* The walk on what an evaluation reads: the graph's trusts, page by page, in    *)
(* whatever order the graph returns them, searched for one role                  *)
(* (lambdas/policy-evaluator/index.ts, fetchTrustEdges).                         *)
CONSTANTS
  Trusts,     \* the TRUSTS edges the graph may hold
  Target,     \* the role searched for
  MaxTrusts,  \* bound on the TRUSTS edges the graph holds
  None

VARIABLES
  trusts,     \* the list fetched so far
  found       \* the walk's result, None before it

Init == trusts = <<>> /\ found = None

Fetch(t) ==
  /\ found = None
  /\ Len(trusts) < MaxTrusts
  /\ \A i \in 1 .. Len(trusts) : trusts[i] # t
  /\ trusts' = Append(trusts, t)
  /\ UNCHANGED found

Detect ==
  /\ found = None
  /\ found' = Search(trusts, Target)
  /\ UNCHANGED trusts

Next == Detect \/ \E t \in Trusts : Fetch(t)

\* Each principal is reported with the length of a chain of assumptions that
\* exists and is within the limit (escalation-detector.ts:82-108).
Sound ==
  found # None =>
    \A p \in Principal :
      found[p] # 0 => found[p] <= MaxHops /\ p \in ChainSources(trusts, Target, found[p])

\* Whatever the order of the trusts, nobody one or two assumptions away is
\* missed: a principal met too deep to be expanded is still expanded when it is
\* met again nearer (escalation-detector.ts:91-93).
NearFound ==
  found # None =>
    WithinHops(trusts, Target, IF MaxHops = 1 THEN 1 ELSE 2)
      \subseteq {p \in Principal : found[p] # 0}

Occurring == {trusts[i].from : i \in DOMAIN trusts} \cup {trusts[i].to : i \in DOMAIN trusts}

\* Where no more principals have trusts than one chain of the limit's length
\* has, nothing is missed, whatever the order (escalation-detector.ts:82-108).
FewMissNothing ==
  found # None /\ Cardinality(Occurring) <= MaxHops + 1 =>
    WithinHops(trusts, Target, MaxHops) \subseteq {p \in Principal : found[p] # 0}

searchVars == <<trusts, found>>

-----------------------------------------------------------------------------

CONSTANTS p0, p1, p2, p3, p4   \* the principals of the search
Symmetry == Permutations({p1, p2, p3, p4})

(* Trusts between distinct principals; none starts at the target, where a chain *)
(* would only return to its end.                                                *)
SearchTrusts == {t \in Trust : t.from # t.to /\ t.from # Target}

(* What the patterns of statements match: actions, services and roles.          *)
LambdaActions == {"lambda:CreateFunction", "lambda:InvokeFunction",
                  "lambda:CreateEventSourceMapping", "lambda:AddPermission"}
OtherActions ==
  {"ec2:RunInstances", "cloudformation:CreateStack", "cloudformation:UpdateStack",
   "glue:CreateDevEndpoint", "glue:CreateJob", "glue:StartJobRun",
   "sagemaker:CreateNotebookInstance", "sagemaker:CreateTrainingJob",
   "sagemaker:CreateProcessingJob", "codebuild:CreateProject", "codebuild:StartBuild",
   "ecs:RegisterTaskDefinition", "ecs:RunTask"}
Services == {"lambda", "ec2", "cloudformation", "glue", "sagemaker", "codebuild", "ecsTasks"}
Patterns == {"*", "iam:*", "iam:PassRole", "lambda:*", "role/app", "role/*", "other",
             "anything", "none"}
              \cup LambdaActions \cup OtherActions \cup Services
PatternCovers == [p \in Patterns |->
  CASE p = "*" -> Patterns
    [] p = "iam:*" -> {"iam:*", "iam:PassRole"}
    [] p = "lambda:*" -> {"lambda:*"} \cup LambdaActions
    [] p = "role/*" -> {"role/*", "role/app"}
    [] OTHER -> {p}]

(* Statements about passing roles and starting compute, and the roles.          *)
Statement(effect, actions, notAction, resource, notResource, conditions) ==
  [effect |-> effect, actions |-> actions, notAction |-> notAction, resources |-> {resource},
   notResource |-> notResource, conditions |-> conditions]
Condition(op, key, value) == <<[op |-> op, key |-> key, values |-> {value}]>>
IfMfa == Condition("Bool", "mfa", "true")
ToLambda == Condition("StringEquals", "iam:PassedToService", "lambda")
Effect == {"Allow", "Deny"}
EffectStatements ==
  {Statement(e, as, FALSE, "*", FALSE, cs) : e \in Effect, cs \in {<<>>, IfMfa},
     as \in {{"*"}, {"iam:*"}, {"lambda:*"}, {"ec2:RunInstances"},
             {"lambda:CreateFunction", "lambda:InvokeFunction", "iam:PassRole"}}}
  \cup {Statement(e, {"iam:PassRole"}, FALSE, r, not, cs) :
          e \in Effect, r \in {"*", "role/app", "role/*", "other"}, not \in BOOLEAN,
          cs \in {<<>>, ToLambda}}
  \cup {Statement(e, as, TRUE, "*", FALSE, <<>>) : e \in Effect, as \in {{"iam:*"}, {"lambda:*"}}}
  \cup {Statement("Allow", {"iam:PassRole"}, FALSE, "*", FALSE, c) :
          c \in {Condition("Null", "mfa", "true"), Condition("Null", "mfa", "false"),
                 Condition("StringNotEquals", "iam:PassedToService", "lambda")}}
PassedRole(arn, pass, account, trusted) ==
  [arn |-> arn, passArn |-> pass, accountId |-> account, trusted |-> trusted]
PassedRoles == {PassedRole("app", "role/app", "a", {"lambda"}),
                PassedRole("me", "role/app", "a", {"ec2", "lambda"}),
                PassedRole("far", "other", "b", {"lambda"}),
                PassedRole("own", "other", "a", {"ec2"})}

(* Hops that differ from a plain vertex in one of the things scoring looks at.  *)
PlainHop == [env |-> "", class |-> "", exposed |-> FALSE, crown |-> FALSE, admin |-> FALSE,
             cross |-> FALSE, cvss |-> -1, exploit |-> FALSE, restricted |-> FALSE,
             observed |-> FALSE]
RiskHops ==
  {PlainHop, [PlainHop EXCEPT !.env = "prod"], [PlainHop EXCEPT !.env = "staging"],
   [PlainHop EXCEPT !.class = "secret", !.crown = TRUE], [PlainHop EXCEPT !.class = "restricted"],
   [PlainHop EXCEPT !.admin = TRUE], [PlainHop EXCEPT !.cross = TRUE],
   [PlainHop EXCEPT !.cvss = 2], [PlainHop EXCEPT !.cvss = 9, !.exploit = TRUE],
   [PlainHop EXCEPT !.exploit = TRUE], [PlainHop EXCEPT !.exposed = TRUE, !.observed = TRUE],
   [PlainHop EXCEPT !.restricted = TRUE]}

PortRanges ==
  {<<"tcp", 20, 25>>, <<"-1", 0, 0>>, <<"tcp", 0, 21>>, <<"tcp", 0, 0>>, <<"udp", 22, 22>>}
AclEntry(action, proto, from, to, cidr) ==
  [action |-> action, proto |-> proto, from |-> from, to |-> to, cidr |-> cidr]
AclEntries == {AclEntry("allow", "-1", 0, 0, "0.0.0.0/0"), AclEntry("deny", "6", 22, 22, "0.0.0.0/0"),
               AclEntry("allow", "6", 20, 3389, "::/0"), AclEntry("deny", "47", 0, 0, "::/0")}

(* Statements on secrets, conditional, by name, by what they leave out.         *)
Grant(p, policy, id, effect, conditional, actions, resources, except) ==
  [principal |-> p,
   statement |-> [policy |-> policy, id |-> id, effect |-> effect, conditional |-> conditional,
                  actions |-> actions, resources |-> resources, except |-> except]]
GrantRows ==
  {Grant("u", "p1", "1", "Allow", FALSE, "read", {"arn1", "*"}, FALSE),
   Grant("r", "p1", "1", "Allow", FALSE, "read", {"arn1", "*"}, FALSE),
   Grant("u", "p2", "1", "Deny", FALSE, "not-other", {"arn:s3"}, TRUE),
   Grant("u", "p2", "2", "Allow", TRUE, "read", {"arn1", "arn2"}, FALSE),
   Grant("r", "p3", "1", "Deny", TRUE, "read", {"*"}, FALSE),
   Grant("r", "p3", "2", "Allow", FALSE, "other", {"*"}, FALSE),
   Grant("r", "p3", "3", "Allow", FALSE, "not-other", {"arn:s3", "arn2"}, FALSE)}
NamedSecrets == "*" :> {"s1", "s2"} @@ "arn1" :> {"s1"} @@ "arn2" :> {"s2"} @@ "arn:s3" :> {}

(* Of every control of the catalogue that has an evaluator: the fragments of the *)
(* graph on which its outcome can turn: at, below and above each threshold, with *)
(* each property said and unsaid, with what accounts share.                      *)
(* Vertices, and what the stages of one account and Region leave in the graph.  *)
Vertex(n, l, p, shared) == [name |-> n, label |-> l, shared |-> shared, props |-> p]
Node(n, l, p)   == Vertex(n, l, p, FALSE)
Shared(n, l, p) == Vertex(n, l, p, TRUE)
Frag(stages, nodes, links) == [stages |-> stages, nodes |-> nodes, links |-> links]
Empty(stage) == Frag({stage}, {}, {})

(* A property said to be any of some values, or not said at all.                *)
Unsaid == <<>>
Maybe(p, values) == {Unsaid} \cup {p :> x : x \in values}
Flag(p) == Maybe(p, BOOLEAN)
With(P, Q) == {p @@ q : p \in P, q \in Q}

(* At most one vertex.                                                          *)
One(stage, l, fixed, P) ==
  {Empty(stage)} \cup {Frag({stage}, {Node("x", l, fixed @@ p)}, {}) : p \in P}
S3(p) == One("s3", "S3Bucket", "name" :> "b", Flag(p))
KmsKey == ("key_manager" :> "CUSTOMER") @@ ("key_state" :> "Enabled")
            @@ ("key_spec" :> "SYMMETRIC_DEFAULT") @@ ("origin" :> "AWS_KMS")

(* Root, users and whoever holds an AWS-managed policy.                         *)
Root(l, p) == Node("root", l, ("is_root" :> TRUE) @@ p)
Key == Node("key", "AccessKey", "status" :> "Active")
User(p) == Node("user", "IamUser", p)
Policy(arn) == Shared(arn, "IamPolicy", ("policy_type" :> "aws-managed") @@ ("arn" :> arn))
HeldBy(arn) ==
  {Empty("iam"), Frag({"iam"}, {User(Unsaid), Policy(arn)}, {}),
   Frag({"iam"}, {User(Unsaid), Policy(arn)}, {<<"user", "ATTACHED_TO", arn>>})}

(* A trail of the account, or of the organization and seen by every account.    *)
TrailOf(name, shared, p) ==
  LET props == ("is_organization_trail" :> shared) @@ ("is_multi_region_trail" :> TRUE) @@ p
  IN  Frag({"cloudtrail"},
           {Vertex(name, "CloudTrail", props, shared),
            Vertex("status", "TrailStatus", "is_logging" :> TRUE, shared)},
           {<<name, "HAS_STATUS", "status">>})
TrailsWith(P) ==
  {Empty("cloudtrail")} \cup {TrailOf("trail", FALSE, p) : p \in P}
    \cup {TrailOf("org", TRUE, p) : p \in P}

(* A trail or a channel that delivers to a bucket.                              *)
Delivered(stage, l, P) ==
  {Empty(stage)} \cup
  {Frag({stage, "s3"},
        {Node("x", l, "s3_bucket_name" :> "logs"), Shared("logs", "S3Bucket", ("name" :> "logs") @@ p)},
        {}) : p \in P}

(* A rule that lets a range of ports in from somewhere.                         *)
PortRange(lo, hi) == ("port_from" :> lo) @@ ("port_to" :> hi)
Ports ==
  {<<"0.0.0.0/0", "tcp", PortRange(20, 25)>>, <<"::/0", "-1", PortRange(0, 0)>>,
   <<"0.0.0.0/0", "udp", PortRange(3389, 3389)>>, <<"0.0.0.0/0", "tcp", PortRange(0, 21)>>,
   <<"10.0.0.0/8", "tcp", PortRange(22, 22)>>, <<"::/0", "tcp", PortRange(3306, 5432)>>}
RuleOf(l, parent, cidr, proto, r) ==
  {Node("rule", l, ("direction" :> "ingress") @@ ("rule_action" :> "allow")
                     @@ ("cidr_block" :> cidr) @@ ("protocol" :> proto) @@ r),
   Node("parent", parent, Unsaid), Node("net", "Subnet", Unsaid)}
Rules(stage, l, parent, P) ==
  {Frag({stage}, {Node("parent", parent, Unsaid)}, {})} \cup
  {Frag({stage}, RuleOf(l, parent, x[1], x[2], x[3]),
        {<<"rule", "PART_OF", "parent">>, <<"parent", "ASSOCIATED_WITH", "net">>}) : x \in P}

(* For each control: what a stage may find that the control looks at.           *)
Samples ==
  ("1.4" :>
    {Frag({"iam-access-keys"}, {Root("AwsAccount", Unsaid)}, {}), Frag({"iam-access-keys"},
      {Root("IamUser", Unsaid), Key}, {<<"root", "HAS_ACCESS_KEY", "key">>})}) @@
  ("1.5" :>
    One("iam-access-keys", "AwsAccount", "is_root" :> TRUE, With(Flag("mfa_enabled"),
      Maybe("root_credentials_present", {FALSE})))) @@
  ("1.10" :>
    One("iam-credential-report", "IamUser", "password_enabled" :> TRUE, Flag("mfa_enabled"))) @@
  ("1.14" :>
    {Frag({"iam-access-keys"}, {User(Unsaid), Node("key", "AccessKey", ("status" :> st)
      @@ ("key_age_days" :> d))}, {<<"user", "HAS_ACCESS_KEY", "key">>}) : st \in {"Active",
      "Inactive"}, d \in {90, 91}}) @@
  ("1.12" :>
    One("iam-credential-report", "IamUser", "password_enabled" :> TRUE,
      With(Maybe("password_last_used", {45, 46}), Maybe("create_date", {46})))
    \cup One("iam-credential-report", "AccessKey", "status" :> "Active",
      Maybe("last_used_days_ago", {44, 45}))) @@
  ("1.15" :> HeldBy("ReadOnlyAccess")) @@
  ("1.17" :> HeldBy("AWSSupportAccess")) @@
  ("1.22" :> HeldBy("AWSCloudShellFullAccess")) @@
  ("1.8" :> One("iam", "AccountPasswordPolicy", Unsaid, Maybe("min_password_length", {13, 14}))) @@
  ("1.9" :>
    One("iam", "AccountPasswordPolicy", Unsaid, Maybe("password_reuse_prevention", {23, 24}))) @@
  ("KH-1.15" :> One("iam", "AccountPasswordPolicy", Unsaid, Maybe("max_password_age", {90, 91}))) @@
  ("1.20" :>
    One("access-analyzer", "AccessAnalyzer", Unsaid, Maybe("status", {"ACTIVE", "MISSING"}))) @@
  ("2.1.4" :>
    One("s3", "S3Bucket",
      ("name" :> "b") @@ ("block_public_acls" :> TRUE) @@ ("ignore_public_acls" :> TRUE),
      With(Flag("block_public_policy"), Flag("restrict_public_buckets")))) @@
  ("KH-2.2" :> S3("versioning_enabled")) @@
  ("KH-2.3" :> S3("default_encryption")) @@
  ("KH-2.4" :> S3("logging_enabled")) @@
  ("2.1.2" :>
    One("s3", "S3Bucket", "name" :> "b", With(Flag("versioning_enabled"),
      Flag("mfa_delete_enabled")))) @@
  ("2.3.1" :> One("rds", "RdsInstance", Unsaid, Flag("storage_encrypted"))) @@
  ("2.3.2" :> One("rds", "RdsInstance", Unsaid, Flag("auto_minor_version_upgrade"))) @@
  ("2.3.3" :> One("rds", "RdsInstance", Unsaid, Flag("publicly_accessible"))) @@
  ("KH-2.8" :> One("rds", "RdsInstance", Unsaid, Maybe("backup_retention_period", {6, 7}))) @@
  ("KH-2.10" :> One("rds", "RdsInstance", Unsaid, Flag("deletion_protection"))) @@
  ("KH-2.11" :>
    One("redshift", "RedshiftCluster", Unsaid, With(Flag("encrypted"), Maybe("status",
      {"creating"})))) @@
  ("KH-2.12" :>
    One("redshift", "RedshiftCluster", Unsaid, With(Flag("publicly_accessible"),
      Maybe("status", {"deleting"})))) @@
  ("KH-2.13" :>
    One("elasticache", "ElastiCacheCluster", "engine" :> "redis",
      With(Flag("transit_encryption"), Flag("at_rest_encryption")))
    \cup One("elasticache", "ElastiCacheCluster", "engine" :> "memcached", {Unsaid})) @@
  ("KH-2.14" :> One("opensearch", "OpenSearchDomain", Unsaid, Flag("encryption_at_rest"))) @@
  ("KH-2.15" :> One("opensearch", "OpenSearchDomain", Unsaid, Flag("enforce_https"))) @@
  ("KH-2.16" :> One("opensearch", "OpenSearchDomain", Unsaid, Flag("node_to_node_encryption"))) @@
  ("3.1" :> TrailsWith(Flag("logs_all_management_events"))) @@
  ("3.2" :> TrailsWith(Flag("log_file_validation_enabled"))) @@
  ("3.5" :> TrailsWith(Maybe("kms_key_id", {"", "key"}))) @@
  ("3.8" :> TrailsWith(Flag("logs_all_s3_object_writes"))) @@
  ("3.9" :> TrailsWith(Flag("logs_all_s3_object_reads"))) @@
  ("KH-3.4" :> TrailsWith(Maybe("cloudwatch_logs_log_group_arn", {"", "group"}))) @@
  ("3.4" :> Delivered("cloudtrail", "CloudTrail", Flag("logging_enabled"))) @@
  ("KH-3.5" :> Delivered("cloudtrail", "CloudTrail", Flag("is_publicly_accessible"))) @@
  ("KH-3.11" :> Delivered("config", "ConfigDeliveryChannel", Flag("default_encryption"))) @@
  ("3.3" :>
    One("config", "ConfigRecorder",
      ("role_arn" :> "AWSServiceRoleForConfig") @@ ("recording_all_supported" :> TRUE),
      Flag("recording"))) @@
  ("KH-3.10" :> One("config", "ConfigRecorder", Unsaid, Flag("recording_all_supported"))) @@
  ("3.6" :>
    One("kms", "KmsKey", KmsKey, Flag("rotation_enabled"))
    \cup One("kms", "KmsKey", "collection_restricted" :> TRUE, {Unsaid})
    \cup One("kms", "KmsKey", KmsKey @@ ("custom_key_store_id" :> "hsm"), {Unsaid})) @@
  ("3.7" :> One("network", "Vpc", Unsaid, Flag("flow_logs_capture_rejects"))) @@
  ("KH-4.1" :>
    One("guardduty", "GuardDutyDetector", Unsaid, Maybe("status", {"ENABLED", "MISSING"}))) @@
  ("4.16" :> One("securityhub", "SecurityHub", Unsaid, Flag("enabled"))) @@
  ("5.1" :> Rules("network", "NetworkAclEntry", "NetworkAcl", Ports)) @@
  ("KH-5.1" :> Rules("network", "NetworkAclEntry", "NetworkAcl", Ports)) @@
  ("5.2" :> Rules("security-groups", "SecurityGroupRule", "SecurityGroup", Ports)) @@
  ("5.3" :> Rules("security-groups", "SecurityGroupRule", "SecurityGroup", Ports)) @@
  ("KH-5.6" :> Rules("security-groups", "SecurityGroupRule", "SecurityGroup", Ports)) @@
  ("5.4" :>
    One("security-groups", "SecurityGroup", "is_default" :> TRUE,
      With(Maybe("egress_rule_count", {0, 1}), Maybe("ingress_rule_count", {0, 1})))) @@
  ("5.6" :>
    One("ec2-instances", "Ec2Instance", "metadata_http_tokens" :> "optional", Maybe("state",
      {"running", "terminated"}))) @@
  ("KH-5.7" :>
    {Frag({"network"}, {Node("vpc", "Vpc", Unsaid), Node("end", "VpcEndpoint", Unsaid)},
      L) : L \in {{}, {<<"vpc", "HAS_ENDPOINT", "end">>}}}) @@
  ("KH-EKS-1" :>
    One("eks", "EksCluster", "endpoint_public_access" :> TRUE, Flag("endpoint_world_open"))) @@
  ("KH-SEC-1" :> One("iam", "IamPolicyStatement", ("effect" :> "Allow") @@
  ("grants_secret_read" :> TRUE), Maybe("secret_grant_scope", {"wildcard", "named"}))) @@
  ("KH-SEC-2" :> One("s3", "DataClassificationFinding", Unsaid, Maybe("secret_count", {0, 1}))) @@
  ("KH-PATH-1" :>
    {Frag({"network"}, {Shared("net", "Internet", Unsaid), Node("a", "Ec2Instance", Unsaid),
      Node("b", "IamRole", Unsaid), Node("c", "S3Bucket", ("name" :> "c") @@
  ("crown_jewel" :>
    TRUE))}, L) : L \in {{}, {<<"net", "TO", "a">>, <<"a", "TO", "b">>, <<"b", "TO", "c">>},
      {<<"a", "TO", "b">>, <<"b", "TO", "c">>}}})

VARIABLE acting

(* Up to three statements of one principal's policies; four roles it may want to pass. *)
OnePrincipal == [arn |-> "me", accountId |-> "a"]
effectsVars == <<statements>>

(* Paths of up to three hops.                                                *)
VARIABLES path
Risk == INSTANCE PathRisk WITH
  Hops <- RiskHops, Epss <- {10, 97}, MaxLength <- 3
riskVars == <<path>>

(* Every control on what two of three accounts and Regions may hold.         *)
VARIABLES control, graph, collections
Controls == INSTANCE ComplianceControls WITH
  Sites <- {<<"a", "ra">>, <<"a", "rb">>, <<"b", "ra">>}, Fragments <- Samples,
  MaxCollections <- 2
controlsVars == <<control, graph, collections>>

(* Seven statements of two principals in two accounts.                       *)
TwoAccounts == <<"a", "b">>
SecretOf == "a" :> "s1" @@ "b" :> "s2"
secretsVars == <<policyRows>>

(* Series of fifteen days with two turns; and an issue of each severity, hour *)
(* by hour over half a year.                                                 *)
VARIABLES series, day, turns, severity, hours
Posture == INSTANCE PostureForecast WITH
  Values <- 0 .. 4, MaxDays <- 15, MaxTurns <- 2, MaxHours <- 4500
forecastVars == <<series, day, turns>>
sloVars == <<severity, hours>>

AllInit ==
  /\ acting \in {"search", "effects", "risk", "network", "controls", "secrets", "forecast",
                "slo"}
  /\ Init
  /\ EffectsInit
  /\ Risk!Init
  /\ NetworkInit /\ aclOf["s"] = "a1"
  /\ Controls!Init /\ (acting = "controls" \/ control = "1.4")
  /\ ReadersInit
  /\ Posture!Init
  /\ acting = "forecast" \/ series[1].value = 0
  /\ acting = "slo" \/ severity = "critical"

SearchActs ==
  /\ acting = "search" /\ Next
  /\ UNCHANGED <<acting, effectsVars, riskVars, networkVars, controlsVars, secretsVars,
                  forecastVars, sloVars>>
EffectsActs ==
  /\ acting = "effects" /\ EffectsNext
  /\ UNCHANGED <<acting, searchVars, riskVars, networkVars, controlsVars, secretsVars,
                  forecastVars, sloVars>>
RiskActs ==
  /\ acting = "risk" /\ Risk!Next
  /\ UNCHANGED <<acting, searchVars, effectsVars, networkVars, controlsVars, secretsVars,
                  forecastVars, sloVars>>
NetworkActs ==
  /\ acting = "network" /\ NetworkNext
  /\ UNCHANGED <<acting, searchVars, effectsVars, riskVars, controlsVars, secretsVars,
                  forecastVars, sloVars>>
ControlsActs ==
  /\ acting = "controls" /\ Controls!Next
  /\ UNCHANGED <<acting, searchVars, effectsVars, riskVars, networkVars, secretsVars,
                  forecastVars, sloVars>>
SecretsActs ==
  /\ acting = "secrets" /\ ReadersNext
  /\ UNCHANGED <<acting, searchVars, effectsVars, riskVars, networkVars, controlsVars,
                  forecastVars, sloVars>>
ForecastActs ==
  /\ acting = "forecast" /\ Posture!NextDay
  /\ UNCHANGED <<acting, searchVars, effectsVars, riskVars, networkVars, controlsVars,
                  secretsVars, sloVars>>
SloActs ==
  /\ acting = "slo" /\ Posture!NextHour
  /\ UNCHANGED <<acting, searchVars, effectsVars, riskVars, networkVars, controlsVars,
                  secretsVars, forecastVars>>

AllNext == SearchActs \/ EffectsActs \/ RiskActs \/ NetworkActs \/ ControlsActs \/
  SecretsActs \/ ForecastActs \/ SloActs
allVars == <<acting, searchVars, effectsVars, riskVars, networkVars, controlsVars,
             secretsVars, forecastVars, sloVars>>
AllSpec == AllInit /\ [][AllNext]_allVars

\* Each principal is reported with the length of a chain of assumptions that
\* exists and is within the limit; nobody one or two assumptions away is missed,
\* whatever the order of the trusts; and where no more principals have trusts
\* than one chain has, nothing is missed.
WalkIsExact == acting = "search" => Sound /\ NearFound /\ FewMissNothing

\* The same hops met in the opposite order make the same judgement, the data
\* classification apart; and a match of the customer's intelligence lowers
\* neither score nor likelihood.
ScoresAreRobust == acting = "risk" =>
    Risk!TypeOK /\ Risk!HopOrderDoesNotMatter /\ Risk!MatchesNeverReassure

\* An account or Region fails among the others exactly if it fails alone, and
\* where one fails the control never passes, whoever last wrote what they share;
\* and a property a stage could not read never turns into compliance.
ControlsAreHonest == acting = "controls" =>
    Controls!ControlsTypeOK /\ Controls!NoAccountSpeaksForAnother
    /\ Controls!UnreadIsNotCompliant

\* The forecast's line is the one of least squares, a series on a line is
\* projected along it, and a forecast called confident rests on two weeks with
\* few days missing; and a finding looked at once a day is seen burning before it
\* is breached.
PostureIsForetold == acting \in {"forecast", "slo"} =>
    Posture!TypeOK /\ Posture!NoBetterLine /\ Posture!LinesGoOn
    /\ Posture!ConfidentForecastsAreWhole /\ Posture!BreachIsAnnounced
===============================================================================
