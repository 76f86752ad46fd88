-------------------------- MODULE ComplianceControls -------------------------
(* The evaluators of the compliance controls (risk-engine compliance-rules):   *)
(* each is a function of the graph. A CIS control is judged per account, or    *)
(* per account and Region, among those whose collection stage succeeded        *)
(* lately; most Khalifa controls count violating vertices of the whole graph.  *)
(* The graph changes as sites (an account in a Region) are collected again,    *)
(* fail to be, or are left to age; a property AWS did not tell is not there.   *)
(* A graph is a record of its vertices [id, label, account, region, props],    *)
(* its edges <<from, label, to>> and its coverage [service, site, recent].     *)
EXTENDS Integers, Sequences, FiniteSets

CONSTANTS Sites,      \* <<account, region>> pairs
          Fragments,  \* control -> what a site may hold for it, see Place
          MaxCollections  \* bound

VARIABLES control, graph, collections
controlVars == <<control, graph, collections>>

\* --- Reading the graph ----------------------------------------------------
Labelled(g, L) == {v \in g.vertices : v.label \in L}
Has(v, p, x)   == p \in DOMAIN v.props /\ v.props[p] = x
Lacks(v, p)    == p \notin DOMAIN v.props
AtLeast(v, p, n) == p \in DOMAIN v.props /\ v.props[p] >= n
Below(v, p, n)   == p \in DOMAIN v.props /\ v.props[p] < n
Off(v, p) == Has(v, p, FALSE) \/ Lacks(v, p)
OnOrUnsaid(v, p) == Has(v, p, TRUE) \/ Lacks(v, p)
Out(g, v, l) == {w \in g.vertices : <<v.id, l, w.id>> \in g.edges}
OutOf(g, S, l) == UNION {Out(g, v, l) : v \in S}
Accounts(S) == {<<v.account>> : v \in S}  \* an account alone, a pair with its Region
Pairs(S)    == {<<v.account, v.region>> : v \in S}

\* Sites whose stage SUCCEEDED within COLLECTION_MAX_AGE_MS.
FreshCoverage(g, stage) == {c.site : c \in {d \in g.coverage : d.service = stage /\ d.recent}}
AccountsWithCompleteStage(g, stage) == {<<s[1]>> : s \in FreshCoverage(g, stage)}

\* --- Verdicts ----------------------------------------------------------------
NotEvaluated == [status |-> "NOT_EVALUATED", assessed |-> {}, failing |-> {}]
Verdict(assessed, failing) ==
  [status |-> IF failing = {} THEN "PASS" ELSE "FAIL", assessed |-> assessed, failing |-> failing]
Counted(violating) == [NotEvaluated EXCEPT !.status = IF violating = {} THEN "PASS" ELSE "FAIL"]

\* Before: one account that complies passed the organization.
AnyAccountWillDo(assessed, compliant) ==
  IF assessed = {} THEN NotEvaluated
  ELSE Verdict(assessed, IF assessed \cap compliant # {} THEN {} ELSE assessed)
PerAccountResult(assessed, compliant) ==
  IF assessed = {} THEN NotEvaluated ELSE Verdict(assessed, assessed \ compliant)
PerAccountRegionResult(assessed, compliant) ==
  IF assessed = {} THEN NotEvaluated ELSE Verdict(assessed, assessed \ compliant)

PerAccountCompliant(g, stage, complying) ==
  PerAccountResult(AccountsWithCompleteStage(g, stage), Accounts(complying))
PerAccountViolations(g, stage, violating) ==
  LET assessed == AccountsWithCompleteStage(g, stage)
  IN PerAccountResult(assessed, assessed \ Accounts(violating))

PerRegionCompliant(g, stage, complying) ==
  PerAccountRegionResult(FreshCoverage(g, stage), Pairs(complying))
\* A site that holds something unreadable is not assessed, unless it violates anyway.
PerAccountRegionViolations(g, stage, violating, unreadable) ==
  LET failing  == Pairs(violating)
      assessed == {s \in FreshCoverage(g, stage) : s \in failing \/ s \notin Pairs(unreadable)}
  IN PerAccountRegionResult(assessed, assessed \ failing)

\* An organization trail is one vertex, its account whichever wrote it last.
OrgTrails(S) == {t \in S : Has(t, "is_organization_trail", TRUE)}
TrailAccounts(assessed, trails) ==
  IF OrgTrails(trails) # {} THEN assessed ELSE Accounts(trails)
AccountsCoveredByTrail(g, qualifying) ==
  LET assessed == AccountsWithCompleteStage(g, "cloudtrail")
  IN PerAccountResult(assessed, TrailAccounts(assessed, qualifying))
PerAccountTrailViolations(g, failing) ==
  LET assessed == AccountsWithCompleteStage(g, "cloudtrail")
  IN PerAccountResult(assessed, assessed \ TrailAccounts(assessed, failing))

\* --- Guards: the collector has not been there yet -----------------------------
PropertyNotYetCollected(g, label, p) ==
  Labelled(g, {label}) # {} /\ \A v \in Labelled(g, {label}) : Lacks(v, p)
NetworkAclEntriesMissing(g) ==
  Labelled(g, {"NetworkAcl"}) # {} /\ Labelled(g, {"NetworkAclEntry"}) = {}
AwsManagedPoliciesNotYetCollected(g) ==
  {v \in Labelled(g, {"IamPolicy"}) : Has(v, "policy_type", "aws-managed")} = {}
Unless(missing, verdict) == IF missing THEN NotEvaluated ELSE verdict

\* --- Identity -------------------------------------------------------------------
Roots(g) == {v \in Labelled(g, {"IamUser", "AwsAccount"}) : Has(v, "is_root", TRUE)}
RootAccessKey(g) == PerAccountViolations(g, "iam-access-keys", OutOf(g, Roots(g), "HAS_ACCESS_KEY"))
RootMfa(g) == PerAccountCompliant(g, "iam-access-keys",
  {v \in Roots(g) : Has(v, "mfa_enabled", TRUE) \/ Has(v, "root_credentials_present", FALSE)})
UserMfa(g) == PerAccountViolations(g, "iam-credential-report",
  {v \in Labelled(g, {"IamUser"}) : Has(v, "password_enabled", TRUE) /\ Has(v, "mfa_enabled", FALSE)})
KeyRotation(g) == PerAccountViolations(g, "iam-access-keys",
  {k \in OutOf(g, Labelled(g, {"IamUser"}), "HAS_ACCESS_KEY") :
     Has(k, "status", "Active") /\ AtLeast(k, "key_age_days", 91)})
\* password_last_used and create_date, kept as dates, are days past here.
UnusedCredentials(g) == PerAccountViolations(g, "iam-credential-report",
  {k \in Labelled(g, {"AccessKey"}) : Has(k, "status", "Active") /\ AtLeast(k, "last_used_days_ago", 45)}
  \cup {u \in Labelled(g, {"IamUser"}) :
          /\ Has(u, "password_enabled", TRUE) /\ ~Has(u, "is_root", TRUE)
          /\ \/ AtLeast(u, "password_last_used", 46)
             \/ Lacks(u, "password_last_used") /\ AtLeast(u, "create_date", 46)})
Attached(g, arn) == {v \in Labelled(g, {"IamUser", "IamRole", "IamGroup"}) :
                       \E p \in Out(g, v, "ATTACHED_TO") : Has(p, "arn", arn)}
DirectPolicies(g) == Unless(AwsManagedPoliciesNotYetCollected(g), PerAccountViolations(g, "iam",
  {u \in Labelled(g, {"IamUser"}) : Out(g, u, "ATTACHED_TO") # {}}))
PasswordLength(g) == PerAccountCompliant(g, "iam",
  {v \in Labelled(g, {"AccountPasswordPolicy"}) : AtLeast(v, "min_password_length", 14)})
PasswordReuse(g) == PerAccountCompliant(g, "iam",
  {v \in Labelled(g, {"AccountPasswordPolicy"}) : AtLeast(v, "password_reuse_prevention", 24)})
PasswordExpiry(g) == PerAccountCompliant(g, "iam",
  {v \in Labelled(g, {"AccountPasswordPolicy"}) : Below(v, "max_password_age", 91)})
SupportRole(g) == Unless(AwsManagedPoliciesNotYetCollected(g),
  PerAccountCompliant(g, "iam", Attached(g, "AWSSupportAccess")))
CloudShell(g) == Unless(AwsManagedPoliciesNotYetCollected(g),
  PerAccountViolations(g, "iam", Attached(g, "AWSCloudShellFullAccess")))
Analyzer(g) == PerRegionCompliant(g, "access-analyzer",
  {v \in Labelled(g, {"AccessAnalyzer"}) : Has(v, "status", "ACTIVE")})

\* --- Stores ------------------------------------------------------------------------
Buckets(g) == Labelled(g, {"S3Bucket"})
\* Account-level settings are not collected, so a bucket without all four may be covered.
BlockPublicAccess(g) ==
  LET blocked == {b \in Buckets(g) : \A p \in {"block_public_acls", "ignore_public_acls",
                    "block_public_policy", "restrict_public_buckets"} : Has(b, p, TRUE)}
  IN Unless(PropertyNotYetCollected(g, "S3Bucket", "restrict_public_buckets")
              \/ blocked # Buckets(g), Counted({}))
Versioning(g) == Counted({b \in Buckets(g) : Has(b, "versioning_enabled", FALSE)})
BucketEncryption(g) == Counted({b \in Buckets(g) : Has(b, "default_encryption", FALSE)})
BucketLogging(g) == Counted({b \in Buckets(g) : Has(b, "logging_enabled", FALSE)})
MfaDelete(g) == Unless(PropertyNotYetCollected(g, "S3Bucket", "mfa_delete_enabled"),
  PerAccountViolations(g, "s3",
    {b \in Buckets(g) : Has(b, "versioning_enabled", TRUE) /\ Off(b, "mfa_delete_enabled")}))

Rds(g) == Labelled(g, {"RdsInstance"})
RdsEncryption(g) == PerAccountRegionViolations(g, "rds",
  {d \in Rds(g) : Has(d, "storage_encrypted", FALSE)}, {})
RdsBackup(g) == Counted({d \in Rds(g) : Below(d, "backup_retention_period", 7)})
RdsPublic(g) == PerAccountRegionViolations(g, "rds",
  {d \in Rds(g) : Has(d, "publicly_accessible", TRUE)}, {})
RdsDeletion(g) == Counted({d \in Rds(g) : Has(d, "deletion_protection", FALSE)})
RdsUpgrades(g) == Unless(PropertyNotYetCollected(g, "RdsInstance", "auto_minor_version_upgrade"),
  PerAccountRegionViolations(g, "rds", {d \in Rds(g) : Off(d, "auto_minor_version_upgrade")}, {}))

Redshift(g) == {v \in Labelled(g, {"RedshiftCluster"}) :
                  ~Has(v, "status", "deleting") /\ ~Has(v, "status", "creating")}
RedshiftEncryption(g) == Counted({v \in Redshift(g) : Off(v, "encrypted")})
RedshiftPublic(g) == Counted({v \in Redshift(g) : OnOrUnsaid(v, "publicly_accessible")})
CacheEncryption(g) == Counted({v \in Labelled(g, {"ElastiCacheCluster"}) :
  /\ Has(v, "engine", "redis") \/ Has(v, "engine", "valkey")
  /\ ~Has(v, "status", "deleting") /\ ~Has(v, "status", "creating")
  /\ Off(v, "transit_encryption") \/ Off(v, "at_rest_encryption")})
SearchEncryption(g) == Counted({v \in Labelled(g, {"OpenSearchDomain"}) : Off(v, "encryption_at_rest")})
SearchHttps(g) == Counted({v \in Labelled(g, {"OpenSearchDomain"}) : Off(v, "enforce_https")})
SearchNodes(g) == Counted({v \in Labelled(g, {"OpenSearchDomain"}) : Off(v, "node_to_node_encryption")})
Rotatable(v) == /\ Has(v, "key_manager", "CUSTOMER") /\ Has(v, "key_state", "Enabled")
                /\ Has(v, "key_spec", "SYMMETRIC_DEFAULT") /\ Has(v, "origin", "AWS_KMS")
                /\ Lacks(v, "custom_key_store_id")
KeyRotates(g) == Unless(PropertyNotYetCollected(g, "KmsKey", "key_spec"),
  PerAccountRegionViolations(g, "kms",
    {v \in Labelled(g, {"KmsKey"}) : Rotatable(v) /\ Off(v, "rotation_enabled")},
    {v \in Labelled(g, {"KmsKey"}) : Has(v, "collection_restricted", TRUE)}))

\* --- Trails and recorders ------------------------------------------------------------
Trails(g) == Labelled(g, {"CloudTrail"})
Everywhere(g, p) == {t \in Trails(g) : Has(t, "is_multi_region_trail", TRUE) /\ Has(t, p, TRUE)}
TrailEverywhere(g) == Unless(PropertyNotYetCollected(g, "CloudTrail", "logs_all_management_events"),
  AccountsCoveredByTrail(g, {t \in Everywhere(g, "logs_all_management_events") :
    \E s \in Out(g, t, "HAS_STATUS") : Has(s, "is_logging", TRUE)}))
TrailValidation(g) == PerAccountTrailViolations(g,
  {t \in Trails(g) : Has(t, "log_file_validation_enabled", FALSE)})
TrailKey(g) == PerAccountTrailViolations(g,
  {t \in Trails(g) : Lacks(t, "kms_key_id") \/ Has(t, "kms_key_id", "")})
TrailLogGroup(g) == Counted({t \in Trails(g) :
  Lacks(t, "cloudwatch_logs_log_group_arn") \/ Has(t, "cloudwatch_logs_log_group_arn", "")})
ObjectWrites(g) == Unless(PropertyNotYetCollected(g, "CloudTrail", "logs_all_s3_object_writes"),
  AccountsCoveredByTrail(g, Everywhere(g, "logs_all_s3_object_writes")))
ObjectReads(g) == Unless(PropertyNotYetCollected(g, "CloudTrail", "logs_all_s3_object_reads"),
  AccountsCoveredByTrail(g, Everywhere(g, "logs_all_s3_object_reads")))
\* A bucket is known to a trail or a delivery channel by its name.
Names(S) == {v.props["s3_bucket_name"] : v \in {w \in S : ~Lacks(w, "s3_bucket_name")}}
Named(g, names) == {b \in Buckets(g) : b.props["name"] \in names}
TrailBucketLogging(g) ==
  LET unlogged == {b.props["name"] : b \in {c \in Named(g, Names(Trails(g))) : Off(c, "logging_enabled")}}
  IN PerAccountTrailViolations(g, {t \in Trails(g) : \E n \in unlogged : Has(t, "s3_bucket_name", n)})
TrailBucketPublic(g) ==
  Counted({b \in Named(g, Names(Trails(g))) : OnOrUnsaid(b, "is_publicly_accessible")})
ConfigBucket(g) == Counted({b \in Named(g, Names(Labelled(g, {"ConfigDeliveryChannel"}))) :
                              Off(b, "default_encryption")})
Recorder(g) == PerRegionCompliant(g, "config",
  {v \in Labelled(g, {"ConfigRecorder"}) : /\ Has(v, "recording", TRUE)
     /\ Has(v, "recording_all_supported", TRUE) /\ Has(v, "role_arn", "AWSServiceRoleForConfig")})
RecorderTypes(g) == Unless(PropertyNotYetCollected(g, "ConfigRecorder", "recording_all_supported"),
  Counted({v \in Labelled(g, {"ConfigRecorder"}) : Off(v, "recording_all_supported")}))
GuardDuty(g) == PerRegionCompliant(g, "guardduty",
  {v \in Labelled(g, {"GuardDutyDetector"}) : Has(v, "status", "ENABLED")})
SecurityHub(g) == PerRegionCompliant(g, "securityhub",
  {v \in Labelled(g, {"SecurityHub"}) : Has(v, "enabled", TRUE)})

\* --- Network -----------------------------------------------------------------------------
\* Protocol -1 carries no range, which the collector records as 0-0.
Opens(v, ports) == \/ Has(v, "port_from", 0) /\ Has(v, "port_to", 0)
                   \/ \E p \in ports : Below(v, "port_from", p + 1) /\ AtLeast(v, "port_to", p)
AdminPorts == {22, 3389}
From(v, cidrs, protocols) == /\ \E c \in cidrs : Has(v, "cidr_block", c)
                             /\ \E p \in protocols : Has(v, "protocol", p)
Ingress(g, label, cidrs, protocols, ports) ==
  {v \in Labelled(g, {label}) : /\ Has(v, "direction", "ingress")
                                /\ From(v, cidrs, protocols) /\ Opens(v, ports)}
Allowing(g, protocols, ports) ==
  OutOf(g, {v \in Ingress(g, "NetworkAclEntry", {"0.0.0.0/0", "::/0"}, protocols, ports) :
              Has(v, "rule_action", "allow")}, "PART_OF") \cap Labelled(g, {"NetworkAcl"})
AclAdminPorts(g) == Unless(NetworkAclEntriesMissing(g), PerAccountRegionViolations(g, "network",
  {n \in Allowing(g, {"tcp", "udp", "-1"}, AdminPorts) : ~Has(n, "is_default", TRUE)}, {}))
AclDatabasePorts(g) == Unless(NetworkAclEntriesMissing(g),
  Counted({n \in Allowing(g, {"tcp", "-1"}, {1433, 3306, 5432}) : Out(g, n, "ASSOCIATED_WITH") # {}}))
Groups(g, cidrs, ports) ==
  OutOf(g, Ingress(g, "SecurityGroupRule", cidrs, {"tcp", "-1"}, ports), "PART_OF")
    \cap Labelled(g, {"SecurityGroup"})
GroupAdminPorts(g) == PerAccountRegionViolations(g, "security-groups",
  Groups(g, {"0.0.0.0/0"}, AdminPorts), {})
GroupAdminPortsV6(g) == PerAccountRegionViolations(g, "security-groups",
  Groups(g, {"::/0"}, AdminPorts), {})
GroupCommonPorts(g) == Counted(Groups(g, {"0.0.0.0/0", "::/0"}, {1433, 3306, 5432, 6379, 9200, 27017}))
DefaultGroup(g) == Unless(PropertyNotYetCollected(g, "SecurityGroup", "egress_rule_count"),
  PerAccountRegionViolations(g, "security-groups",
    {v \in Labelled(g, {"SecurityGroup"}) : /\ Has(v, "is_default", TRUE)
       /\ (AtLeast(v, "ingress_rule_count", 1) \/ AtLeast(v, "egress_rule_count", 1))}, {}))
FlowLogs(g) == Unless(PropertyNotYetCollected(g, "Vpc", "flow_logs_capture_rejects"),
  PerAccountRegionViolations(g, "network",
    {v \in Labelled(g, {"Vpc"}) : ~Has(v, "flow_logs_capture_rejects", TRUE)}, {}))
Endpoints(g) == Counted({v \in Labelled(g, {"Vpc"}) : Out(g, v, "HAS_ENDPOINT") = {}})
Imds(g) == PerAccountRegionViolations(g, "ec2-instances",
  {v \in Labelled(g, {"Ec2Instance"}) : /\ Has(v, "metadata_http_tokens", "optional")
     /\ ~Has(v, "state", "terminated") /\ ~Has(v, "state", "shutting-down")}, {})
EksEndpoint(g) == Counted({v \in Labelled(g, {"EksCluster"}) :
  Has(v, "endpoint_public_access", TRUE) /\ Has(v, "endpoint_world_open", TRUE)})
SecretGrants(g) == Counted({v \in Labelled(g, {"IamPolicyStatement"}) :
  Has(v, "effect", "Allow") /\ Has(v, "grants_secret_read", TRUE) /\ Has(v, "secret_grant_scope", "wildcard")})
SecretsFound(g) == Counted({v \in Labelled(g, {"DataClassificationFinding"}) : AtLeast(v, "secret_count", 1)})
\* Four hops at most, and none beyond a crown jewel.
PathToCrownJewel(g) ==
  LET Jewel(v) == Has(v, "crown_jewel", TRUE)
      Hop(S) == {w \in g.vertices : \E e \in g.edges :
                   e[3] = w.id /\ \E v \in S : v.id = e[1] /\ (~Jewel(v) \/ v.label = "Internet")}
      one == Hop(Labelled(g, {"Internet"}))  two == Hop(one)  three == Hop(two)
  IN Counted({v \in one \cup two \cup three \cup Hop(three) : Jewel(v)})

\* --- complianceRuleEvaluators ----------------------------------------------------------------
Judge(c, g) ==
  CASE c = "1.4" -> RootAccessKey(g) [] c = "1.5" -> RootMfa(g) [] c = "1.10" -> UserMfa(g)
    [] c = "1.14" -> KeyRotation(g) [] c = "1.12" -> UnusedCredentials(g) [] c = "1.15" -> DirectPolicies(g)
    [] c = "1.8" -> PasswordLength(g) [] c = "1.9" -> PasswordReuse(g) [] c = "KH-1.15" -> PasswordExpiry(g)
    [] c = "1.17" -> SupportRole(g) [] c = "1.22" -> CloudShell(g) [] c = "1.20" -> Analyzer(g)
    [] c = "2.1.4" -> BlockPublicAccess(g) [] c = "2.1.2" -> MfaDelete(g) [] c = "KH-2.2" -> Versioning(g)
    [] c = "KH-2.3" -> BucketEncryption(g) [] c = "KH-2.4" -> BucketLogging(g) [] c = "2.3.1" -> RdsEncryption(g)
    [] c = "2.3.2" -> RdsUpgrades(g) [] c = "2.3.3" -> RdsPublic(g) [] c = "KH-2.8" -> RdsBackup(g)
    [] c = "KH-2.10" -> RdsDeletion(g) [] c = "KH-2.11" -> RedshiftEncryption(g) [] c = "KH-2.12" -> RedshiftPublic(g)
    [] c = "KH-2.13" -> CacheEncryption(g) [] c = "KH-2.14" -> SearchEncryption(g) [] c = "KH-2.15" -> SearchHttps(g)
    [] c = "KH-2.16" -> SearchNodes(g) [] c = "3.1" -> TrailEverywhere(g) [] c = "3.2" -> TrailValidation(g)
    [] c = "3.3" -> Recorder(g) [] c = "3.4" -> TrailBucketLogging(g) [] c = "3.5" -> TrailKey(g)
    [] c = "3.6" -> KeyRotates(g) [] c = "3.7" -> FlowLogs(g) [] c = "3.8" -> ObjectWrites(g)
    [] c = "3.9" -> ObjectReads(g) [] c = "KH-3.4" -> TrailLogGroup(g) [] c = "KH-3.5" -> TrailBucketPublic(g)
    [] c = "KH-3.10" -> RecorderTypes(g) [] c = "KH-3.11" -> ConfigBucket(g) [] c = "KH-4.1" -> GuardDuty(g)
    [] c = "4.16" -> SecurityHub(g) [] c = "5.1" -> AclAdminPorts(g) [] c = "KH-5.1" -> AclDatabasePorts(g)
    [] c = "5.2" -> GroupAdminPorts(g) [] c = "5.3" -> GroupAdminPortsV6(g) [] c = "5.4" -> DefaultGroup(g)
    [] c = "KH-5.6" -> GroupCommonPorts(g) [] c = "5.6" -> Imds(g) [] c = "KH-5.7" -> Endpoints(g)
    [] c = "KH-EKS-1" -> EksEndpoint(g) [] c = "KH-SEC-1" -> SecretGrants(g) [] c = "KH-SEC-2" -> SecretsFound(g)
    [] c = "KH-PATH-1" -> PathToCrownJewel(g)

\* --- The graph as collections leave it -----------------------------------------------------------
\* A fragment: the stages that read it, its nodes [name, label, shared, props] and
\* their links. A shared node is one vertex however many accounts see it.
Id(f, s, name) == IF \E n \in f.nodes : n.name = name /\ n.shared THEN <<<<"org">>, name>> ELSE <<s, name>>
Placed(f, s) == {[id |-> Id(f, s, n.name), label |-> n.label, account |-> s[1], region |-> s[2],
                  props |-> n.props] : n \in f.nodes}

Init ==
  /\ control \in DOMAIN Fragments /\ collections = 0
  /\ graph = [vertices |-> {}, edges |-> {}, coverage |-> {}]

Collect(s, f) ==
  /\ collections < MaxCollections /\ collections' = collections + 1
  /\ LET new  == Placed(f, s)
         ids  == {v.id : v \in new}
         gone == {v.id : v \in {w \in graph.vertices : w.id[1] = s}}
     IN graph' = [vertices |-> new \cup {v \in graph.vertices : v.id \notin gone \cup ids},
                  edges |-> {e \in graph.edges : e[1] \notin gone \cup ids}
                              \cup {<<Id(f, s, l[1]), l[2], Id(f, s, l[3])>> : l \in f.links},
                  coverage |-> {c \in graph.coverage : c.site # s}
                                 \cup {[service |-> t, site |-> s, recent |-> TRUE] : t \in f.stages}]
  /\ UNCHANGED control

\* The site's next collections fail, or do not come: its vertices stay as they were.
Lapse(s) ==
  /\ \E c \in graph.coverage : c.site = s /\ c.recent
  /\ graph' = [graph EXCEPT !.coverage = {IF c.site = s THEN [c EXCEPT !.recent = FALSE] ELSE c : c \in @}]
  /\ UNCHANGED <<control, collections>>

Next == \/ \E s \in Sites : \E f \in Fragments[control] : Collect(s, f)
        \/ \E s \in Sites : Lapse(s)
Spec == Init /\ [][Next]_controlVars

\* --- Properties --------------------------------------------------------------------------------------
ControlsTypeOK == /\ Judge(control, graph).status \in {"PASS", "FAIL", "NOT_EVALUATED"}
                  /\ Judge(control, graph).failing \subseteq Judge(control, graph).assessed

Only(a) == [vertices |-> {v \in graph.vertices : v.account = a \/ v.id[1] = <<"org">>},
            edges    |-> graph.edges,
            coverage |-> {c \in graph.coverage : c.site[1] = a}]

WrittenBy(a) == [graph EXCEPT !.vertices =
                   {IF v.id[1] = <<"org">> THEN [v EXCEPT !.account = a] ELSE v : v \in @}]

\* One account's state says nothing about another's: an account (or Region of it)
\* fails among the others exactly if it fails alone, and where one fails the control
\* never passes (if nothing tells a property yet, it may wait). Earlier evaluators
\* passed the organization on any one account. Nor does it matter whose collection
\* last wrote what the organization shares (perAccountResult, accountsCoveredByTrail).
NoAccountSpeaksForAnother ==
  \A a \in {s[1] : s \in Sites} :
    LET alone == Judge(control, Only(a))
        whole == Judge(control, graph)
    IN /\ alone.status = "FAIL" => whole.status # "PASS"
       /\ {alone.status, whole.status} \subseteq {"PASS", "FAIL"} =>
            {x \in whole.failing : x[1] = a} = alone.failing
       /\ Judge(control, WrittenBy(a)) = whole

\* What a failed read leaves out of the graph never counts as compliant: without
\* the property, a control that did not pass does not pass either. These are the
\* properties the evaluators' comments say so of (hasNot, not(has(p, true))).
MustBeRead ==
  [c \in DOMAIN Fragments |->
     CASE c = "KH-2.11" -> {"encrypted"} [] c = "KH-2.12" -> {"publicly_accessible"}
       [] c = "KH-2.13" -> {"transit_encryption", "at_rest_encryption"}
       [] c = "KH-2.14" -> {"encryption_at_rest"} [] c = "KH-2.15" -> {"enforce_https"}
       [] c = "KH-2.16" -> {"node_to_node_encryption"} [] c = "KH-3.11" -> {"default_encryption"}
       [] c = "3.4" -> {"logging_enabled"} [] c = "KH-3.5" -> {"is_publicly_accessible"}
       [] c = "KH-3.4" -> {"cloudwatch_logs_log_group_arn"} [] c = "3.5" -> {"kms_key_id"}
       [] c = "2.1.2" -> {"mfa_delete_enabled"} [] c = "2.3.2" -> {"auto_minor_version_upgrade"}
       [] c = "KH-3.10" -> {"recording_all_supported"} [] c = "3.6" -> {"rotation_enabled"}
       [] c = "3.7" -> {"flow_logs_capture_rejects"} [] c = "1.8" -> {"min_password_length"}
       [] c = "1.9" -> {"password_reuse_prevention"} [] c = "KH-1.15" -> {"max_password_age"}
       [] c = "3.8" -> {"logs_all_s3_object_writes"} [] c = "3.9" -> {"logs_all_s3_object_reads"}
       [] OTHER -> {}]
Unread(v, p) == [graph EXCEPT !.vertices = (@ \ {v}) \cup
                   {[v EXCEPT !.props = [q \in DOMAIN v.props \ {p} |-> v.props[q]]]}]
UnreadIsNotCompliant ==
  Judge(control, graph).status # "PASS" =>
    \A v \in graph.vertices : \A p \in DOMAIN v.props \cap MustBeRead[control] :
      Judge(control, Unread(v, p)).status # "PASS"
=============================================================================
