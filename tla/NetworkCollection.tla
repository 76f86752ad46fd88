-------------------------- MODULE NetworkCollection --------------------------
(***************************************************************************)
(* How the network of an account becomes vertices and edges.  A security   *)
(* group's permissions and a network ACL's entries are properties AWS      *)
(* returns in one piece; the collector makes a vertex of each, with an id  *)
(* of its own making, so that queries can read them.  A change of the      *)
(* network and a collection are steps; a stage that fails writes nothing.  *)
(* What a stage no longer finds is removed by the reconciliation, which    *)
(* Collection models: here the stage's result replaces its earlier one.    *)
(***************************************************************************)
EXTENDS Integers, FiniteSets

CONSTANTS
    SecurityGroups, Acls, Subnets, Vpcs,
    Ranges,             \* what a permission is about: <<protocol, from, to>>
    Entries,            \* what an ACL entry may say: [action, proto, from, to, cidr]
    RuleNumbers,
    ServerPorts,        \* 22 and 3389
    MaxNetworkChanges   \* bound of the model

\* Ports are numbers above 0; a rule of all protocols names no range and is recorded as
\* 0-0.  An ACL numbers its rules and its protocols, it does not name them.
ASSUME NetworkParameters ==
    /\ ServerPorts \subseteq Nat \ {0} /\ ServerPorts # {} /\ RuleNumbers \subseteq Nat
    /\ \A r \in Ranges : r = <<r[1], r[2], r[3]>> /\ r[2] \in Int /\ r[3] \in Int
    /\ \A r \in Ranges : r[1] = "-1" => r[2] = 0 /\ r[3] = 0
    /\ \A e \in Entries : e.action # "none" /\ e.proto \notin {"tcp", "udp", "icmp", "icmpv6"}
    /\ MaxNetworkChanges \in Nat

World == {"0.0.0.0/0", "::/0"}
Cidrs == World \cup {"10.0.0.0/8"}
Directions == {"ingress", "egress"}
NoEntry == [action |-> "none"]

VARIABLES
    permitted,          \* the sources each group lets in, per range
    entries,            \* the entries of each ACL, per direction and rule number
    aclOf,              \* the ACL of each subnet
    logs,               \* the flow logs of each VPC: <<status, traffic type>>
    balancers,          \* subnets with a load balancer, internet-facing or not
    rules, groupVertices, \* SecurityGroupRule and SecurityGroup vertices
    aclEntries, uses,   \* NetworkAclEntry vertices, ASSOCIATED_WITH edges
    vpcs, facing,       \* Vpc vertices; what the Internet vertex EXPOSES
    collected,          \* the stages that ran since the last change
    networkChanges
networkAws == <<permitted, entries, aclOf, logs, balancers>>
networkGraph == <<rules, groupVertices, aclEntries, uses, vpcs, facing>>
networkVars == <<permitted, entries, aclOf, logs, balancers, rules, groupVertices, aclEntries, uses,
                 vpcs, facing, collected, networkChanges>>

NetworkInit ==
    /\ permitted = [g \in SecurityGroups |-> [r \in Ranges |-> {}]]
    /\ entries = [a \in Acls |-> [d \in Directions |-> [n \in RuleNumbers |-> NoEntry]]]
    /\ aclOf \in [Subnets -> Acls]
    /\ logs = [v \in Vpcs |-> {}]
    /\ balancers = [s \in Subnets |-> "none"]
    /\ rules = {} /\ groupVertices = [g \in {} |-> 0] /\ aclEntries = {} /\ uses = {}
    /\ vpcs = [v \in {} |-> 0] /\ facing = {}
    /\ collected = {} /\ networkChanges = 0

-----------------------------------------------------------------------------
(* The account's administrators.                                           *)

NetworkChanged ==
    /\ networkChanges < MaxNetworkChanges /\ networkChanges' = networkChanges + 1
    /\ collected' = {} /\ UNCHANGED networkGraph

EditPermission ==
    /\ NetworkChanged
    /\ \E g \in SecurityGroups, r \in Ranges, from \in SUBSET Cidrs :
          permitted' = [permitted EXCEPT ![g][r] = from]
    /\ UNCHANGED <<entries, aclOf, logs, balancers>>

EditEntry ==
    /\ NetworkChanged
    /\ \E a \in Acls, d \in Directions, n \in RuleNumbers, e \in Entries \cup {NoEntry} :
          entries' = [entries EXCEPT ![a][d][n] = e]
    /\ UNCHANGED <<permitted, aclOf, logs, balancers>>

MoveSubnet ==
    /\ NetworkChanged
    /\ \E s \in Subnets, a \in Acls : aclOf' = [aclOf EXCEPT ![s] = a]
    /\ UNCHANGED <<permitted, entries, logs, balancers>>

EditLogs ==
    /\ NetworkChanged
    /\ \E v \in Vpcs, l \in {"ACTIVE", "FAILED"} \X {"ACCEPT", "REJECT", "ALL"} :
          logs' = [logs EXCEPT ![v] = IF l \in @ THEN @ \ {l} ELSE @ \cup {l}]
    /\ UNCHANGED <<permitted, entries, aclOf, balancers>>

EditBalancer ==
    /\ NetworkChanged
    /\ \E s \in Subnets, b \in {"none", "internal", "internet-facing"} :
          balancers' = [balancers EXCEPT ![s] = b]
    /\ UNCHANGED <<permitted, entries, aclOf, logs>>

-----------------------------------------------------------------------------
(* The collector.                                                          *)

\* collectSecurityGroups(): the permissions open to the world, either family.
IngressRules(g) == {r \in Ranges : permitted[g][r] \cap World # {}}

\* The id names the group, the protocol, the range and, by its suffix, the family.
RuleVertices(g) ==
    UNION {{[group |-> g, proto |-> r[1], from |-> r[2], to |-> r[3], cidr |-> c] :
               c \in permitted[g][r] \cap World} : r \in IngressRules(g)}

CollectSecurityGroups ==
    /\ rules' = UNION {RuleVertices(g) : g \in SecurityGroups}
    /\ groupVertices' = [g \in SecurityGroups |->
                    [worldOpen |-> IngressRules(g) # {},
                     ingress |-> Cardinality({r \in Ranges : permitted[g][r] # {}})]]
    /\ collected' = collected \cup {"security-groups"}
    /\ UNCHANGED <<networkAws, aclEntries, uses, vpcs, facing, networkChanges>>

\* AWS numbers the protocols of ACL entries; the graph names the ones groups have names
\* for, and leaves every other as it is.
NormalizeAclProtocol(p) ==
    CASE p = "6" -> "tcp" [] p = "17" -> "udp" [] p = "1" -> "icmp" [] p = "58" -> "icmpv6" [] OTHER -> p

\* Mutant: the id of an entry lacks its direction, so that the egress entry of a number
\* overwrites the ingress entry.
AclEntryVerticesUndirected(a) ==
    UNION {LET d == IF entries[a]["egress"][n] # NoEntry THEN "egress" ELSE "ingress"
               e == entries[a][d][n]
           IN IF e = NoEntry THEN {}
              ELSE {[acl |-> a, direction |-> d, number |-> n, action |-> e.action,
                     proto |-> NormalizeAclProtocol(e.proto), from |-> e.from, to |-> e.to, cidr |-> e.cidr]} :
             n \in RuleNumbers}

\* buildNetworkAclEntries(): one vertex per direction and rule number.
AclEntryVertices(a) ==
    {[acl |-> a, direction |-> x[1], number |-> x[2], action |-> entries[a][x[1]][x[2]].action,
      proto |-> NormalizeAclProtocol(entries[a][x[1]][x[2]].proto),
      from |-> entries[a][x[1]][x[2]].from, to |-> entries[a][x[1]][x[2]].to,
      cidr |-> entries[a][x[1]][x[2]].cidr] :
        x \in {y \in Directions \X RuleNumbers : entries[a][y[1]][y[2]] # NoEntry}}

\* EC2.6 asks for an active log of rejected traffic.
CapturesRejects(v) == logs[v] \cap ({"ACTIVE"} \X {"REJECT", "ALL"}) # {}

CollectNetwork ==
    /\ aclEntries' = UNION {AclEntryVertices(a) : a \in Acls}
    /\ uses' = {<<aclOf[s], s>> : s \in Subnets}
    /\ vpcs' = [v \in Vpcs |-> [enabled |-> logs[v] # {}, rejects |-> CapturesRejects(v)]]
    /\ collected' = collected \cup {"network"}
    /\ UNCHANGED <<networkAws, rules, groupVertices, facing, networkChanges>>

\* collectLoadBalancers(): the Internet vertex exposes the internet-facing ones.
CollectLoadBalancers ==
    /\ facing' = {s \in Subnets : balancers[s] = "internet-facing"}
    /\ collected' = collected \cup {"load-balancers"}
    /\ UNCHANGED <<networkAws, rules, groupVertices, aclEntries, uses, vpcs, networkChanges>>

\* A listing that fails fails its stage.
NetworkStageFails(stage) ==
    /\ stage \in collected /\ collected' = collected \ {stage}
    /\ UNCHANGED <<networkAws, networkGraph, networkChanges>>

NetworkNext ==
    \/ EditPermission \/ EditEntry \/ MoveSubnet \/ EditLogs \/ EditBalancer
    \/ CollectSecurityGroups \/ CollectNetwork \/ CollectLoadBalancers
    \/ \E s \in {"security-groups", "network", "load-balancers"} : NetworkStageFails(s)

NetworkSpec == NetworkInit /\ [][NetworkNext]_networkVars

-----------------------------------------------------------------------------
(* The queries: ADMIN_PORT_RANGE_PREDICATE over the vertices.              *)

InRange(v, port) == (v.from = 0 /\ v.to = 0) \/ (v.from <= port /\ port <= v.to)
Flagged(g, cidr) ==
    \E v \in rules : /\ v.group = g /\ v.cidr = cidr /\ v.proto \in {"tcp", "-1"}
                     /\ \E p \in ServerPorts : InRange(v, p)

(* What AWS does with a packet.                                            *)
OpenTo(g, cidr, port) ==
    \E r \in Ranges : /\ cidr \in permitted[g][r]
                      /\ \/ r[1] = "-1"
                         \/ r[1] = "tcp" /\ r[2] <= port /\ port <= r[3]

\* The entry with the lowest number that fits decides; without one the packet is dropped.
LowestOf(numbers) == CHOOSE n \in numbers : \A m \in numbers : n <= m
Fits(e, cidr, port) ==
    e # NoEntry /\ e.cidr = cidr /\ (e.proto = "-1" \/ (e.proto = "6" /\ e.from <= port /\ port <= e.to))
AclVerdict(a, d, cidr, port) ==
    LET fitting == {n \in RuleNumbers : Fits(entries[a][d][n], cidr, port)}
    IN IF fitting = {} THEN "deny" ELSE entries[a][d][LowestOf(fitting)].action

\* The same, read from the vertices.
EntriesOf(a, d, cidr, port) ==
    {v \in aclEntries : /\ v.acl = a /\ v.direction = d /\ v.cidr = cidr
                        /\ v.proto = "-1" \/ (v.proto = "tcp" /\ v.from <= port /\ port <= v.to)}
VerdictOf(a, d, cidr, port) ==
    LET found == EntriesOf(a, d, cidr, port)
        lowest == LowestOf({v.number : v \in found})
    IN IF found = {} THEN "deny" ELSE (CHOOSE v \in found : v.number = lowest).action

-----------------------------------------------------------------------------
NetworkTypeOK ==
    /\ permitted \in [SecurityGroups -> [Ranges -> SUBSET Cidrs]]
    /\ entries \in [Acls -> [Directions -> [RuleNumbers -> Entries \cup {NoEntry}]]]
    /\ aclOf \in [Subnets -> Acls]
    /\ balancers \in [Subnets -> {"none", "internal", "internet-facing"}]
    /\ DOMAIN logs = Vpcs
    /\ collected \subseteq {"security-groups", "network", "load-balancers"}
    /\ networkChanges \in 0..MaxNetworkChanges
    /\ DOMAIN groupVertices \in {{}, SecurityGroups} /\ DOMAIN vpcs \in {{}, Vpcs}
    /\ \A v \in rules : v.cidr \in World
    /\ \A v \in aclEntries : v.number \in RuleNumbers
    /\ facing \subseteq Subnets

(* After the stage ran, a group is flagged for an address family exactly   *)
(* when AWS lets that family reach an administration port through it: no   *)
(* permission is lost to another with the same protocol and range, none is *)
(* taken for another (collectSecurityGroups, ADMIN_PORT_RANGE_PREDICATE).  *)
(* Only a rule of TCP port 0 alone reads like all traffic                  *)
(* (admin-ports.ts:2).                                                     *)
PortZeroOpenTo(g, cidr) ==
    \E r \in Ranges : r = <<"tcp", 0, 0>> /\ cidr \in permitted[g][r]
AdminPortsAreExact ==
    "security-groups" \in collected =>
        \A g \in SecurityGroups, c \in World :
            Flagged(g, c) <=> PortZeroOpenTo(g, c) \/ \E p \in ServerPorts : OpenTo(g, c, p)

(* After the stage ran, the entry vertices of an ACL still decide every    *)
(* packet as the ACL does, in both directions, and the subnets it decides  *)
(* for are those it is associated with (buildNetworkAclEntries).           *)
AclVerdictsSurvive ==
    "network" \in collected =>
        /\ \A a \in Acls, d \in Directions, c \in Cidrs, p \in ServerPorts :
              VerdictOf(a, d, c, p) = AclVerdict(a, d, c, p)
        /\ \A a \in Acls, s \in Subnets : <<a, s>> \in uses <=> aclOf[s] = a

(* After the stage ran, a group is flagged for an address family exactly   *)
(* when that family reaches an administration port through it, and the     *)
(* entry vertices of an ACL decide every packet as the ACL does: no rule   *)
(* is lost to another with the same protocol and range.                    *)
NetworkRulesAreExact == NetworkTypeOK /\ AdminPortsAreExact /\ AclVerdictsSurvive
=============================================================================
