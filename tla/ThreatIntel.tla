----------------------------- MODULE ThreatIntel -----------------------------
(***************************************************************************)
(* The customer's threat intelligence: plain lists in S3 (addresses,       *)
(* accounts, CVE ids, EPSS scores), imported into a table whose rows       *)
(* expire, and looked up by the rule runner for the paths it scores.       *)
(* Nobody deletes a row: a list that drops an indicator drains itself.     *)
(***************************************************************************)
EXTENDS Naturals, Sequences, FiniteSets, SequencesExt

CONSTANTS
    TypeOrder,          \* the configured lists, in the order they are imported
    ListValues,         \* what a line may say, per type of list
    Upper,              \* toUpperCase() of every value
    OnThePath,          \* the <<type, value>> facts of a path the runner scores, as collected
    IndicatorTtl,       \* days an indicator lives
    IndicatorLag,       \* days an expired row may still be read
    ChunkSize, MaxLines,
    MaxIntelDay, MaxListEdits, MaxIntelFaults   \* bounds of the model

VARIABLES
    intelDay, lists,    \* the lists the customer keeps
    indicators,         \* ThreatIndicators: the day each <<type, value>> expires
    import,             \* the importer's invocation
    labels,             \* threatIntelMatches of the issue, as last refreshed
    refreshed,          \* the day of that refresh
    imported,           \* history: the last day an import put each indicator
    listEdits, intelFaults
intelVars == <<intelDay, lists, indicators, import, labels, refreshed, imported,
               listEdits, intelFaults>>

IndicatorTypes == ToSet(TypeOrder)
NoImport == [stage |-> "idle"]
IndicatorKeys == UNION {{<<t, Upper[v]>> : v \in ListValues[t]} : t \in IndicatorTypes}

ASSUME IntelParameters ==
    /\ TypeOrder \in Seq(IndicatorTypes)
    /\ \A t \in IndicatorTypes : IsFiniteSet(ListValues[t])
    /\ IndicatorTtl \in Nat /\ IndicatorLag \in Nat /\ MaxLines \in Nat
    /\ MaxIntelDay \in Nat \ {0} /\ MaxListEdits \in Nat /\ MaxIntelFaults \in Nat

IntelInit ==
    /\ intelDay = 1 /\ listEdits = 0 /\ intelFaults = 0 /\ refreshed = 0
    /\ lists = [t \in IndicatorTypes |-> ListValues[t]]
    /\ indicators = [k \in {} |-> 0]
    /\ imported = [k \in IndicatorKeys |-> 0]
    /\ import = NoImport /\ labels = {}

IntelFault == intelFaults < MaxIntelFaults /\ intelFaults' = intelFaults + 1
IntelWorks == intelFaults' = intelFaults
ImportFails == IntelFault /\ import' = [import EXCEPT !.stage = "failed"]

-----------------------------------------------------------------------------
EditList ==
    /\ listEdits < MaxListEdits /\ listEdits' = listEdits + 1
    /\ \E t \in IndicatorTypes : \E v \in ListValues[t] :
          lists' = [lists EXCEPT ![t] = IF v \in @ THEN @ \ {v} ELSE @ \cup {v}]
    /\ UNCHANGED <<intelDay, indicators, import, labels, refreshed, imported, intelFaults>>

Lapsed(day) == {k \in DOMAIN indicators : indicators[k] < day}
NextIntelDay ==
    /\ intelDay < MaxIntelDay /\ import.stage \in {"idle", "done", "failed"}
    /\ intelDay' = intelDay + 1
    /\ \E gone \in SUBSET Lapsed(intelDay + 1) :
          /\ {k \in DOMAIN indicators : indicators[k] + IndicatorLag < intelDay + 1} \subseteq gone
          /\ indicators' = [k \in DOMAIN indicators \ gone |-> indicators[k]]
    /\ UNCHANGED <<lists, import, labels, refreshed, imported, listEdits, intelFaults>>

-----------------------------------------------------------------------------
(* importThreatIntel(): list by list, chunk by chunk.                      *)

StartImport ==
    /\ \/ import.stage = "idle"
       \/ import.stage \in {"done", "failed"} /\ import.day < intelDay
    /\ import' = [stage |-> "list", day |-> intelDay, todo |-> TypeOrder]
    /\ UNCHANGED <<intelDay, lists, indicators, labels, refreshed, imported, listEdits, intelFaults>>

\* parseIndicatorList(): one key per line, in upper case, duplicates collapsed, cut at the limit.
ParseIndicatorList(t) ==
    LET keys == {<<t, Upper[v]>> : v \in lists[t]}
    IN {ks \in SUBSET keys : Cardinality(ks) = IF Cardinality(keys) > MaxLines THEN MaxLines
                                               ELSE Cardinality(keys)}

ReadList ==
    /\ import.stage = "list" /\ import.todo # << >>
    /\ \/ ImportFails
       \/ /\ IntelWorks
          /\ \E keys \in ParseIndicatorList(Head(import.todo)) :
                import' = [stage |-> "put", day |-> import.day, todo |-> Tail(import.todo),
                           keys |-> keys]
    /\ UNCHANGED <<intelDay, lists, indicators, labels, refreshed, imported, listEdits>>

\* Every import overwrites the row, and with it the expiry.
PutIndicators(keys) ==
    /\ indicators' = [k \in DOMAIN indicators \cup keys |->
                         IF k \in keys THEN intelDay + IndicatorTtl ELSE indicators[k]]
    /\ imported' = [k \in IndicatorKeys |-> IF k \in keys THEN intelDay ELSE imported[k]]

\* One BatchWriteItem; what DynamoDB leaves unprocessed fails the import, what it took stays.
PutChunk ==
    /\ import.stage = "put" /\ import.keys # {}
    /\ \E chunk \in SUBSET import.keys :
          /\ chunk # {} /\ Cardinality(chunk) <= ChunkSize
          /\ \/ IntelWorks /\ PutIndicators(chunk) /\ import' = [import EXCEPT !.keys = @ \ chunk]
             \/ ImportFails /\ \E taken \in SUBSET chunk : taken # chunk /\ PutIndicators(taken)
    /\ UNCHANGED <<intelDay, lists, labels, refreshed, listEdits>>

NextList ==
    /\ \/ import.stage = "put" /\ import.keys = {}
             /\ import' = [stage |-> "list", day |-> import.day, todo |-> import.todo]
       \/ import.stage = "list" /\ import.todo = << >>
             /\ import' = [stage |-> "done", day |-> import.day]
    /\ UNCHANGED <<intelDay, lists, indicators, labels, refreshed, imported, listEdits, intelFaults>>

-----------------------------------------------------------------------------
(* The runner.                                                             *)

\* pathIndicators(): the facts of a path that can be on a list; CVE ids in upper case.
PathIndicators ==
    {IF c[1] \in {"cve", "epss"} THEN <<c[1], Upper[c[2]]>> ELSE c : c \in OnThePath}

\* Mutant: a refresh spreads the metadata and so keeps yesterday's labels.
LabelsSpread(matches) == IF matches = {} THEN labels ELSE matches

\* metadataWithLabels(): a refresh clears the labels that no longer apply.
MetadataWithLabels(matches) == matches

FindIndicators(candidates) == candidates \cap DOMAIN indicators

\* A lookup that fails scores without matches.
RefreshIssue ==
    /\ refreshed < intelDay \/ import.stage = "done"
    /\ \/ IntelWorks /\ labels' = MetadataWithLabels(FindIndicators(PathIndicators))
       \/ IntelFault /\ labels' = MetadataWithLabels({})
    /\ refreshed' = intelDay
    /\ UNCHANGED <<intelDay, lists, indicators, import, imported, listEdits>>

IntelNext ==
    \/ EditList \/ NextIntelDay
    \/ StartImport \/ ReadList \/ PutChunk \/ NextList
    \/ RefreshIssue

IntelSpec == IntelInit /\ [][IntelNext]_intelVars

-----------------------------------------------------------------------------
(* Type correctness: what an invocation carries depends on its stage.      *)
ImportStates ==
    {NoImport} \cup [stage : {"list", "failed"}, day : 1..MaxIntelDay, todo : Seq(IndicatorTypes)]
    \cup [stage : {"put", "failed"}, day : 1..MaxIntelDay, todo : Seq(IndicatorTypes),
          keys : SUBSET IndicatorKeys]
    \cup [stage : {"done"}, day : 1..MaxIntelDay]
IntelTypeOK ==
    /\ intelDay \in 1..MaxIntelDay /\ refreshed \in 0..intelDay
    /\ listEdits \in 0..MaxListEdits /\ intelFaults \in 0..MaxIntelFaults
    /\ \A t \in IndicatorTypes : lists[t] \subseteq ListValues[t]
    /\ import \in ImportStates /\ imported \in [IndicatorKeys -> 0..intelDay]
    /\ import.stage = "put" => Cardinality(import.keys) <= MaxLines
    /\ DOMAIN indicators \subseteq IndicatorKeys /\ labels \subseteq PathIndicators
    /\ \A k \in DOMAIN indicators : indicators[k] + IndicatorLag >= intelDay

(* A label an issue carries is one the customer's lists vouched for not    *)
(* longer ago, at the refresh, than an indicator lives: an indicator taken *)
(* off the list, or one whose lookup failed, does not label the issue for  *)
(* ever (metadataWithLabels, the row's expiry).                            *)
LabelsAreCurrent ==
    \A k \in labels :
        imported[k] > 0 /\ imported[k] + IndicatorTtl + IndicatorLag >= refreshed

(* As long as the last completed import is younger than the time to live,  *)
(* an indicator that import read is found, whatever failed since then.     *)
ImportedStayFound ==
    \A k \in IndicatorKeys :
        imported[k] > 0 /\ imported[k] + IndicatorTtl >= intelDay => k \in DOMAIN indicators

(* An identifier of the path that an import read from a list and whose row *)
(* lives labels the issue at every refresh whose lookup succeeds, for      *)
(* identifiers whose case does not matter (CVE ids).                       *)
Vouched(c) ==
    LET k == <<c[1], Upper[c[2]]>>
    IN k \in IndicatorKeys /\ imported[k] > 0 /\ imported[k] + IndicatorTtl >= intelDay
Labelled(c) == {c, <<c[1], Upper[c[2]]>>} \cap labels # {}
Refreshes ==
    /\ refreshed' = intelDay /\ intelFaults' = intelFaults
    /\ UNCHANGED <<intelDay, indicators, import, imported, listEdits>>
ListedCvesLabel ==
    [][Refreshes => \A c \in OnThePath :
          c[1] \in {"cve", "epss"} /\ Vouched(c) => Labelled(c)']_intelVars

(* A label an issue carries is one the customer's lists vouched for not    *)
(* longer ago, at the refresh, than an indicator lives; an indicator the   *)
(* last completed import read is found, whatever failed since; and a CVE   *)
(* on the path that a list vouches for labels the issue at every refresh   *)
(* that can look it up.                                                    *)
ThreatsAreLabelled ==
    [](IntelTypeOK /\ LabelsAreCurrent /\ ImportedStayFound) /\ ListedCvesLabel
=============================================================================
