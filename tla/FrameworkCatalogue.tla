-------------------------- MODULE FrameworkCatalogue ---------------------------
(* The tables of the compliance engine (risk-engine compliance-types,           *)
(* compliance-rules and framework-citations): the controls of the Center for    *)
(* Internet Security's benchmark and of Khalifa's baseline in the order they    *)
(* are assessed, how each is measured, and the requirements of the other        *)
(* frameworks with the controls they cite.                                      *)
EXTENDS Sequences, TLC

\* --- CIS_AWS_FOUNDATIONS_V3_CONTROLS ---------------------------------------
RootAndUsers ==
  <<"1.1", "1.2", "1.3", "1.4", "1.5", "1.6", "1.10", "1.14", "1.12", "1.15",
    "1.7">>
PasswordsAndStores ==
  <<"1.8", "1.9", "1.17", "2.1.1", "2.1.2", "2.2.1", "2.3.2", "2.4.1">>
TrailsAndStores ==
  <<"3.8", "3.9", "2.1.4", "2.3.1", "2.3.3", "3.1", "3.2", "3.5", "3.7",
    "3.4", "3.3">>
AlarmsAndNetwork ==
  <<"4.1", "4.3", "4.4", "4.5", "4.14", "4.8", "4.9", "5.2", "5.4", "4.16",
    "5.1">>
CertificatesAndKeys == <<"1.19", "1.20", "1.22", "3.6", "5.3", "5.6">>
CisFoundationsV3 == RootAndUsers \o PasswordsAndStores \o TrailsAndStores
                      \o AlarmsAndNetwork \o CertificatesAndKeys

\* --- KHALIFA_BASELINE_CONTROLS ---------------------------------------------
BaselineMonitoring ==
  <<"KH-1.8", "KH-1.15", "KH-1.19", "KH-1.22", "KH-4.4", "KH-4.11", "KH-4.12",
    "KH-3.10", "KH-3.11", "KH-4.1", "KH-5.7">>
BaselineBuckets ==
  <<"KH-5.8", "KH-2.2", "KH-2.3", "KH-2.4", "KH-2.5", "KH-2.6">>
BaselineStores ==
  <<"KH-2.8", "KH-2.10", "KH-2.11", "KH-2.12", "KH-2.13", "KH-2.14",
    "KH-2.15", "KH-2.16", "KH-3.4", "KH-3.5", "KH-5.1">>
BaselinePaths ==
  <<"KH-5.6", "KH-IAM-1", "KH-IAM-2", "KH-IAM-3", "KH-EXP-1", "KH-SH-1",
    "KH-VULN-1", "KH-PATH-1">>
BaselineOutcomes ==
  <<"KH-SEC-1", "KH-SEC-2", "KH-EKS-1", "KH-DET-1", "KH-DET-2", "KH-DET-3">>
KhalifaBaseline == BaselineMonitoring \o BaselineBuckets \o BaselineStores
                     \o BaselinePaths \o BaselineOutcomes

NotAutomated == {"1.1", "1.3"}  \* the controls that are not automated

\* The rules a control without an evaluator is measured by.
RulesMeasuring ==
     "1.7" :> {"RULE-020"} @@ "KH-IAM-1" :> {"RULE-004", "RULE-006"}
  @@ "KH-IAM-2" :> {"RULE-030", "RULE-034"} @@ "KH-IAM-3" :> {"RULE-031"}
  @@ "KH-EXP-1" :> {"RULE-001", "RULE-009"} @@ "KH-SH-1" :> {"RULE-018"}
  @@ "KH-VULN-1" :> {"RULE-003"}
  @@ "KH-DET-1" :> {"RULE-021", "RULE-022", "RULE-035", "RULE-036"}
  @@ "KH-DET-2" :> {"RULE-023"} @@ "KH-DET-3" :> {"RULE-029"}

\* The controls that have an evaluator (see ComplianceControls).
Evaluated ==
  {"1.4", "1.5", "1.10", "1.14", "1.12", "1.15", "1.8", "1.9", "KH-1.15",
   "1.17", "1.22", "1.20", "2.1.4", "2.1.2", "KH-2.2", "KH-2.3", "KH-2.4",
   "2.3.1", "2.3.2", "2.3.3", "KH-2.8", "KH-2.10", "KH-2.11", "KH-2.12",
   "KH-2.13", "KH-2.14", "KH-2.15", "KH-2.16", "3.1", "3.2", "3.3", "3.4",
   "3.5", "3.6", "3.7", "3.8", "3.9", "KH-3.4", "KH-3.5", "KH-3.10",
   "KH-3.11", "KH-4.1", "4.16", "5.1", "KH-5.1", "5.2", "5.3", "5.4",
   "KH-5.6", "5.6", "KH-5.7", "KH-EKS-1", "KH-SEC-1", "KH-SEC-2", "KH-PATH-1"}

\* --- FRAMEWORK_CITATIONS -----------------------------------------------------
Soc2 ==
     "CC6.1" :> {"1.4", "1.5", "1.7", "1.10", "1.15", "KH-1.8", "KH-1.19",
        "KH-IAM-1"}
  @@ "CC6.2" :> {"1.12", "1.14", "1.19", "KH-1.15"}
  @@ "CC6.3" :> {"1.15", "KH-1.19", "KH-IAM-1", "KH-IAM-2"}
  @@ "CC6.6" :> {"5.1", "5.2", "5.3", "5.4", "KH-5.1", "KH-5.6"}
  @@ "CC6.7" :> {"2.1.1", "KH-2.13", "KH-2.15", "KH-2.16"}
  @@ "CC7.1" :> {"KH-VULN-1", "3.3", "KH-3.10", "KH-3.11", "4.16", "KH-4.1"}
  @@ "CC7.2" :> {"4.1", "4.3", "4.4", "4.5", "4.8", "4.9", "4.14", "KH-4.4",
        "KH-4.11", "KH-4.12", "KH-DET-1", "KH-DET-2"}
  @@ "CC7.3" :> {"KH-DET-1", "KH-DET-2", "KH-DET-3", "KH-SH-1", "KH-EXP-1",
        "KH-PATH-1"}
  @@ "CC9.1" :> {"KH-2.5", "KH-2.8", "KH-2.10"}
IsoOrganization ==
     "A.5.15" :> {"1.12", "1.15", "KH-1.19", "KH-IAM-1", "KH-IAM-2"}
  @@ "A.5.16" :> {"1.12", "1.14", "KH-1.19"}
  @@ "A.5.17" :> {"1.4", "1.5", "1.6", "1.8", "1.9", "1.10", "KH-1.8",
        "KH-1.15"}
  @@ "A.5.23" :> {"2.1.4", "2.3.3", "KH-2.12", "KH-EKS-1"}
  @@ "A.5.33" :> {"3.2", "3.5", "KH-2.2", "KH-3.5"}
IsoTechnology ==
     "A.8.2" :> {"1.7", "4.3", "KH-IAM-1", "KH-IAM-2"}
  @@ "A.8.3" :> {"1.22", "KH-SEC-1", "KH-SEC-2"}
  @@ "A.8.5" :> {"1.5", "1.9", "1.10", "5.6", "KH-1.8"}
  @@ "A.8.8" :> {"2.3.2", "KH-VULN-1"}
  @@ "A.8.9" :> {"3.3", "KH-3.10", "KH-3.11", "KH-EKS-1"}
  @@ "A.8.12" :> {"2.1.4", "KH-SEC-1", "KH-SEC-2"}
  @@ "A.8.13" :> {"KH-2.5", "KH-2.8", "KH-2.10"}
  @@ "A.8.15" :> {"3.1", "3.4", "3.7", "3.8", "3.9", "KH-3.4"}
  @@ "A.8.16" :> {"4.1", "4.3", "4.4", "4.5", "4.8", "4.9", "4.14", "4.16",
        "KH-4.1", "KH-4.11", "KH-4.12", "KH-DET-1", "KH-DET-2", "KH-DET-3"}
  @@ "A.8.20" :> {"5.1", "5.2", "5.3", "5.4", "KH-5.1", "KH-5.6", "KH-5.8"}
  @@ "A.8.21" :> {"2.1.1", "KH-2.15", "KH-2.16"}
  @@ "A.8.24" :> {"2.2.1", "2.3.1", "2.4.1", "3.5", "3.6", "KH-2.3",
        "KH-2.6", "KH-2.11", "KH-2.13", "KH-2.14", "KH-2.16"}
PciDss ==
     "1.3" :> {"5.1", "5.2", "5.3", "5.4", "KH-5.1", "KH-5.6"}
  @@ "1.4" :> {"KH-5.7", "KH-5.8"}
  @@ "2.2" :> {"3.3", "KH-3.10", "KH-3.11", "KH-EKS-1"}
  @@ "3.5" :> {"2.2.1", "2.3.1", "2.4.1", "3.6", "KH-2.3", "KH-2.6",
        "KH-2.11", "KH-2.13", "KH-2.14"}
  @@ "4.2" :> {"2.1.1", "KH-2.15", "KH-2.16"}
  @@ "6.3" :> {"2.3.2", "KH-VULN-1"}
  @@ "7.2" :> {"1.15", "KH-1.19", "KH-IAM-1", "KH-IAM-2"}
  @@ "8.3" :> {"1.5", "1.6", "1.9", "1.10", "KH-1.8"}
  @@ "8.6" :> {"1.7", "1.12", "1.14", "KH-1.15"}
  @@ "10.2" :> {"3.1", "3.4", "3.7", "3.8", "3.9", "KH-3.4"}
  @@ "10.4" :> {"4.1", "4.3", "4.4", "4.5", "4.8", "4.9", "4.14", "KH-4.4",
        "KH-4.11", "KH-4.12", "KH-DET-1", "KH-DET-2"}
NistAccess ==
     "AC-2" :> {"1.12", "1.14", "KH-1.15", "KH-1.19"}
  @@ "AC-6" :> {"1.15", "KH-IAM-1", "KH-IAM-2"}
  @@ "AU-2" :> {"3.1", "3.4", "3.7", "KH-3.4"}
  @@ "AU-6" :> {"4.1", "4.3", "4.4", "4.5", "4.8", "4.9", "4.14", "KH-4.11",
        "KH-4.12", "KH-DET-1", "KH-DET-2", "KH-DET-3"}
  @@ "CM-6" :> {"3.3", "KH-3.10", "KH-3.11", "KH-EKS-1"}
  @@ "CP-9" :> {"KH-2.5", "KH-2.8", "KH-2.10"}
  @@ "IA-2" :> {"1.5", "1.6", "1.9", "1.10", "KH-1.8"}
  @@ "IA-5" :> {"1.4", "1.8", "1.9", "1.14", "KH-1.15"}
NistSystem ==
     "RA-5" :> {"KH-VULN-1", "KH-SH-1", "KH-DET-3"}
  @@ "SC-7" :> {"5.1", "5.2", "5.3", "5.4", "KH-5.1", "KH-5.6", "KH-5.8"}
  @@ "SC-8" :> {"2.1.1", "KH-2.15", "KH-2.16"}
  @@ "SC-12" :> {"3.6"}
  @@ "SC-13" :> {"2.2.1", "2.3.1", "2.4.1", "3.5", "KH-2.3", "KH-2.6",
        "KH-2.11", "KH-2.13", "KH-2.14"}
  @@ "SI-2" :> {"2.3.2", "KH-VULN-1"}
  @@ "SI-4" :> {"4.16", "KH-4.1", "KH-DET-1", "KH-DET-2", "KH-DET-3",
        "KH-SH-1"}
CitedControls ==
     "SOC2" :> Soc2 @@ "ISO27001" :> (IsoOrganization @@ IsoTechnology)
  @@ "PCI_DSS" :> PciDss @@ "NIST_800_53" :> (NistAccess @@ NistSystem)
================================================================================
