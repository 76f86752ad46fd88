CONSTANTS
  Requests = {r}
  Tries = 2
  Attempts = 2
  MaxConcurrency = 2
  Sockets = {1, 2}
  None = None
  OrganizationAccounts = {"a1", "a2"}
  Units = {"root", "ou", "other"}
  Home <- OrgHome
  Above <- OrgAbove
  ParentIds <- OrgParents
  AccountIds = {"a2"}
  CollectionRegions <- OrgRegions
  MaxChanges = 1
  Workers = {"w1", "w2"}
  MaxAttempts = 2
  SweepRegions = {"ra"}
  NoItem = NoItem
  StageOrder <- AccountStages
  StageConcurrency = 2
  Resources <- StageResources
  Findings = {"h1", "h2"}
  Vulnerabilities = {"v1"}
  Limit = 1
  MaxAccountChanges = 1
  MaxAccountFaults = 1
  MaxAccountRuns = 2
  Accounts = {"a", "b"}
  KindOrder <- IamKinds
  Principals <- IamPrincipals
  LocalPolicies <- IamOwners
  ManagedPolicies = {"M"}
  Initially <- IamAttachments
  MaxIamChanges = 1
  MaxVersion = 2
  MaxIamRuns <- IamWalks
  Nobody = "nobody"
  MaxStageChanges = 3
  MaxStageRuns = 2
  RegionOrder <- GuardDutyRegions
  RegionOf <- FindingRegion
  TargetOf <- FindingTarget
  GetBatch = 1
  MaxSweepChanges = 2
  MaxSweepFaults = 1
  MaxSweeps = 2
  EventTargets <- EventOrder
  Poison = {1}
  Uneventful = {4}
  MaxReceives = 3
  MaxBatchFaults = 2
  MaxDeparted = 1
SPECIFICATION AllSpec
INVARIANTS AccountsAreCovered
           
PROPERTIES WriterDelivers
           
           FindingsAreMirrored
           EventsAreHandled
CHECK_DEADLOCK FALSE
