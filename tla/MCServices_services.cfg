CONSTANTS
  Users = {"u"}
  Roles = {}
  Queries <- UsageQueries
  Margin = 1
  Window = 2
  Attempts = 2
  MaxDay = 3
  MaxFaults = 1
  Buckets = {"b1", "b2"}
  Nobody = "nobody"
  MaxChanges = 2
  MaxScanFaults = 1
  MaxScans = 1
  Interfaces = {"n1", "n2"}
  Addresses <- TwoAddresses
  Instances = {"i1", "i2"}
  FlowWindow = 1
  ObservationTtl = 1
  ObservationLag = 1
  MaxObservations = 2
  PerInterface = 1
  PerInstance = 1
  BatchSize = 1
  FlowAttempts = 2
  MaxFlowDay = 5
  MaxFlowFaults = 2
  MaxFlows = 1
  TypeOrder <- IntelTypes
  ListValues <- IntelValues
  Upper <- IntelUpper
  OnThePath <- IntelOnThePath
  IndicatorTtl = 1
  IndicatorLag = 1
  ChunkSize = 2
  MaxLines = 2
  MaxIntelDay = 4
  MaxListEdits = 1
  MaxIntelFaults = 1
  AccountOrder <- TwoAccounts
  SecretIn <- SecretOf
  PolicyRows <- SecretPolicies
  SecretsMatching <- NamedSecrets
  Literal = {"arn1", "arn2", "arn:s3"}
  Elsewhere = {"arn:s3"}
  RowLimit = 1
  Requests = {"q1", "q2"}
  Concurrency = 2
  CacheFor = 1
  Budget = 0
  MaxPolicyEdits = 1
  MaxFailedReads = 1
  MaxClock = 3
  LaneOrder <- ListedLanes
  Created <- TimesCreated
  Matching = {1, 2, 4}
  Limit = 2
  ReadSize = 1
  MaxReads = 3
  Existing = 3
  MaxMoves = 1
  Requirements = {"2.1.4"}
  Cells <- HubCells
  Implements <- HubImplements
  CisResults <- OwnResults
  Allowlist = {"2.1.4"}
  MinAgreementDays = 1
  Day = 2
  MaxGap = 1
  Epoch = 1
  MaxNow = 3
  MaxHubChanges = 1
  MaxRecFaults = 1
  MappedCitations <- SocCitations
  BaselineControls = {"KH-1"}
  MaxAge = 2
  ChangelogLimit = 4
  CisControls <- CisFoundationsV3
  KhalifaControls <- KhalifaBaseline
  Manual <- NotAutomated
  Evaluators <- Evaluated
  RelatedRules <- RulesMeasuring
  Citations <- CitedControls
  MaxOdd = 1
SPECIFICATION AllSpec
INVARIANTS 
           AssessmentsAreHonest
           CountsAreAnswered
           SettledIssuesListed
PROPERTIES UsageIsNotForgotten
           
           PageIsTrue
           TrafficIsObserved
           
CHECK_DEADLOCK FALSE
