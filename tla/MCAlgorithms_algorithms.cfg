CONSTANTS
  p0 = p0
  p1 = p1
  p2 = p2
  p3 = p3
  p4 = p4
  Principal = {p0, p1, p2, p3, p4}
  Target = p0
  MaxHops = 3
  MaxTrusts = 5
  None = None
  Trusts <- SearchTrusts
  AccountOrder <- TwoAccounts
  SecretIn <- SecretOf
  PolicyRows <- GrantRows
  SecretsMatching <- NamedSecrets
  Literal = {"arn1", "arn2", "arn:s3"}
  Elsewhere = {"arn:s3"}
  Covers <- PatternCovers
  Statements <- EffectStatements
  AdminRoles <- PassedRoles
  Self <- OnePrincipal
  MaxStatements = 3
  SecurityGroups = {"g"}
  Acls = {"a1", "a2"}
  Subnets = {"s"}
  Vpcs = {"v"}
  Ranges <- PortRanges
  Entries <- AclEntries
  RuleNumbers = {100, 200}
  ServerPorts = {22, 3389}
  MaxNetworkChanges = 2
SPECIFICATION AllSpec
SYMMETRY Symmetry
INVARIANTS WalkIsExact
           PoliciesMeanWhatIamSays
           ScoresAreRobust
           NetworkRulesAreExact
           
           ReadersAreExact
           
CHECK_DEADLOCK FALSE
