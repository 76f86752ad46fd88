CONSTANTS
  Issue = {i1}
  Run = {r1, r2}
  Analyst = {a1}
  AnalystOp = {"suppress", "reopen"}
  Resource = {}
  MaxSeverity = 2
  MaxTime = 1
  HistoryLimit = 2
  Sink = {}
  RetriedWrites = TRUE
  MaxAborts = 0
  MaxRequests = 1
  EarlierStatus = {"suppressed"}
  Earlier = Earlier
  None = None
SPECIFICATION Spec
CONSTRAINT RequestsOrSeverities
SYMMETRY Symmetry
INVARIANTS TypeOK HistoriesExplainStatus RecordsMatchStatus
PROPERTIES LifecycleSpec ResolvedRowsFrozen
CHECK_DEADLOCK FALSE
