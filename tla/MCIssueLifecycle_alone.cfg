CONSTANTS
  Issue = {i1}
  Run = {r1}
  Analyst = {a1}
  AnalystOp = {"suppress"}
  Resource = {}
  MaxSeverity = 2
  MaxTime = 1
  HistoryLimit = 1
  Sink = {slack}
  RetriedWrites = FALSE
  MaxAborts = 1
  MaxRequests = 1
  EarlierStatus = {"suppressed"}
  Earlier = Earlier
  None = None
SPECIFICATION FairSpec
PROPERTIES EndingsAreJustified ProblemsAreMirrored
CHECK_DEADLOCK FALSE
