CONSTANTS
  Issue = {i1}
  Run = {r1}
  Analyst = {a1}
  AnalystOp = {"suppress", "reopen"}
  Resource = {}
  MaxSeverity = 1
  MaxTime = 0
  HistoryLimit = 2
  Sink = {}
  RetriedWrites = FALSE
  MaxAborts = 0
  MaxRequests = 1
  EarlierStatus = {"resolved"}
  Earlier = Earlier
  None = None
SPECIFICATION Spec
PROPERTY ResolvedOnlyWhenUnmatched
CHECK_DEADLOCK FALSE
