CONSTANTS
  c1 = c1
  c2 = c2
  Change = {c1, c2}
  None = None
  MinInterval = 3
  Visibility = 3
  MaxReceives = 3
  MaxEvaluation = 4
  Crashes = TRUE
SPECIFICATION AllSpec
PROPERTIES EvaluationsCount SignalsAreServed ReportsAreTrue
CHECK_DEADLOCK FALSE
