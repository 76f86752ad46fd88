CONSTANTS
  Change = {c1, c2}
  None = None
  MinInterval = 3
  Visibility = 3
  MaxReceives = 3
  MaxEvaluation = 2
  Crashes = FALSE
SPECIFICATION Spec
PROPERTIES SkippedAreCovered
