CONSTANTS
  u = u
  m = m
  t = t
  None = None
  Principal = {u, t}
  Passable = {t}
  Trusts <- MCTrusts
  Run = {r1, r2}
  MaxHops = 3
  MaxChanges = 0
SPECIFICATION Spec
CHECK_DEADLOCK FALSE
PROPERTIES OnlyUndetectedDropped
