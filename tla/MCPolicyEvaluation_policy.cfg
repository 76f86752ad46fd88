CONSTANTS
  u = u
  m = m
  t = t
  None = None
  Principal = {u, t}
  Passable = {t}
  Trusts <- MCTrusts
  Run = {r1, r2}
  MaxHops = 3
  MaxChanges = 2
SPECIFICATION Spec
SYMMETRY Symmetry
CONSTRAINT FewChanges
CHECK_DEADLOCK FALSE
INVARIANTS EvaluationIsExact
PROPERTIES WhatHoldsIsKept
