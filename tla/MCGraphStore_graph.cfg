CONSTANTS
  a = a
  b = b
  s = s
  A = A
  B = B
  ra1 = ra1
  ra2 = ra2
  rb = rb
  None = None
  Shared = Shared
  Resource = {a, b, s}
  Account = {A, B}
  Owner <- MCOwner
  Link <- MCLink
  Evented = {a}
  Blind = {a}
  Run = {ra1, ra2, rb}
  AccountOf <- MCAccountOf
  BatchSize = 1
  MaxChanges = 2
SPECIFICATION Spec
SYMMETRY Symmetry
CONSTRAINT OneDisturbance
CHECK_DEADLOCK FALSE
INVARIANTS TypeOK EdgesHaveEndpoints RunMirrorsAws
PROPERTIES AttachmentsKept NewerObservationsKept SeenIsNotDropped
