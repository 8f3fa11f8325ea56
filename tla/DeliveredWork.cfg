SPECIFICATION Spec
CONSTANTS
  MaxFaults = 2
  MergeOps = {m1, m2}
  Callers = {c1, c2}
  None = None
INVARIANTS
  OutcomesAreTrue
PROPERTIES
  OnlyProvenWorkIsRemoved
  HeldWorkIsRemoved
CHECK_DEADLOCK FALSE
