SPECIFICATION MCSpec
CONSTANTS
  MaxRollbacks = 2
  Workers = {w1, w2}
  Usernames = {u1, u2}
  Offered <- MCOffered
  MaxGrades = {1000, 2000}
  NodeId = None
  MaxRequests = 4
  MaxCrashes = 1
  None = None
SYMMETRY Symmetry
CHECK_DEADLOCK FALSE
INVARIANTS
  NeverOrphaned
  AverageWithinTolerance
  RollbackLosesOnlyOverlap
PROPERTIES
  AloneNodeHasKey
  AloneKeepsFormula
