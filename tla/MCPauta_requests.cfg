SPECIFICATION MCSpec
CONSTANTS
  Grades = {g1, g2}
  Cells = {c1, c2}
  Values = {9, 10, 21}
  Workers = {w1, w2}
  MaxFailures = 1
  None = None
SYMMETRY Symmetry
PROPERTIES
  ImplementsPauta
  ClosedAgainstLateRequests
  LoopLeavesNoGrade
