SPECIFICATION MCSpec
CONSTANTS
  Grades = {g1}
  Cells = {c1}
  Values = {9}
  Workers = {w1, w2}
  MaxFailures = 0
  None = None
PROPERTIES
  ClosedOnlyReopened
