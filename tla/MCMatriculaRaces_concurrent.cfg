SPECIFICATION MCSpec
CONSTANTS
  a1 = a1
  a2 = a2
  b1 = b1
  Enrollments = {e1, e2, e3}
  Students = {s1, s2}
  Classes = {a1, a2, b1}
  Years = {1, 2}
  YearOf <- MCYearOf
  Capacity <- MCCapacity
  WebWorkers = {w1, w2}
  TaskWorkers = {w2}
  ForceOptions = {FALSE}
  MaxCrashes = 1
  None = None
SYMMETRY Symmetry
INVARIANTS
  NumbersSequential
  ClosedRowsExplained
  OverbookingBounded
PROPERTIES
  ImplementsService
  OnlyCancelsLoseAPlace
