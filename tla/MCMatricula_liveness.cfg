SPECIFICATION Spec
CONSTANTS
  a1 = a1
  a2 = a2
  b1 = b1
  Enrollments = {e1, e2, e3}
  Students = {s1}
  Classes = {a1, b1}
  Years = {1, 2}
  YearOf <- MCYearOf
  Capacity <- MCCapacity
  WebWorkers = {w1}
  TaskWorkers = {q1}
  ForceOptions = {FALSE}
  MaxCrashes = 1
  None = None
PROPERTIES
  EventuallyActivated
