SPECIFICATION ScopedSpec
CONSTANTS
  Years = {y1, y2}
  Terms = {t1}
  Dates = {1, 2, 3}
  Numbers = {1}
  Holidays = 2
  Classes = {c1}
  Slots = {s1, s2, s3}
  Cycles = {o1, o2}
  Courses = {k1, k2}
  Grades = {g1, g2}
  Subjects = {d1}
  Teachers = {p1}
  Rooms = {r1}
  Days = {1}
  Hours = {1, 2, 3}
  Workers = {w1, w2}
  MaxRows = 2
  MaxRequests = 3
  MaxCrashes = 1
  None = None
  FirstYear = 1900
  LastYear = 2299
SYMMETRY WorkerSymmetry
CHECK_DEADLOCK FALSE
INVARIANTS
  ClashesBounded
  EasterMatches
PROPERTIES
  AloneMarks
  AloneChecks
  AloneSeeds
