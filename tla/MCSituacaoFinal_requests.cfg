SPECIFICATION MCSpec
CONSTANTS
  s1 = s1
  s2 = s2
  e1 = e1
  Enrolments = {e1, e2}
  Students = {a1}
  StudentOf <- MCStudentOf
  Subjects = {s1, s2}
  Lessons = {l1}
  SubjectOf <- MCSubjectOf
  Hours <- MCHours
  LimitHours <- MCLimit
  Terms = {t1, t2}
  Values = {8, 12}
  MaxRecoverable = 1
  Texts = {"", "illness"}
  Blank = ""
  Workers = {w1, w2}
  MaxRequests = 4
  MaxCrashes = 1
  None = None
SYMMETRY Symmetry
CHECK_DEADLOCK FALSE
INVARIANT
  NothingByOmission
PROPERTIES
  AloneIsCurrent
  AloneKeepsAdjustment
  AloneKeepsJustification
  AloneMarksClass
