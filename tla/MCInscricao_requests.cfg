SPECIFICATION MCSpec
CONSTANTS
  Candidates = {c1, c2}
  Students = {s1, s2}
  Guardians = {g1, g2}
  Documents = {d1, d2}
  Scores = {9, 10, 21}
  PassingScore = 10
  Workers = {w1, w2}
  MaxCrashes = 1
  MaxRequests = 6
  None = None
SYMMETRY Symmetry
CHECK_DEADLOCK FALSE
INVARIANTS
  StudentsDistinct
  CandidatesConsistent
  InscriptionIsWhole
PROPERTIES
  AdmittedIsFinal
