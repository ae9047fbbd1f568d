SPECIFICATION MCSpec
CONSTANTS
  Candidates = {c1}
  Students = {s1, s2}
  Guardians = {g1, g2}
  Documents = {d1, d2}
  Scores = {9}
  PassingScore = 10
  Workers = {w1, w2}
  MaxCrashes = 0
  MaxRequests = 2
  None = None
SYMMETRY Symmetry
CHECK_DEADLOCK FALSE
INVARIANTS
  InscriptionsSerialized
