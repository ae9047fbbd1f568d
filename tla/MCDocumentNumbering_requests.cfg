SPECIFICATION Spec
CONSTANTS
  Types = {receipt, declaration}
  ReceiptType = receipt
  Candidates = {c1}
  Workers = {w1, w2}
  MaxNumber = 4
  MaxFailures = 2
  None = None
INVARIANTS
  NumberNeverReused
  NumbersAccounted
PROPERTIES
  EmissionEnds
  ImplementsRegister
