SPECIFICATION MCSpec
CONSTANTS
  Entities = {grade, user, year, sequence}
  Synced = {grade, year, sequence}
  Audited = {grade, user}
  Partial = {year}
  Bulk = {year}
  Locked = {sequence}
  Values = {a, b}
  Workers = {w1, w2}
  MaxRequests = 3
  MaxCrashes = 1
  Backups = {b1, b2}
  LastSecond = 1
  MaxFailures = 1
  BackupRequests = 1
  None = None
SYMMETRY Symmetry
CHECK_DEADLOCK FALSE
INVARIANTS
  StoredIsRecorded
  LockedVersionsIncrease
  ArchivesRestore
PROPERTY
  AloneLeavesTrace
