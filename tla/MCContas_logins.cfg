SPECIFICATION MCSpec
CONSTANTS
  Users = {u1}
  Profiles = {"super_admin", "secretary"}
  SuperAdmin = "super_admin"
  Mandatory = {"super_admin"}
  MaxFailed = 2
  BaseLockout = 1
  BackoffFactor = 3
  MaxLockout = 2
  Workers = {w1, w2}
  MaxLockouts = 2
  MaxRequests = 2
  MaxCrashes = 1
  None = None
CHECK_DEADLOCK FALSE
INVARIANT
  LockoutProportional
PROPERTIES
  ImplementsLockout
  AloneSyncsGroups
  EventuallyLocked
