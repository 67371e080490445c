\* A supervised session with SovGuard and a single write.
SPECIFICATION Spec
CONSTANTS
  c1 = c1
  None = None
  Calls = {c1}
  SovKinds = {"sovguard", "failure"}
  Overlap = 1
  Mode = "supervised"
  SovGuardOn = TRUE
  Requests <- OnlyWrites
  MaxReads = 1
  MaxWrites = 1
  MaxTransfer = 1
  FailureThreshold = 1
INVARIANT RetryScansAgain
CHECK_DEADLOCK FALSE
