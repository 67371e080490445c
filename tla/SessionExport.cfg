\* A standard session without SovGuard and with a single write.
SPECIFICATION Spec
CONSTANTS
  c1 = c1
  None = None
  Calls = {c1}
  SovKinds = {}
  Overlap = 1
  Mode = "standard"
  SovGuardOn = FALSE
  Requests <- OnlyWrites
  MaxReads = 1
  MaxWrites = 1
  MaxTransfer = 2
  FailureThreshold = 3
INVARIANT LandedIsExported
CHECK_DEADLOCK FALSE
