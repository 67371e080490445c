\* A standard session without SovGuard: two writes in flight, one allowed.
SPECIFICATION Spec
CONSTANTS
  c1 = c1
  c2 = c2
  None = None
  Calls = {c1, c2}
  SovKinds = {}
  Overlap = 2
  Mode = "standard"
  SovGuardOn = FALSE
  Requests <- OnlyWrites
  MaxReads = 1
  MaxWrites = 1
  MaxTransfer = 2
  FailureThreshold = 3
INVARIANT WritesWithinLimit
CHECK_DEADLOCK FALSE
