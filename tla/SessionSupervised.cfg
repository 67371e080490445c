\* Two overlapping calls in supervised mode with SovGuard.
SPECIFICATION Spec
CONSTANTS
  c1 = c1
  c2 = c2
  None = None
  Calls = {c1, c2}
  SovKinds = {"sovguard", "failure"}
  Overlap = 2
  Mode = "supervised"
  SovGuardOn = TRUE
  Requests <- WritesAndReads
  MaxReads = 1
  MaxWrites = 1
  MaxTransfer = 1
  FailureThreshold = 1
INVARIANTS TypeOK NoUnvettedWrite AgentToldTruth LogTruthful OperationsLogged OnlyFlaggedReported
PROPERTY ImplementsCallService
SYMMETRY CallSymmetry
CHECK_DEADLOCK FALSE
