\* Three calls, two in flight at once, without a buyer to ask.
SPECIFICATION FairSpec
CONSTANTS
  c1 = c1
  c2 = c2
  c3 = c3
  None = None
  Calls = {c1, c2, c3}
  SovKinds = {}
  Overlap = 2
  Mode = "standard"
  SovGuardOn = TRUE
  Requests <- CountedCalls
  MaxReads = 1
  MaxWrites = 1
  MaxTransfer = 1
  FailureThreshold = 2
INVARIANTS NoUnvettedWrite CountsMatchLog OvershootBounded
PROPERTY EveryCallAnswered
CHECK_DEADLOCK FALSE
