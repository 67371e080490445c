\* Two calls overlap and SovGuard prompts are possible.
SPECIFICATION SFairSpec
CONSTANTS
  c1 = c1
  c2 = c2
  None = None
  Calls = {c1, c2}
  SovKinds = {"sovguard"}
  Overlap = 2
PROPERTY EveryPromptSettles
CHECK_DEADLOCK FALSE
