\* Three calls may all wait for the buyer at once, SovGuard prompts included.
SPECIFICATION SFairSpec
CONSTANTS
  c1 = c1
  c2 = c2
  c3 = c3
  None = None
  Calls = {c1, c2, c3}
  SovKinds = {"sovguard", "failure"}
  Overlap = 3
INVARIANTS STypeOK NoApprovalLost AnswerFitsPrompt AnswersLastPrompt
PROPERTIES ImplementsApprovals LonePromptsSettle
CHECK_DEADLOCK FALSE
