SPECIFICATION Spec
CONSTANTS
  TidMax = 7
  RecoveryModes <- MCLinkModes
  Faults = {"reset"}
  Prompt = TRUE
  MaxRequests = 4
  MaxUnanswered = 3
  MaxResets = 1
INVARIANT AnswerNotRefused
CHECK_DEADLOCK FALSE
