SPECIFICATION Spec
CONSTANTS
  TidMax = 7
  RecoveryModes <- MCNoRecovery
  Faults = {"restart"}
  Prompt = FALSE
  MaxRequests = 5
  MaxUnanswered = 3
  MaxResets = 0
INVARIANT AcceptedAnswersRequest
CHECK_DEADLOCK FALSE
