SPECIFICATION MCSpec
CONSTANTS
  TidMax = 3
  RecoveryModes <- MCLinkModes
  Faults = {"reset", "restart", "skip", "full"}
  Prompt = TRUE
  MaxRequests = 6
  MaxUnanswered = 3
  MaxResets = 2
INVARIANTS
  TypeOK
  NothingLeftBehind
  AcceptedAnswersRequest
  FreshNotRefused
PROPERTIES
  FreshImplementsRequest
  FaultyCallReturns
CHECK_DEADLOCK FALSE
