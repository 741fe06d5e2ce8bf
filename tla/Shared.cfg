SPECIFICATION SharedSpec
CONSTANTS
  Nobody = Nobody
  Threads = {a, b}
  MaxRequests = 1
INVARIANT OwnAnswer
CHECK_DEADLOCK FALSE
