SPECIFICATION FairSpec
CONSTANTS
  Inodes = {"i", "j"}
  Private = {}
  Contents = {"text", "harmful", "torn"}
  Torn = "torn"
  Large = {}
  Long = {}
  Binary = {}
  Secret = {}
  OutputOf <- MCOutputOf
  Thresholds <- MCThresholds
  MaxRequests = 3
  RateLimit = 1
  Window = 1
  MaxTime = 2
  MaxEdits = 3
  MaxChanges = 1
INVARIANTS
  DeliversWhatWasScanned
  TokenStaysLocal
  CallsAreLimited
PROPERTIES
  CallsEnd
CHECK_DEADLOCK FALSE
