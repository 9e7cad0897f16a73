SPECIFICATION Spec
CONSTANTS
  Events = {e1, e2}
  MaxLen = 3
  MaxChanges = 3
  MaxOutside = 2
INVARIANTS
  CacheSound
  CheckpointNamesDurableHead
  DamageStaysRefused
PROPERTIES
  AppendsOnlyToVerifiedLog
  AnswersAreTrue
CHECK_DEADLOCK FALSE
