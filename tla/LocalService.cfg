SPECIFICATION FairSpec
CONSTANTS
  Sources = {"s"}
  Callers = {"lifespan", "c1", "c2"}
  MaxEdits = 1
  MaxTroubles = 1
  MaxCalls = 2
  MaxStarts = 2
INVARIANTS
  CommandsRunOnce
  SwitchHolds
PROPERTIES
  ChangesAreRefreshed
CHECK_DEADLOCK FALSE
