SPECIFICATION Spec
CONSTANTS
  Sources = {"s"}
  Components = {"c1", "c2"}
  SourceOf <- MCSourceOf
  Raws = {"base", "edited", "removed"}
  Unreadable = "unreadable"
  Definitions <- MCDefinitions
  Absent = "absent"
  Policies <- MCPolicies
  DefaultActions <- MCDefaultActions
  MaxEdits = 2
  MaxOutside = 0
  MaxApprovals = 1
  MaxPolicies = 1
INVARIANTS
  GrantIsUsable
  HistoryServed
PROPERTIES
  IsolationStays
CHECK_DEADLOCK FALSE
