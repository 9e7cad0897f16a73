SPECIFICATION Spec
CONSTANTS
  Sources = {"s"}
  Components = {"c1"}
  SourceOf <- MCSourceOf
  Raws = {"base", "layout", "edited"}
  Unreadable = "unreadable"
  Definitions <- MCDefinitions
  Absent = "absent"
  Policies <- MCPolicies
  DefaultActions <- MCDefaultActions
  MaxEdits = 2
  MaxOutside = 1
  MaxApprovals = 2
  MaxPolicies = 2
INVARIANTS
  VersionNamesOneContent
PROPERTIES
  KeepsContract
  FailsClosed
CHECK_DEADLOCK FALSE
