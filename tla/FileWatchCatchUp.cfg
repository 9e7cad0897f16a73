SPECIFICATION FairSpec
CONSTANTS
  Roots = {"a"}
  Files = {"g"}
  Dirs = {"top", "sub"}
  TopOf <- MCTopOf
  ParentOf <- MCParentOf
  DirOf <- MCDirOf
  Recursive = {"a"}
  Contents = {"x", "large"}
  PassEntries = 1
  MaxEdits = 2
  MaxTrouble = 1
  MaxPolicies = 2
PROPERTIES
  ChangesAreIndexed
CHECK_DEADLOCK FALSE
