SPECIFICATION Spec
CONSTANTS
  Roots = {"a", "b"}
  Files = {"g"}
  Dirs = {"top", "sub"}
  TopOf <- MCTopOf
  ParentOf <- MCParentOf
  DirOf <- MCDirOf
  Recursive = {"a"}
  Contents = {x, y}
  PassEntries = 2
  MaxEdits = 1
  MaxTrouble = 0
  MaxPolicies = 2
SYMMETRY Interchangeable
INVARIANTS
  SignaturesNameContents
PROPERTIES
  CompletedMeansCovered
  CompletedForgetsTheGone
CHECK_DEADLOCK FALSE
