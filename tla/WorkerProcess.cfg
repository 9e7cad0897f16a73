SPECIFICATION FairSpec
CONSTANTS
  Files = {"a"}
  Dirs = {"top"}
  DirOf <- MCDirOf
  Contents = {"x", "y"}
  Torn = "torn"
  MaxChanges = 2
  Input = 2
  Reply = 2
  PipeSize = 1
  MaxOutput = 3
  MaxExtra = 2
INVARIANTS
  ResultIsWhole
  SourcesWereThere
PROPERTIES
  RunsEnd
CHECK_DEADLOCK FALSE
