SPECIFICATION Spec
CONSTANTS
  Texts <- MCTexts
  Blank = {"blank"}
  Rules <- MCRules
  Documents <- MCDocuments
  Limits <- MCLimits
  Tags = {"p", "pre", "span", "br", "img", "script"}
  Void = {"br", "img"}
  Block = {"p", "pre"}
  NoText = {"img", "script"}
  MaxDepth = 3
  MaxNodes = 5
  MaxSize = 5
  MaxVisible = 6
  Steps <- MCSteps
  Scalars = {"0", "1"}
  Sensitive = {"args"}
  Values <- MCValues
  DiffLimits = {1, 2, 9}
INVARIANTS
  CompleteMeansSearched
  TextIsWhatIsVisible
  DiffNamesEveryChange
CHECK_DEADLOCK FALSE
