SPECIFICATION FairSpec
CONSTANTS
  r1 = r1
  r2 = r2
  Requests = {r1, r2}
  Outputs <- MCOutputs
  Thresholds <- MCThresholds
  Slots = 1
  MaxPolicies = 2
INVARIANTS
  AnswersAreRecorded
  RecordsAreAudited
  ReportsAgree
  SlotsConserved
PROPERTIES
  RecordsFollowPolicy
  RequestsAnswered
CHECK_DEADLOCK FALSE
