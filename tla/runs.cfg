SPECIFICATION FairSpec
CONSTANTS
  Requests = {r1, r2}
  Plans <- SomePlans
  Answers <- SomeAnswers
  Files <- SomeFiles
  StrictPlan = FALSE
  Threshold = 55
  HitlOnExhausted = TRUE
  TaskHints = TRUE
  EveryN = 1
  RerunMax = 1
  MaxToolCalls = 1
  OneTool = {"conductor"}
  Parallel = 2
  RecursionLimit = 3
  MaxRestarts = 1
INVARIANTS
  BudgetHolds
  TodosAgree
  AttachmentsKept
  FailureIsTold
PROPERTIES
  StepEnds
CHECK_DEADLOCK FALSE
