SPECIFICATION Spec
CONSTANTS
  Plan <- OnePersona
  Sequential = TRUE
  Workers = {w1, w2}
  Requests = {r1, r2}
  Dangerous <- FirstDangerous
  NumRecipients = 1
  InProcess = FALSE
  MaxPauses = 3
  MaxQueue = 3
  MaxCrashes = 1
INVARIANTS
  CompletedWasPublished
  ApprovalsHold
SYMMETRY WorkerSymmetry
CHECK_DEADLOCK FALSE
