SPECIFICATION Spec
CONSTANTS
  Plan <- ThreePersonas
  Sequential = TRUE
  Workers = {w1, w2}
  Requests = {}
  Dangerous <- NoneDangerous
  NumRecipients = 1
  InProcess = TRUE
  MaxPauses = 1
  MaxQueue = 3
  MaxCrashes = 0
PROPERTIES
  ImplementsLifecycle
CHECK_DEADLOCK FALSE
