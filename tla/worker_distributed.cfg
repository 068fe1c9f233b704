SPECIFICATION FairSpec
CONSTANTS
  Plan <- TwoPersonas
  Sequential = TRUE
  Workers = {w1, w2}
  Requests = {}
  Dangerous <- SecondDangerous
  NumRecipients = 1
  InProcess = FALSE
  MaxPauses = 2
  MaxQueue = 3
  MaxCrashes = 1
INVARIANTS
  UpstreamFirst
  NoJobLost
  SandboxReleased
PROPERTIES
  EveryPersonaUnblocked
CHECK_DEADLOCK FALSE
