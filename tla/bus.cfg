SPECIFICATION Spec
CONSTANTS
  Agents <- SomeAgents
  Names <- SomeNames
  Trust <- TrustLevels
  Recipients <- AllRecipients
  Escalations <- ToRedteam
  Threshold = 2
  Reset = 2
  MaxAge = 1
  MaxTime = 4
  MaxSent = 1
  MaxFailures <- SocFails
INVARIANTS
  BreakerIsExact
CHECK_DEADLOCK FALSE
