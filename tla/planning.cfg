SPECIFICATION FairSpec
CONSTANTS
  Events = {"e1", "e2"}
  Deployments <- Supported
  Answers <- SomeAnswers
  Fallback <- ShortFallback
  Personas <- SomePersonas
  Workers = {"w1", "w2"}
INVARIANTS
  WorkKept
  ChainKeepsApart
  RunsInChain
  ReadyPlanIsReal
PROPERTIES
  AcceptedIsEnqueued
CHECK_DEADLOCK FALSE
