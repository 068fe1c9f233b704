SPECIFICATION FairSpec
CONSTANTS
  Alerts <- MCAlerts
  UseDynamicCatalog = TRUE
  CatalogPlans <- MCCatalogPlans
  FilePlans <- MCPlans
  Served = {"soc"}
  Setups <- MCSetups
  MaxPosts = 3
  MaxFaults = 1
INVARIANTS NothingSkipped JobsAreWanted SandboxesAccounted
PROPERTIES AcceptedIsRouted JobsAreRun
CHECK_DEADLOCK FALSE
