SPECIFICATION FairSpec
CONSTANTS
  Findings <- TwoFindings
  Traffic <- SomeTraffic
  Setups <- AllSetups
  MaxFaults = 1
  MaxStops = 1
INVARIANTS
  NarratedInOrder
PROPERTIES
  FindingIsNarrated
CHECK_DEADLOCK FALSE
