SPECIFICATION ContextSpec
CONSTANTS
  Inputs <- MCInputs
  Results <- MCResults
  Findings <- MCFindings
  Own = "i1"
  Setups <- MCSetups
  KeepResults = 2
  MaxMessages = 4
  MaxEntries = 2
  MaxChars = 3
  TTL = 1
  MaxCalls = 2
  MaxClock = 2
INVARIANTS ResultsHaveCalls LastTurnShown MemoryIsSound ShownIsGuarded
CHECK_DEADLOCK FALSE
