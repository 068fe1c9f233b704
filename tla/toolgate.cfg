SPECIFICATION Spec
CONSTANTS
  Tools <- MCTools
  Unrestricted = "all"
  DefaultPolicy <- MCPolicy
  EmptyPolicy <- MCPolicy
  Prefixed <- MCPrefixed
  Searches = {}
  Calls <- MCCalls
  Allowed <- MCTools
  Reasoning = "reasoning_step"
  ToolPolicy <- MCPolicy
  Setups <- MCSetups
  MaxToolCalls = 2
  MaxPerWindow = 1
  Window = 1
  MaxChain = 1
  MaxTurns = 2
  MaxClock = 2
  MaxResumes = 1
  NoTool = "none"
INVARIANTS ActionsPerTurn ReasonedFirst LimitsHold ApprovedRuns
CHECK_DEADLOCK FALSE
