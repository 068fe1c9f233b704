SPECIFICATION Spec
CONSTANTS
  Tools <- SomeTools
  Unrestricted = Unrestricted
  DefaultPolicy <- Default
  EmptyPolicy <- Empty
  Prefixed <- RunTools
  Searches <- SearchTools
  Procs = {"api", "worker"}
  Apis = {"api"}
  Ids = {"x"}
  Manifest <- OneFile
  Texts = {"edit", "attack"}
  FileText = "file"
  Dangerous = {"attack"}
  ToolsOf <- ToolsOfText
  SkillsOf <- SkillsOfText
  Patches <- SomePatches
  Profile = "soc"
  Deployments <- SomeDeployments
  MayRestart = TRUE
  MaxCalls = 3
INVARIANTS
  LoadedIsVetted
  MemorySamples
PROPERTIES
  RuntimeServes
  PlanBlockKept
CHECK_DEADLOCK FALSE
