SPECIFICATION Spec
CONSTANTS
  LastJob = 1
  Deps <- MCDeps2
  Exported <- AllExported
  LastExporter = 1
  Steps = 2
  StartBlock = None
  EndBlock = None
  MaxRetries = 3
  RetryErrors = TRUE
  RecorderKind = "pg"
  None = None
  MaxBlock = 4
  MaxLag = 1
  MaxFaults = 2
  MaxCrashes = 1
PROPERTY FailureHasCause
