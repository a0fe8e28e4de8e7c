SPECIFICATION Spec
CONSTANTS
  LastJob = 2
  Deps <- MCDeps3
  Exported <- AllExported
  LastExporter = 2
  Steps = 2
  StartBlock = None
  EndBlock = 3
  MaxRetries = 3
  RetryErrors = TRUE
  RecorderKind = "file"
  None = None
  MaxBlock = 3
  MaxLag = 1
  MaxFaults = 2
  MaxCrashes = 1
INVARIANTS TypeOK NoSilentGap DerivedFromStored NoLeftovers MemoryMatchesRecord
PROPERTIES RecordNeverRegresses ImplementsBlockSync
