SPECIFICATION FairSpec
CONSTANTS
  NumItems = 4
  StartingBatchSize = 2
  MaxWorkers = 2
  MaxRetries = 2
  MaxExecutions = 2
  MaxFaults = 2
INVARIANTS TypeOK ExactlyOnce QuietAfterReturn FailFast
PROPERTIES PoisonIsPermanent Returns
