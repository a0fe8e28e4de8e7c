SPECIFICATION FairSpec
CONSTANTS
  StartBlock = 1
  EndBlock = 7
  Steps = 2
  MaxFaults = 2
  Transactions <- MCTransactions
  Calls <- MCCalls
  Miner <- MCMiner
  Missions <- MCMissions
  PlanOf <- MCPlanOf
  Watched <- MCWatched
  Filtered <- MCFiltered
  PoolLogs <- MCPoolLogs
  Pools <- MCPools
  FactoryPools <- MCFactoryPools
  NftLogs <- MCNftLogs
  Bundles <- MCBundles
  BundleLogs <- MCBundleLogs
INVARIANTS
  TypeOK
  
  CountsAreBacked
  KnownIsStored
  ActivenessExact
  OperationsArePaired
PROPERTIES
  ImplementsTables
  Reaches
\* a mission stops at its end block, or at an obstacle
CHECK_DEADLOCK FALSE
