SPECIFICATION FairSpec
CONSTANTS
  Missions = {"old"}
  From <- MCOneFrom
  To <- MCOneTo
  Steps = 1
  Chain <- MCSmallChain
  Addresses = {"a", "b"}
  ZeroAddress = "zero"
  TokenAddresses = {"coin"}
  ContractType <- MCSmallContractType
  Countable = {"coin"}
  MaxFailures = 1
  MaxCrashes = 1
PROPERTIES Resumes
\* missions with an end block stop
CHECK_DEADLOCK FALSE
