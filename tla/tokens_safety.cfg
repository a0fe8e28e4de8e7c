SPECIFICATION Spec
CONSTANTS
  Missions = {"old", "new"}
  From <- MCFrom
  To <- MCTo
  Steps = 2
  Chain <- MCChain
  Addresses = {"a", "b"}
  ZeroAddress = "zero"
  TokenAddresses = {"coin", "art", "multi"}
  ContractType <- MCContractType
  Countable = {"coin"}
  MaxFailures = 1
  MaxCrashes = 1
INVARIANTS TypeOK TransfersStored UpsertsTouchARowOnce TokensDescribed RowsAreCurrent
PROPERTIES RowsOnlyImprove
\* missions with an end block stop
CHECK_DEADLOCK FALSE
