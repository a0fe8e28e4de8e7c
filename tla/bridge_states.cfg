SPECIFICATION Spec
CONSTANTS
  Histories <- MCHistories
  To <- MCTo
  Steps = 2
  MaxFailures = 0
INVARIANT
  RelayedIsShown
CHECK_DEADLOCK FALSE
