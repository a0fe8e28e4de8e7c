SPECIFICATION Spec
CONSTANTS
  Histories <- MCHistories
  To <- MCTo
  Steps = 2
  MaxFailures = 2
INVARIANTS
  TypeOK
  MessagesStored
  ShownIsTrue
PROPERTY
  ShownNeverGoesBack
CHECK_DEADLOCK FALSE
