SPECIFICATION Spec
CONSTANTS
  Rows <- MCRows
  NoRow <- MCNoRow
  Parent <- MCParent
  BlockOf <- MCBlockOf
  First = 1
  Steps = 2
  DayOf <- MCDayOf
  Requests <- MCRequests
  PageSize = 2
  MaxShown = 4
  MaxWalks = 2
INVARIANTS TypeOK TotalsAreExact 
CHECK_DEADLOCK FALSE
