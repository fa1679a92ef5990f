SPECIFICATION FairSpec
CONSTANTS
  RowsPerHour = 3
  CodeOf <- MCCodeOf
  Hours = 1
  RowsBudget = 5
  MaxPage = 2
  MaxRows = 12
  NullChoices <- MCNullChoices
  GrowWhilePaging = TRUE
  NoRow = NoRow
INVARIANTS
  TypeOK
  NoRowSkipped
  DeliveryBound
  ShortFetchIsComplete
  QuietFetchIsExact
PROPERTIES
  FetchEnds
CHECK_DEADLOCK TRUE
