SPECIFICATION FairSpec
CONSTANTS
  RowsPerHour = 3
  CodeOf <- MCCodeOf
  Hours = 1
  RowsBudget = 4
  MaxPage = 5
  MaxRows = 9
  NullChoices <- MCNoNulls
  GrowWhilePaging = FALSE
  NoRow = NoRow
PROPERTIES
  OverlapIsSafe
