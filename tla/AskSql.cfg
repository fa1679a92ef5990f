SPECIFICATION FairSpec
CONSTANTS
  Text <- MCText
  Unparsable = Unparsable
  Views = {"view"}
  Name = {"view", "base", "cte"}
  Bound = {0, 1, 2, 4, 5}
  NoLimit = NoLimit
  NoName = NoName
  DefaultLimit = 2
  MaxLimit = 4
  MaxAttempts = 2
  None = None
INVARIANTS
  TraceIsComplete
PROPERTIES
  OnlySafeRuns
  QuestionEnds
CHECK_DEADLOCK FALSE
