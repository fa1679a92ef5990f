SPECIFICATION FairSpec
CONSTANTS
  Period = {1, 2, 3, 4, 5}
  Limits = {1, 2}
  NoBound = NoBound
  NoCursor = NoCursor
INVARIANTS
  TypeOK
  NothingTwice
  NothingMissed
PROPERTIES
  WalkEnds
  KeepsPromise
CHECK_DEADLOCK FALSE
