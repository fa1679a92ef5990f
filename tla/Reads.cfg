SPECIFICATION Spec
CONSTANTS
  Absent = Absent
  HoursPerDay = 3
  UtcOffset <- MCUtcOffset
  KwhScale = 100
  MinRows = 4
  MinHistory = 72
  Season = 24
  Lookup <- MCLookup
  History <- MCHistory
  Renewable <- MCRenewable
  Kwh = {1, 250}
  Window = {4, 5}
  Ingested <- MCIngested
  Horizon = {1, 2, 24, 72}
  Frames <- MCFrames
  Results <- MCResults
INVARIANTS
  ZipsResolve
  SavingsAreFair
  StatsFitTogether
  ForecastIsUsable
  MatchIsAPairing
CHECK_DEADLOCK FALSE
