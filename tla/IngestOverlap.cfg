SPECIFICATION Spec
CONSTANTS
  Fuel = {"NG", "GEO"}
  Factor <- MCFactor
  GramScale = 5
  ShareScale = 100
  NoRow = NoRow
  NoIntensity = NoIntensity
  Region = {r1}
  LastPeriod = 2
  Mix <- MCMix
  Worker = {cron, manual}
  Ingester = {cron, manual}
  Computer = {manual}
  Cron = {cron}
  Window = 1
  Flaky = {}
  MaxRevisions = 1
  MaxFaults = 1
INVARIANTS
  TypeOK
  IntensityFromCommittedMix
  StaleHasCause
  ReportedHoursAreServed
  SharesAreShares
