SPECIFICATION FairSpec
CONSTANTS
  Fuel = {"NG", "GEO"}
  Factor <- MCFactor
  GramScale = 5
  ShareScale = 100
  NoRow = NoRow
  NoIntensity = NoIntensity
  Region = {r1}
  LastPeriod = 1
  Mix <- MCMixesZero
  Worker = {cron}
  Ingester = {cron}
  Computer = {}
  Cron = {cron}
  Window = 1
  Flaky = {}
  MaxRevisions = 1
  MaxFaults = 0
INVARIANTS
  IntensityIsDerived
