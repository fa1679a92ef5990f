SPECIFICATION FairSpec
CONSTANTS
  Fuel = {"NG", "GEO"}
  Factor <- MCFactor
  GramScale = 5
  ShareScale = 100
  NoRow = NoRow
  NoIntensity = NoIntensity
  Region = {r1, r2}
  LastPeriod = 1
  Mix <- MCFewMixes
  Worker = {cron, manual}
  Ingester = {cron}
  Computer = {manual}
  Cron = {cron}
  Window = 1
  Flaky = {r2}
  MaxRevisions = 1
  MaxFaults = 1
PROPERTIES
  HealthyRegionsHeal
VIEW WithoutObservers
