SPECIFICATION NowSpec
CONSTANTS
  Fuel = {"NG", "GEO"}
  Factor <- MCFactor
  GramScale = 5
  ShareScale = 100
  NoRow = NoRow
  NoIntensity = NoIntensity
  Region = {r1}
  LastPeriod = 2
  Mix <- MCMix
  Worker = {cron}
  Ingester = {cron}
  Computer = {}
  Cron = {cron}
  Window = 1
  Flaky = {}
  MaxRevisions = 1
  MaxFaults = 1
  Reader = {q}
  Code = {r1, nowhere}
  MaxCodes = 2
  NoReply = NoReply
INVARIANTS
  AnswersAreCommitted
  SharesAddUp
  NowNeverGoesBack
  ComparisonIsFair
