SPECIFICATION FairSpec
CONSTANTS
  Configs <- MCConfigs
  Default = "factory"
  Reachable <- MCReachable
  MaxRetry = 1
  StaPeriod = 2
  ApPeriod = 2
  MaxEvents = 3
  MaxPowerCycles = 1
  NvsFails = TRUE
  StartFails = TRUE
  SlowHandlers = {"joining"}
INVARIANTS
  TypeOK
  StatusMeansRunning
  SavedModeHasNetwork
PROPERTIES
  ApReturns
  SavedModeIsUsed
