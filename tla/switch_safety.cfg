SPECIFICATION Spec
CONSTANTS
  QueueLength = 3
  RestartClicks = 2
  FactoryClicks = 3
  CountModulus = 4
  SseMiddle = 1
  SseEnd = 3
  NvsFails = TRUE
INVARIANTS
  TypeOK
  LampIsTimed
  ClicksAreTimed
  RestartMeansAP
  SavedModeApplies
PROPERTIES
  SelfWaitIsFinal
CHECK_DEADLOCK FALSE
