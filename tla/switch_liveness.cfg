SPECIFICATION FairSpec
CONSTANTS
  QueueLength = 2
  RestartClicks = 2
  FactoryClicks = 3
  CountModulus = 4
  SseMiddle = 1
  SseEnd = 1
  NvsFails = FALSE
PROPERTIES
  LampGoesOff
  ClicksDecided
CHECK_DEADLOCK FALSE
