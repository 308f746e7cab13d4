SPECIFICATION Spec
CONSTANTS
  Timings <- MCTimings
  Durations <- MCDurations
  Networks <- MCNetworks
  Garbage <- MCGarbage
  Pairings = {20202021}
  Cuts = {14}
  MaxPosts = 2
  BufferSize = 100
  DataSize = 96
  Uint32 = 524288
INVARIANTS
  StopMeansStopped
CHECK_DEADLOCK FALSE
