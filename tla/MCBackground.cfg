CONSTANTS
  w1 = w1
  Workers <- OneWorker
  MaxQueue = 2
  Tasks <- PoolTasks
  CanStop = TRUE
  c1 = c1
  c2 = c2
  Callers <- TwoCallers
  Threshold = 2
  MaxProbes = 1
  MaxRetries = 1
  MaxCount = 5
SPECIFICATION BackgroundSpec
CHECK_DEADLOCK FALSE
INVARIANTS OneJobPerFlag HalfOpenIsDecided
PROPERTIES FlagReleased StopTerminates OpenRecovers
