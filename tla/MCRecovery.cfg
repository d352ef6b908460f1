SPECIFICATION Spec
CONSTANTS
  Legs <- MCLegs
  MaxSize = 2
  MinPosition = 2
  SystemTime = 2
  Uptime = 1
  MaxEnds = 1
  MaxFaults = 1
  MaxTrades = 2
  MaxJournal = 1
INVARIANTS NothingLost
PROPERTIES BookHeals
CHECK_DEADLOCK FALSE
