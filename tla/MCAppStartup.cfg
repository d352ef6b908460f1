SPECIFICATION LiveSpec
CONSTANTS
  p1 = p1
  p2 = p2
  p3 = p3
  p4 = p4
  Symbols <- Pairs
  Scenarios <- Cases
  Manual <- ByHand
  MaxScans = 4
  Funds = 100
  MaxDetailed = 2
  TopN = 2
  MicroAccount = FALSE
  MaxPerSector = 1
  ScanThreshold = 2
  ScanReset = 2
INVARIANTS
  OnePipelinePerSymbol
PROPERTIES
  
  BasketIsSound
  SignalEndsProcess
