SPECIFICATION Spec
CONSTANTS
  EnabledSetups = {"MomentumContinuation"}
  Confirmation = 0
  SignalAge = 1
  SetupTimeout = 2
  EntryTimeout = 1
  CooldownFailed = 1
  CooldownRejected = 1
  CooldownExit = 1
  CooldownLoss = 2
  SymbolLosses = 2
  CooldownLosses = 1
  HaltLosses = 2
  SymbolCooldown = 1
  LossCooldown = 1
  MaxOrders = 1
  ConfirmationTicks = 1
  DwellTicks = 1
  CusumDwellTicks = 1
  ExtremeForCooldown = 1
  UncertaintyCooldown = 1
  ConvictionThreshold = 55
  MinSlices = 2
  MaxSlices = 3
  MinNotional = 10
  TwapNotional = 40
  SliceInterval = 1
  MinQuantity = 1
  MaxQuantity = 0
  MinTradeNotional = 20
  MaxLossPct = 1
  StopPct = 2
  MinLeverage = 1
  MaxLeverage = 20
  ExchangeLeverage = 20
  LeverageDelta = 2
  MinPulls = 1
  MaxWaits = 2
  CascadeCooldown = 1
  OrderCooldown = 1
  StopCooldown = 1
  MaxBackoff = 2
  BaseUrgency = 50
  MaxWorking = 5
  MaxRejections = 1
  Scenarios <- MCScenarios
INVARIANTS HaltedSendsNothing  SizedWithinRisk
PROPERTIES EntrySettles TwapEnds PositionAdopted
