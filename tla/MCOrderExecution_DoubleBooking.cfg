CONSTANTS
  o1 = o1
  o2 = o2
  i1 = i1
  i2 = i2
  NoId = NoId
  Orders = {o1, o2}
  IntentKeys = {i1, i2}
  IntentOf <- OneIntentEach
  Trades <- AllTrades
  Qty = 2
  Scenarios <- MarketScenarios
SPECIFICATION Spec
INVARIANTS
  BookedNeverExceedsExchange
CHECK_DEADLOCK FALSE
