SPECIFICATION MCSpec
CONSTANTS
  OrderIds = {o1, o2}
  Quantities = {1, 2}
  Prices = {2, 3}
  PnlValues <- PnlRange
  Amounts = {1, 2}
  Fees = {1}
  FundingAmounts = {1}
  Equities = {3, 4}
  InitialCapital = 3
  MaxOps = 4
SYMMETRY Symmetry
PROPERTIES
  ReservationsCovered
  EquityKeptByReset
  DrawdownNotErased
CHECK_DEADLOCK FALSE
