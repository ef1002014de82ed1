SPECIFICATION DeskSpec
CONSTANTS
  Req = {r1}
  Price <- MCPrice
  LineTotals <- MCLineTotals
  Thresholds <- MCThresholds
  MaxPredictions = 2
  Null = Null
  v1 = v1 v2 = v2 Readers = {v1, v2} Casts <- MCCasts TierPrices <- MCTierPrices Typed = {15}
  ItemAmounts <- MCItemAmounts VpAbove = 12 CeoAbove = 18 MaxOps = 3 NoCents = NoCents
CHECK_DEADLOCK FALSE
INVARIANTS GateHonoured OffersAreHonest
PROPERTIES  ApprovedAsShown
