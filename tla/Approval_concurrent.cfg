CONSTANTS
  Req = {r1, r2}
  Price <- MCPrice
  LineTotals <- NoLineItems
  Thresholds <- MCThresholds
  MaxPredictions = 1
  Null = Null
SPECIFICATION Spec
INVARIANTS TypeOK QuoteMirrorsEngagement PendingShowsTheOffer
SYMMETRY MCReqSymmetry
