SPECIFICATION MarketSpec
CONSTANTS
  Calls = {c1, c2}
  NoCall = NoCall
  NBids = 2
  CarrierBids = {1}
  Budgets = {4, 9}
  Quoted <- MCQuoted
  SmallBudgetThresholdCents = 5
  SetupPercent = 20
  DeliveryPercent = 20
  p1 = p1
  p2 = p2
  Providers = {p1, p2}
  ProviderOf <- MCProviderOf
  Buyer = Buyer
  Ops = Ops
  MaxRequests = 1
CHECK_DEADLOCK FALSE
INVARIANTS
  
  OneWinner
  AccessIsKept
PROPERTIES
  ReservationDecided
  ShownAwardComes
