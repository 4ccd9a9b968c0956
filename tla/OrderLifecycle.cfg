SPECIFICATION Spec
CONSTANTS
  N = 2
  InitialTerms <- MCTerms
  Amounts = {0, 1, 2}
  MaxUsage = 1
  MaxBudget = 2
  MaxDisputes = 2
  MaxRecoveries = 1
INVARIANTS
  StoredOrderInv
  RefundsCovered
  FrozenIsResolvable
  ReservationFollowsOrder
PROPERTIES
  SettlementIsFinal
