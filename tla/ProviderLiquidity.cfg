SPECIFICATION Spec
CONSTANTS
  Calls = {c1, c2, c3}
  Budgets = {1, 2}
  Minimums = {0}
  BufferBPS = 5000
  CentsPerUnit = 2
  MinFundingUnits = 1
  MaxCarrierBindings = 1
  MaxSettlementBindings = 1
SYMMETRY Symmetry
INVARIANTS
  PoolBooks
  BackedByChannels

  
