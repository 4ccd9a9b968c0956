SPECIFICATION Spec
CONSTANTS
  Buyers = {b1, b2}
  Syncers = {s1, s2}
  Reconciler = s1
  Payments <- MCPayments
  minSweepAmountRaw = 3
  ConfirmationBlocks = 1
  rawUnitsPerWholeUSDI = 200
  TreasuryOccupied = 2
  ChangeOccupied = 1
  Fee = 1
  MaxListed = 2
  MaxIndex = 2
  MaxCells = 2
  MaxFaults = 1
CHECK_DEADLOCK FALSE
INVARIANTS
  CreditIsSwept
  NoSweepForgotten
  

  
