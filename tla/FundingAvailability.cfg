SPECIFICATION FundsSpec
CONSTANTS
  N = 2
  Buyers = {b1}
  Requests = {r1, r2, r3}
  TermSets <- MCTermSets
  Limits = {20, 30}
  TopUpRecords = {29}
  UsageAmounts = {7}
  Additions = {2}
  MaxCredits = 1
  MaxOps = 3
SYMMETRY MCSymmetry
CHECK_DEADLOCK FALSE
INVARIANTS
  ExposureIsHeldBack

  
  
