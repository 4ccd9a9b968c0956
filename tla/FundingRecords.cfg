SPECIFICATION Spec
CONSTANTS
  NInvoices = 1
  Withdrawals = {w1}
  Payouts = {p1}
  Handlers = {h1, h2}
  MaxConsecutiveErrors = 2
  MaxErrors = 3
  MaxRequests = 3
  MaxRestarts = 1
CHECK_DEADLOCK FALSE
INVARIANTS
  
  NothingUnrecorded
PROPERTIES
  RecordsCatchUp
