SPECIFICATION Spec
CONSTANTS
  N = 1
  Price <- MCPrice
  MaxJobs = 1
  Handlers = {h1, h2}
  e1 = e1
  e2 = e2
  EventIds = {Report, e1, e2}
  Report = Report
  NoId = NoId
  Sequence <- MCSequence
  Actions = {"continue", "pause"}
  MaxUsage = 1
SYMMETRY Symmetry
INVARIANTS
  PaidJobIsCompleted
  LedgerInSequence
  ExecutorDecidesJob
