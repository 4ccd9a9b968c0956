SPECIFICATION Spec
CONSTANTS
  N = 2
  Requests = {r1, r2}
  NoOne = NoOne
  InitialTerms <- MCTerms
  Amounts = {1}
  MaxCalls = 5
SYMMETRY Symmetry
INVARIANTS
  StoredOrderInv
  LockedCopyFresh
  BooksExactUntilStale
  RatedWasPaid
