SPECIFICATION CatalogSpec
CONSTANTS
  Names <- MCNames
  Limits <- MCLimits
  SizeThreshold = 2
  MaxDDL = 2
  MaxRows = 3
  c1 = c1
  c2 = c2
  Cols <- MCCols
  Requests <- MCRequests
  Totals <- MCTotals
INVARIANTS
  WalkExact
  CreatesHideNothing
  NothingAborted
  SizesTold
  NothingMissing
  AnswersTrue
  Exact
  ServerBound
  NeverBusy
