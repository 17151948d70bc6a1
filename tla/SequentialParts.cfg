SPECIFICATION Parts
CONSTANTS
  Requests <- MCRequests
  StatementTimeout = 30
  MaxInt = 5000
  Database = "db"
  Inputs <- MCInputs
  Depth = 2
  Texts <- MCTexts
INVARIANTS
  GatesAgree
  AcceptsReads
  ValuesKept
CHECK_DEADLOCK FALSE
