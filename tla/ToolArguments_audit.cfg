SPECIFICATION Spec
CONSTANTS
  Requests <- MCRequests
  StatementTimeout = 30
  MaxInt = 5000
  Database = "db"
INVARIANT
  EveryCallAudited
CHECK_DEADLOCK FALSE
