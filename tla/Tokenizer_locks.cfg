SPECIFICATION Spec
CONSTANTS
  MaxLen = 4
  Texts <- MCLockTexts
INVARIANT
  RowLocksRefused
CHECK_DEADLOCK FALSE
