SPECIFICATION Spec
CONSTANTS
  MaxLen = 6
  Texts <- MCTexts
INVARIANT
  CutSafe
PROPERTY
  OneLexeme
CHECK_DEADLOCK FALSE
