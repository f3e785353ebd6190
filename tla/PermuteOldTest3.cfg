SPECIFICATION Spec
CONSTANTS
  MaxLen = 4
  MaxElem = 3
  MaxText = 1
  MaxPat = 1
  Letters = {"a"}
INVARIANTS OldMeetsTest3
CHECK_DEADLOCK FALSE
