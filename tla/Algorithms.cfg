SPECIFICATION Spec
CONSTANTS
  MaxLen = 7
  MaxElem = 2
  MaxText = 4
  MaxPat = 5
  Letters = {"a", "b"}
INVARIANTS SwapsToPrevious MatchesLanguage
CHECK_DEADLOCK FALSE
