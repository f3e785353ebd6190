SPECIFICATION Spec
CONSTANTS
  NumStocks = 1
  NumEx = 3
  PriceMod = 512
  StartMid = 72
  Shift = 10
  Draws = {0, 4, 6}
  Spreads = {5, 9}
  MaxBeats = 3
  MaxStarts = 3
INVARIANTS TypeOK LastMarketKept BlankNeverQuoted
PROPERTY CleanStable
CHECK_DEADLOCK FALSE
