SPECIFICATION MCSpec
CONSTANTS
  NumStocks = 2
  NumVenue = 3
  PriceMod = 64
  Start = 8
  MaxJump = 1
  MaxSpread = 1
  MaxBeats = 3
  MaxStarts = 2
  MaxRounds = 2
INVARIANTS
  NbboIsBest
  HealedByRestart
  NbboNeverAhead
PROPERTIES
  MidpointMovesSlowly
  PrintEnds
