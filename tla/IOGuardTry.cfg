SPECIFICATION Spec
CONSTANTS
  Readers = {r1}
  NumWords = 1
  GuardMod = 8
  NumTry = 1
  SizeMod = 4
  MaxWrites = 2
  MaxCrashes = 0
INVARIANTS
  TryBounded
