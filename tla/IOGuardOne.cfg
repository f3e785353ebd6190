SPECIFICATION FairSpec
CONSTANTS
  Readers = {r1}
  NumWords = 2
  GuardMod = 2
  NumTry = 1
  SizeMod = 4
  MaxWrites = 3
  MaxCrashes = 1
INVARIANTS
  TypeOK
  Sandwich
  TornOnlyIfWrapped
PROPERTIES
  ImplementsAtomicRecord
  ReadersReturn
