SPECIFICATION FairSpec
CONSTANTS
  Readers = {r1}
  NumWords = 2
  GuardMod = 2
  MaxWrites = 3
  MaxCrashes = 1
INVARIANTS
  CopyTornOnlyIfWrapped
PROPERTIES
  ImplementsAtomicRecord
  ReadersReturn
