SPECIFICATION FairSpec
CONSTANTS
  Size = 2
  IntMod = 16
  Cpp11 = TRUE
  Producers = {p1, p2}
  M = 3
  LoadsFirst = {"tail", "head"}
INVARIANTS
  OverrunBounded
  QuiescentComplete
PROPERTIES
  AllPopped
