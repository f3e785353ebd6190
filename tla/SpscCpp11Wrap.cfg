SPECIFICATION Spec
CONSTANTS
  Size = 2
  IntMod = 4
  Cpp11 = TRUE
  N = 7
INVARIANTS BeginFindsOldest
