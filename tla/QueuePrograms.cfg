SPECIFICATION ProgramSpec
CONSTANTS
  Size = 4
  IntMod = 8
  Cpp11 = TRUE
  MaxPush = 10
  MaxBehind = 7
  DefaultA = 9
  DefaultB = 5
  DefaultC = 16
  RandMod = 64
  N = 7
  Offset = 3
INVARIANTS ProgramTypeOK Intact AtExact
PROPERTIES CatchUpFinds DrillEnds
CHECK_DEADLOCK FALSE
