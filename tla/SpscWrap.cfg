SPECIFICATION FairSpec
CONSTANTS
  Size = 4
  IntMod = 8
  Cpp11 = FALSE
  N = 18
INVARIANTS
  TypeOK
  FifoDelivery
  NoNullDeref
  BeginFindsOldest
PROPERTIES
  NoUnreadOverwrite
  ImplementsFifo
  AllDelivered
