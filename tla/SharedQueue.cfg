CONSTANTS
  Size = 2
  N = 3
  IntMod = 4
  Backends = {"shm", "mmap"}
  Writers = {1, 2}
  MaxRuns = 3
SPECIFICATION MCSpec
CHECK_DEADLOCK FALSE
INVARIANTS TypeOK QueueIntact
PROPERTIES ChildPasses SpoiledOnlyBy CreatorEnds
