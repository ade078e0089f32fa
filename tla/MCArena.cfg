SPECIFICATION Spec
CONSTANTS
  Capacity = 4
  MaxGeneration = 1
  MaxBatch = 2
INVARIANTS ArenaTypeOK SoundLinks ReadsInOrder
PROPERTIES StaleForever KeepsForest
CHECK_DEADLOCK FALSE
