SPECIFICATION CudaSpec
CONSTANTS
  BlockSize = 2
  NumKvBlocks = 6
  MaxNumSeqs = {1, 3, 4, 5}
  Token = {1, 2}
  Batches <- MCBatches
  PrefillSlots = {10}
  SmallGraphs = {1, 2}
  GraphStep = 4
  GraphCap = 4
  MaxModelLen = 4
CHECK_DEADLOCK FALSE
INVARIANTS
  CudaTypeOK
  GraphsCover
PROPERTIES
  ImplementsEager
