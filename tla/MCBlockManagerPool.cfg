SPECIFICATION Spec
CONSTANTS
  r1 = r1
  r2 = r2
  Request = {r1, r2}
  Prompts <- PromptsThree
  Token = {1, 2}
  MaxTokens = 2
  BlockSize = 3
  NumKvBlocks = 3
  NumCpuBlocks = 2
  ChunkEnds = {}
  NoRequest = NoRequest
SYMMETRY Symmetry
INVARIANTS
  TypeOK
  PoolPartition
  RefCountExact
  CpuPoolPartition
  TablesFitTokens
  LabelsIndexed
  SharersAgree
  SharedBlocksFull
  BoundaryAssertionsHold
PROPERTIES
  WritesExclusive
  UsedLabelsStable
  ImplementsPagePool
