SPECIFICATION EngineSpec
CONSTANTS
  r1 = r1
  r2 = r2
  r3 = r3
  Request = {r1, r2, r3}
  Prompts <- PromptsLong
  Token = {1, 2}
  MaxTokens = 3
  BlockSize = 2
  NumKvBlocks = 4
  NumCpuBlocks = 2
  ChunkEnds = {0, 1, 2, 3, 4, 5, 6, 7}
  NoRequest = NoRequest
  MaxNumSeqs = 2
  MaxNumBatchedTokens = 3
  EnableChunkedPrefill = TRUE
  MaxChunkSize = 2
  Eos = 4
SYMMETRY Symmetry
INVARIANTS
  CountedWithinLimits
  BatchReady
  ReadsOwnTokens
  WritersAgree
PROPERTIES
  ImplementsBlockManager
