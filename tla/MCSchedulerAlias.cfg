SPECIFICATION SchedulerSpec
CONSTANTS
  r1 = r1
  r2 = r2
  r3 = r3
  Request = {r1, r2, r3}
  Prompts <- PromptsAlias
  Token = {1, 2, 3}
  MaxTokens = 1
  BlockSize = 2
  NumKvBlocks = 3
  NumCpuBlocks = 0
  ChunkEnds = {}
  NoRequest = NoRequest
  MaxNumSeqs = 2
  MaxNumBatchedTokens = 8
  EnableChunkedPrefill = FALSE
  MaxChunkSize = 2
  Eos = 4
SYMMETRY Symmetry
INVARIANTS HitsHaveSamePrefix
