SPECIFICATION SchedulerSpec
CONSTANTS
  r1 = r1
  r2 = r2
  Request = {r1, r2}
  Prompts <- PromptsShared
  Token = {1, 2}
  MaxTokens = 2
  BlockSize = 2
  NumKvBlocks = 2
  NumCpuBlocks = 0
  ChunkEnds = {}
  NoRequest = NoRequest
  MaxNumSeqs = 2
  MaxNumBatchedTokens = 8
  EnableChunkedPrefill = FALSE
  MaxChunkSize = 2
  Eos = 4
SYMMETRY Symmetry
INVARIANTS CanAppendSuffices
