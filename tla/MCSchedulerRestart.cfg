SPECIFICATION SchedulerSpec
CONSTANTS
  r1 = r1
  r2 = r2
  Request = {r1, r2}
  Prompts <- PromptsMixed
  Token = {1, 2, 3}
  MaxTokens = 3
  BlockSize = 2
  NumKvBlocks = 3
  NumCpuBlocks = 0
  ChunkEnds = {0, 1, 2, 3, 4}
  NoRequest = NoRequest
  MaxNumSeqs = 2
  MaxNumBatchedTokens = 8
  EnableChunkedPrefill = TRUE
  MaxChunkSize = 2
  Eos = 4
SYMMETRY Symmetry
INVARIANTS SlotsAgree
