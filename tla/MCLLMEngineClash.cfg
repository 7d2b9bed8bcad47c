SPECIFICATION EngineSpec
CONSTANTS
  r1 = r1
  r2 = r2
  r3 = r3
  Request = {r1, r2, r3}
  Prompts <- PromptsMixed
  Token = {1, 2}
  MaxTokens = 3
  BlockSize = 2
  NumKvBlocks = 4
  NumCpuBlocks = 2
  ChunkEnds = {}
  NoRequest = NoRequest
  MaxNumSeqs = 3
  MaxNumBatchedTokens = 8
  EnableChunkedPrefill = FALSE
  MaxChunkSize = 2
  Eos = 4
SYMMETRY Symmetry
INVARIANTS SwapKeepsKv
