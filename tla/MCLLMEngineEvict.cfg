SPECIFICATION FairEngine
CONSTANTS
  r1 = r1
  r2 = r2
  r3 = r3
  Request = {r1, r2, r3}
  Prompts <- PromptsThree
  Token = {1, 3}
  MaxTokens = 2
  BlockSize = 2
  NumKvBlocks = 4
  NumCpuBlocks = 2
  ChunkEnds = {}
  NoRequest = NoRequest
  MaxNumSeqs = 2
  MaxNumBatchedTokens = 6
  EnableChunkedPrefill = FALSE
  MaxChunkSize = 2
  Eos = 3
INVARIANTS
  SchedulerTypeOK
  QueuesMatchStatus
  StepAssertionsHold
  TokensWithinLimit
  DecodeTakesAll
  NothingLeaks
  EngineTypeOK
  KvInv
  SwappedKvKept
  WorkersPrepareSame
PROPERTIES
  EveryRequestEnds
