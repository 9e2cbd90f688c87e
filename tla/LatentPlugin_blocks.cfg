CONSTANTS
  r1 = r1
  r2 = r2
  Req <- MCReq1
  Tokens <- MCTokens2
  OpenIds <- MCOpen2
  CloseIds <- MCClose2
  Sentinel = "bullet"
  Eos = "eos"
  K = 2
  PromptLen = 1
  MaxOut = 8
  Chunked = FALSE
  MaxPreempt = 2
SPECIFICATION Spec
INVARIANTS BlockLayout OnePlace ConsumedEmbedCounted ZPerSentinel KVSpliced
