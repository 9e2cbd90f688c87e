CONSTANTS
  r1 = r1
  r2 = r2
  Req <- MCReq2
  Tokens <- MCTokens1
  OpenIds <- MCOpen1
  CloseIds <- MCClose1
  Sentinel = "bullet"
  Eos = "eos"
  K = 1
  PromptLen = 1
  MaxOut = 4
  Chunked = FALSE
  MaxPreempt = 0
SPECIFICATION FairSpec
 
PROPERTIES BlockCloses KeepsPromise
