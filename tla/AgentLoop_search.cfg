CONSTANTS
  OpenIds <- MCOpen
  CloseIds <- MCClose
  Sentinel = "bullet"
  K = 2
  ModelTokens <- MCModelTokens
  Search = "search"
  Answer = "answer"
  MaxTurns = 3
  MaxTurnLen = 8
  ResponseLength = 12
  InfoTokens <- MCInfoTokens
  MaxInfo = 2
  PersistFails = TRUE
  ReportsLogProbs = FALSE
  Text = "text"
SPECIFICATION Spec
INVARIANTS ZAligned ContextIsResponse  ActorContext TrainedAlike
