SPECIFICATION FairSpec
CONSTANTS
  Questions <- MCQuestions
  ChunkSize = 2
  MaxTurns = 1
  MaxCrashes = 2
INVARIANTS RowOnce EarlierChunksOnDisk
PROPERTIES WholeLinesStay EveryQuestionTraced
