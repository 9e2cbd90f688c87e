SPECIFICATION FairSpec
CONSTANTS
  Steps = 5
  SaveFreq = 2
  Batches = 6
  MaxKeep = 2
  MaxCrashes = 3
  Careful = TRUE
  TornTracker = FALSE
INVARIANTS TrackerComplete EachBatchOnce  
PROPERTY TrainingEnds
