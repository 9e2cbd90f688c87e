CONSTANTS
  Item <- MCItem
  Rollouts = 3
  Turns <- MCTurns
  TurnsCap = 2
  HasTokenLimit = TRUE
  MaxCrashes = 1
  TornWrites = TRUE
SPECIFICATION FairSpec
INVARIANTS NothingLeftOver  PerfectCallsAllRight OnePerItem
PROPERTIES AllRecorded
