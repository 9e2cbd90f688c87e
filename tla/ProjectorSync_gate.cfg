CONSTANTS
  e1 = e1
  e2 = e2
  Engine <- MCEngine
  MaxUpdates = 3
  MaxRuns = 2
  MaxFaults = 2
SPECIFICATION FairSpec
INVARIANTS GateSound OwnRun
PROPERTIES Converges
