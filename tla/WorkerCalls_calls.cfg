CONSTANTS
  Rank = {r1, r2, r3}
  Root = r1
  K = 1
  MaxBlocks = 2
  MaxSteps = 2
  HiddenSizeSet = TRUE
  UlyssesSP = FALSE
  AdapterFails = FALSE
SPECIFICATION CallsFairSpec
 
PROPERTIES CallReturns
CHECK_DEADLOCK FALSE
