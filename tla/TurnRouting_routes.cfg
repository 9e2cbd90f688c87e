CONSTANTS
  a = a
  b = b
  c1 = c1
  c2 = c2
  Servers <- MCServers
  Conv <- MCConv
  Sticky = {c1}
  MaxRoutes = 2
  MaxTurns = 2
  TurnShapes <- MCShapes
  PromptLen = 1
  InfoLen = 1
  BlockSize = 2
  MaxEvict = 1
SPECIFICATION FairSpec
INVARIANTS InflightExact StickyTurns 
PROPERTIES Drains
