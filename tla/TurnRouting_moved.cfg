CONSTANTS
  a = a
  b = b
  c1 = c1
  c2 = c2
  Servers <- MCServers
  Conv <- MCConv
  Sticky = {}
  MaxRoutes = 9
  MaxTurns = 2
  TurnShapes <- MCAligned
  PromptLen = 2
  InfoLen = 1
  BlockSize = 2
  MaxEvict = 0
SPECIFICATION Spec
INVARIANTS LatentKVIntact
