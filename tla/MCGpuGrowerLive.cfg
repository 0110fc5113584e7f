CONSTANTS
  NumRows = 4
  Params <- OneTree
  MaxGain = 2
  ArenaSlots = 2
  MaxTrees = 1
SPECIFICATION Spec
PROPERTIES
  ImplementsSplitting
