CONSTANTS
  NumRows = 5
  Params <- TwoTrees
  MaxGain = 2
  ArenaSlots = 2
  MaxTrees = 2
SPECIFICATION Spec
INVARIANTS
  HistMatchesRows
  ScoresMatchTraversal
  BatchTogether
