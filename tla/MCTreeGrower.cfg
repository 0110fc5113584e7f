CONSTANTS
  r1 = r1
  r2 = r2
  r3 = r3
  r4 = r4
  r5 = r5
  Rows <- FiveRows
  Params <- AllSettings
  MaxGain = 2
  MaxCached = 2
  MaxTrees = 2
SPECIFICATION Spec
INVARIANTS
  TypeOK
  HistMatchesRows
  ScoresMatchTraversal
  LimitsRespected
  BreadthFirst
  ExhaustsCandidates
  NoDeadHistogram
SYMMETRY RowSymmetry
