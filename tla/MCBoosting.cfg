SPECIFICATION Spec
CONSTANTS
  Fits <- MCFits
  Matrices = {train}
  Scores <- MCScores
  MaxUpdates = 1
INVARIANTS
  CacheIsPrediction
  FitsResiduals
  ScoresCurrentModel
  SlicesAreRounds
  UpdateInPlace
  StopsAtBest
