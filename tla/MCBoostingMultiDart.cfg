SPECIFICATION Spec
CONSTANTS
  Fits <- MultiDartFits
  Matrices = {train}
  Scores <- MCScores
  MaxUpdates = 0
INVARIANT
  CacheIsPrediction
