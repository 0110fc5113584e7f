SPECIFICATION Spec
CONSTANTS
  Fits <- MultiFits
  Matrices = {train}
  Scores <- MCScores
  MaxUpdates = 0
INVARIANT
  RoundsCounted
