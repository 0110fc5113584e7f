SPECIFICATION Spec
CONSTANTS
  Fits <- PlainFits
  Matrices = {train, other}
  Scores <- MCScores
  MaxUpdates = 1
INVARIANT
  FitsResiduals
