CONSTANTS
  Problems <- MCProblems
  Labels <- MCLabels
  MaxRounds = 3
  MaxFits = 2
  BLOCK = 2
SPECIFICATION Spec
INVARIANTS
  MarginIsPrediction
  ResidualsCurrent
  GreedyPicksLargest
  StepMinimises
