SPECIFICATION ModelSpec
CONSTANTS
  Settings <- MCSettings
  NumRows = 5
INVARIANTS
  BestSplit
  ExactAgrees
  DeviceAgrees
  MonotonePredictions
  PathsWithinGroup
  ContributionsAreShapley
PROPERTIES
  PruneKeepsWorthy
  RefreshFindsTheSame
CHECK_DEADLOCK FALSE
