CONSTANTS
  Launches <- MCLaunches
  BlockRows = 2
  ParallelMin = 3
SPECIFICATION HostSpec
INVARIANTS
  StablePartition
  BlocksStable
