CONSTANTS
  Missing = Missing
  OutOfRangeCat = 16
  KeyBits = 8
  RadixBits = 2
  SortItems = 2
  MaxDeviceBin = 4
  WordBits = 8
  LcgBase = 5
  LcgModulus = 32
  ChunkRows = 2
  MvsLambda = 1
  TreesGrown = 2
  NodesDrawn = 3
  BlockRows = 2
  MaxLanes = 2
  LaneBudget = 24
  GroupMinUpdates = 12
  HalfBits = 4
  ReduceRows = 2
  ReduceCubes = 3
  TileItems = 3
  MaxBlocks = 2
  SharedBins = 5
  DeviceChunkRows = 2
  MaxChunks = 2
  LineBins = 2
  TouchRows = 2
  MostGroups = 3
  Fits <- MCFits
INIT HistInit
NEXT HistNext
INVARIANTS
  RanksBounded
  DeviceCutsExact
  BinsAgree
  SampleByRow
  ThresholdMeetsBudget
  SetsNest
  HistogramIsSum
CHECK_DEADLOCK FALSE
