CONSTANTS
  r1 = r1
  r2 = r2
  r3 = r3
  r4 = r4
  r5 = r5
  Rows <- FourRows
  Params <- AllSettings
  MaxGain = 2
  MaxCached = 2
  MaxTrees = 2
SPECIFICATION Spec
PROPERTIES
  ImplementsSplitting
  Terminates
