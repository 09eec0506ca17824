SPECIFICATION FairSpec
CONSTANTS
  c1 = c1
  c2 = c2
  Consumers <- TwoConsumers
  StartingFrame = 2
  LastFrame = 3
  FrameCounts <- KnownCount
  MaxWarnings = 2
  Capacity = 1
INVARIANTS
  MeterIsExact
  EverythingShown
PROPERTIES
  EndsOrStuck
