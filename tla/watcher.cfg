SPECIFICATION FairSpec
CONSTANTS
  i1 = i1
  i2 = i2
  Instances <- TwoInstances
  Absent = Absent
  Empty = Empty
  Files <- OneFile
  MaxChanges = 2
  MaxFaults = 1
  max_parallelism = 1
INVARIANTS
  OnlyEntrantsRace
  OneProgramPerFile
PROPERTIES
  RefusedByAnother
  EveryChangeSeen
  InterruptEnds
