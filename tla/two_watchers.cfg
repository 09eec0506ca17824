SPECIFICATION Spec
CONSTANTS
  i1 = i1
  i2 = i2
  Instances <- TwoInstances
  Absent = Absent
  Empty = Empty
  Files <- OneFile
  MaxChanges = 0
  MaxFaults = 0
  max_parallelism = 1
INVARIANT
  AtMostOneInstance
