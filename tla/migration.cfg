SPECIFICATION Spec
CONSTANTS
  p1 = p1
  p2 = p2
  p3 = p3
  Openers <- ThreeOpeners
  Contents <- SmallFiles
  MaxFaults = 2
SYMMETRY OpenerSymmetry
INVARIANTS
  EntriesPreserved
  OpenedIsCurrent
PROPERTY
  VersionNeverDecreases
