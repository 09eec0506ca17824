SPECIFICATION FairSpec
CONSTANTS
  w1 = w1
  w2 = w2
  OcrThreads <- TwoThreads
  VideoFrames <- SixFrames
  Repeated <- TwoRepeated
  Text <- TextFrames
  MaxFaults = 2
  Faulty = TRUE
  Poison <- FrameFour
INVARIANTS
  StoredOnce
  StoredIsBehind
  NothingSkipped
PROPERTIES
  LastNeverDecreases
  UpToDateOrDropped
