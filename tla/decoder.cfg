SPECIFICATION FairSpec
CONSTANTS
  Packets <- ShortVideo
  Delay = 1
  FrameRate = 3
  TimeBase = 10
  MaxStart = 6
INVARIANTS
  SeekIsBehind
  NoGap
  EndsComplete
PROPERTY
  RunEnds
