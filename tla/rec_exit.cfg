SPECIFICATION RFairSpec
CONSTANTS
  Main = Main
  Signal = Signal
  NoThread = NoThread
  c1 = c1
  c2 = c2
  Consumers <- TwoConsumers
  MaxObjects = 2
  NumFrames = 3
  Failing <- MainAndFirst
  Interruptible = TRUE
  SharedCount = FALSE
INVARIANTS
  ExclusiveOwnership
  FramesAccountedFor
  NoConsumerStranded
  DoneIsTruthful
PROPERTIES
  HandsFramesOver
  EveryFrameRecognized
  StopExits
