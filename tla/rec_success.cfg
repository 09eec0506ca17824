SPECIFICATION RSpec
CONSTANTS
  Main = Main
  Signal = Signal
  NoThread = NoThread
  c1 = c1
  c2 = c2
  Consumers <- TwoConsumers
  MaxObjects = 2
  NumFrames = 2
  Failing <- EveryWorker
  Interruptible = TRUE
  SharedCount = FALSE
INVARIANT
  SuccessIsTruthful
