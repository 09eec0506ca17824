SPECIFICATION Spec
CONSTANTS
  Main = Main
  Signal = Signal
  NoThread = NoThread
  c1 = c1
  c2 = c2
  Consumers <- TwoConsumers
  MaxObjects = 2
  NumFrames = 4
  Failing <- NoFailures
  Interruptible = FALSE
  SharedCount = TRUE
INVARIANT
  OneHandPerBuffer
