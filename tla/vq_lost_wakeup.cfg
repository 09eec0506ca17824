SPECIFICATION FairSpec
CONSTANTS
  Main = Main
  Signal = Signal
  NoThread = NoThread
  c1 = c1
  c2 = c2
  Consumers <- OneConsumer
  MaxObjects = 2
  NumFrames = 4
  Failing <- NoFailures
  Interruptible = FALSE
  SharedCount = FALSE
PROPERTY
  ProducerServed
