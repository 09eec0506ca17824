SPECIFICATION Spec
CONSTANTS
  t1 = t1
  t2 = t2
  t3 = t3
  t4 = t4
  NoTexture = NoTexture
  TextureNames <- FourNames
  MinLetters = 3
  Frames <- TwoFrames
  NumTexts <- TwoAndOne
  Pages <- SomePages
  OtherDocuments <- SomeDocuments
INVARIANTS
  TornDownInOrder
  ImagesOwned
  AskedIsShown
  ShownIsRecognized
PROPERTIES
  StateRestored
  ImageShown
