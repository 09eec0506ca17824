SPECIFICATION FairSpec
CONSTANTS
  Databases <- ThreeDatabases
  NumThreads = 2
  Texts <- TwoTexts
  NoText = ""
  ShortText = "a"
  Hits <- SomeHits
  Layouts <- SomeLayouts
  SizeLimit = 8
  StartTime <- SomeStarts
  DayLength = 12
  FramesPerMinute = 2
  MinutesPerHour = 2
  MaxFaults = 1
  MaxSearches = 2
INVARIANTS
  RemainingIsExact
  ResultsAreExact
PROPERTIES
  SearchesApart
  TreeShowsResults
  JumpsFollowOrder
  NoticedIsShown
  CloseEnds
