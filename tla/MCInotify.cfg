CONSTANTS
  Name = {"a", "b"}
  Dir = {"d1", "d2"}
  File = {"f1"}
  Special = {"s"}
  RootDir = "r"
  OutsideDir = "o"
  IgnoreOption <- MCIgnoreOption
  InitialDisk <- MCInitialDisk
  MaxDepth = 3
  MaxOps = 3
  MaxQueue = 4
  MayOverlap = FALSE
  NoId = NoId
SPECIFICATION InotifySpec
INVARIANTS
  IndexIsTree
  WatchesCoverTree
  WatchesAreTracked
  NothingIsMissed
CHECK_DEADLOCK FALSE
