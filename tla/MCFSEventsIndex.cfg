CONSTANTS
  Name = {"a", "b"}
  IgnoreOption <- MCIgnoreOption
  InitialDisk <- MCInitialDisk
  MaxDepth = 3
  MaxDrops = 1
  Time <- MCTime
  MayReuse = FALSE
  NoId = NoId
SPECIFICATION IndexSpec
INVARIANTS
  IndexesAgree
  IndexIsTree
  CopyIsRight
  RenamesAreMoves
CHECK_DEADLOCK FALSE
