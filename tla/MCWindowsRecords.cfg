CONSTANTS
  Name = {"a", "A", "b"}
  Lower <- MCLower
  IgnoreOption <- MCIgnoreOption
  InitialDisk <- MCInitialDisk
  Spot <- MCSpot
  MaxOps = 3
  MaxRecords = 4
  MayOverlap = FALSE
  NoId = NoId
SPECIFICATION RecordsSpec
INVARIANTS
  TreeIsDisk
  CopyIsRight
  RenamesAreMoves
CHECK_DEADLOCK FALSE
