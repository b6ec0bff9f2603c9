CONSTANTS
  Ascii = {"a", "A", "*"}
  Lower <- MCLower
  BitmaskParts = 4
  Watcher = {w1, w2}
  Option <- MCOption
  Word <- MCWord
  MaxDepth = 3
  MaxIds = 2
  CacheLimit = 2
  Insensitive <- MCInsensitive
  MayChange = FALSE
  None = None
SPECIFICATION IgnoreSpec
SYMMETRY MCSymmetry
INVARIANTS
  AnswerIsMeant
