CONSTANTS
  Path = {a, b, c}
  Kind = {file, directory}
  RenameId = {i1, i2, i3}
  Error = {overflow}
  NoId = NoId
  NoError = NoError
SPECIFICATION ListSpec
INVARIANTS
  NetEffect
  PairsAreMoves
SYMMETRY Symmetry
