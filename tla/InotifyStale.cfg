CONSTANTS
  f = f
  g = g
  D = D
  E = E
  Names = {f}
  Folders = {D, E}
  RootPath = RootPath
  Nowhere = Nowhere
  Outside = Outside
  Reuse = FALSE
  Calm = TRUE
  MaxInodes = 1
  MaxRenames = 0
  MaxMoves = 0
  MaxOps = 4
SPECIFICATION Spec
INVARIANT NoRowIsStale
CHECK_DEADLOCK FALSE
