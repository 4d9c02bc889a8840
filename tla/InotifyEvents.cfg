CONSTANTS
  f = f
  g = g
  D = D
  E = E
  Names = {f}
  Folders = {D, E}
  RootPath = RootPath
  Nowhere = Nowhere
  Outside = Outside
  Reuse = FALSE
  Calm = TRUE
  MaxInodes = 1
  MaxRenames = 1
  MaxMoves = 1
  MaxOps = 6
SPECIFICATION FairSpec
INVARIANTS TypeOK RestShowsFiles OnlyHastyAreStale EventIsResolved
PROPERTY InotifyThreadEnds
CHECK_DEADLOCK FALSE
