CONSTANTS
  root = root
  x = x
  y = y
  z = z
  Paths <- MCPaths
  Default <- MCDefault
  MaxChanges = 3
SPECIFICATION FairSpec
INVARIANTS TypeOK DepthIsRight NothingIsMissed NothingLeaks
PROPERTY WalkEnds
CHECK_DEADLOCK FALSE
