CONSTANTS
  both = both
  second = second
  Files = {both, second}
  LibNum = 2
  Category <- MCCategory
  MaxChanges = 4
  MaxFailures = 2
SPECIFICATION Spec
INVARIANTS TypeOK OthersDoNoHarm ConnectionsAreSound
CHECK_DEADLOCK FALSE
