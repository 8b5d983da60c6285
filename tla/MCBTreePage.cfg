CONSTANTS
  DataBytes = 13
  ValueSize = 2
  Length = 2
  Keys <- MCKeys
  Positions <- MCPositions
  Junk = Junk
SPECIFICATION Spec
INVARIANT ItemsKept
CHECK_DEADLOCK FALSE
