CONSTANTS
  PAGESIZE = 10
  TABLE_HEADER_SIZE = 2
  IntSize = 2
  DoubleSize = 4
  Fields <- MCFields
  Literals <- MCLiterals
  ValueLists <- MCValueLists
  MaxRows = 3
SPECIFICATION Spec
INVARIANTS ReadBack CutAway
