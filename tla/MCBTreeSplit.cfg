CONSTANTS
  Capacity = 5
  MaxVertices = 11
  Rows <- WideRows
  KeyOf <- WideKeys
  CopiesOf <- WideCopies
  TableSizes = {7, 10}
  Recreations = {}
  Keys = {0, 1, 2, 3, 4, 5, 6, 7, 8, 9, 10, 11, 12, 13}
  Sought = {7, 9}
  Removed = {}
  Junk = Junk
  NoRow = NoRow
SPECIFICATION Spec
INVARIANTS OneTree InsertHasRoom JunkUnread SeparatorsDivide SearchComplete
