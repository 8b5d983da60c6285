CONSTANTS
  Capacity = 4
  MaxVertices = 7
  Rows <- SharedRows
  KeyOf <- SharedKeys
  CopiesOf <- SharedCopies
  TableSizes = {0, 5}
  Recreations = {5}
  Keys = {0, 1, 2, 3}
  Sought = {0, 1, 2, 3}
  Removed = {0, 1, 2, 5}
  Junk = Junk
  NoRow = NoRow
SPECIFICATION FairSpec
INVARIANTS TypeOK EntriesKept SearchComplete SearchSound DeleteEffective OneTree
PROPERTY CallsReturn
