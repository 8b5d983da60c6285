CONSTANTS
  Names = {"t", "u"}
  Vals = {1, 2}
  MaxTables = 2
  MaxRows = 1
  MaxCopies = 1
  Removable = {0}
  Insertable = {1}
  Updatable = {0}
  Settable = {2}
  IndexTypes = {}
  Missing = Missing
SPECIFICATION Spec
INVARIANT NextProcessFinds
PROPERTY PagesAreStore
