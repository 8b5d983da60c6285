CONSTANTS
  Names = {"t"}
  Vals = {1, 2}
  MaxTables = 1
  MaxRows = 2
  MaxCopies = 1
  Removable = {0}
  Insertable = {1}
  Updatable = {1}
  Settable = {2}
  IndexTypes = {"TREEINDEX"}
  Missing = Missing
SPECIFICATION Spec
INVARIANTS TypeOK AllThere IndexAgrees NextProcessFinds
