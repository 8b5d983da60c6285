CONSTANTS
  Cols = {"a", "b"}
  Vals = {1, 2}
  MaxRows = 3
  Indexable = {"a"}
  CountMod = 4
  SetLists = {}
  NoCol = NoCol
  NoCond = NoCond
  NoReader = NoReader
SPECIFICATION Spec
INVARIANT DeleteReplyTrue
