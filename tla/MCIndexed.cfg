CONSTANTS
  Cols = {"a", "b"}
  Vals = {1, 2}
  MaxRows = 3
  Indexable = {"a", "b"}
  CountMod = 4
  SetLists <- MCSetLists
  NoCol = NoCol
  NoCond = NoCond
  NoReader = NoReader
SPECIFICATION FairSpec
INVARIANTS TypeOK SelectExact DeleteExact UpdateExact
PROPERTY StatementsReply
