CONSTANTS
  Names = {"a","t"}
  Ints = {0, 2, 8}
  Doubles = {1}
  Strings = {"s", "long"}
  LongStrings = {"long"}
  MaxLength = 3
  IntMod = 16
  MaxPieces = 12
  Junk = Junk
  NoName = NoName
SPECIFICATION FairSpec
INVARIANTS TypeOK AtomsKept ConditionKept RefusedWithMessage SignNotPending
PROPERTY ParseReturns
CHECK_DEADLOCK FALSE
