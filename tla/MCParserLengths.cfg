CONSTANTS
  Names = {"a"}
  Ints = {2, 5}
  Doubles = {1}
  Strings = {"s", "long"}
  LongStrings = {"long"}
  MaxLength = 3
  IntMod = 16
  MaxPieces = 9
  Junk = Junk
  NoName = NoName
SPECIFICATION Spec
INVARIANT TypeLengthsFit

CHECK_DEADLOCK FALSE
