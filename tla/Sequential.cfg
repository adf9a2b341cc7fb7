SPECIFICATION SpecAny
CONSTANTS
  Mod = 64
  Milli = 3
  Periods = {1, 2}
  Waits <- SomeWaits
  MayWrap = FALSE
  MaxLate = 64
  length = 3
  MaxText = 7
  Chars = {0, 1, 2}
  Size = 5
  Bytes = {0, 1, 3}
  ByteMod = 4
  Originals = {f}
  Bases = {b1, b2}
  Callees = {c1, c2}
  Addresses = {a1, a2, a3}
  MaxDepth = 2
  Nullptr = Nullptr
  NoFunction = NoFunction
  Dummy = Dummy
  Nowhere = Nowhere
  Width = 8
  NumberBases = {10, 16}
  MaxLen = 4
  TextBases = {0, 8, 10, 16, 36}
  IntMod = 256
  ULong = 65536
  Simple = {"d"}
  LongLong = {"u"}
  Unknown = {"A"}
  Flags = {"+"}
  Numbers <- SomeNumbers
  MaxDirectives = 2
  Lengths = {0, 3}
INVARIANTS
  NeverEarly
  SeenToBeOver
  StringPrintsTheText
  NumberIsPrinted
  FormatIsFollowed
  StringFunctionsAreExact
  NumbersAreConverted
  LiveFunctionsAreCalled
CHECK_DEADLOCK FALSE
