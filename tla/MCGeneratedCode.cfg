CONSTANTS
  ByteBits = 3
  WordBytes = 4
  AddressBytes = 2
  SelectorBytes = 1
  FunctionTagBytes = 2
  MaxDigits = 3
  PrecisionBits = 16
  MemoryBytes = 160
  HasBitwiseShifting = FALSE
  StructMembers <- MCStructMembers
  EnumMembers <- MCEnumMembers
  Linearized <- MCLinearized
  Libraries = {}
  Experiments <- MCExperiments
SPECIFICATION Spec
INVARIANTS CodeIsContained
PROPERTIES HeightsAgree ResultsAreRight
CHECK_DEADLOCK FALSE
