SPECIFICATION Spec
CONSTANTS
  ByteBits = 2
  WordBytes = 2
  AddressBytes = 1
  Alphabet <- AllItems
  MaxItems <- Lengths
  DataSizes = {0, 2, 9}
  AuxSizes = {0, 6}
INVARIANTS
  CodeIsRight
CHECK_DEADLOCK FALSE
