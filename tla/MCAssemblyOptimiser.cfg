SPECIFICATION Spec
CONSTANTS
  ByteBits = 2
  WordBytes = 4
  AddressBytes = 2
  SstoreSetGas = 20000
  SstoreResetGas = 5000
  SloadGas = 200
  ExpByteGas = 50
  SelfdestructGas = 5000
  CreateDataGas = 200
  QuadCoeffDiv = 4
  MemoryBytes = 16
  Builds <- AllBuilds
  Depth = 3
  Stacks <- SomeStacks
  MaxPasses = 20
  Fuel = 10
INVARIANTS SemanticsPreserved EntriesPreserved
PROPERTIES GasIsBounded OptimisationEnds
CHECK_DEADLOCK FALSE
