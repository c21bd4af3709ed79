SPECIFICATION Spec
CONSTANTS
  None = None
  Names = {"ERC20A", "ERC20B", "C"}
  ERC20Names = {"ERC20A", "ERC20B"}
  asERC20 = TRUE
  Shapes <- MCShapes
  MaxContracts = 3
  MaxSources = 2
PROPERTIES
  GapsAreReported
  OwnPropertiesAreSeen
  BasesAreSilent
CHECK_DEADLOCK FALSE
