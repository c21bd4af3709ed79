SPECIFICATION Spec
CONSTANTS
  Programs <- AllPrograms
INVARIANTS
  PlaceFlagsAreSound
  RevertersAreJustified
PROPERTIES
  FunctionReportsAreRight
  PullIsJustified
