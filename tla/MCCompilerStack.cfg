SPECIFICATION Spec
CONSTANTS
  a = a
  b = b
  c = c
  None = None
  Names = {a, b, c}
  NameOrder <- ThreeNames
  Texts <- MCTexts
  EVMVersions = {"byzantium", "homestead"}
  DefaultEVM = "byzantium"
  Prerelease = TRUE
  c_maxErrorsAllowed = 1
  c_maxWarningsAllowed = 2
  Sessions <- MCSessions
INVARIANTS
  TypeOK
  StorageIsBounded
  AcceptedProgramsAreClean
  ParsedProgramsAreComplete
  NothingDangles
  FailuresAreExplained
PROPERTIES
  CompileDelivers
CHECK_DEADLOCK FALSE
