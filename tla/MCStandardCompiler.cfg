SPECIFICATION StdFairSpec
CONSTANTS
  a = a
  b = b
  None = None
  Names = {a, b}
  NameOrder <- TwoNames
  Texts <- MCTexts
  EVMVersions = {"byzantium", "homestead"}
  DefaultEVM = "byzantium"
  Prerelease = TRUE
  c_maxErrorsAllowed = 2
  c_maxWarningsAllowed = 3
  Sessions <- MCSessions
  Requests <- AllRequests
  HasReadFile = TRUE
  MaxRequests = 3
INVARIANTS
  BytecodeIsDelivered
  AnswersAreRepeatable
  FailuresAreAnswered
PROPERTIES
  RequestsAreAnswered
CHECK_DEADLOCK FALSE
