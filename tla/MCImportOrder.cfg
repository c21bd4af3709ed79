SPECIFICATION FairSpec
CONSTANTS
  a = a
  b = b
  c = c
  MaxImports = 2
  Sources <- MCSources
  Imports <- MCImports
  Entries <- MCEntries
INVARIANTS
  TypeOK
  NoDuplicates
  ImportsFirst
  CoversReachable
PROPERTY Terminates
CHECK_DEADLOCK FALSE
