CONSTANTS
  Identifiers = {"A", "B", "C", "D", "E", "M", "S", "f", "g", "h", "m", "p", "q", "s", "t", "x", "y",
     "this", "msg", "require", "revert", "length", "push", "sender", "transfer", "send", "block", "blockhash", "data", "experimental", "_", "emit", "from", "constructor"}
  Numbers = {"1"}
  Strings = {"v0.5.0", "u", "v", "w"}
  AssemblyBodies = {"{asm}"}
  AssemblyUses <- MCAssemblyUses
  AssemblyEffects <- MCAssemblyEffects
  Programs <- MCPrograms
SPECIFICATION Spec
CHECK_DEADLOCK FALSE
PROPERTIES ParsedAsWritten Linearised NamesResolved ReturnsAssigned PromisesKept
           CallsReachBodies UnusedFound ConstantsGrounded NoInternalErrors
