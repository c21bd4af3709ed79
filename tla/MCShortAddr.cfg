SPECIFICATION Spec
CONSTANTS
  Programs <- ShortAddrPrograms
PROPERTIES
  UncheckedTransfersAreReported
