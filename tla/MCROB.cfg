SPECIFICATION Spec
CONSTANTS
  ROB_SIZE = 4
  Regs <- MCRegs
  Data <- MCData
  SBIdx <- MCSBIdx
  Kinds <- MCKinds
  MaxId = 5
INVARIANTS
  WindowInv
  AgeOrder
  FullIsExact
  HazardIsYoungestWriter
PROPERTIES
  InOrderCommit
  ImplementsInstrQueue
