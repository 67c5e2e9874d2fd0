SPECIFICATION MCFairSpec
CONSTANTS
  ROB_SIZE = 4
  STORE_BUFFER_SIZE = 3
  REG_COUNT = 3
  EXE_STAGES_MULT = 5
  Addr <- MCAddr
  MaxId = 4
  Instrs <- AllInstrs
  Programs <- MulThenLoad
PROPERTIES
  OldestCommits
