SPECIFICATION MCSpec
CONSTANTS
  ROB_SIZE = 16
  STORE_BUFFER_SIZE = 3
  REG_COUNT = 3
  EXE_STAGES_MULT = 5
  Addr <- MCAddr
  MaxId = 8
  Instrs <- AllInstrs
  Programs <- MulThenJump
INVARIANTS
  OwnResults
