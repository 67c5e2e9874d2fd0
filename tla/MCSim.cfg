SPECIFICATION SimSpec
CONSTANTS
  ROB_SIZE = 4
  STORE_BUFFER_SIZE = 2
  REG_COUNT = 3
  EXE_STAGES_MULT = 3
  Addr <- MCAddr
  MaxId = 5
  Instrs <- MCInstrs
  WATCHDOG = 13
  SLOW = 2
  FinishAddr = 1
INVARIANTS WatchdogJust LogInOrder FinishIsCommitted TracedCompletely
