SPECIFICATION MCFairSpec
CONSTANTS
  ROB_SIZE = 4
  STORE_BUFFER_SIZE = 3
  REG_COUNT = 3
  EXE_STAGES_MULT = 5
  Addr <- MCAddr
  MaxId = 7
  Instrs <- AllInstrs
  Programs <- AllPrograms
INVARIANTS
  OwnResultsWhileClean
  OperandsRight
  WrongPathNeverCommits
  NothingLost
  SlotsMatchStores
  LoadRightOtherwise
PROPERTIES
  OldestCommitsOtherwise
