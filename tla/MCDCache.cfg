SPECIFICATION FairSpec
CONSTANTS
  None = None
  LAT = 3
  Tags <- MCTags
  NUM_SETS = 1
  Words <- OneWord
  Data <- MCData
INVARIANTS
  LoadRightWhileClean
  FilledFromMemory
  MemoryCatchesUp
PROPERTIES
  RequestsServed
