SPECIFICATION FairSpec
CONSTANTS
  LAT = 3
  NUM_SETS = 1
  WORDS_PER_LINE = 2
  NUM_TAGS = 3
INVARIANTS
  FetchIsMemory
  NoDuplicateLines
PROPERTIES
  MissServed
