SPECIFICATION Spec
CONSTANTS
  MemWords = 6
  Tables <- MCTables
INVARIANTS
  SectionsInPlace
  SpillIsBounded
