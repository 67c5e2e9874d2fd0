SPECIFICATION Spec
CONSTANTS
  LfsrBits = 2
  Words = {0, 1}
  Values = {0, 1}
INVARIANTS PagingInvisible NoAssertFails WrittenBack
PROPERTY AccessesComplete
