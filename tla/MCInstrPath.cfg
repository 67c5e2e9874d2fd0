\* 30-bit words: two less than bus32_t, so that sums stay within TLC's integers.
CONSTANTS
  XLEN = 30
  Words <- MCWords
  Pcs <- MCPcs
  RegFiles <- MCRegFiles
  Loaded = 77
SPECIFICATION Spec
INVARIANTS
  RunsLikeIsa
