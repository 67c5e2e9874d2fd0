SPECIFICATION Spec
CONSTANTS
  Names = {"ae", "ag", "ai", "ak", "an", "ap", "aq", "ar", "bb", "bh", "bj", "bm", "bs", "cg", "ci", "ck", "cs", "dm", "ds", "ad", "af", "al", "am", "at", "av", "ay", "az", "bc", "bf", "bk", "bo", "br", "ce", "cf", "cl", "cm", "cv", "cy", "dc", "df", "do", "dr", "du", "dv", "vvadd0", "vvadd1", "vvadd2", "vvadd3", "vvadd4"}
  MaxCores = 2
  Dims = {16, 32}
  Sizes = {16, 24}
INVARIANTS RaceFree OutcomeExplained BarrierSeparates NoneWaitsForever
