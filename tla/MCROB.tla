------------------------------- MODULE MCROB -------------------------------
(* The reorder buffer for TLC: a ring of four entries through which        *)
(* enough instructions pass to wrap it around, before and after a flush.   *)
EXTENDS ROB

MCRegs == {0, 1}
MCData == {0}
MCSBIdx == {0}

(* An instruction writing register 1, one writing the zero register, and a *)
(* store whose immediate bits read as destination register 1.              *)
MCKinds ==
  {[addr_rd |-> 1, write_enable |-> TRUE, store_to_mem |-> FALSE],
   [addr_rd |-> 0, write_enable |-> TRUE, store_to_mem |-> FALSE],
   [addr_rd |-> 1, write_enable |-> FALSE, store_to_mem |-> TRUE]}
=============================================================================
