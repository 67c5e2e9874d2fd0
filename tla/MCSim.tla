------------------------------- MODULE MCSim --------------------------------
(* The simulator for TLC, with programs of additions, taken branches, and  *)
(* loads from and stores to the finish address.                            *)
EXTENDS Sim

MCAddr == {0, 1}

AddI   == [NopInstr EXCEPT !.srcs = {1}, !.addr_rd = 1, !.write_enable = TRUE]
BeqT   == [NopInstr EXCEPT !.srcs = {1}, !.jump = TRUE, !.taken = TRUE]
Lw     == [NopInstr EXCEPT !.addr_rd = 1, !.write_enable = TRUE, !.wb_origin = "MEM", !.addr = 1]
Finish == [NopInstr EXCEPT !.store_to_mem = TRUE, !.addr = 1]

MCInstrs == {AddI, BeqT, Lw, Finish}
=============================================================================
