------------------------------- MODULE MCCore -------------------------------
(* The pipeline for TLC.  Each run restricts the program to a few kinds of *)
(* instruction, so that a small number of instructions mixes them fully.   *)
EXTENDS Core

MCAddr == {0, 1}

I(srcs, rd, we, origin) ==
  [NopInstr EXCEPT !.srcs = srcs, !.addr_rd = rd, !.write_enable = we,
                   !.wb_origin = origin]

AddI   == I({1}, 1, TRUE, "ALU")               \* x1 := x1 + imm
Lui    == I({}, 1, TRUE, "ALU")                \* x1 := imm
Mul    == [I({1}, 1, TRUE, "ALU") EXCEPT !.is_mul = TRUE]
Jal    == [I({}, 1, TRUE, "PC_4") EXCEPT !.jump = TRUE, !.taken = TRUE]
Beq    == [I({1}, 0, FALSE, "ALU") EXCEPT !.jump = TRUE]
BeqT   == [Beq EXCEPT !.taken = TRUE]
Lw     == I({}, 1, TRUE, "MEM")
Sw     == [I({0}, 0, FALSE, "ALU") EXCEPT !.store_to_mem = TRUE]
Sw1    == [Sw EXCEPT !.srcs = {1}]
At(i, a) == [i EXCEPT !.addr = a]

\* A kind of program: its instructions and how many of them are fetched.
Program(instrs, length) == [instrs |-> instrs, length |-> length]

Branching   == Program({AddI, Jal, BeqT, Beq}, 5)
Multiplying == Program({Lui, Mul, Jal}, 6)
Accessing   == Program({AddI, BeqT, At(Lw, 0), At(Sw, 0), At(Sw, 1)}, 5)
Mixed       == Program({AddI, BeqT, Mul, At(Lw, 0), At(Sw, 0)}, 5)
AllPrograms == {Branching, Multiplying, Accessing, Mixed}

\* The kinds of program that the pipeline does not run right.
MulThenJump  == {Program({Lui, Mul, Jal}, 8)}
MulThenLoad  == {Program({Mul, Lw}, 4)}

AllInstrs == {AddI, Lui, Mul, Jal, Beq, BeqT, Lw, At(Sw, 0), At(Sw, 1)}

CONSTANT Programs

VARIABLE program

MCCycle(ready) ==
  /\ \/ Cycle(FALSE, NopInstr, ready)
     \/ /\ kanata_id_counter < program.length
        /\ \E instr \in program.instrs : Cycle(TRUE, instr, ready)
  /\ UNCHANGED program

MCInit == Init /\ program \in Programs
MCNext == \E ready \in BOOLEAN : MCCycle(ready)

MCSpec == MCInit /\ [][MCNext]_<<vars, program>>

\* The clock keeps ticking and the data cache answers sooner or later.
MCFairSpec == MCSpec /\ WF_<<vars, program>>(MCCycle(TRUE))
=============================================================================
