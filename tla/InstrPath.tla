----------------------------- MODULE InstrPath -----------------------------
(***************************************************************************)
(* One instruction at a time through decoder, immediate, register file     *)
(* read, execute and result choice, compared with the instruction set.     *)
(* Core has many instructions in flight and abstracts what they compute;   *)
(* this module is the other half.                                          *)
(***************************************************************************)
EXTENDS Execute

CONSTANTS
  Words,      \* instruction words the program may contain
  Pcs,        \* program counters
  RegFiles,   \* contents of the register file, x0 = 0
  Loaded      \* what a load reads

ASSUME WordsAssumption ==
  Words \subseteq Word /\ Pcs \subseteq Bus /\ Loaded \in Bus
ASSUME RegFilesAssumption ==
  \A x \in RegFiles : x[0] = 0 /\ \A r \in DOMAIN x : x[r] \in Bus

VARIABLES
  registers_q,      \* regfile.sv
  decode_to_exe_q

vars == <<registers_q, decode_to_exe_q>>

I == INSTANCE Isa

NopWord ==
  [func7 |-> 0, rs2 |-> 0, rs1 |-> 0, func3 |-> 0, rd |-> 0, opcode |-> OP_ALU]

NOP_INSTR ==
  [instr |-> Illegal(NopWord, 0), valid |-> FALSE,
   data_rs1 |-> 0, data_rs2 |-> 0, immediate |-> 0]

(* decode_to_exe_d, with no older instruction in flight: the operands come *)
(* from the register file.                                                 *)
decode_to_exe_d(w, pc) ==
  LET d == instr_decoded_o(w, pc)
  IN  [instr |-> d, valid |-> TRUE, immediate |-> imm_o(w),
       data_rs1 |-> registers_q[d.addr_rs1],
       data_rs2 |-> registers_q[d.addr_rs2]]

Init == registers_q \in RegFiles /\ decode_to_exe_q = NOP_INSTR

Decode(w, pc) ==
  /\ ~decode_to_exe_q.valid
  /\ decode_to_exe_q' = decode_to_exe_d(w, pc)
  /\ UNCHANGED registers_q

(* Decode stalls (nothing fetched): a bubble follows. *)
Bubble ==
  /\ decode_to_exe_q.valid
  /\ decode_to_exe_q' = NOP_INSTR
  /\ UNCHANGED registers_q

Next == Bubble \/ \E w \in Words, pc \in Pcs : Decode(w, pc)

Spec == Init /\ [][Next]_vars

----------------------------------------------------------------------------
(* What the core will do for the instruction when it commits. *)

Outcome(x) ==
  LET writes == x.instr.write_enable /\ x.instr.addr_rd # 0
      access == CASE x.instr.wb_origin = "MEM" -> "load"
                  [] x.instr.store_to_mem     -> "store"
                  [] OTHER                    -> "none"
  IN  [rd     |-> IF x.instr.write_enable THEN x.instr.addr_rd ELSE 0,
       value  |-> IF writes THEN mem_result(x, Loaded) ELSE 0,
       next   |-> IF branch_taken(x) THEN branched_pc(x) ELSE Wrap(x.instr.pc + 4),
       access |-> access,
       addr   |-> IF access # "none" THEN exe_result(x) ELSE 0,
       data   |-> IF access = "store" THEN x.data_rs2 ELSE 0]

word == decode_to_exe_q.instr.instr

(* Encodings on which the core and the instruction set are known to        *)
(* differ: a branch offset outside -2048 .. 2047 (BImm), an odd JALR       *)
(* target, and func3 of loads, stores and JALR, which decoder.sv ignores.  *)
LongBranch == word.opcode = OP_BRANCH /\ word.rd % 2 # Bit31(word)
OddTarget  == word.opcode = OP_JALR /\ exe_result(decode_to_exe_q) % 2 = 1
OtherWidth == word.opcode \in {OP_LW, OP_SW, OP_JALR} /\ ~I!Legal(word)

(* Every word does what the instruction set says, when it commits: it      *)
(* writes that value to that register, is followed by that instruction and *)
(* accesses memory there, so decoder.sv, immediate.sv, exe.sv, alu.sv,     *)
(* branch.sv and the result choice of mem.sv agree on it.  A word that is  *)
(* no instruction does nothing ("illegal instruction treated as NOP",      *)
(* decoder.sv).                                                            *)
RunsLikeIsa ==
  decode_to_exe_q.valid /\ ~LongBranch /\ ~OddTarget /\ ~OtherWidth =>
    Outcome(decode_to_exe_q)
      = I!Effect(word, decode_to_exe_q.instr.pc, registers_q, Loaded)
=============================================================================
