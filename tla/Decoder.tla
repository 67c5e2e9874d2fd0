------------------------------ MODULE Decoder ------------------------------
(***************************************************************************)
(* decoder.sv and immediate.sv: from an instruction word to instr_data_t   *)
(* and its immediate.  Both are combinational.                             *)
(*                                                                         *)
(* A word is the record of its R-type fields; the other formats of         *)
(* instruction_t (a packed union) are read from the same bits.             *)
(***************************************************************************)
EXTENDS Integers, Sequences

CONSTANT XLEN   \* width of bus32_t

(* Every format fits; the jump format is the widest that is extended. *)
ASSUME XlenAssumption == XLEN \in Nat /\ XLEN > 21

Bus == 0 .. 2 ^ XLEN - 1

Word ==
  [func7 : 0 .. 127, rs2 : 0 .. 31, rs1 : 0 .. 31, func3 : 0 .. 7,
   rd : 0 .. 31, opcode : 0 .. 127]

OP_LW     == 3
OP_ALU_I  == 19
OP_AUIPC  == 23
OP_SW     == 35
OP_ALU    == 51
OP_LUI    == 55
OP_BRANCH == 99
OP_JALR   == 103
OP_JAL    == 111

F7_ALU_NORMAL   == 0
F7_MUL          == 1
F7_ALU_MODIFIED == 32

EXE_STAGES_MULT == 5

----------------------------------------------------------------------------
(* immediate.sv.  x is a field of n bits, sign the bit that is repeated in *)
(* front of it.                                                            *)

SignExtended(sign, x, n) == IF sign = 1 THEN 2 ^ XLEN - 2 ^ n + x ELSE x

Bit31(w) == w.func7 \div 64

(* {imm, 12'b0}, cut to the width of the bus *)
UImm(w) ==
  LET imm == w.func7 * 2 ^ 13 + w.rs2 * 2 ^ 8 + w.rs1 * 2 ^ 3 + w.func3
  IN  (imm % 2 ^ (XLEN - 12)) * 2 ^ 12

IImm(w) == SignExtended(Bit31(w), w.func7 * 32 + w.rs2, 12)

SImm(w) == SignExtended(Bit31(w), w.func7 * 32 + w.rd, 12)

(* imm11, which is bit 7, is repeated; imm12, bit 31, is not used. *)
BImm(w) ==
  LET imm11 == w.rd % 2
      imm5  == w.func7 % 64
      imm1  == w.rd \div 2
  IN  SignExtended(imm11, imm11 * 2 ^ 11 + imm5 * 2 ^ 5 + imm1 * 2, 12)

JImm(w) ==
  LET imm12 == w.rs1 * 8 + w.func3
      imm11 == w.rs2 % 2
      imm1  == (w.func7 % 64) * 16 + w.rs2 \div 2
  IN  SignExtended(Bit31(w), Bit31(w) * 2 ^ 20 + imm12 * 2 ^ 12
                               + imm11 * 2 ^ 11 + imm1 * 2, 21)

imm_o(w) ==
  CASE w.opcode \in {OP_LUI, OP_AUIPC}           -> UImm(w)
    [] w.opcode \in {OP_ALU_I, OP_LW, OP_JALR}   -> IImm(w)
    [] w.opcode = OP_SW                          -> SImm(w)
    [] w.opcode = OP_BRANCH                      -> BImm(w)
    [] w.opcode = OP_JAL                         -> JImm(w)
    [] OTHER                                     -> 0

----------------------------------------------------------------------------
(* decoder.sv. *)

(* The operation func3 names when func7 does not modify it. *)
F3Op(func3) ==
  <<"ADD", "SLL", "SLT", "SLTU", "XOR", "SRL", "OR", "AND">>[func3 + 1]

Modified(func3) == IF func3 = 0 THEN "SUB" ELSE "SRA"

(* The operations decoder.sv accepts for the two arithmetic opcodes.  Of   *)
(* the immediate forms only the shifts look at func7.                      *)
legal_alu(w) ==
  \/ w.func7 = F7_ALU_NORMAL
  \/ w.func7 = F7_ALU_MODIFIED /\ w.func3 \in {0, 5}
  \/ w.func7 = F7_MUL /\ w.func3 = 0

legal_alu_i(w) ==
  \/ w.func3 \notin {1, 5}
  \/ w.func7 = F7_ALU_NORMAL
  \/ w.func7 = F7_ALU_MODIFIED /\ w.func3 = 5

alu_op(w) ==
  IF /\ w.func7 = F7_ALU_MODIFIED
     /\ w.func3 = 5 \/ (w.opcode = OP_ALU /\ w.func3 = 0)
    THEN Modified(w.func3) ELSE F3Op(w.func3)

jump_kind(func3) ==
  CASE func3 = 0 -> "BEQ" [] func3 = 1 -> "BNE"  [] func3 = 4 -> "BLT"
    [] func3 = 5 -> "BGE" [] func3 = 6 -> "BLTU" [] func3 = 7 -> "BGEU"
    [] OTHER -> "BNONE"

(* What all words start from: no jump, one cycle, operands as named. *)
Plain(w, pc) ==
  [pc |-> pc, instr |-> w, addr_rs1 |-> w.rs1, addr_rs2 |-> w.rs2,
   addr_rd |-> w.rd, write_enable |-> TRUE, rs1_or_pc |-> "RS1",
   rs2_or_imm |-> "IMM", alu_op |-> "ADD", wb_origin |-> "ALU",
   store_to_mem |-> FALSE, jump_kind |-> "BNONE", exe_stages |-> 1,
   is_mul |-> FALSE]

(* "illegal instruction treated as NOP being a x0 + x0 without write" *)
Illegal(w, pc) ==
  [Plain(w, pc) EXCEPT !.write_enable = FALSE, !.rs2_or_imm = "RS2",
                       !.addr_rs1 = 0, !.addr_rs2 = 0, !.addr_rd = 0]

AluDecoded(w, pc) ==
  IF legal_alu(w)
    THEN [Plain(w, pc) EXCEPT
            !.rs2_or_imm = "RS2", !.alu_op = alu_op(w),
            !.is_mul = w.func7 = F7_MUL,
            !.exe_stages = IF w.func7 = F7_MUL THEN EXE_STAGES_MULT ELSE 1]
    ELSE Illegal(w, pc)

AluIDecoded(w, pc) ==
  IF legal_alu_i(w)
    THEN [Plain(w, pc) EXCEPT !.alu_op = alu_op(w)] ELSE Illegal(w, pc)

(* The case statement over the opcode. *)
ByOpcode(w, pc) ==
  CASE w.opcode = OP_ALU    -> AluDecoded(w, pc)
    [] w.opcode = OP_ALU_I  -> AluIDecoded(w, pc)
    [] w.opcode = OP_LUI    -> [Plain(w, pc) EXCEPT !.addr_rs1 = 0]
    [] w.opcode = OP_AUIPC  -> [Plain(w, pc) EXCEPT !.rs1_or_pc = "PC"]
    [] w.opcode = OP_LW     -> [Plain(w, pc) EXCEPT !.wb_origin = "MEM"]
    [] w.opcode = OP_SW     -> [Plain(w, pc) EXCEPT !.write_enable = FALSE,
                                                    !.store_to_mem = TRUE]
    [] w.opcode = OP_BRANCH -> [Plain(w, pc) EXCEPT !.write_enable = FALSE,
                                  !.rs1_or_pc = "PC",
                                  !.jump_kind = jump_kind(w.func3)]
    [] w.opcode = OP_JAL    -> [Plain(w, pc) EXCEPT !.rs1_or_pc = "PC",
                                  !.wb_origin = "PC_4", !.jump_kind = "JUMP"]
    [] w.opcode = OP_JALR   -> [Plain(w, pc) EXCEPT !.wb_origin = "PC_4",
                                                    !.jump_kind = "JUMP"]
    [] OTHER                -> Illegal(w, pc)

(* "hardwire source registers to x0 if there is no reading from there" *)
ReadsRs1(d) ==
  ~(\/ d.rs1_or_pc = "PC" /\ d.jump_kind = "BNONE"
    \/ d.instr.opcode = OP_JAL)

ReadsRs2(d) ==
  ~(\/ d.rs2_or_imm = "IMM" /\ d.jump_kind = "BNONE" /\ ~d.store_to_mem
    \/ d.instr.opcode = OP_JAL)

instr_decoded_o(w, pc) ==
  LET d == ByOpcode(w, pc)
  IN  [d EXCEPT !.addr_rs1 = IF ReadsRs1(d) THEN @ ELSE 0,
                !.addr_rs2 = IF ReadsRs2(d) THEN @ ELSE 0]
=============================================================================
