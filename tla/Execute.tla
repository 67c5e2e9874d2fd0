------------------------------ MODULE Execute ------------------------------
(***************************************************************************)
(* What an instruction computes on its way from decode_to_exe_q to the     *)
(* reorder buffer: alu.sv, the product of mul.sv, the operand choice of    *)
(* exe.sv and the result choice of mem.sv; branch.sv is Branch.  All       *)
(* combinational; when it happens is the matter of Core.                   *)
(***************************************************************************)
EXTENDS Branch, FiniteSetsExt
LOCAL INSTANCE Bitwise

Wrap(x) == x % 2 ^ XLEN

Flag(p) == IF p THEN 1 ELSE 0

(* Bits 4 to 0 of the second operand; a shift by XLEN or more empties the  *)
(* word.                                                                   *)
Shamt(b) == IF b % 32 < XLEN THEN b % 32 ELSE XLEN

ShiftLeft(a, n)  == (a % 2 ^ (XLEN - n)) * 2 ^ n
ShiftRight(a, n) == a \div 2 ^ n

(* >>> of a $signed value: the sign bit fills the word from the left. *)
ShiftLogically(a, n) == ShiftRight(a, n)
ShiftArithmetic(a, n) ==
  ShiftRight(a, n) + IF Signed(a) < 0 THEN 2 ^ XLEN - 2 ^ (XLEN - n) ELSE 0

data_rd_o(a, b, op) ==
  CASE op = "ADD"  -> Wrap(a + b)
    [] op = "SUB"  -> Wrap(a - b)
    [] op = "SLT"  -> Flag(Signed(a) < Signed(b))
    [] op = "SLTU" -> Flag(a < b)
    [] op = "SLL"  -> ShiftLeft(a, Shamt(b))
    [] op = "SRL"  -> ShiftRight(a, Shamt(b))
    [] op = "SRA"  -> ShiftArithmetic(a, Shamt(b))
    [] op = "XOR"  -> a ^^ b
    [] op = "OR"   -> a | b
    [] op = "AND"  -> a & b

(* data_rs1_i * data_rs2_i of mul.sv, bit by bit. *)
Product(a, b) ==
  FoldSet(LAMBDA n, acc : Wrap(acc + ShiftLeft(a, n)), 0,
          {n \in 0 .. XLEN - 1 : ShiftRight(b, n) % 2 = 1})

----------------------------------------------------------------------------
(* x is a decode_to_exe_t. *)

alu_data_rs1(x) ==
  IF x.instr.rs1_or_pc = "RS1" THEN x.data_rs1 ELSE x.instr.pc

alu_data_rs2(x) ==
  IF x.instr.rs2_or_imm = "RS2" THEN x.data_rs2 ELSE x.immediate

exe_result(x) ==
  IF x.instr.is_mul
    THEN Product(alu_data_rs1(x), alu_data_rs2(x))
    ELSE data_rd_o(alu_data_rs1(x), alu_data_rs2(x), x.instr.alu_op)

branch_taken(x) ==
  /\ taken_o(x.data_rs1, x.data_rs2, x.instr.jump_kind)
  /\ x.instr.jump_kind # "BNONE"
  /\ x.valid

(* exe_result of a taken branch *)
branched_pc(x) == IF branch_taken(x) THEN exe_result(x) ELSE 0

(* loaded is what the store buffer or the data cache answers. *)
mem_result(x, loaded) ==
  CASE x.instr.wb_origin = "ALU"  -> exe_result(x)
    [] x.instr.wb_origin = "MEM"  -> loaded
    [] x.instr.wb_origin = "PC_4" -> Wrap(x.instr.pc + 4)
=============================================================================
