---------------------------- MODULE MCInstrPath ----------------------------
(***************************************************************************)
(* Words, program counters and register values for InstrPath.              *)
(***************************************************************************)
EXTENDS InstrPath, TLC

MCWords ==
  [func7 : {0, 1, 32, 64, 127}, rs2 : {0, 1, 18}, rs1 : {0, 1}, func3 : 0 .. 7,
   rd : {0, 5, 30},
   opcode : {OP_LW, OP_ALU_I, OP_AUIPC, OP_SW, OP_ALU, OP_LUI, OP_BRANCH,
             OP_JALR, OP_JAL, 15, 115}]

MCPcs == {4096, 2 ^ XLEN - 4}

(* Small, smallest negative and -1, so that signed and unsigned order      *)
(* differ, sums wrap and shifts by 0, 3 and 31 occur.                      *)
MCPairs ==
  LET min == 2 ^ (XLEN - 1)
      neg == 2 ^ XLEN - 1
  IN  {<<3, min>>, <<min, neg>>, <<neg, 3>>, <<min, min>>}

MCRegFiles == {(0 :> 0) @@ (1 :> p[1]) @@ (18 :> p[2]) : p \in MCPairs}
=============================================================================
