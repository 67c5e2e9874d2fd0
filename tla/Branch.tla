------------------------------- MODULE Branch -------------------------------
(***************************************************************************)
(* branch.sv: whether an instruction that decoder.sv gives a jump_kind is  *)
(* taken, from its two operands.  Combinational.                           *)
(***************************************************************************)
EXTENDS Decoder

Signed(x) == IF x >= 2 ^ (XLEN - 1) THEN x - 2 ^ XLEN ELSE x

taken_o(a, b, kind) ==
  CASE kind = "JUMP" -> TRUE
    [] kind = "BEQ"  -> a = b
    [] kind = "BNE"  -> a # b
    [] kind = "BLT"  -> Signed(a) < Signed(b)
    [] kind = "BGE"  -> ~(Signed(a) < Signed(b))
    [] kind = "BLTU" -> a < b
    [] kind = "BGEU" -> ~(a < b)
    [] OTHER         -> FALSE
=============================================================================
